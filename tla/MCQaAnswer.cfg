\* One query, one reader, two reloads between publications, one fault.
CONSTANTS
  P = P
  Q = Q
  R = R
  d = d
  e = e
  v1 = v1
  v2 = v2
  u1 = u1
  a = a
  b = b
  n = n
  x = x
  fact = fact
  changed = changed
  pointer = pointer
  digit = digit
  across = across
  brief = brief
  one = one
  Thread = {t1}
  Reader = {r1}
  Pub = {P, Q, R}
  Doc = {d, e}
  Version = {v1, v2, u1}
  Prov = {a, b, n, x}
  Passage = {fact, changed, pointer, digit, across, brief}
  Article = {one}
  Place <- MCPlace
  Content <- MCContent
  Mentions <- MCMentions
  Numbers <- MCNumbers
  Cut = {digit}
  Seams <- MCSeams
  Normalized <- MCNormalized
  Code <- MCCode
  Position <- MCPosition
  DocumentLimit = 1
  ProvisionLimit = 2
  MadeUp <- MCMadeUp
  Retries = 1
  FirstPub = P
  None = None
  MaxSources = 2
  MaxCited = 2
  MaxReloads = 2
  MaxFaults = 1
SPECIFICATION BrowsingSpec
INVARIANTS
  BrowsingTypeOK
  ClaimsSupported
  RereadUnchanged
  AnswersRecorded
  StableQueriesConsistent
  PagesWereServed
  StablePagesConsistent
  PagesAudited
  CitationsOpenTheirText
CHECK_DEADLOCK FALSE
