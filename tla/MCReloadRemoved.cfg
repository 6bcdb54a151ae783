\* A reload after a provision was removed from a version.
CONSTANTS
  A = A
  B = B
  doc = doc
  add = add
  dchunk = dchunk
  achunk = achunk
  node = node
  edge = edge
  text = text
  w1 = w1
  w2 = w2
  r1 = r1
  r2 = r2
  Worker = {w1}
  Replica = {r1, r2}
  NoReplica = NoReplica
  Pub = {A, B}
  Row = {doc, node, edge}
  TextRow = {doc}
  ChunkRow = {}
  Column = {text, publication_id}
  publication_id = publication_id
  Value = {A, B, NoPub}
  RowsOf <- MCRowsWithout
  Content <- MCContent
  Order <- MCOrder
  VersionRows <- MCSameVersion
  NoPub = NoPub
  NoRow = NoRow
  Unread = Unread
  Free = Free
  GraphAttempts = 3
  MaxReloads = 1
  MaxFaults = 0
SPECIFICATION ReloadSpec
INVARIANT OnlyOwnRows
CHECK_DEADLOCK FALSE
