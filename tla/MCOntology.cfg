\* One request of every shape or one question, with two changes around it.
CONSTANTS
  P = P
  Q = Q
  a = a
  b = b
  c = c
  e = e
  x = x
  y = y
  x1 = x1
  x2 = x2
  x3 = x3
  y1 = y1
  uses = uses
  owns = owns
  internal = internal
  restricted = restricted
  Pub = {P, Q}
  Doc = {x, y}
  Class = {internal, restricted}
  Version = {x1, x2, x3, y1}
  Prov = {1, 2, 3, 4, 5, 6}
  Unrestricted = Unrestricted
  Open = Open
  Metadata = Metadata
  ClassOf <- MCClassOf
  Versions <- MCVersions
  Place <- MCPlace
  Node = {a, b, c, e}
  RelType = {uses, owns}
  Edge <- MCEdge
  NodeClass <- MCNodeClass
  Edges <- MCEdges
  Altered <- MCAltered
  FirstPub = P
  EdgesPerNode = 2
  EdgeBudget = 5
  FrontierCap = 2
  DefaultSeeds = 2
  MaxDepth = 2
  MaxNodes = 3
  Requesters <- MCRequesters
  TypeFilters <- MCTypeFilters
  MaxSeeds = 1
  MaxChanges = 2
  Questions <- MCQuestions
  Restrictions <- MCRestrictions
  VectorLimit = 2
  LaneLimit = 2
  MatchLimit = 2
  EdgeLimit = 2
  HitLimit = 2
SPECIFICATION RetrievalSpec
INVARIANTS
  GraphTypeOK
  OnlyApprovedEdges
  SearchCoversVerified
  ProjectionAgrees
  RetrievalTypeOK
  VectorPolicyAgrees
  GraphLaneAgrees
  StrongEvidenceAnswered
CHECK_DEADLOCK FALSE
