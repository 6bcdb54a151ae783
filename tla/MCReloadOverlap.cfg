\* Two jobs at a time in one container, with crashes, lost answers and retries.
CONSTANTS
  A = A
  B = B
  doc = doc
  add = add
  dchunk = dchunk
  achunk = achunk
  node = node
  edge = edge
  text = text
  w1 = w1
  w2 = w2
  r1 = r1
  r2 = r2
  Worker = {w1, w2}
  Replica = {r1}
  NoReplica = NoReplica
  Pub = {A, B}
  Row = {doc, add, dchunk, achunk, node, edge}
  TextRow = {doc, add}
  ChunkRow = {dchunk, achunk}
  Column = {text, publication_id}
  publication_id = publication_id
  Value = {A, B, NoPub}
  RowsOf <- MCRowsOf
  Content <- MCContent
  Order <- MCOrder
  VersionRows <- MCVersionRows
  NoPub = NoPub
  NoRow = NoRow
  Unread = Unread
  Free = Free
  GraphAttempts = 2
  MaxReloads = 2
  MaxFaults = 2
SPECIFICATION FairReloadSpec
INVARIANTS
  ReloadTypeOK
  SnapshotComplete
  HealthyIsComplete
  AuditedReloadAligned
  VectorLaneWhole
PROPERTIES
  ReplicaRecovers
CHECK_DEADLOCK FALSE
