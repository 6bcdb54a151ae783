\* Two concurrent seeds: one of the active publication, one of another.
CONSTANTS
  A = A
  B = B
  C = C
  doc = doc
  chunk = chunk
  title = title
  body = body
  w1 = w1
  w2 = w2
  w3 = w3
  Worker = {w1, w2}
  Pub = {A, B}
  Row = {doc, chunk}
  TextRow = {doc}
  ChunkRow = {chunk}
  Column = {title, body, publication_id}
  publication_id = publication_id
  Value = {A, B, NoPub}
  RowsOf <- MCRowsOf
  Content <- MCContent
  Order <- MCOrder
  VersionRows <- MCVersionRows
  NoPub = NoPub
  NoRow = NoRow
  Unread = Unread
  Free = Free
SPECIFICATION Spec
PROPERTY CommitActivates
