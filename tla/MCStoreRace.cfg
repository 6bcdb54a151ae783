\* Three concurrent seeds of three publications, over a row that all share, of
\* which each changes another column, and one that two of them share.
CONSTANTS
  A = A
  B = B
  C = C
  doc = doc
  chunk = chunk
  title = title
  body = body
  w1 = w1
  w2 = w2
  w3 = w3
  Worker = {w1, w2, w3}
  Pub = {A, B, C}
  Row = {doc, chunk}
  TextRow = {doc}
  ChunkRow = {chunk}
  Column = {title, body, publication_id}
  publication_id = publication_id
  Value = {A, B, C, NoPub}
  RowsOf <- MCRowsOf
  Content <- MCContent
  Order <- MCOrder
  VersionRows <- MCVersionRows
  NoPub = NoPub
  NoRow = NoRow
  Unread = Unread
  Free = Free
SPECIFICATION Spec
INVARIANTS
  TypeOK
  SingleActive
  
PROPERTIES
  NeverWithoutActive
  OnlyRetiredSeedsTakeRows
SYMMETRY Symmetry
