\* One seed and one hydration at a time, over nine contents of a document.
CONSTANTS
  v1 = v1
  v2 = v2
  v3 = v3
  Version = {v1, v2, v3}
  Pub <- MCPub
  Content <- MCContent
  Open = Open
  None = None
  MaxPast = 3
SPECIFICATION Spec
INVARIANTS
  TimelineTypeOK
  SnapshotUnambiguous
PROPERTY AmendmentsAccepted
