\* Contents that are published, replaced and published again.
CONSTANTS
  v1 = v1
  v2 = v2
  v3 = v3
  Version = {v1, v2, v3}
  Pub <- MCPub
  Content <- MCContent
  Open = Open
  None = None
  MaxPast = 3
SPECIFICATION Spec
PROPERTY PastPublicationsAccepted
