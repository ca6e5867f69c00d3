SPECIFICATION Spec

CONSTANTS
  s1 = s1
  s2 = s2
  None = None
  Session = {s1, s2}
  Snapshot = {s1}
  ReplyLength = 2
  Bounds <- CodexBounds

CHECK_DEADLOCK FALSE

PROPERTIES
  ConnectSucceeds
