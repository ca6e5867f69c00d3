SPECIFICATION Spec

CONSTANTS
  s1 = s1
  s2 = s2
  None = None
  Session = {s1, s2}
  Snapshot = {s1}
  ReplyLength = 3
  Bounds <- MCBounds

CHECK_DEADLOCK FALSE

INVARIANTS
  AnswerGoesToAsker
  ReplyShownOnce
  TypeOK
  OneCopyPerSession
  DeadProcessIsTold

PROPERTIES
  KeepsContract
  StopReachesTheTurn
  PromptReachesItsSession
