SPECIFICATION Spec
CONSTANTS
  Parts = {"conversation", "feed", "server", "cache", "settings"}
  a1 = a1  a2 = a2  v1 = v1  u1 = u1  none = none  blank = blank
  c1 = c1  f1 = f1  home = home  d1 = d1  t1 = t1  t2 = t2
  Sources <- MCSources
  ToolCalls = {c1}
  Files = {f1}
  MaxTurns = 2
  ReplyParts = 2
  MaxQueued = 4
  FeedBudget <- MCFeed
  Dir = {d1}
  AppDir = home
  Process = {1, 2, 3}
  Task = {t1, t2}
  ServerPlans <- MCPlans
  Frontends = {"mobile", "desktop"}
  MaxSaves = 3
  MaxEnds = 1
  Agent = {a1, a2}
  Address = {v1}
  Token = {u1}
  Default = blank
  NoToken = none
  MaxEdits = 4
INVARIANTS
  TypeOK
  ReplyReadsInOrder
  ReplyKeptTogether
  AppDrawsTheCore
  ArchiveIsCurrent
  SettingsComeBack
  OnlyActiveIsOn
PROPERTIES
  ServerComesUp
  KeptByMerge
  RestartMoves
CHECK_DEADLOCK FALSE
