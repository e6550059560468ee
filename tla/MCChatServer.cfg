SPECIFICATION Spec
CONSTANTS
  t1 = t1
  t2 = t2
  h1 = h1
  h2 = h2
  NoTab = NoTab
  NoThread = NoThread
  Tabs = {t1, t2}
  Threads = {h1, h2}
  MaxTurns = 1
  MaxClears = 1
  MaxOrphans = 1
INVARIANTS OneInference HistoryIsCurrent
PROPERTIES LockComesFree TabComesBack
