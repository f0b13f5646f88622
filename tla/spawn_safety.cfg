SPECIFICATION Spec
CONSTANTS
  Handlers = {h1, h2}
  Procs = {p1, p2}
  Messages = {m1, m2}
  Cli = cli
  SigThreads = {h1, h2, p1, p2, cli}
  NoThread = NoThread
  NoProc = NoProc
  NoMsg = NoMsg
SYMMETRY Symmetry
INVARIANTS TypeOK UsersHoldLiveMessage WaitNeverBlocks SpawnerOwnsLock 
PROPERTY LifeSpec
CHECK_DEADLOCK FALSE
