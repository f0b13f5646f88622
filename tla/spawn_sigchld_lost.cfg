SPECIFICATION FairSpec
CONSTANTS
  Handlers = {h1}
  Procs = {p1, p2}
  Messages = {m1}
  Cli = cli
  SigThreads = {cli}
  NoThread = NoThread
  NoProc = NoProc
  NoMsg = NoMsg
PROPERTY ExitedModIsCleaned
CHECK_DEADLOCK FALSE
