SPECIFICATION FairSpec
CONSTANTS
  Handlers = {h1}
  Procs = {p1, p2}
  Messages = {m1}
  Cli = cli
  SigThreads = {h1, p1, p2, cli}
  NoThread = NoThread
  NoProc = NoProc
  NoMsg = NoMsg
PROPERTIES NoLostFree ToVinnyReturns
CHECK_DEADLOCK FALSE
