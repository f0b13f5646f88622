SPECIFICATION FairSpec
CONSTANTS
  Dirs <- MCDirs
  Messages <- MCMessages
  cmd_prefix <- MCPrefix
  Calls = {k1}
  Fids = {0, 1, 2}
  MaxLoads = 2
  Main = main
  None = None
INVARIANTS TypeOK OneAtATime SeesItsMessage FaultsNeedReload
PROPERTIES EveryMessageRuns
CHECK_DEADLOCK FALSE
