SPECIFICATION Spec
CONSTANTS
  Others <- MCOthers
  cmd_prefix <- MCPrefix
  Cmds = {"f", "g"}
  Channels = {"#a", "#b"}
  Networks = 2
  Slots = 3
  Trees <- MCTrees
  Messages <- MCMessages
  MaxSetups = 3
  None = None
INVARIANTS TypeOK SlotsMatchTable OthersKept RunsAsConfigured FaultsNeedRace
CHECK_DEADLOCK FALSE
