SPECIFICATION Spec
CONSTANTS
  NSocks = 2
  Suffixes = 3
  Senders = {t1, t2}
  Msgs = {m1}
  Takens = {{1}, {0, 1, 2}}
  MaxEvents = 2
  MaxDrops = 1
  None = None
SYMMETRY SenderSymmetry
INVARIANTS TypeOK HandledOnce TakeTurns KnowsItsName GivesUpLast
CHECK_DEADLOCK FALSE
