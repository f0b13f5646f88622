SPECIFICATION FairSpec
CONSTANTS
  NSocks = 1
  Suffixes = 2
  Senders = {t1}
  Msgs = {m1}
  Takens = {{}}
  MaxEvents = 1
  MaxDrops = 1
  None = None
PROPERTIES StaysOnNetwork
CHECK_DEADLOCK FALSE
