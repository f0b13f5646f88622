SPECIFICATION FairSpec
CONSTANTS
  NSocks = 2
  Suffixes = 3
  Senders = {t1}
  Msgs = {}
  Takens = {{1}}
  MaxEvents = 1
  MaxDrops = 1
  None = None
PROPERTIES JoinsChannels PingsAnswered
CHECK_DEADLOCK FALSE
