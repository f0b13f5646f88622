SPECIFICATION Spec
CONSTANTS
  c1 = c1
  c2 = c2
  ann = ann
  bob = bob
  u4 = u4
  Chans = {c1}
  Users = {bot, ann}
  Bot = bot
  Entries = 2
  Junk = junk
  Blocks = {u1, u2, u3, u4}
  Modes = {"op", "voice"}
  Settings <- MCNothingElse
INVARIANTS OperatorsKnown
CHECK_DEADLOCK FALSE
