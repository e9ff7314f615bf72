SPECIFICATION Spec
CONSTANTS
  a = a
  b = b
  Native = Native
  None = None
  Channels = {a, b}
  Limited = {b}
  Quota = 2
  Blacklisted = {a}
  Amounts = {1, 2}
  Destinations = {None}
  Retries = {0}
  Seed = 2
  MaxPackets = 3
  MaxResets = 2
INVARIANTS
  QuotaKept
  UndoCovered
CHECK_DEADLOCK FALSE
