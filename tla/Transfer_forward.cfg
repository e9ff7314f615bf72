SPECIFICATION LiveSpec
CONSTANTS
  a = a
  b = b
  Native = Native
  None = None
  Channels = {a, b}
  Limited = {b}
  Quota = 1
  Blacklisted = {}
  Amounts = {1, 2}
  Destinations = {a, b, None}
  Retries = {0, 1}
  Seed = 2
  MaxPackets = 2
  MaxResets = 0
INVARIANTS
  TypeOK
  VouchersBacked
  ForwardsExact
PROPERTIES
  ForwardsAnswered
CHECK_DEADLOCK FALSE
