SPECIFICATION Spec
CONSTANTS
  v1 = v1
  v2 = v2
  d1 = d1
  d2 = d2
  other = other
  garbage = garbage
  Validators = {v1, v2}
  Delegators = {d1, d2}
  Prec = 100
  Fees = {7}
  Bonds = {4}
  SlashDivs = {2}
  GenesisDels <- SelfDelegations
  Strangers = {other}
  Unreadable = {garbage}
  AllowLists <- NoAllowList
  MaxHeight = 2
  MaxOps = 2
  MaxChains = 1
INVARIANTS
  AllRewardsWithdrawn
CHECK_DEADLOCK FALSE
