SPECIFICATION ProcedureSpec
CONSTANTS
  n1 = n1
  n2 = n2
  None = None
  Nodes = {n1, n2}
  Quorums = {{n1}}
  Releases <- TestReleases
  Genesis = "v2.1.0"
  Names <- TestNames
  Upgrades <- TestUpgrades
  ReleaseOf <- TestReleaseOf
  Modules = {"ibc"}
  VersionMap <- TestVersionMap
  StoreKeys = {"ibc"}
  Stores <- TestStores
  Added <- TestAdded
  SkipHeights = {}
  Proposals <- TestProposals
  MaxHeight = 14
  MaxFaults = 0
  UpgradeName = "v2.2.0"
  PostUpgradeVersion = "v2.2.0"
  Queried = n1
  UpgradeHeights = {4, 7, 9}
  VotingPeriods = {4}
  PassBlocks = 5
  PostBlocks = 2
  MaxLag = 1
  MaxAfter = 10
INVARIANTS
  ProcedureTypeOK
  SuccessIsExact
  FailsOnlyForPastHeight
  EarlyOnlyBehindVote
PROPERTIES
  Completes
CHECK_DEADLOCK FALSE
