SPECIFICATION SpecUndisciplined
CONSTANTS
  n1 = n1
  n2 = n2
  None = None
  Nodes = {n1, n2}
  Quorums = {{n1}, {n2}}
  Releases <- MCReleases
  Genesis = "v2.0.0"
  Names <- MCNames
  Upgrades <- MCUpgrades
  ReleaseOf <- MCReleaseOf
  Modules <- MCModules
  VersionMap <- MCVersionMap
  StoreKeys = {"ibc", "new"}
  Stores <- PlainStores
  Added <- PlainAdded
  SkipHeights = {}
  Proposals <- LiveProposals
  MaxHeight = 4
  MaxFaults = 2
INVARIANTS
  NoSilentDowngrade
CHECK_DEADLOCK FALSE
