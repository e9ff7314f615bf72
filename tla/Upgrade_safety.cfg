SPECIFICATION Spec
CONSTANTS
  n1 = n1
  n2 = n2
  None = None
  Nodes = {n1, n2}
  Quorums = {{n1}, {n2}}
  Releases <- MCReleases
  Genesis = "v2.0.0"
  Names <- MCNames
  Upgrades <- MCUpgrades
  ReleaseOf <- MCReleaseOf
  Modules <- MCModules
  VersionMap <- MCVersionMap
  StoreKeys = {"ibc", "new"}
  Stores <- GrowingStores
  Added <- GrowingAdded
  SkipHeights = {2}
  Proposals <- SomeProposals
  MaxHeight = 4
  MaxFaults = 2
SYMMETRY NodeSymmetry
INVARIANTS
  TypeOK
  Inv
  AppliedExactlyWhenDue
  InfoKnown
  AppHashAgreement
  CodeChangesOnlyByUpgrade
  MigrationsExact
  LoadFailsOnlyWithoutHalt
PROPERTIES
  OneChain
CHECK_DEADLOCK FALSE
