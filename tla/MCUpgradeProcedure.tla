------------------------- MODULE MCUpgradeProcedure -------------------------
(***************************************************************************)
(* PerformUpgrade on the one validator of DefaultChainSpec, which it       *)
(* queries, and a full node, from v2.1.0 to a v2.2.0 that migrates a       *)
(* module and adds no store, as the v2.2.0 of app/upgrades does not.       *)
(***************************************************************************)
EXTENDS UpgradeProcedure, TLC

TestReleases == {"v2.1.0", "v2.2.0"}
TestNames == {"v2.1.0", "v2.2.0"}
TestUpgrades ==
  [b \in TestReleases |-> IF b = "v2.2.0" THEN TestNames ELSE {"v2.1.0"}]
TestReleaseOf == [u \in TestNames |-> u]
TestVersionMap ==
  [b \in TestReleases |-> "ibc" :> IF b = "v2.2.0" THEN 2 ELSE 1]
TestStores == [b \in TestReleases |-> {"ibc"}]
TestAdded == [u \in TestNames |-> {}]
TestProposals ==
  {NoProposal} \cup
  {[kind |-> "schedule", plan |-> [name |-> "v2.2.0", height |-> h]] :
     h \in UpgradeHeights}

\* The waits satisfy the hypothesis of WaitsAreLongEnough in ProcedureProofs.
ASSUME TestWaitsSuffice == WaitsSuffice
=============================================================================
