----------------------------- MODULE MCUpgrade -----------------------------
(***************************************************************************)
(* Instances of Upgrade: the releases of app/upgrades.go (v2.1.0 and       *)
(* v2.2.0, whose StoreUpgrades are empty) and a successor with a new       *)
(* module and its store, as v1.4.0 had for tokenfactory (CHANGELOG.md).    *)
(***************************************************************************)
EXTENDS UpgradeRefinement, TLC

\* Nodes are interchangeable: they start alike and any of them is a quorum,
\* and Front may pick any of the nodes that lead, which all have one Tip.
NodeSymmetry == Permutations(Nodes)

Sched(u, h) == [kind |-> "schedule", plan |-> [name |-> u, height |-> h]]
Cancel == [kind |-> "cancel", plan |-> NoPlan]

\* v2.1.0 and v2.2.0: no new stores, one module changes version at v2.1.0.
MCReleases == {"v2.0.0", "v2.1.0", "v2.2.0"}
MCNames == {"v2.1.0", "v2.2.0"}
MCUpgrades ==
  [b \in MCReleases |-> CASE b = "v2.0.0" -> {}
                          [] b = "v2.1.0" -> {"v2.1.0"}
                          [] OTHER -> {"v2.1.0", "v2.2.0"}]
MCReleaseOf == [u \in MCNames |-> u]
MCModules == {"ibc", "new"}
MCVersionMap ==
  [b \in MCReleases |-> CASE b = "v2.0.0" -> ("ibc" :> 1 @@ "new" :> 0)
                          [] b = "v2.1.0" -> ("ibc" :> 2 @@ "new" :> 0)
                          [] OTHER -> ("ibc" :> 2 @@ "new" :> 1)]
PlainStores == [b \in MCReleases |-> {"ibc"}]
PlainAdded == [u \in MCNames |-> {}]

\* v2.2.0 adds a module with a store of its own.
GrowingStores ==
  [b \in MCReleases |-> IF b = "v2.2.0" THEN {"ibc", "new"} ELSE {"ibc"}]
GrowingAdded ==
  [u \in MCNames |-> IF u = "v2.2.0" THEN {"new"} ELSE {}]

\* Plans for a later block or for the block that schedules them, which are
\* due one block late, one for the height the operators skip, which may be
\* planned again, and a cancellation.
SomeProposals ==
  {NoProposal, Sched("v2.1.0", 3), Sched("v2.2.0", 1), Sched("v2.2.0", 3),
   Cancel}
LiveProposals == {NoProposal, Sched("v2.1.0", 2), Sched("v2.2.0", 4)}
=============================================================================
