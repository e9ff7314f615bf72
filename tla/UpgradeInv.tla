----------------------------- MODULE UpgradeInv -----------------------------
(***************************************************************************)
(* The one logical chain that all nodes of Upgrade replicate, and the      *)
(* inductive invariant that says every node follows it.                    *)
(***************************************************************************)
EXTENDS Upgrade

\* The release that must execute the block on top of s, and what the
\* pre-blocker must do there, as functions of the state alone.
Skipped(s) ==
  /\ Due(s) /\ s.height + 1 \in SkipHeights
  /\ ~HasHandler(s.code, s.plan.name)
Applied(s) == Due(s) /\ ~Skipped(s)
CodeFor(s) ==
  IF Applied(s) /\ ~HasHandler(s.code, s.plan.name)
  THEN ReleaseOf[s.plan.name]
  ELSE s.code
AfterPreBlock(s) ==
  IF Applied(s) THEN ApplyUpgrade(s, CodeFor(s))
  ELSE IF Skipped(s) THEN ClearUpgradePlan(s)
  ELSE s
ChainStep(s, p) == DeliverBlock(AfterPreBlock(s), CodeFor(s), p)

GenesisState == InitChainer(Genesis)

\* The state node n's next block is executed on.
Tip(n) == IF Height(n) = 0 THEN GenesisState ELSE Committed(n)

\* A plan is a named one for an upgrade not yet applied.
PlanPending(s) ==
  s.plan = NoPlan \/ (s.plan.name \in Names /\ s.done[s.plan.name] = 0)

\* Layout, version map and code agree.
ModulesExact(s) ==
  \A m \in Modules :
    /\ s.schema[m] = s.vm[m]
    /\ s.schema[m] = VersionMap[s.code][m]
    /\ s.inits[m] = IF s.vm[m] > 0 THEN 1 ELSE 0

StateOK(s) == PlanPending(s) /\ ModulesExact(s)

\* Every committed state is the chain's step from the one before it.
OnChain ==
  \A n \in Nodes : \A h \in CommittedHeights(n) :
    /\ h <= Len(blocks)
    /\ versions[n][h].height = h
    /\ StateOK(versions[n][h])
    /\ versions[n][h] =
         ChainStep(IF h = 1 THEN GenesisState ELSE versions[n][h - 1], blocks[h])

\* The state in flight is the chain's next one, computed by its release.
WorkOnChain ==
  \A n \in Nodes :
    /\ status[n] = "inited" => Height(n) = 0 /\ work[n] = GenesisState
    /\ status[n] = "finalized" =>
         /\ Height(n) < Len(blocks)
         /\ work[n] = ChainStep(Tip(n), blocks[Height(n) + 1])
         /\ work[n].code = binary[n]

\* A node has the release of its state, or the one its pending plan calls for.
BinaryKnown ==
  \A n \in Nodes :
    \/ binary[n] = Tip(n).code
    \/ /\ status[n] # "needUpgrade"
       /\ Tip(n).plan.name \in Names
       /\ ~HasHandler(Tip(n).code, Tip(n).plan.name)
       /\ ExecHeight(Tip(n)) \notin SkipHeights
       /\ binary[n] = ReleaseOf[Tip(n).plan.name]

\* A height is only skipped by a node that stopped for its upgrade.
SkipsKnown ==
  \A n \in Nodes :
    /\ \A h \in skips[n] :
         /\ h <= Height(n) + 1
         /\ h = Height(n) + 1 => ~HasHandler(Tip(n).code, Tip(n).plan.name)
    /\ status[n] = "needUpgrade" =>
         ~HasHandler(Tip(n).code, Tip(n).plan.name)

\* The inductive invariant: every node follows the one logical chain, with a
\* binary and skip heights that can only continue it (NewEnokiApp, the
\* pre-blocker, ExecuteUpgrade).
Inv ==
  /\ TypeOK
  /\ OnChain
  /\ WorkOnChain
  /\ BinaryKnown
  /\ SkipsKnown
  /\ AppHashAgreement

(***************************************************************************)
(* What a node that is started again finds in its upgrade-info file.       *)
(***************************************************************************)
\* The stop the file tells of was skipped, has been followed by its upgrade,
\* or is the one the node has to get through next.
StopSettled(n) ==
  \/ info[n].height \in skips[n]
  \/ Tip(n).done[info[n].name] > 0
  \/ /\ info[n].height = Height(n) + 1
     /\ Due(Tip(n)) /\ Tip(n).plan.name = info[n].name

\* The upgrade-info file is never removed, but what is left in it is settled:
\* an upgrade that was cancelled, skipped or applied since cannot make the
\* store loader act for a stop that is not the pending one (upgrades.go:48-64).
InfoKnown == \A n \in Nodes : info[n].name \in Names => StopSettled(n)

\* Only a node with the flag for it executes the block of a skipped upgrade.
SkipFlagged ==
  \A n \in Nodes :
    status[n] = "finalized" /\ Skipped(Tip(n)) => Height(n) + 1 \in skips[n]

\* The inductive invariant behind LoadFailsOnlyWithoutHalt
\* (RegisterUpgradeHandlers, the pre-blocker, ExecuteUpgrade).
LoadInv ==
  /\ Inv
  /\ InfoKnown
  /\ SkipFlagged
  /\ \A n \in Nodes : status[n] = "loadFail" => Height(n) > 0
  /\ LoadFailsOnlyWithoutHalt

(***************************************************************************)
(* What the downgrade check remembers, with operators without discipline.  *)
(***************************************************************************)
\* Release b has the handler of the upgrade state s applied last.
Knows(b, s) == \A u \in LastApplied(s) : HasHandler(b, u)

\* A plan has a name and upgrades are recorded at heights of the past.
Recorded(s) ==
  /\ s.plan = NoPlan \/ s.plan.name \in Names
  /\ \A u \in Names : s.done[u] <= s.height

\* The block that leads from s to t at height h was executed with the handler
\* of the last upgrade, or applied one itself.
Checked(s, t, h) == Knows(t.code, s) \/ \E u \in Names : t.done[u] = h

CommittedRecorded ==
  \A n \in Nodes : \A h \in CommittedHeights(n) :
    versions[n][h].height = h /\ Recorded(versions[n][h])

\* A process that has verified runs a binary that knows the last upgrade.
RunningChecked ==
  \A n \in Nodes :
    /\ status[n] = "inited" => Height(n) = 0 /\ work[n] = InitChainer(binary[n])
    /\ status[n] = "idle" /\ verified[n] /\ Height(n) > 0 =>
         Knows(binary[n], Committed(n))
    /\ status[n] = "finalized" =>
         /\ verified[n] /\ Knows(binary[n], work[n])
         /\ work[n].height = Height(n) + 1 /\ Recorded(work[n])
         /\ Height(n) > 0 => Checked(Committed(n), work[n], Height(n) + 1)

\* The inductive invariant behind NoSilentDowngrade (downgradeVerified).
DowngradeInv ==
  /\ TypeOK
  /\ CommittedRecorded
  /\ RunningChecked
  /\ NoSilentDowngrade
=============================================================================
