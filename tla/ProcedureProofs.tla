-------------------------- MODULE ProcedureProofs --------------------------
(***************************************************************************)
(* Proofs about UpgradeProcedure: what the success of the procedure means  *)
(* for any network, and how long its waits must be for it not to fail.     *)
(***************************************************************************)
EXTENDS UpgradeProcedure, UpgradeProofs

---------------------------------------------------------------------------
(* Types and blocks. *)

\* The variables of the procedure and of governance are numbers and records.
LEMMA ProcedureTypes ==
  ASSUME ProcedureTypeOK
  PROVE  /\ target \in Nat /\ target > 0 /\ mark \in Nat /\ lag \in Nat
         /\ MaxLag \in Nat /\ PassBlocks \in Nat /\ PostBlocks \in Nat
         /\ gov.end \in Nat
         /\ gov.status \in {"none", "voting", "passed", "failed", "rejected"}
         /\ UpgradeName \in Names /\ PostUpgradeVersion \in Releases
         /\ UpgradeBlock \in Nat /\ UpgradeBlock > 0
         /\ [kind |-> "schedule", plan |-> TestPlan] \in Proposals
<1>1. target \in Nat /\ target > 0 /\ gov.end \in Nat
  BY ProcedureAssumption DEF ProcedureTypeOK
<1>2. UpgradeName \in Names /\ PostUpgradeVersion \in Releases
  BY ProcedureAssumption, ConstantsAssumption
<1>3. [kind |-> "schedule", plan |-> TestPlan] \in Proposals
  BY ScheduleAssumption DEF ProcedureTypeOK, TestPlan
<1>4. QED
  BY <1>1, <1>2, <1>3, ProcedureAssumption DEF ProcedureTypeOK, UpgradeBlock

\* A block of the procedure's network is a block of module Upgrade.
LEMMA BlockDecides ==
  ASSUME ProcedureTypeOK, NEW txs, NEW good, NEW period,
         DecideBlock(txs, good, period)
  PROVE  \E p \in Proposals :
           /\ Decide(p)
           /\ p = IF gov'.status = "passed" /\ gov.status = "voting"
                  THEN [kind |-> "schedule", plan |-> TestPlan]
                  ELSE NoProposal
<1> DEFINE p == IF gov'.status = "passed" /\ gov.status = "voting"
                THEN [kind |-> "schedule", plan |-> TestPlan]
                ELSE NoProposal
<1>1. p \in Proposals
  BY ProcedureTypes, ConstantsAssumption
<1>2. Decide(p)
  BY DEF DecideBlock, TestPlan
<1>3. QED
  BY <1>1, <1>2

\* Which variables a step of the program changes.
LEMMA ProgramFrame ==
  ASSUME PerformUpgrade
  PROVE  /\ UNCHANGED <<target, included, refused, gov, lag>>
         /\ UNCHANGED vars \/ (ExecuteUpgrade /\ SwapBinaries)
  BY DEF PerformUpgrade, SubmitUpgradeProposal, QueryProposalID,
     WaitForProposalVotingPeriod, VoteOnProposal, WaitForProposalPass,
     ExecuteUpgrade, CheckHeight, VerifyUpgradeApplied, VerifyChainFunctionality

\* What a step of the program, or one of its commands that does not work,
\* does to the nodes: it stops some, or swaps the binaries of all.
LEMMA ProgramOnNodes ==
  ASSUME TypeOK, PerformUpgrade \/ CommandFails
  PROVE  /\ UNCHANGED <<blocks, versions, info, verified, skips, faults>>
         /\ \/ UNCHANGED <<work, status, binary>>
            \/ /\ pc = "execute"
               /\ \A n \in Nodes : status'[n] = "down" /\ work'[n] = NoWork
               /\ binary' = [n \in Nodes |-> PostUpgradeVersion]
               /\ work' = [n \in Nodes |-> NoWork]
               /\ status' = [n \in Nodes |-> "down"]
            \/ /\ UNCHANGED binary
               /\ \E stopped \in SUBSET Nodes :
                    /\ status' = [n \in Nodes |->
                         IF n \in stopped THEN "down" ELSE status[n]]
                    /\ work' = [n \in Nodes |->
                         IF n \in stopped THEN NoWork ELSE work[n]]
<1>1. ASSUME SwapBinaries
      PROVE  /\ UNCHANGED <<blocks, versions, info, verified, skips, faults>>
             /\ \A n \in Nodes : status'[n] = "down" /\ work'[n] = NoWork
             /\ binary' = [n \in Nodes |-> PostUpgradeVersion]
             /\ work' = [n \in Nodes |-> NoWork]
             /\ status' = [n \in Nodes |-> "down"]
  BY <1>1 DEF SwapBinaries
<1>2. CASE PerformUpgrade
  BY <1>1, <1>2, ProgramFrame DEF vars, ExecuteUpgrade
<1>3. CASE CommandFails
  <2>1. CASE UNCHANGED vars
    BY <2>1 DEF vars
  <2>2. CASE pc = "execute" /\ SwapBinaries
    BY <1>1, <2>2
  <2>3. CASE \E stopped \in SUBSET Nodes :
               /\ status' = [n \in Nodes |->
                    IF n \in stopped THEN "down" ELSE status[n]]
               /\ work' = [n \in Nodes |->
                    IF n \in stopped THEN NoWork ELSE work[n]]
               /\ UNCHANGED <<blocks, versions, binary, info, verified, skips, faults>>
    BY <2>3
  <2>4. QED
    BY <1>3, <2>1, <2>2, <2>3 DEF CommandFails
<1>4. QED
  BY <1>2, <1>3

\* The network keeps the invariant behind the downgrade check.
LEMMA NetworkStep ==
  ASSUME DowngradeInv, ProcedureTypeOK, [ProcedureNext]_<<vars, testVars>>
  PROVE  DowngradeInv'
<1>0. TypeOK /\ NoWork \in State /\ PostUpgradeVersion \in Releases
  BY InitChainerType, ConstantsAssumption, ProcedureTypes DEF NoWork, DowngradeInv
<1>1. CASE PerformUpgrade \/ CommandFails
  <2>1. UNCHANGED <<blocks, versions, info, verified, skips, faults>>
    BY <1>0, <1>1, ProgramOnNodes
  <2>2. CASE UNCHANGED <<work, status, binary>>
    <3>1. UNCHANGED vars
      BY <2>1, <2>2 DEF vars
    <3>2. QED
      BY <3>1, NextDowngrade
  <2>3. CASE /\ binary' = [n \in Nodes |-> PostUpgradeVersion]
             /\ work' = [n \in Nodes |-> NoWork]
             /\ status' = [n \in Nodes |-> "down"]
    <3>1. TypeOK'
      BY <1>0, <2>1, <2>3 DEF TypeOK, Stopped
    <3>2. \A n \in Nodes : status'[n] \notin Running
      BY <2>3 DEF Running
    <3>3. QED
      BY <2>1, <3>1, <3>2, QuietProcess
  <2>4. ASSUME NEW stopped \in SUBSET Nodes, UNCHANGED binary,
               status' = [n \in Nodes |->
                 IF n \in stopped THEN "down" ELSE status[n]],
               work' = [n \in Nodes |->
                 IF n \in stopped THEN NoWork ELSE work[n]]
        PROVE  DowngradeInv'
    <3>1. TypeOK'
      BY <1>0, <2>1, <2>4 DEF TypeOK, Stopped
    <3>2. \A n \in Nodes : status'[n] \in Running =>
            status'[n] = status[n] /\ work'[n] = work[n]
      BY <2>4 DEF Running
    <3>3. QED
      BY <2>1, <2>4, <3>1, <3>2, QuietProcess
  <2>5. QED
    BY <1>0, <1>1, <2>2, <2>3, <2>4, ProgramOnNodes
<1>2. ASSUME SomeBlock PROVE DowngradeInv'
  <2>1. PICK p \in Proposals : Decide(p)
    BY <1>2, BlockDecides DEF SomeBlock
  <2>2. QED
    BY <2>1, NextDowngrade DEF NextUndisciplined, Next
<1>3. ASSUME NEW n \in Nodes, NodeStep(n) PROVE DowngradeInv'
  BY <1>3, NextDowngrade DEF NextUndisciplined, Next
<1>4. ASSUME UNCHANGED vars PROVE DowngradeInv'
  BY <1>4, NextDowngrade
<1>5. QED
  BY <1>1, <1>2, <1>3, <1>4 DEF ProcedureNext, SomeNode

---------------------------------------------------------------------------
(* What a node does. *)

\* The state a node executes a block on, and the block.
LEMMA BaseFollows ==
  ASSUME DowngradeInv, ProcedureInv, NEW n \in Nodes, HasBlock(n)
  PROVE  /\ Follows(Base(n)) /\ MadeBy(n, Base(n))
         /\ Height(n) < ChainHeight
         /\ blocks[Height(n) + 1] =
              IF gov.status = "passed" /\ Height(n) + 1 = gov.end
              THEN [kind |-> "schedule", plan |-> TestPlan]
              ELSE NoProposal
<1>1. /\ Height(n) \in Nat /\ Height(n) < Len(blocks)
      /\ ProcedureTypeOK /\ GovKnown /\ NodesFollow
  BY BaseOK DEF HasBlock, ProcedureInv
<1>2. Height(n) < ChainHeight /\ Height(n) + 1 \in 1..ChainHeight
  <2>1. Len(blocks) \in Nat
    BY DEF DowngradeInv, TypeOK
  <2>2. QED
    BY <1>1, <2>1 DEF ChainHeight
<1>3. blocks[Height(n) + 1] =
        IF gov.status = "passed" /\ Height(n) + 1 = gov.end
        THEN [kind |-> "schedule", plan |-> TestPlan]
        ELSE NoProposal
  BY <1>1, <1>2 DEF GovKnown
<1>4. CASE Height(n) = 0
  <2>1. Base(n) = InitChainer(binary[n])
    BY <1>4 DEF HasBlock, Base, DowngradeInv, RunningChecked
  <2>2. /\ Base(n).height = 0 /\ Base(n).plan = NoPlan
        /\ \A u \in Names : Base(n).done[u] = 0
    BY <2>1 DEF InitChainer
  <2>3. gov.status = "passed" => 0 < gov.end
    BY <1>1 DEF GovKnown
  <2>4. QED
    BY <1>1, <1>2, <1>3, <2>2, <2>3, ProcedureTypes DEF Follows, MadeBy
<1>5. CASE Height(n) # 0
  <2>1. Height(n) > 0 /\ Base(n) = Committed(n)
    BY <1>1, <1>5 DEF Base
  <2>2. QED
    BY <1>1, <1>2, <1>3, <2>1 DEF NodesFollow, NodeFollows
<1>6. QED
  BY <1>4, <1>5

\* The block after the pre-blocker schedules the plan or changes no plan.
LEMMA DeliverFollows ==
  ASSUME NEW r \in State, NEW b \in Releases, NEW p \in Proposals,
         \/ p = NoProposal
         \/ p = [kind |-> "schedule", plan |-> TestPlan]
  PROVE  LET t == DeliverBlock(r, b, p) IN
         /\ t \in State /\ t.height = r.height + 1 /\ t.code = b
         /\ t.done = r.done
         /\ t.plan = IF p # NoProposal /\ Schedulable(r, TestPlan)
                     THEN TestPlan ELSE r.plan
<1> DEFINE t == DeliverBlock(r, b, p)
<1>1. /\ t \in State /\ t.height = r.height + 1
      /\ t.code = b /\ t.done = r.done
  BY DeliverBlockType
<1>2. t.plan = CASE p.kind = "schedule" /\ Schedulable(r, p.plan) -> p.plan
                 [] p.kind = "cancel" -> NoPlan
                 [] OTHER -> r.plan
  BY DEF DeliverBlock, State
<1>3. CASE p = NoProposal
  <2>1. p.kind = "none"
    BY <1>3 DEF NoProposal
  <2>2. QED
    BY <1>1, <1>2, <1>3, <2>1
<1>4. CASE p = [kind |-> "schedule", plan |-> TestPlan]
  <2>1. p.kind = "schedule" /\ p.plan = TestPlan
    BY <1>4
  <2>2. p # NoProposal
    BY <2>1 DEF NoProposal
  <2>3. QED
    BY <1>1, <1>2, <2>1, <2>2
<1>5. QED
  BY <1>3, <1>4

\* Executing a block keeps a node in step with the vote.
LEMMA ExecuteFollows ==
  ASSUME DowngradeInv, ProcedureInv, NEW n \in Nodes,
         FinalizeBlock(n) \/ FinalizeSkippedUpgrade(n) \/ FinalizeUpgrade(n)
  PROVE  \E t \in State :
           /\ work' = [work EXCEPT ![n] = t]
           /\ status' = [status EXCEPT ![n] = "finalized"]
           /\ UNCHANGED <<blocks, versions, binary, info, skips, faults>>
           /\ Follows(t)
           /\ MadeBy(n, t) /\ NotEarly(t.code, Height(n) + 1)
           /\ Height(n) < ChainHeight
<1> DEFINE s == Base(n)
           b == binary[n]
           p == blocks[Height(n) + 1]
           h == Height(n)
           U == UpgradeName
<1>0. HasBlock(n)
  BY DEF FinalizeBlock, FinalizeSkippedUpgrade, FinalizeUpgrade
<1>1. /\ h \in Nat /\ s \in State /\ s.height = h
      /\ p \in Proposals /\ b \in Releases
  BY <1>0, BaseOK
<1>2. /\ Follows(s) /\ MadeBy(n, s) /\ h < ChainHeight
      /\ p = IF gov.status = "passed" /\ h + 1 = gov.end
             THEN [kind |-> "schedule", plan |-> TestPlan]
             ELSE NoProposal
  BY <1>0, BaseFollows
<1>3. /\ target \in Nat /\ target > 0 /\ gov.end \in Nat
      /\ UpgradeBlock \in Nat /\ UpgradeBlock > 0 /\ U \in Names
  BY ProcedureTypes DEF ProcedureInv
<1>4. /\ TestPlan \in Plan /\ NoPlan \in Plan /\ TestPlan # NoPlan
      /\ TestPlan.height = target /\ TestPlan.name = U
      /\ NoPlan.height = 0
  <2>1. U # None
    BY <1>3, ConstantsAssumption
  <2>2. QED
    BY <1>3, <2>1 DEF TestPlan, NoPlan, Plan
<1>5. gov.status = "passed" => gov.end <= target
  BY DEF ProcedureInv, GovKnown
<1>6. s.done \in [Names -> Nat] /\ s.plan \in Plan
  BY <1>1 DEF State
<1> DEFINE P == [kind |-> "schedule", plan |-> TestPlan]
<1>7. P # NoProposal
  BY <1>4 DEF NoProposal
<1>8. Due(s) <=> s.plan.height > 0 /\ s.plan.height <= h + 1
  BY <1>1 DEF Due, ShouldExecute
<1>9. UpgradeBlock = IF gov.end < target THEN target ELSE target + 1
  BY DEF UpgradeBlock
<1>10. CASE FinalizeSkippedUpgrade(n)
  <2>1. h + 1 \in skips[n]
    BY <1>1, <1>10 DEF FinalizeSkippedUpgrade, IsSkipHeight
  <2>2. QED
    BY <2>1 DEF ProcedureInv, NodesFollow, NodeFollows
<1>00. /\ b \in {Genesis, PostUpgradeVersion} /\ U \notin Upgrades[Genesis]
       /\ U \in Upgrades[PostUpgradeVersion]
       /\ b = PostUpgradeVersion => gov.status = "passed"
  BY UpgradeIsNew, ReleaseHasHandler, ProcedureAssumption
  DEF ProcedureInv, NodesFollow, NodeFollows
<1>11. CASE FinalizeBlock(n)
  <2> DEFINE t == DeliverBlock(s, b, p)
  <2>1. Execute(n, s) /\ ~Due(s)
    BY <1>11 DEF FinalizeBlock
  <2>2. /\ t \in State /\ t.height = h + 1 /\ t.code = b
        /\ t.done = s.done
        /\ t.plan = IF p # NoProposal /\ Schedulable(s, TestPlan)
                    THEN TestPlan ELSE s.plan
    BY <1>1, <1>2, DeliverFollows
  <2>3. Schedulable(s, TestPlan) <=> target >= h + 1 /\ s.done[U] = 0
    BY <1>1, <1>4 DEF Schedulable
  <2> HIDE DEF t
  <2>4. Follows(t)
    <3>1. CASE s.plan = NoPlan /\ s.done[U] = 0
      <4>1. gov.status = "passed" => h < gov.end
        BY <1>1, <1>2, <1>3, <1>4, <1>9, <3>1 DEF Follows
      <4>2. CASE gov.status = "passed" /\ h + 1 = gov.end
        <5>1. t.plan = TestPlan
          BY <1>1, <1>2, <1>3, <1>5, <1>7, <2>2, <2>3, <3>1, <4>2
        <5>2. h + 1 < UpgradeBlock
          BY <1>1, <1>3, <1>5, <1>9, <4>2
        <5>3. QED
          BY <1>2, <1>3, <2>2, <3>1, <4>2, <5>1, <5>2 DEF Follows
      <4>3. CASE ~(gov.status = "passed" /\ h + 1 = gov.end)
        <5>1. p = NoProposal
          BY <1>2, <4>3
        <5>2. gov.status = "passed" => h + 1 < gov.end
          BY <1>1, <1>3, <4>1, <4>3
        <5>3. QED
          BY <1>2, <2>2, <3>1, <5>1, <5>2 DEF Follows
      <4>4. QED
        BY <4>2, <4>3
    <3>2. CASE s.plan = TestPlan
      <4>1. /\ s.done[U] = 0 /\ gov.status = "passed" /\ gov.end <= h
            /\ h < UpgradeBlock
        BY <1>1, <1>2, <1>4, <3>2 DEF Follows
      <4>2. h + 1 < target
        BY <1>1, <1>3, <1>4, <1>8, <2>1, <3>2
      <4>3. h + 1 < UpgradeBlock /\ gov.end <= h + 1 /\ h + 1 # gov.end
        BY <1>1, <1>3, <1>9, <4>1, <4>2
      <4>4. p = NoProposal
        BY <1>2, <4>3
      <4>5. QED
        BY <1>2, <2>2, <3>2, <4>1, <4>3, <4>4 DEF Follows
    <3>3. CASE s.plan = NoPlan /\ s.done[U] # 0
      <4>1. s.done[U] = UpgradeBlock /\ gov.status = "passed" /\ UpgradeBlock <= h
        BY <1>1, <1>2, <3>3 DEF Follows
      <4>2. h + 1 # gov.end /\ UpgradeBlock <= h + 1
        BY <1>1, <1>3, <1>5, <1>9, <4>1
      <4>3. p = NoProposal
        BY <1>2, <4>2
      <4>4. QED
        BY <1>2, <2>2, <3>3, <4>1, <4>2, <4>3 DEF Follows
    <3>4. QED
      BY <1>2, <3>1, <3>2, <3>3 DEF Follows
  <2>5. MadeBy(n, t)
    BY <1>2, <2>2 DEF MadeBy
  <2>6. NotEarly(t.code, h + 1)
    <3>1. SUFFICES ASSUME b = PostUpgradeVersion
                   PROVE  gov.status = "passed"
                          /\ (h + 1 <= gov.end \/ UpgradeBlock <= h + 1)
      BY <2>2 DEF NotEarly
    <3>2. gov.status = "passed"
      BY <1>00, <3>1
    <3>3. s.plan # TestPlan
      BY <1>00, <1>4, <1>11, <3>1 DEF FinalizeBlock, HasHandler
    <3>4. h < gov.end \/ UpgradeBlock <= h
      BY <1>1, <1>2, <3>2, <3>3 DEF Follows
    <3>5. QED
      BY <1>1, <1>3, <3>2, <3>4
  <2>7. QED
    BY <1>2, <2>1, <2>2, <2>4, <2>5, <2>6 DEF Execute, t
<1>12. CASE FinalizeUpgrade(n)
  <2> DEFINE u == s.plan.name
             r == ApplyUpgrade(s, b)
             q == RunMigrations(s, b)
             done == [s.done EXCEPT ![u] = s.height + 1]
             t == DeliverBlock(r, b, p)
  <2>1. Execute(n, r) /\ Due(s) /\ HasHandler(b, u)
    BY <1>12 DEF FinalizeUpgrade
  <2>2. s.plan = TestPlan /\ u = U
    BY <1>2, <1>4, <1>8, <2>1 DEF Follows
  <2>3. /\ s.done[U] = 0 /\ gov.status = "passed" /\ gov.end <= h
        /\ h < UpgradeBlock
    BY <1>1, <1>2, <1>4, <2>2 DEF Follows
  <2>4. q \in State /\ q.height = s.height
    BY <1>1, RunMigrationsType, RunMigrationsFrame
  <2>5. done \in [Names -> Nat]
    <3>1. s.done \in [Names -> Nat] /\ s.height + 1 \in Nat
      BY <1>1, <1>6
    <3>2. QED
      BY <3>1
  <2>6. r = [q EXCEPT !.done = done, !.plan = NoPlan]
    BY DEF ApplyUpgrade
  <2>7. done[U] = h + 1 /\ \A v \in Names \ {U} : done[v] = s.done[v]
    BY <1>1, <1>3, <1>6, <2>2
  <2> HIDE DEF done, q, r
  <2>8. /\ r \in State /\ r.height = h
        /\ r.done = done /\ r.plan = NoPlan
    BY <1>1, <1>4, <2>4, <2>5, <2>6 DEF State
  <2>9. p = NoProposal
    BY <1>1, <1>2, <1>3, <2>3
  <2>10. /\ t \in State /\ t.height = h + 1 /\ t.code = b
         /\ t.done = done /\ t.plan = NoPlan
    BY <1>1, <2>8, <2>9, DeliverFollows
  <2> HIDE DEF t
  <2>11. UpgradeBlock = h + 1
    BY <1>1, <1>3, <1>4, <1>5, <1>8, <1>9, <2>1, <2>2, <2>3
  <2>12. Follows(t)
    <3>1. \A v \in Names \ {U} : t.done[v] = 0
      BY <1>2, <2>7, <2>10 DEF Follows
    <3>2. t.done[U] = UpgradeBlock /\ UpgradeBlock <= t.height
      BY <1>1, <2>7, <2>10, <2>11
    <3>3. QED
      BY <2>3, <2>10, <3>1, <3>2 DEF Follows
  <2>13. b = PostUpgradeVersion
    BY <1>00, <2>1, <2>2 DEF HasHandler
  <2>14. MadeBy(n, t) /\ NotEarly(t.code, h + 1)
    BY <1>1, <2>3, <2>10, <2>11, <2>13 DEF MadeBy, NotEarly
  <2>15. QED
    BY <1>2, <2>1, <2>10, <2>12, <2>14 DEF Execute, t
<1>13. QED
  BY <1>10, <1>11, <1>12

\* A step that decides nothing and commits nothing, and in which no node
\* executes a block, keeps the network in step with the vote; a binary that
\* is swapped in it belongs to a stopped node after the vote.
LEMMA QuietNetwork ==
  ASSUME DowngradeInv, ProcedureInv,
         UNCHANGED <<blocks, versions, skips, target, gov>>,
         \A m \in Nodes : status'[m] = "finalized" =>
           status[m] = "finalized" /\ work'[m] = work[m],
         \/ UNCHANGED binary
         \/ /\ gov.status = "passed"
            /\ binary' = [m \in Nodes |-> PostUpgradeVersion]
  PROVE  /\ NodesFollow' /\ QuorumFollows'
         /\ ChainHeight' = ChainHeight /\ ChainHeight \in Nat
         /\ UpgradeBlock' = UpgradeBlock /\ TestPlan' = TestPlan
         /\ \A m \in Nodes : Height(m)' = Height(m)
<1>1. NodesFollow /\ QuorumFollows /\ TypeOK
  BY DEF ProcedureInv, DowngradeInv
<1>2. \A m \in Nodes : /\ Height(m)' = Height(m) /\ Committed(m)' = Committed(m)
                       /\ CommittedHeights(m)' = CommittedHeights(m)
  BY DEF Height, Committed, CommittedHeights
<1>3. /\ ChainHeight' = ChainHeight /\ ChainHeight \in Nat
      /\ UpgradeBlock' = UpgradeBlock /\ TestPlan' = TestPlan
  BY <1>1 DEF ChainHeight, UpgradeBlock, TestPlan, TypeOK
<1>4. ASSUME NEW m \in Nodes PROVE NodeFollows(m)'
  <2>1. NodeFollows(m)
    BY <1>1 DEF NodesFollow
  <2>2. /\ binary'[m] \in {Genesis, PostUpgradeVersion}
        /\ binary'[m] = PostUpgradeVersion => gov'.status = "passed"
        /\ binary'[m] = binary[m] \/ binary'[m] = PostUpgradeVersion
    BY <2>1 DEF NodeFollows
  <2>3. Height(m) > 0 => Follows(Committed(m))' /\ MadeBy(m, Committed(m))'
    BY <1>2, <1>3, <2>1, <2>2 DEF NodeFollows, Follows, MadeBy
  <2>4. status'[m] = "finalized" =>
          /\ Height(m) < ChainHeight
          /\ Follows(work[m])' /\ MadeBy(m, work[m])'
          /\ NotEarly(work[m].code, Height(m) + 1)'
    BY <1>2, <1>3, <2>1, <2>2 DEF NodeFollows, Follows, MadeBy, NotEarly
  <2>5. QED
    BY <1>2, <1>3, <2>1, <2>2, <2>3, <2>4 DEF NodeFollows
<1>5. EarlyOnlyBehindVote'
  BY <1>1, <1>2, <1>3 DEF NodesFollow, EarlyOnlyBehindVote, NotEarly
<1>6. QuorumFollows'
  BY <1>1, <1>2, <1>3, ConstantsAssumption DEF QuorumFollows
<1>7. QED
  BY <1>2, <1>3, <1>4, <1>5, <1>6 DEF NodesFollow

\* A step of a node keeps it in step with the vote and the procedure.
LEMMA NodeStepInv ==
  ASSUME DowngradeInv, ProcedureInv, NEW n \in Nodes, NodeStep(n),
         UNCHANGED testVars
  PROVE  ProcedureInv'
<1>0. /\ TypeOK /\ NodesFollow /\ GovKnown /\ QuorumFollows /\ ProgramKnows
      /\ ProcedureTypeOK /\ Queried \in Nodes
  BY ProcedureAssumption DEF DowngradeInv, ProcedureInv
<1>00. /\ UNCHANGED <<pc, target, mark, pool, included, refused, gov, lag>>
       /\ UpgradeBlock' = UpgradeBlock /\ TestPlan' = TestPlan
  BY DEF testVars, UpgradeBlock, TestPlan
<1>1. CASE \/ NewEnokiApp(n) \/ InitChain(n)
           \/ HaltForUpgrade(n) \/ HaltEarly(n) \/ HaltDowngrade(n)
  <2>1. UNCHANGED <<blocks, versions, skips, binary>>
    BY <1>1 DEF NewEnokiApp, InitChain, HaltForUpgrade, HaltEarly,
       HaltDowngrade, Halt
  <2>2. \A m \in Nodes : status'[m] = "finalized" =>
          status[m] = "finalized" /\ work'[m] = work[m]
    BY <1>0, <1>1 DEF NewEnokiApp, InitChain, HaltForUpgrade, HaltEarly,
       HaltDowngrade, Halt, TypeOK
  <2>3. /\ NodesFollow' /\ QuorumFollows' /\ ChainHeight' = ChainHeight
        /\ \A m \in Nodes : Height(m)' = Height(m)
    BY <1>00, <2>1, <2>2, QuietNetwork
  <2>4. ProcedureTypeOK' /\ GovKnown'
    BY <1>0, <1>00, <2>1, <2>3 DEF ProcedureTypeOK, GovKnown, TestPlan
  <2>5. ProgramKnows'
    BY <1>0, <1>00, <2>3 DEF ProgramKnows
  <2>6. QED
    BY <2>3, <2>4, <2>5 DEF ProcedureInv
<1>2. CASE FinalizeBlock(n) \/ FinalizeSkippedUpgrade(n) \/ FinalizeUpgrade(n)
  <2>1. PICK t \in State :
          /\ work' = [work EXCEPT ![n] = t]
          /\ status' = [status EXCEPT ![n] = "finalized"]
          /\ UNCHANGED <<blocks, versions, binary, info, skips, faults>>
          /\ Follows(t) /\ MadeBy(n, t) /\ NotEarly(t.code, Height(n) + 1)
          /\ Height(n) < ChainHeight
    BY <1>2, ExecuteFollows
  <2>2. \A m \in Nodes : /\ Height(m)' = Height(m) /\ Committed(m)' = Committed(m)
                         /\ CommittedHeights(m)' = CommittedHeights(m)
    BY <2>1 DEF Height, Committed, CommittedHeights
  <2>3. ChainHeight' = ChainHeight
    BY <2>1 DEF ChainHeight
  <2>4. /\ status'[n] = "finalized" /\ work'[n] = t
        /\ \A m \in Nodes \ {n} : status'[m] = status[m] /\ work'[m] = work[m]
    BY <1>0, <2>1 DEF TypeOK
  <2>5. ASSUME NEW m \in Nodes PROVE NodeFollows(m)'
    <3>1. NodeFollows(m)
      BY <1>0 DEF NodesFollow
    <3>2. Height(m) > 0 => Follows(Committed(m))' /\ MadeBy(m, Committed(m))'
      BY <1>00, <2>1, <2>2, <3>1 DEF NodeFollows, Follows, MadeBy
    <3>3. status'[m] = "finalized" =>
            /\ Height(m) < ChainHeight
            /\ Follows(work[m])' /\ MadeBy(m, work[m])'
            /\ NotEarly(work[m].code, Height(m) + 1)'
      <4>1. CASE m = n
        BY <1>00, <2>1, <2>2, <2>4, <4>1 DEF Follows, MadeBy, NotEarly
      <4>2. CASE m # n
        BY <1>00, <2>1, <2>2, <2>4, <3>1, <4>2
        DEF NodeFollows, Follows, MadeBy, NotEarly
      <4>3. QED
        BY <4>1, <4>2
    <3>4. QED
      BY <1>00, <2>1, <2>2, <2>3, <3>1, <3>2, <3>3 DEF NodeFollows
  <2>6. NodesFollow'
    BY <1>0, <1>00, <2>1, <2>2, <2>5 DEF NodesFollow, EarlyOnlyBehindVote, NotEarly
  <2>7. ProcedureTypeOK' /\ GovKnown'
    BY <1>0, <1>00, <2>1, <2>3 DEF ProcedureTypeOK, GovKnown, TestPlan
  <2>8. ProgramKnows' /\ QuorumFollows'
    BY <1>0, <1>00, <2>2, <2>3, ConstantsAssumption DEF ProgramKnows, QuorumFollows
  <2>9. QED
    BY <2>6, <2>7, <2>8 DEF ProcedureInv
<1>3. CASE Commit(n)
  <2>1. /\ status[n] = "finalized"
        /\ versions' = [versions EXCEPT ![n] = Append(@, work[n])]
        /\ status' = [status EXCEPT ![n] = "idle"]
        /\ work' = [work EXCEPT ![n] = NoWork]
        /\ UNCHANGED <<blocks, binary, info, verified, skips, faults>>
    BY <1>3 DEF Commit
  <2>2. /\ versions[n] \in Seq(State) /\ work[n] \in State /\ Height(n) \in Nat
        /\ work[n].height = Height(n) + 1
    BY <1>0, <2>1 DEF TypeOK, Height, DowngradeInv, RunningChecked
  <2>3. Height(n)' = Height(n) + 1 /\ Committed(n)' = work[n]
    BY <1>0, <2>1, <2>2 DEF TypeOK, Height, Committed
  <2>4. \A m \in Nodes \ {n} : /\ Height(m)' = Height(m)
                               /\ Committed(m)' = Committed(m)
                               /\ versions'[m] = versions[m]
                               /\ status'[m] = status[m] /\ work'[m] = work[m]
    BY <1>0, <2>1 DEF TypeOK, Height, Committed
  <2>5. ChainHeight' = ChainHeight /\ ChainHeight \in Nat
    BY <1>0, <2>1 DEF ChainHeight, TypeOK
  <2>6. status'[n] = "idle"
    BY <1>0, <2>1 DEF TypeOK
  <2>7. NodeFollows(n)
    BY <1>0 DEF NodesFollow
  <2>8. ASSUME NEW m \in Nodes PROVE NodeFollows(m)'
    <3>1. CASE m = n
      <4>1. Follows(Committed(m))' /\ MadeBy(m, Committed(m))'
        BY <1>00, <2>1, <2>3, <2>7, <3>1 DEF NodeFollows, Follows, MadeBy
      <4>2. Height(m)' <= ChainHeight'
        BY <2>1, <2>2, <2>3, <2>5, <2>7, <3>1 DEF NodeFollows
      <4>3. QED
        BY <1>00, <2>1, <2>6, <2>7, <3>1, <4>1, <4>2 DEF NodeFollows
    <3>2. CASE m # n
      <4>1. NodeFollows(m)
        BY <1>0 DEF NodesFollow
      <4>2. QED
        BY <1>00, <2>1, <2>4, <2>5, <3>2, <4>1
        DEF NodeFollows, Follows, MadeBy, NotEarly
    <3>3. QED
      BY <3>1, <3>2
  <2>9. EarlyOnlyBehindVote'
    <3>1. SUFFICES ASSUME NEW m \in Nodes, NEW h \in CommittedHeights(m)'
                   PROVE  NotEarly(versions[m][h].code, h)'
      BY DEF EarlyOnlyBehindVote
    <3>2. CASE m = n /\ h = Height(n) + 1
      <4>1. versions'[m][h] = work[n]
        BY <2>2, <2>3, <3>2 DEF Committed, Height
      <4>2. QED
        BY <1>00, <2>1, <2>7, <3>2, <4>1 DEF NodeFollows, NotEarly
    <3>3. CASE ~(m = n /\ h = Height(n) + 1)
      <4>1. h \in CommittedHeights(m) /\ versions'[m][h] = versions[m][h]
        <5>1. CASE m = n
          BY <1>0, <2>1, <2>2, <3>1, <3>3, <5>1 DEF CommittedHeights, Height, TypeOK
        <5>2. CASE m # n
          BY <2>4, <5>2 DEF CommittedHeights
        <5>3. QED
          BY <5>1, <5>2
      <4>2. NotEarly(versions[m][h].code, h)
        BY <1>0, <4>1 DEF NodesFollow, EarlyOnlyBehindVote
      <4>3. QED
        BY <1>00, <4>1, <4>2 DEF NotEarly
    <3>4. QED
      BY <3>2, <3>3
  <2>10. NodesFollow'
    BY <2>8, <2>9 DEF NodesFollow
  <2>11. ProcedureTypeOK' /\ GovKnown'
    BY <1>0, <1>00, <2>1, <2>5 DEF ProcedureTypeOK, GovKnown, TestPlan
  <2>12. ASSUME NEW m \in Nodes
         PROVE  Height(m) \in Nat /\ Height(m)' \in Nat /\ Height(m) <= Height(m)'
    <3>1. Height(m) \in Nat
      BY <1>0 DEF TypeOK, Height
    <3>2. QED
      BY <2>2, <2>3, <2>4, <3>1
  <2>13. ProgramKnows'
    <3>1. UpgradeBlock \in Nat
      BY <1>0, ProcedureTypes
    <3>2. Height(Queried) >= UpgradeBlock => Height(Queried)' >= UpgradeBlock
      BY <1>0, <2>12, <3>1
    <3>3. QED
      BY <1>0, <1>00, <2>5, <3>2 DEF ProgramKnows
  <2>14. QuorumFollows'
    <3>1. \A m \in Nodes : Height(m) + 1 >= ChainHeight => Height(m)' + 1 >= ChainHeight
      BY <2>5, <2>12
    <3>2. QED
      BY <1>0, <2>5, <3>1, ConstantsAssumption DEF QuorumFollows
  <2>15. QED
    BY <2>10, <2>11, <2>13, <2>14 DEF ProcedureInv
<1>4. QED
  BY <1>1, <1>2, <1>3 DEF NodeStep

---------------------------------------------------------------------------
(* What governance and the program do. *)

\* What a block does to the proposal: it starts the voting, ends it when its
\* time has come, or leaves it alone.
LEMMA GovStep ==
  ASSUME ProcedureTypeOK, GovKnown, DowngradeInv,
         NEW txs \in SUBSET TestTxs, NEW good \in SUBSET txs,
         NEW period \in VotingPeriods, DecideBlock(txs, good, period)
  PROVE  /\ gov' \in [status : {"none", "voting", "passed", "failed", "rejected"},
                      end : Nat]
         /\ ChainHeight \in Nat /\ ChainHeight' = ChainHeight + 1
         /\ \/ /\ "submit" \in good /\ gov.status = "none" /\ pc # "submit"
               /\ gov'.status = "voting" /\ gov'.end = ChainHeight + 1 + period
            \/ /\ "submit" \notin good /\ gov' = gov
               /\ gov.status = "voting" => ChainHeight + 1 < gov.end
            \/ /\ "submit" \notin good /\ gov.status = "voting"
               /\ gov.end = ChainHeight + 1 /\ gov'.end = gov.end
               /\ gov'.status = IF "vote" \notin included \cup good THEN "rejected"
                                ELSE IF target >= ChainHeight + 1
                                     THEN "passed" ELSE "failed"
<1>1. /\ blocks \in Seq(Proposals) /\ \E p : blocks' = Append(blocks, p)
      /\ gov' = GovAfter(ChainHeight + 1, good, period)
      /\ txs \subseteq {t \in TestTxs : pool[t] > 0}
  BY DEF DecideBlock, Decide, DowngradeInv, TypeOK
<1>2. ChainHeight \in Nat /\ ChainHeight' = ChainHeight + 1
  BY <1>1 DEF ChainHeight
<1>3. /\ gov \in [status : {"none", "voting", "passed", "failed", "rejected"},
                  end : Nat]
      /\ period \in Nat /\ period > 0 /\ target \in Nat
  BY ProcedureAssumption, ProcedureTypes DEF ProcedureTypeOK
<1>4. CASE "submit" \in good
  <2>1. gov' = [status |-> "voting", end |-> ChainHeight + 1 + period]
    BY <1>1, <1>4 DEF GovAfter
  <2>2. gov.status = "none" /\ pc # "submit"
    <3>1. "submit" \in TestTxs /\ pool["submit"] > 0
      BY <1>1, <1>4
    <3>2. QED
      BY <3>1 DEF GovKnown
  <2>3. QED
    BY <1>2, <1>3, <1>4, <2>1, <2>2
<1>5. CASE "submit" \notin good /\ (gov.status # "voting" \/ ChainHeight + 1 < gov.end)
  BY <1>1, <1>2, <1>3, <1>5 DEF GovAfter
<1>6. CASE /\ "submit" \notin good /\ gov.status = "voting"
           /\ ~(ChainHeight + 1 < gov.end)
  <2> DEFINE st == IF "vote" \notin included \cup good THEN "rejected"
                   ELSE IF target >= ChainHeight + 1 THEN "passed" ELSE "failed"
  <2>1. gov' = [gov EXCEPT !.status = st]
    BY <1>1, <1>6 DEF GovAfter
  <2>2. ChainHeight < gov.end
    BY <1>6 DEF GovKnown
  <2>3. gov.end = ChainHeight + 1
    BY <1>2, <1>3, <1>6, <2>2
  <2>4. QED
    BY <1>2, <1>3, <1>6, <2>1, <2>3
<1>7. QED
  BY <1>4, <1>5, <1>6

\* A block keeps the states of the nodes in step with the vote.
LEMMA BlockStepInv ==
  ASSUME DowngradeInv, ProcedureInv, SomeBlock
  PROVE  ProcedureInv'
<1>0. PICK txs \in SUBSET TestTxs, period \in VotingPeriods :
        \E good \in SUBSET txs : DecideBlock(txs, good, period)
  BY DEF SomeBlock
<1>1. PICK good \in SUBSET txs : DecideBlock(txs, good, period)
  BY <1>0
<1>2. TypeOK /\ ProcedureTypeOK /\ GovKnown /\ NodesFollow /\ ProgramKnows
  BY DEF DowngradeInv, ProcedureInv
<1> DEFINE p == IF gov'.status = "passed" /\ gov.status = "voting"
                THEN [kind |-> "schedule", plan |-> TestPlan]
                ELSE NoProposal
<1>3. /\ p \in Proposals /\ blocks' = Append(blocks, p)
      /\ UNCHANGED <<versions, work, status, binary, info, verified, skips, faults>>
  BY <1>1, <1>2, BlockDecides DEF Decide
<1>4. /\ UNCHANGED <<pc, target, mark>>
      /\ {t \in TestTxs : pool[t] = 2} \subseteq txs
      /\ Busy => lag < MaxLag
      /\ lag' = IF Busy THEN lag + 1 ELSE lag
      /\ included' = included \cup good
      /\ refused' = refused \cup (txs \ good)
      /\ pool' = [t \in TestTxs |->
           IF t \in txs \/ pool[t] = 0 THEN 0 ELSE pool[t] + 1]
  BY <1>1 DEF DecideBlock
<1>5. /\ gov' \in [status : {"none", "voting", "passed", "failed", "rejected"},
                   end : Nat]
      /\ ChainHeight \in Nat /\ ChainHeight' = ChainHeight + 1
      /\ \/ /\ "submit" \in good /\ gov.status = "none" /\ pc # "submit"
            /\ gov'.status = "voting" /\ gov'.end = ChainHeight + 1 + period
         \/ /\ "submit" \notin good /\ gov' = gov
            /\ gov.status = "voting" => ChainHeight + 1 < gov.end
         \/ /\ "submit" \notin good /\ gov.status = "voting"
            /\ gov.end = ChainHeight + 1 /\ gov'.end = gov.end
            /\ gov'.status = IF "vote" \notin included \cup good THEN "rejected"
                             ELSE IF target >= ChainHeight + 1
                                  THEN "passed" ELSE "failed"
  BY <1>1, <1>2, GovStep
<1>6. ProcedureTypeOK'
  <2>1. pool' \in [TestTxs -> 0..2]
    <3>1. \A t \in TestTxs : pool[t] \in 0..2 /\ (pool[t] = 2 => t \in txs)
      BY <1>2, <1>4 DEF ProcedureTypeOK
    <3>2. \A t \in TestTxs :
            (IF t \in txs \/ pool[t] = 0 THEN 0 ELSE pool[t] + 1) \in 0..2
      BY <3>1
    <3>3. QED
      BY <1>4, <3>2
  <2>2. lag' \in 0..MaxLag
    BY <1>2, <1>4, ProcedureTypes DEF ProcedureTypeOK
  <2>3. QED
    BY <1>2, <1>4, <1>5, <2>1, <2>2 DEF ProcedureTypeOK
<1>7. period \in Nat /\ period > 0 /\ target \in Nat /\ target > 0 /\ gov.end \in Nat
  BY <1>2, ProcedureAssumption, ProcedureTypes
<1>8. GovKnown'
  <2>1. (pc = "submit" => gov'.status = "none")
        /\ (pc = "submit" \/ gov'.status # "none" => pool'["submit"] = 0)
    <3>1. "submit" \in TestTxs
      BY DEF TestTxs
    <3>2. "submit" \in txs \/ pool["submit"] = 0 => pool'["submit"] = 0
      BY <1>4, <3>1
    <3>3. QED
      BY <1>2, <1>5, <3>2 DEF GovKnown
  <2>2. gov'.status = "voting" => ChainHeight' < gov'.end
    BY <1>5, <1>7
  <2>3. gov'.status = "passed" =>
          0 < gov'.end /\ gov'.end <= ChainHeight' /\ gov'.end <= target
    BY <1>2, <1>5, <1>7 DEF GovKnown
  <2>4. ASSUME NEW h \in 1..ChainHeight'
        PROVE  blocks'[h] = IF gov'.status = "passed" /\ h = gov'.end
                            THEN [kind |-> "schedule", plan |-> TestPlan]
                            ELSE NoProposal
    <3>1. CASE h = ChainHeight + 1
      <4>1. blocks'[h] = p
        BY <1>2, <1>3, <3>1 DEF TypeOK, ChainHeight
      <4>2. p # NoProposal => gov'.status = "passed" /\ h = gov'.end
        BY <1>5, <3>1
      <4>3. gov'.status = "passed" /\ h = gov'.end => gov.status = "voting"
        BY <1>2, <1>5, <1>7, <3>1 DEF GovKnown
      <4>4. QED
        BY <4>1, <4>2, <4>3
    <3>2. CASE h # ChainHeight + 1
      <4>1. h \in 1..ChainHeight
        BY <1>5, <3>2
      <4>2. blocks'[h] = blocks[h]
        BY <1>2, <1>3, <4>1 DEF TypeOK, ChainHeight
      <4>3. blocks[h] = IF gov.status = "passed" /\ h = gov.end
                        THEN [kind |-> "schedule", plan |-> TestPlan]
                        ELSE NoProposal
        BY <1>2, <4>1 DEF GovKnown
      <4>4. gov'.status = "passed" /\ h = gov'.end <=> gov.status = "passed" /\ h = gov.end
        BY <1>5, <1>7, <4>1
      <4>5. QED
        BY <4>2, <4>3, <4>4
    <3>3. QED
      BY <3>1, <3>2
  <2>5. TestPlan' = TestPlan
    BY <1>4 DEF TestPlan
  <2>6. QED
    BY <1>4, <2>1, <2>2, <2>3, <2>4, <2>5 DEF GovKnown
<1>9. ASSUME NEW s, s.height \in Nat, s.height <= ChainHeight, Follows(s)
      PROVE  /\ \A u \in Names \ {UpgradeName} : s.done[u] = 0
             /\ \/ /\ s.plan = NoPlan /\ s.done[UpgradeName] = 0
                   /\ gov'.status = "passed" => s.height < gov'.end
                \/ /\ s.plan = TestPlan /\ s.done[UpgradeName] = 0
                   /\ gov'.status = "passed" /\ gov'.end <= s.height
                   /\ s.height < UpgradeBlock'
                \/ /\ s.plan = NoPlan /\ s.done[UpgradeName] = UpgradeBlock'
                   /\ gov'.status = "passed" /\ UpgradeBlock' <= s.height
  <2>1. CASE gov' = gov
    <3>1. UpgradeBlock' = UpgradeBlock
      BY <1>4, <2>1 DEF UpgradeBlock
    <3>2. QED
      BY <1>9, <2>1, <3>1 DEF Follows
  <2>2. CASE gov.status # "passed"
    <3>1. s.plan = NoPlan /\ s.done[UpgradeName] = 0
      BY <1>9, <2>2 DEF Follows
    <3>2. gov'.status = "passed" => s.height < gov'.end
      BY <1>5, <1>9, <2>2
    <3>3. QED
      BY <1>9, <3>1, <3>2 DEF Follows
  <2>3. QED
    BY <1>5, <2>1, <2>2
<1>10. TestPlan' = TestPlan
  BY <1>4 DEF TestPlan
<1>11. \A n \in Nodes : /\ Height(n)' = Height(n) /\ Committed(n)' = Committed(n)
                        /\ CommittedHeights(n)' = CommittedHeights(n)
  BY <1>3 DEF Height, Committed, CommittedHeights
<1>12. gov.status = "passed" => gov' = gov /\ UpgradeBlock' = UpgradeBlock
  BY <1>4, <1>5 DEF UpgradeBlock
<1>13. ASSUME NEW b, NEW h, NotEarly(b, h)
       PROVE  b = PostUpgradeVersion =>
                gov'.status = "passed" /\ (h <= gov'.end \/ UpgradeBlock' <= h)
  BY <1>12, <1>13 DEF NotEarly
<1>14. ASSUME NEW n \in Nodes PROVE NodeFollows(n)'
  <2>1. NodeFollows(n)
    BY <1>2 DEF NodesFollow
  <2>2. Height(n) \in Nat
    BY <1>2 DEF TypeOK, Height
  <2>3. Height(n) > 0 => Follows(Committed(n))' /\ MadeBy(n, Committed(n))'
    <3>1. SUFFICES ASSUME Height(n) > 0
                   PROVE  Follows(Committed(n))' /\ MadeBy(n, Committed(n))'
      OBVIOUS
    <3>2. /\ Committed(n).height = Height(n) /\ Follows(Committed(n))
          /\ Height(n) <= ChainHeight
      BY <2>1, <3>1, CommittedOK DEF NodeFollows
    <3>3. Follows(Committed(n))'
      BY <1>9, <1>10, <1>11, <2>2, <3>2 DEF Follows
    <3>4. MadeBy(n, Committed(n))'
      BY <1>3, <1>11, <2>1, <3>1 DEF MadeBy, NodeFollows
    <3>5. QED
      BY <3>3, <3>4
  <2>4. status[n] = "finalized" =>
          /\ Height(n) < ChainHeight
          /\ Follows(work[n])' /\ MadeBy(n, work[n])'
          /\ NotEarly(work[n].code, Height(n) + 1)'
    <3>1. SUFFICES ASSUME status[n] = "finalized"
                   PROVE  /\ Height(n) < ChainHeight
                          /\ Follows(work[n])' /\ MadeBy(n, work[n])'
                          /\ NotEarly(work[n].code, Height(n) + 1)'
      OBVIOUS
    <3>2. /\ Height(n) < ChainHeight /\ Follows(work[n]) /\ MadeBy(n, work[n])
          /\ NotEarly(work[n].code, Height(n) + 1)
      BY <2>1, <3>1 DEF NodeFollows
    <3>3. work[n].height = Height(n) + 1
      BY <3>1 DEF DowngradeInv, RunningChecked
    <3>4. work[n].height \in Nat /\ work[n].height <= ChainHeight
      BY <1>5, <2>2, <3>2, <3>3
    <3>5. Follows(work[n])'
      BY <1>3, <1>9, <1>10, <3>2, <3>4 DEF Follows
    <3>6. MadeBy(n, work[n])'
      BY <1>3, <3>2 DEF MadeBy
    <3>7. NotEarly(work[n].code, Height(n) + 1)'
      BY <1>3, <1>11, <1>13, <3>2 DEF NotEarly
    <3>8. QED
      BY <3>2, <3>5, <3>6, <3>7
  <2>5. binary[n] = PostUpgradeVersion => gov'.status = "passed"
    BY <1>12, <2>1 DEF NodeFollows
  <2>6. Height(n)' <= ChainHeight' /\ (Height(n) < ChainHeight => Height(n)' < ChainHeight')
    BY <1>5, <1>11, <2>1, <2>2 DEF NodeFollows
  <2>7. QED
    BY <1>3, <1>11, <2>1, <2>3, <2>4, <2>5, <2>6 DEF NodeFollows
<1>15. NodesFollow'
  <2>1. EarlyOnlyBehindVote'
    BY <1>2, <1>3, <1>11, <1>13 DEF NodesFollow, EarlyOnlyBehindVote, NotEarly
  <2>2. QED
    BY <1>14, <2>1 DEF NodesFollow
<1>16. QuorumFollows'
  <2>1. PICK Q \in Quorums : \A n \in Q : Height(n) = Len(blocks)
    BY <1>1, <1>2, BlockDecides DEF Decide
  <2>2. Q \subseteq Nodes
    BY ConstantsAssumption
  <2>3. \A n \in Q : Height(n)' + 1 >= ChainHeight'
    BY <1>5, <1>11, <2>1, <2>2 DEF ChainHeight
  <2>4. QED
    BY <2>3 DEF QuorumFollows
<1>17. ProgramKnows'
  <2>1. UpgradeBlock \in Nat /\ Height(Queried)' = Height(Queried)
    BY <1>2, <1>11, ProcedureTypes, ProcedureAssumption
  <2>2. pc = "execute" \/ pc \in {"send", "sent", "done"} => gov.status = "passed"
    BY <1>2 DEF ProgramKnows
  <2>3. pc = "done" => ChainHeight' >= UpgradeBlock + TxBlocks
    BY <1>2, <1>5, <2>1 DEF ProgramKnows, TxBlocks
  <2>4. QED
    BY <1>2, <1>4, <1>12, <2>1, <2>2, <2>3 DEF ProgramKnows
<1>18. QED
  BY <1>6, <1>8, <1>15, <1>16, <1>17 DEF ProcedureInv

\* The height the program is told lies between the one of the node it asks
\* and the chain's.
LEMMA QueriedIsNear ==
  ASSUME TypeOK, NodesFollow
  PROVE  /\ QueriedHeight \in Nat /\ Height(Queried) \in Nat /\ ChainHeight \in Nat
         /\ Height(Queried) <= QueriedHeight /\ QueriedHeight <= ChainHeight
         /\ QueriedHeight <= Height(Queried) + 1
<1>1. NodeFollows(Queried)
  BY ProcedureAssumption DEF NodesFollow
<1>2. Height(Queried) \in Nat /\ ChainHeight \in Nat
  BY ProcedureAssumption DEF TypeOK, Height, ChainHeight
<1>3. Height(Queried) <= ChainHeight
  BY <1>1 DEF NodeFollows
<1>4. QED
  BY <1>2, <1>3 DEF QueriedHeight

\* A step of the program, or a command that does not work, keeps the network
\* in step with the vote.
LEMMA ProgramStepInv ==
  ASSUME DowngradeInv, ProcedureInv, PerformUpgrade \/ CommandFails
  PROVE  ProcedureInv'
<1>1. TypeOK /\ ProcedureTypeOK /\ GovKnown /\ NodesFollow /\ ProgramKnows
  BY DEF DowngradeInv, ProcedureInv
<1>2. UNCHANGED <<blocks, versions, skips>>
  BY <1>1, ProgramOnNodes
<1>3. UNCHANGED <<target, included, refused, gov, lag>>
  BY ProgramFrame DEF CommandFails
<1>4. /\ NodesFollow' /\ QuorumFollows'
      /\ ChainHeight' = ChainHeight /\ ChainHeight \in Nat
      /\ UpgradeBlock' = UpgradeBlock /\ TestPlan' = TestPlan
      /\ \A m \in Nodes : Height(m)' = Height(m)
  <2>1. CASE UNCHANGED <<work, status, binary>>
    BY <1>2, <1>3, <2>1, QuietNetwork
  <2>2. CASE /\ pc = "execute"
             /\ \A n \in Nodes : status'[n] = "down"
             /\ binary' = [n \in Nodes |-> PostUpgradeVersion]
    <3>1. gov.status = "passed"
      BY <1>1, <2>2 DEF ProgramKnows
    <3>2. \A m \in Nodes : status'[m] # "finalized"
      BY <2>2
    <3>3. QED
      BY <1>2, <1>3, <2>2, <3>1, <3>2, QuietNetwork
  <2>3. ASSUME NEW stopped \in SUBSET Nodes, UNCHANGED binary,
               status' = [n \in Nodes |->
                 IF n \in stopped THEN "down" ELSE status[n]],
               work' = [n \in Nodes |->
                 IF n \in stopped THEN NoWork ELSE work[n]]
        PROVE  /\ NodesFollow' /\ QuorumFollows'
               /\ ChainHeight' = ChainHeight /\ ChainHeight \in Nat
               /\ UpgradeBlock' = UpgradeBlock /\ TestPlan' = TestPlan
               /\ \A m \in Nodes : Height(m)' = Height(m)
    <3>1. \A m \in Nodes : status'[m] = "finalized" =>
            status[m] = "finalized" /\ work'[m] = work[m]
      BY <2>3
    <3>2. QED
      BY <1>2, <1>3, <2>3, <3>1, QuietNetwork
  <2>4. QED
    BY <1>1, <2>1, <2>2, <2>3, ProgramOnNodes
<1>5. /\ TestTxs = {"submit", "vote", "send"} /\ 1 \in 0..2
      /\ pool \in [TestTxs -> 0..2] /\ mark \in Nat /\ target \in Nat
      /\ TxBlocks = 2 /\ TxBlocks \in Nat /\ PassBlocks \in Nat /\ PostBlocks \in Nat
      /\ UpgradeBlock \in Nat
  BY <1>1, ProcedureTypes DEF TestTxs, ProcedureTypeOK, TxBlocks
<1>6. /\ QueriedHeight \in Nat /\ Height(Queried) \in Nat
      /\ Height(Queried) <= QueriedHeight /\ QueriedHeight <= ChainHeight
      /\ Queried \in Nodes
  BY <1>1, QueriedIsNear, ProcedureAssumption
<1>7. /\ pc' \in Waiting \cup Working \cup Ended
      /\ mark' \in Nat /\ pool' \in [TestTxs -> 0..2]
      /\ pc' # "submit"
      /\ \/ pc = "submit"
         \/ pool'["submit"] = pool["submit"]
      /\ pc' = "submitted" \/ pool'["submit"] = pool["submit"]
  <2>1. CASE SubmitUpgradeProposal
    BY <1>5, <1>6, <2>1
    DEF SubmitUpgradeProposal, Broadcast, Wait, Waiting, Working, Ended
  <2>2. CASE VoteOnProposal
    BY <1>5, <1>6, <2>2 DEF VoteOnProposal, Broadcast, Wait, Waiting, Working, Ended
  <2>3. CASE VerifyChainFunctionality
    BY <1>5, <1>6, <2>3
    DEF VerifyChainFunctionality, Broadcast, Wait, Waiting, Working, Ended
  <2>4. CASE \/ QueryProposalID \/ WaitForProposalVotingPeriod
             \/ WaitForProposalPass \/ CheckHeight \/ VerifyUpgradeApplied
             \/ ExecuteUpgrade
    BY <1>5, <1>6, <2>4
    DEF QueryProposalID, WaitForProposalVotingPeriod, WaitForProposalPass,
        CheckHeight, VerifyUpgradeApplied, ExecuteUpgrade, Wait, Waiting, Working,
        Ended
  <2>5. CASE CommandFails
    BY <1>5, <2>5 DEF CommandFails, Ended
  <2>6. QED
    BY <2>1, <2>2, <2>3, <2>4, <2>5 DEF PerformUpgrade
<1>8. ProcedureTypeOK'
  BY <1>1, <1>3, <1>7 DEF ProcedureTypeOK
<1>9. GovKnown'
  BY <1>1, <1>2, <1>3, <1>4, <1>7 DEF GovKnown
<1>10. ProgramKnows'
  <2>1. CASE WaitForProposalPass
    BY <1>3, <2>1 DEF WaitForProposalPass, ProgramKnows
  <2>2. CASE VerifyUpgradeApplied
    <3>1. SUFFICES ASSUME pc' = "send"
                   PROVE  gov.status = "passed" /\ Height(Queried) >= UpgradeBlock
      BY <1>3, <1>4, <1>6, <2>2 DEF VerifyUpgradeApplied, ProgramKnows
    <3>2. Height(Queried) > 0 /\ Committed(Queried).done[UpgradeName] > 0
      BY <2>2, <3>1 DEF VerifyUpgradeApplied
    <3>3. Follows(Committed(Queried)) /\ Committed(Queried).height = Height(Queried)
      BY <1>1, <1>6, <3>2, CommittedOK DEF NodesFollow, NodeFollows
    <3>4. gov.status = "passed" /\ UpgradeBlock <= Height(Queried)
      BY <3>2, <3>3 DEF Follows
    <3>5. QED
      BY <1>5, <1>6, <3>4
  <2>3. CASE VerifyChainFunctionality
    <3>1. /\ gov.status = "passed" /\ Height(Queried) >= UpgradeBlock
          /\ pc' \in {"sent", "done", "failed"}
      BY <1>1, <2>3 DEF VerifyChainFunctionality, ProgramKnows
    <3>2. pc' = "sent" => mark' >= UpgradeBlock + TxBlocks
      <4>1. pc' = "sent" => mark' = QueriedHeight + TxBlocks
        BY <2>3 DEF VerifyChainFunctionality, Wait
      <4>2. QED
        BY <1>5, <1>6, <3>1, <4>1
    <3>3. pc' = "done" => ChainHeight >= UpgradeBlock + TxBlocks
      <4>1. pc' = "done" => pc = "sent" /\ QueriedHeight >= mark
        BY <2>3 DEF VerifyChainFunctionality
      <4>2. pc = "sent" => mark >= UpgradeBlock + TxBlocks
        BY <1>1 DEF ProgramKnows
      <4>3. QED
        BY <1>4, <1>5, <1>6, <4>1, <4>2
    <3>4. QED
      BY <1>3, <1>4, <1>6, <3>1, <3>2, <3>3 DEF ProgramKnows
  <2>4. CASE \/ SubmitUpgradeProposal \/ QueryProposalID
             \/ WaitForProposalVotingPeriod \/ VoteOnProposal \/ ExecuteUpgrade
             \/ CheckHeight \/ CommandFails
    <3>1. pc' \notin {"execute", "send", "sent", "done"}
      BY <2>4 DEF SubmitUpgradeProposal, QueryProposalID,
         WaitForProposalVotingPeriod, VoteOnProposal, ExecuteUpgrade,
         CheckHeight, CommandFails
    <3>2. QED
      BY <3>1 DEF ProgramKnows
  <2>5. QED
    BY <2>1, <2>2, <2>3, <2>4 DEF PerformUpgrade
<1>11. QED
  BY <1>4, <1>8, <1>9, <1>10 DEF ProcedureInv

\* Every step of the procedure and its network keeps the invariant.
LEMMA ProcedureStep ==
  DowngradeInv /\ ProcedureInv /\ [ProcedureNext]_<<vars, testVars>> =>
    DowngradeInv' /\ ProcedureInv'
<1> SUFFICES ASSUME DowngradeInv, ProcedureInv, [ProcedureNext]_<<vars, testVars>>
             PROVE  DowngradeInv' /\ ProcedureInv'
  OBVIOUS
<1>1. DowngradeInv'
  BY NetworkStep DEF ProcedureInv
<1>2. CASE PerformUpgrade \/ CommandFails
  BY <1>1, <1>2, ProgramStepInv
<1>3. CASE SomeBlock
  BY <1>1, <1>3, BlockStepInv
<1>4. ASSUME NEW n \in Nodes, SomeNode(n) PROVE ProcedureInv'
  BY <1>4, NodeStepInv DEF SomeNode
<1>5. CASE UNCHANGED <<vars, testVars>>
  <2>1. /\ UNCHANGED <<blocks, versions, work, status, binary, skips>>
        /\ UNCHANGED <<pc, target, mark, pool, included, refused, gov, lag>>
    BY <1>5 DEF vars, testVars
  <2>2. /\ NodesFollow' /\ QuorumFollows' /\ ChainHeight' = ChainHeight
        /\ UpgradeBlock' = UpgradeBlock /\ TestPlan' = TestPlan
        /\ \A m \in Nodes : Height(m)' = Height(m)
    BY <2>1, QuietNetwork
  <2>3. ProcedureTypeOK' /\ GovKnown' /\ ProgramKnows'
    BY <2>1, <2>2, ProcedureAssumption
    DEF ProcedureInv, ProcedureTypeOK, GovKnown, ProgramKnows
  <2>4. QED
    BY <1>1, <2>2, <2>3 DEF ProcedureInv
<1>6. QED
  BY <1>1, <1>2, <1>3, <1>4, <1>5 DEF ProcedureNext

\* It holds at the start.
LEMMA ProcedureStart == TestInit => DowngradeInv /\ ProcedureInv
<1> SUFFICES ASSUME TestInit PROVE DowngradeInv /\ ProcedureInv
  OBVIOUS
<1>1. Init
  BY DEF TestInit
<1>2. TypeOK
  BY <1>1, InitInv DEF Inv
<1>3. \A n \in Nodes : /\ status[n] = "down" /\ Height(n) = 0
                       /\ CommittedHeights(n) = {} /\ skips[n] = {}
                       /\ binary[n] = Genesis
  BY <1>1 DEF Init, Height, CommittedHeights
<1>4. DowngradeInv
  BY <1>2, <1>3
  DEF DowngradeInv, CommittedRecorded, RunningChecked, NoSilentDowngrade
<1>5. ChainHeight = 0
  BY <1>1 DEF Init, ChainHeight
<1>6. ProcedureTypeOK
  BY ProcedureAssumption DEF TestInit, ProcedureTypeOK, Working
<1>7. GovKnown
  BY <1>5 DEF TestInit, GovKnown, TestTxs
<1>8. Genesis # PostUpgradeVersion
  BY UpgradeIsNew, ReleaseHasHandler, ProcedureAssumption
<1>9. NodesFollow
  BY <1>3, <1>5, <1>8 DEF NodesFollow, NodeFollows, EarlyOnlyBehindVote
<1>10. ProgramKnows /\ QuorumFollows
  BY <1>5 DEF TestInit, ProgramKnows, QuorumFollows
<1>11. QED
  BY <1>4, <1>6, <1>7, <1>9, <1>10 DEF ProcedureInv

\* Whatever the periods and waits, every node's state tells where the vote
\* stands, and nodes run the release they were last given.
THEOREM ProcedureInvariance == ProcedureSpec => [](DowngradeInv /\ ProcedureInv)
<1>1. QED
  BY ProcedureStart, ProcedureStep, PTL DEF ProcedureSpec

\* Type correctness of the procedure, its transactions and the proposal.
THEOREM ProcedureTypeCorrect == ProcedureSpec => []ProcedureTypeOK
<1>1. ProcedureInv => ProcedureTypeOK
  BY DEF ProcedureInv
<1>2. QED
  BY <1>1, ProcedureInvariance, PTL

\* When the procedure succeeds, the node it asked and a quorum are past the
\* upgrade, and every node that is past it applied it at the height the vote
\* determines and runs its release: with any nodes, quorums and waits, from any
\* release that lacks the upgrade, also if the binaries are swapped before
\* the nodes have stopped.
THEOREM SuccessExact == ProcedureSpec => []SuccessIsExact
<1>1. ASSUME DowngradeInv, ProcedureInv PROVE SuccessIsExact
  <2>1. SUFFICES ASSUME pc = "done"
                 PROVE  /\ Height(Queried) >= UpgradeBlock
                        /\ \E Q \in Quorums : \A n \in Q : Height(n) >= UpgradeBlock
                        /\ \A n \in Nodes : Height(n) >= UpgradeBlock =>
                             /\ Committed(n).done[UpgradeName] = UpgradeBlock
                             /\ Committed(n).code = PostUpgradeVersion
    BY DEF SuccessIsExact
  <2>2. /\ TypeOK /\ ProcedureTypeOK /\ NodesFollow /\ QuorumFollows
        /\ gov.status = "passed" /\ Height(Queried) >= UpgradeBlock
        /\ ChainHeight >= UpgradeBlock + TxBlocks
    BY <1>1, <2>1 DEF ProcedureInv, ProgramKnows, DowngradeInv
  <2>3. /\ UpgradeBlock \in Nat /\ UpgradeBlock > 0 /\ ChainHeight \in Nat
        /\ gov.end \in Nat /\ target \in Nat
        /\ \A n \in Nodes : Height(n) \in Nat
    BY <2>2, ProcedureTypes DEF TypeOK, ChainHeight, Height
  <2>4. \E Q \in Quorums : \A n \in Q : Height(n) >= UpgradeBlock
    <3>1. PICK Q \in Quorums : \A n \in Q : Height(n) + 1 >= ChainHeight
      BY <2>2, <2>3 DEF QuorumFollows, TxBlocks
    <3>2. Q \subseteq Nodes
      BY ConstantsAssumption
    <3>3. \A n \in Q : Height(n) >= UpgradeBlock
      BY <2>2, <2>3, <3>1, <3>2 DEF TxBlocks
    <3>4. QED
      BY <3>3
  <2>5. ASSUME NEW n \in Nodes, Height(n) >= UpgradeBlock
        PROVE  /\ Committed(n).done[UpgradeName] = UpgradeBlock
               /\ Committed(n).code = PostUpgradeVersion
    <3>1. /\ Committed(n).height = Height(n)
          /\ Follows(Committed(n)) /\ MadeBy(n, Committed(n))
      BY <1>1, <2>2, <2>3, <2>5, CommittedOK DEF NodesFollow, NodeFollows
    <3>2. gov.end <= target
      BY <1>1, <2>2 DEF ProcedureInv, GovKnown
    <3>3. ~(Height(n) < gov.end) /\ ~(Height(n) < UpgradeBlock)
      BY <2>3, <2>5, <3>2 DEF UpgradeBlock
    <3>4. Committed(n).done[UpgradeName] = UpgradeBlock
      BY <2>2, <3>1, <3>3 DEF Follows
    <3>5. QED
      BY <2>3, <3>1, <3>4 DEF MadeBy
  <2>6. QED
    BY <2>2, <2>4, <2>5
<1>2. QED
  BY <1>1, ProcedureInvariance, PTL

\* A binary that a node got too early executes no block between the end of
\* the vote and the upgrade, whatever the lag of the nodes at the swap.
THEOREM NoEarlyBlocks == ProcedureSpec => []EarlyOnlyBehindVote
<1>1. ProcedureInv => EarlyOnlyBehindVote
  BY DEF ProcedureInv, NodesFollow
<1>2. QED
  BY <1>1, ProcedureInvariance, PTL

---------------------------------------------------------------------------
(* The fixed waits. *)

\* The numbers that the timing of the procedure is about.
LEMMA TimingTypes ==
  ASSUME WaitsSuffice, DowngradeInv, ProcedureInv
  PROVE  /\ ChainHeight \in Nat /\ mark \in Nat /\ target \in Nat /\ gov.end \in Nat
         /\ lag \in Nat /\ MaxLag \in Nat /\ lag <= MaxLag
         /\ PassBlocks \in Nat /\ PostBlocks \in Nat /\ PostBlocks >= 2
         /\ \A t \in TestTxs : pool[t] \in 0..2
         /\ \A p \in VotingPeriods :
              p \in Nat /\ MaxLag + 3 <= p /\ p <= PassBlocks
         /\ \A n \in Nodes : Height(n) \in Nat
         /\ TestTxs = {"submit", "vote", "send"} /\ TxBlocks = 2
<1>1. ChainHeight \in Nat /\ \A n \in Nodes : Height(n) \in Nat
  BY DEF DowngradeInv, TypeOK, ChainHeight, Height
<1>2. lag <= MaxLag /\ \A t \in TestTxs : pool[t] \in 0..2
  BY ProcedureTypes DEF ProcedureInv, ProcedureTypeOK
<1>3. \A p \in VotingPeriods :
        p \in Nat /\ MaxLag + 3 <= p /\ p <= PassBlocks
  BY ProcedureTypes, ProcedureAssumption DEF ProcedureInv, WaitsSuffice, TxBlocks
<1>4. QED
  BY <1>1, <1>2, <1>3, ProcedureTypes
  DEF ProcedureInv, WaitsSuffice, TestTxs, TxBlocks

\* A transaction on its way is included within two blocks.
LEMMA WayStep ==
  ASSUME ProcedureTypeOK, NEW t \in TestTxs, NEW h \in Int,
         NEW txs \in SUBSET TestTxs, NEW period,
         DecideBlock(txs, txs, period), OnItsWay(t, h),
         ChainHeight \in Nat, ChainHeight' = ChainHeight + 1
  PROVE  OnItsWay(t, h)'
<1>1. /\ {u \in TestTxs : pool[u] = 2} \subseteq txs
      /\ included' = included \cup txs
      /\ pool' = [u \in TestTxs |->
           IF u \in txs \/ pool[u] = 0 THEN 0 ELSE pool[u] + 1]
  BY DEF DecideBlock
<1>2. CASE t \in included \/ t \in txs
  BY <1>1, <1>2 DEF OnItsWay
<1>3. CASE t \notin included /\ t \notin txs
  <2>1. pool[t] = 1 /\ ChainHeight = h
    BY <1>1, <1>3 DEF OnItsWay
  <2>2. pool'[t] = 2
    BY <1>1, <1>3, <2>1
  <2>3. QED
    BY <2>1, <2>2 DEF OnItsWay
<1>4. QED
  BY <1>2, <1>3

\* While the procedure still has to vote, the voting does not end.
LEMMA VotingGoesOn ==
  ASSUME WaitsSuffice, DowngradeInv, ProcedureInv, Voting,
         NEW h \in Nat, h <= mark + MaxLag
  PROVE  h + TxBlocks <= gov.end
<1>1. PICK p \in VotingPeriods : gov.end \in {mark - 1 + p, mark + p}
  BY DEF Voting
<1>2. p \in Nat /\ MaxLag + 3 <= p /\ mark \in Nat /\ MaxLag \in Nat /\ TxBlocks = 2
  BY TimingTypes
<1>3. QED
  BY <1>1, <1>2

\* When the queried node takes part in every block, the program is told the
\* height of the chain.
LEMMA QueriedIsChain ==
  ASSUME DowngradeInv, ProcedureInv, OnTime
  PROVE  QueriedHeight = ChainHeight
<1>1. ChainHeight <= Height(Queried) + 1
  BY ProcedureAssumption DEF OnTime
<1>2. /\ Height(Queried) \in Nat /\ ChainHeight \in Nat
      /\ Height(Queried) <= ChainHeight
  <2>1. TypeOK /\ NodesFollow
    BY DEF DowngradeInv, ProcedureInv
  <2>2. QED
    BY <2>1, QueriedIsNear
<1>3. QED
  BY <1>1, <1>2 DEF QueriedHeight

\* A block that is decided in time leaves the procedure in time.
LEMMA BlockOnTime ==
  ASSUME WaitsSuffice, DowngradeInv, ProcedureInv, ProcedureInv', OnTime, SomeBlock
  PROVE  OnTime'
<1>0. PICK txs \in SUBSET TestTxs, period \in VotingPeriods :
        \E good \in SUBSET txs : DecideBlock(txs, good, period)
  BY DEF SomeBlock
<1>00. ChainHeight' <= Height(Queried)' + 1
  <2>1. PICK p : Decide(p)
    BY <1>0, BlockDecides DEF ProcedureInv
  <2>2. Height(Queried) = ChainHeight
    BY <2>1 DEF Decide, WaitsSuffice, ChainHeight
  <2>3. Height(Queried)' = Height(Queried)
    BY <2>1 DEF Decide, Height
  <2>4. ChainHeight \in Nat /\ ChainHeight' = ChainHeight + 1
    BY <1>0, GovStep DEF ProcedureInv
  <2>5. QED
    BY <2>2, <2>3, <2>4
<1>000. SUFFICES ASSUME refused' = {} PROVE InTime'
  BY <1>00 DEF OnTime
<1>1. DecideBlock(txs, txs, period) /\ InTime
  <2>1. PICK good \in SUBSET txs : DecideBlock(txs, good, period)
    BY <1>0
  <2>2. refused' = refused \cup (txs \ good)
    BY <2>1 DEF DecideBlock
  <2>3. good = txs /\ refused = {}
    BY <1>000, <2>2
  <2>4. QED
    BY <2>1, <2>3 DEF OnTime
<1>2. ProcedureTypeOK /\ GovKnown /\ lag' \in Nat /\ lag' <= MaxLag
  BY ProcedureTypes DEF ProcedureInv, ProcedureTypeOK
<1>3. /\ UNCHANGED <<pc, target, mark>>
      /\ {t \in TestTxs : pool[t] = 2} \subseteq txs
      /\ lag' = IF Busy THEN lag + 1 ELSE lag
      /\ included' = included \cup txs
      /\ pool' = [t \in TestTxs |->
           IF t \in txs \/ pool[t] = 0 THEN 0 ELSE pool[t] + 1]
  BY <1>1 DEF DecideBlock
<1>4. /\ ChainHeight \in Nat /\ ChainHeight' = ChainHeight + 1
      /\ \/ /\ "submit" \in txs /\ gov.status = "none" /\ pc # "submit"
            /\ gov'.status = "voting" /\ gov'.end = ChainHeight + 1 + period
         \/ /\ "submit" \notin txs /\ gov' = gov
            /\ gov.status = "voting" => ChainHeight + 1 < gov.end
         \/ /\ "submit" \notin txs /\ gov.status = "voting"
            /\ gov.end = ChainHeight + 1 /\ gov'.end = gov.end
            /\ gov'.status = IF "vote" \notin included \cup txs THEN "rejected"
                             ELSE IF target >= ChainHeight + 1
                                  THEN "passed" ELSE "failed"
  BY <1>1, <1>2, GovStep
<1>5. /\ mark \in Nat /\ target \in Nat /\ gov.end \in Nat
      /\ lag \in Nat /\ MaxLag \in Nat /\ PassBlocks \in Nat /\ PostBlocks \in Nat
      /\ TestTxs = {"submit", "vote", "send"} /\ TxBlocks = 2
      /\ period \in Nat
  BY TimingTypes
<1>7. pc \in {"submitted", "poll", "vote"} => ChainHeight' <= mark + lag'
  <2>1. SUFFICES ASSUME pc \in {"submitted", "poll", "vote"}
                 PROVE  ChainHeight' <= mark + lag'
    OBVIOUS
  <2>2. ChainHeight <= mark + lag
    BY <1>1, <2>1 DEF InTime
  <2>3. CASE Busy
    BY <1>3, <1>4, <1>5, <2>2, <2>3
  <2>4. CASE ~Busy
    <3>1. ~(ChainHeight >= mark)
      BY <2>1, <2>4, QueriedIsChain DEF Busy, Waiting, Working
    <3>2. /\ ChainHeight \in Nat /\ mark \in Nat /\ lag' \in Nat
          /\ ChainHeight' = ChainHeight + 1
      BY <1>2, <1>4, <1>5
    <3>3. \A a, b, c \in Nat : ~(a >= b) => a + 1 <= b + c
      OBVIOUS
    <3>4. QED
      BY <3>1, <3>2, <3>3
  <2>5. QED
    BY <2>3, <2>4
<1>8. ASSUME Voting, pc \in {"submitted", "poll", "vote"} PROVE Voting'
  <2>1. ChainHeight + 1 <= mark + MaxLag
    <3>1. /\ ChainHeight + 1 <= mark + lag' /\ lag' \in Nat /\ lag' <= MaxLag
          /\ ChainHeight \in Nat /\ mark \in Nat /\ MaxLag \in Nat
      BY <1>2, <1>4, <1>5, <1>7, <1>8
    <3>2. \A a, b, c, d \in Nat : a + 1 <= b + c /\ c <= d => a + 1 <= b + d
      OBVIOUS
    <3>3. QED
      BY <3>1, <3>2
  <2>2. ChainHeight + 1 < gov.end
    <3>1. ChainHeight + 1 \in Nat
      BY <1>4
    <3>2. ChainHeight + 1 + TxBlocks <= gov.end
      BY <1>8, <2>1, <3>1, VotingGoesOn
    <3>3. QED
      BY <1>4, <1>5, <3>2
  <2>3. gov' = gov
    BY <1>4, <1>8, <2>2 DEF Voting
  <2>4. QED
    BY <1>3, <1>4, <1>5, <1>8, <2>3 DEF Voting
<1>9. pc = "submitted" =>
        \/ Voting'
        \/ gov'.status = "none" /\ pool'["submit"] = 1 /\ ChainHeight' = mark - 2
        \/ gov'.status = "none" /\ pool'["submit"] = 2 /\ ChainHeight' = mark - 1
  <2>1. SUFFICES ASSUME pc = "submitted", ~Voting
                 PROVE  \/ Voting'
                        \/ /\ gov'.status = "none" /\ pool'["submit"] = 2
                           /\ ChainHeight' = mark - 1
    BY <1>8
  <2>2. gov.status = "none"
    BY <1>1, <2>1 DEF InTime
  <2>3. CASE "submit" \in txs
    <3>1. gov'.status = "voting" /\ gov'.end = ChainHeight + 1 + period
      BY <1>4, <2>3
    <3>2. ChainHeight = mark - 2 \/ ChainHeight = mark - 1
      BY <1>1, <2>1 DEF InTime
    <3>3. gov'.end \in {mark - 1 + period, mark + period} /\ mark - 1 <= ChainHeight'
      BY <1>4, <1>5, <3>1, <3>2
    <3>4. QED
      BY <1>3, <2>3, <3>1, <3>3 DEF Voting
  <2>4. CASE "submit" \notin txs
    <3>1. pool["submit"] = 1 /\ ChainHeight = mark - 2
      BY <1>1, <1>3, <1>5, <2>1, <2>4 DEF InTime
    <3>2. pool'["submit"] = 2
      BY <1>3, <1>5, <2>4, <3>1
    <3>3. gov' = gov
      BY <1>4, <2>2, <2>4
    <3>4. QED
      BY <1>4, <1>5, <2>2, <3>1, <3>2, <3>3
  <2>5. QED
    BY <2>3, <2>4
<1>10. pc \in {"poll", "vote"} => Voting' /\ mark <= ChainHeight'
  BY <1>1, <1>4, <1>5, <1>8 DEF InTime
<1>11. pc = "voted" =>
         /\ gov'.status \in {"voting", "passed", "failed"}
         /\ mark - PassBlocks + TxBlocks <= gov'.end /\ gov'.end <= mark
         /\ OnItsWay("vote", mark - PassBlocks)'
  <2>1. SUFFICES ASSUME pc = "voted"
                 PROVE  /\ gov'.status \in {"voting", "passed", "failed"}
                        /\ mark - PassBlocks + TxBlocks <= gov'.end
                        /\ gov'.end <= mark
                        /\ OnItsWay("vote", mark - PassBlocks)'
    OBVIOUS
  <2>2. /\ gov.status \in {"voting", "passed", "failed"}
        /\ mark - PassBlocks + TxBlocks <= gov.end /\ gov.end <= mark
        /\ OnItsWay("vote", mark - PassBlocks)
    BY <1>1, <2>1 DEF InTime
  <2>3. OnItsWay("vote", mark - PassBlocks)'
    <3>1. mark - PassBlocks \in Int /\ "vote" \in TestTxs
      BY <1>5
    <3> DEFINE g == mark - PassBlocks
    <3>2. g \in Int /\ OnItsWay("vote", g) /\ g' = g
      BY <1>3, <2>2, <3>1
    <3> HIDE DEF g
    <3>3. PICK k \in Int : k = g
      BY <3>2
    <3>4. OnItsWay("vote", k)'
      BY <1>1, <1>2, <1>4, <3>1, <3>2, <3>3, WayStep
    <3>5. QED
      BY <3>2, <3>3, <3>4 DEF g
  <2>4. gov.end = ChainHeight + 1 => "vote" \in included \cup txs
    BY <1>3, <1>4, <1>5, <2>2 DEF OnItsWay
  <2>5. QED
    BY <1>4, <1>5, <2>2, <2>3, <2>4
<1>12. gov.status \in {"passed", "failed"} => gov' = gov
  BY <1>4
<1>13. pc = "sent" => OnItsWay("send", mark - TxBlocks)'
  <2>1. SUFFICES ASSUME pc = "sent" PROVE OnItsWay("send", mark - TxBlocks)'
    OBVIOUS
  <2> DEFINE g == mark - TxBlocks
  <2>2. g \in Int /\ OnItsWay("send", g) /\ g' = g /\ "send" \in TestTxs
    BY <1>1, <1>3, <1>5, <2>1 DEF InTime, TxBlocks
  <2> HIDE DEF g
  <2>3. PICK k \in Int : k = g
    BY <2>2
  <2>4. OnItsWay("send", k)'
    BY <1>1, <1>2, <1>4, <2>2, <2>3, WayStep
  <2>5. QED
    BY <2>2, <2>3, <2>4 DEF g
<1>14. /\ pc \in {"execute", "upgraded", "verify", "send", "sent"} =>
             gov'.status = "passed"
       /\ pc = "failed" => gov'.status = "failed"
  BY <1>1, <1>12 DEF InTime
<1>15. /\ pc = "execute" => target <= ChainHeight' \/ target <= mark
       /\ pc = "upgraded" => target + PostBlocks <= mark
       /\ pc = "verify" => target + PostBlocks <= ChainHeight'
  BY <1>1, <1>4, <1>5 DEF InTime
<1>16. QED
  BY <1>1, <1>3, <1>7, <1>9, <1>10, <1>11, <1>13, <1>14, <1>15 DEF InTime, TxBlocks

\* A step of a node leaves the procedure in time.
LEMMA NodeOnTime ==
  ASSUME WaitsSuffice, DowngradeInv, ProcedureInv, OnTime,
         NEW n \in Nodes, NodeStep(n), UNCHANGED testVars
  PROVE  OnTime'
<1>1. TypeOK
  BY DEF DowngradeInv
<1>2. UNCHANGED <<pc, target, mark, pool, included, refused, gov, lag>>
  BY DEF testVars
<1>3. ChainHeight' = ChainHeight /\ ChainHeight \in Nat
  <2>1. blocks' = blocks
    BY DEF NodeStep, NewEnokiApp, InitChain, FinalizeBlock,
       FinalizeSkippedUpgrade, FinalizeUpgrade, HaltForUpgrade, HaltEarly,
       HaltDowngrade, Commit, Halt, Execute
  <2>2. QED
    BY <1>1, <2>1 DEF ChainHeight, TypeOK
<1>4. \A m \in Nodes : Height(m) \in Nat /\ Height(m)' \in Nat /\ Height(m) <= Height(m)'
  <2>1. CASE Commit(n)
    <3>1. \A m \in Nodes : versions[m] \in Seq(State) /\ work[m] \in State
      BY <1>1 DEF TypeOK
    <3>2. \A m \in Nodes :
            versions'[m] = IF m = n THEN Append(versions[m], work[m]) ELSE versions[m]
      BY <1>1, <2>1 DEF Commit, TypeOK
    <3>3. \A q \in Seq(State), r \in State :
            Len(q) \in Nat /\ Len(Append(q, r)) = Len(q) + 1
      OBVIOUS
    <3>4. ASSUME NEW m \in Nodes
          PROVE  /\ Len(versions[m]) \in Nat /\ Len(versions'[m]) \in Nat
                 /\ Len(versions[m]) <= Len(versions'[m])
      <4>1. CASE m = n
        <5>1. Len(versions'[m]) = Len(versions[m]) + 1 /\ Len(versions[m]) \in Nat
          BY <3>1, <3>2, <3>3, <4>1
        <5>2. QED
          BY <5>1
      <4>2. CASE m # n
        BY <3>1, <3>2, <3>3, <4>2
      <4>3. QED
        BY <4>1, <4>2
    <3>5. QED
      BY <3>4 DEF Height
  <2>2. CASE ~Commit(n)
    <3>1. versions' = versions
      BY <2>2 DEF NodeStep, NewEnokiApp, InitChain, FinalizeBlock,
         FinalizeSkippedUpgrade, FinalizeUpgrade, HaltForUpgrade, HaltEarly,
         HaltDowngrade, Halt, Execute
    <3>2. \A m \in Nodes : Height(m) \in Nat /\ Height(m)' = Height(m)
      BY <1>1, <3>1 DEF TypeOK, Height
    <3>3. QED
      BY <3>2
  <2>3. QED
    BY <2>1, <2>2
<1>5. ChainHeight' <= Height(Queried)' + 1
  <2>1. ChainHeight <= Height(Queried) + 1
    BY DEF OnTime
  <2>2. QED
    BY <1>3, <1>4, <2>1, ProcedureAssumption
<1>6. QED
  BY <1>2, <1>3, <1>5 DEF OnTime, InTime, Voting, OnItsWay, TxBlocks

\* After the last wait the queried node has applied the upgrade.
LEMMA QueriedUpgraded ==
  ASSUME WaitsSuffice, DowngradeInv, ProcedureInv, OnTime, InTime, pc = "verify"
  PROVE  Height(Queried) > 0 /\ Committed(Queried).done[UpgradeName] > 0
<1>1. /\ gov.status = "passed" /\ target + PostBlocks <= ChainHeight
      /\ ChainHeight <= Height(Queried) + 1
  BY DEF OnTime, InTime
<1>2. /\ Height(Queried) \in Nat /\ ChainHeight \in Nat /\ target \in Nat
      /\ gov.end \in Nat /\ PostBlocks \in Nat /\ PostBlocks >= 2
  BY TimingTypes, ProcedureAssumption
<1>3. Height(Queried) >= target + 1
  BY <1>1, <1>2
<1>4. gov.end <= target
  BY <1>1 DEF ProcedureInv, GovKnown
<1>5. UpgradeBlock <= Height(Queried) /\ gov.end <= Height(Queried) /\ Height(Queried) > 0
      /\ UpgradeBlock \in Nat /\ UpgradeBlock > 0
  BY <1>2, <1>3, <1>4, ProcedureTypes DEF UpgradeBlock, ProcedureInv
<1>6. Follows(Committed(Queried)) /\ Committed(Queried).height = Height(Queried)
  BY <1>5, CommittedOK, ProcedureAssumption DEF ProcedureInv, NodesFollow, NodeFollows
<1>7. ~(Height(Queried) < gov.end) /\ ~(Height(Queried) < UpgradeBlock)
  BY <1>2, <1>5
<1>8. Committed(Queried).done[UpgradeName] = UpgradeBlock
  BY <1>1, <1>6, <1>7 DEF Follows
<1>9. QED
  BY <1>5, <1>8

\* Each step of the program finds what it waited for.
LEMMA ProgramOnTime ==
  ASSUME WaitsSuffice, DowngradeInv, ProcedureInv, OnTime, PerformUpgrade
  PROVE  OnTime'
<1>0. QueriedHeight = ChainHeight
  BY QueriedIsChain
<1>1. /\ ChainHeight \in Nat /\ mark \in Nat /\ target \in Nat /\ gov.end \in Nat
      /\ lag \in Nat /\ MaxLag \in Nat /\ lag <= MaxLag
      /\ PassBlocks \in Nat /\ PostBlocks \in Nat /\ PostBlocks >= 2
      /\ TestTxs = {"submit", "vote", "send"} /\ TxBlocks = 2
      /\ pool \in [TestTxs -> 0..2]
  BY TimingTypes DEF ProcedureInv, ProcedureTypeOK
<1>2. UNCHANGED <<blocks, versions, target, included, refused, gov, lag>>
  <2>1. TypeOK
    BY DEF DowngradeInv
  <2>2. QED
    BY <2>1, ProgramFrame, ProgramOnNodes
<1>3. ChainHeight' = ChainHeight /\ Height(Queried)' = Height(Queried)
  BY <1>2 DEF ChainHeight, Height
<1>4. ChainHeight' <= Height(Queried)' + 1
  BY <1>3 DEF OnTime
<1>4a. SUFFICES ASSUME refused = {} PROVE InTime'
  BY <1>2, <1>4 DEF OnTime
<1>4b. InTime
  BY <1>4a DEF OnTime
<1>5. GovKnown
  BY DEF ProcedureInv
<1>6. CASE SubmitUpgradeProposal
  <2>1. /\ pc' = "submitted" /\ mark' = ChainHeight + 2
        /\ pool'["submit"] = 1 /\ gov.status = "none"
    BY <1>0, <1>1, <1>5, <1>6
    DEF SubmitUpgradeProposal, Broadcast, Wait, GovKnown
  <2>2. ChainHeight <= mark' + lag /\ ChainHeight = mark' - 2
    BY <1>1, <2>1
  <2>3. QED
    BY <1>2, <1>3, <2>1, <2>2 DEF InTime
<1>7. CASE QueryProposalID
  <2>1. pc = "submitted" /\ ChainHeight >= mark /\ UNCHANGED <<mark, pool>>
        /\ pc' = IF "submit" \in included THEN "poll" ELSE "failed"
    BY <1>0, <1>7 DEF QueryProposalID
  <2>2. ChainHeight # mark - 2 /\ ChainHeight # mark - 1
    BY <1>1, <2>1
  <2>3. Voting /\ ChainHeight <= mark + lag
    BY <1>4b, <2>1, <2>2 DEF InTime
  <2>4. pc' = "poll"
    BY <1>0, <2>1, <2>3 DEF Voting
  <2>5. Voting' /\ mark' <= ChainHeight'
    BY <1>0, <1>1, <1>2, <1>3, <2>1, <2>3 DEF Voting
  <2>6. QED
    BY <1>2, <1>3, <2>1, <2>3, <2>4, <2>5 DEF InTime
<1>8. CASE WaitForProposalVotingPeriod
  <2>1. pc = "poll" /\ UNCHANGED <<mark, pool>>
        /\ pc' = IF gov.status = "voting" THEN "vote" ELSE "failed"
    BY <1>0, <1>8 DEF WaitForProposalVotingPeriod
  <2>2. Voting /\ mark <= ChainHeight /\ ChainHeight <= mark + lag
    BY <1>4b, <2>1 DEF InTime
  <2>3. pc' = "vote"
    BY <1>0, <2>1, <2>2 DEF Voting
  <2>4. Voting'
    BY <1>0, <1>2, <1>3, <2>1, <2>2 DEF Voting
  <2>5. QED
    BY <1>2, <1>3, <2>1, <2>2, <2>3, <2>4 DEF InTime
<1>9. CASE VoteOnProposal
  <2>1. /\ pc = "vote" /\ pc' = "voted" /\ mark' = ChainHeight + PassBlocks
        /\ pool'["vote"] = 1
    BY <1>0, <1>1, <1>9 DEF VoteOnProposal, Broadcast, Wait
  <2>2. Voting /\ mark <= ChainHeight /\ ChainHeight <= mark + lag
    BY <1>4b, <2>1 DEF InTime
  <2>3. ChainHeight <= mark + MaxLag
    BY <1>1, <2>2
  <2>4. ChainHeight + TxBlocks <= gov.end
    BY <1>1, <2>2, <2>3, VotingGoesOn
  <2>5. PICK p \in VotingPeriods : gov.end \in {mark - 1 + p, mark + p}
    BY <1>0, <2>2 DEF Voting
  <2>6. p \in Nat /\ p <= PassBlocks
    BY TimingTypes
  <2>7. gov.end <= mark' /\ mark' - PassBlocks = ChainHeight
    BY <1>1, <2>1, <2>2, <2>5, <2>6
  <2>8. mark' - PassBlocks + TxBlocks <= gov.end
    BY <1>1, <2>4, <2>7
  <2>9. OnItsWay("vote", mark - PassBlocks)'
    BY <1>0, <1>3, <2>1, <2>7 DEF OnItsWay
  <2>10. gov.status = "voting"
    BY <1>0, <2>2 DEF Voting
  <2>11. QED
    BY <1>2, <2>1, <2>7, <2>8, <2>9, <2>10
    DEF InTime, TxBlocks
<1>10. CASE WaitForProposalPass
  <2>1. /\ pc = "voted" /\ ChainHeight >= mark /\ UNCHANGED pool
        /\ IF gov.status = "passed"
           THEN pc' = "execute" /\ mark' = IF ChainHeight < target THEN target ELSE mark
           ELSE pc' = "failed" /\ UNCHANGED mark
    BY <1>0, <1>10 DEF WaitForProposalPass
  <2>2. gov.status \in {"voting", "passed", "failed"} /\ gov.end <= mark
    BY <1>4b, <2>1 DEF InTime
  <2>3. gov.status # "voting"
    <3>1. ~(ChainHeight < gov.end)
      BY <1>1, <2>1, <2>2
    <3>2. QED
      BY <1>0, <1>5, <3>1 DEF GovKnown
  <2>4. gov.status = "passed" => target <= ChainHeight \/ target <= mark'
    BY <1>1, <2>1
  <2>5. QED
    BY <1>2, <1>3, <2>1, <2>2, <2>3, <2>4 DEF InTime
<1>11. CASE ExecuteUpgrade
  <2>1. /\ pc = "execute" /\ ChainHeight >= mark /\ pc' = "upgraded"
        /\ mark' = ChainHeight + PostBlocks
    BY <1>0, <1>11 DEF ExecuteUpgrade, SwapBinaries, Wait
  <2>2. gov.status = "passed" /\ target <= ChainHeight
    BY <1>1, <1>4b, <2>1 DEF InTime
  <2>3. target + PostBlocks <= mark'
    BY <1>1, <2>1, <2>2
  <2>4. QED
    BY <1>2, <2>1, <2>2, <2>3 DEF InTime
<1>12. CASE CheckHeight
  <2>1. /\ pc = "upgraded" /\ ChainHeight >= mark /\ UNCHANGED <<mark, pool>>
        /\ pc' = IF ChainHeight > target THEN "verify" ELSE "failed"
    BY <1>0, <1>12 DEF CheckHeight
  <2>2. gov.status = "passed" /\ target + PostBlocks <= mark
    BY <1>4b, <2>1 DEF InTime
  <2>3. target + PostBlocks <= ChainHeight /\ ChainHeight > target
    BY <1>1, <2>1, <2>2
  <2>4. QED
    BY <1>2, <1>3, <2>1, <2>2, <2>3 DEF InTime
<1>13. CASE VerifyUpgradeApplied
  <2>1. /\ pc = "verify" /\ UNCHANGED <<mark, pool>>
        /\ pc' = IF Height(Queried) > 0 /\ Committed(Queried).done[UpgradeName] > 0
                THEN "send" ELSE "failed"
    BY <1>0, <1>13 DEF VerifyUpgradeApplied
  <2>2. pc' = "send" /\ gov.status = "passed"
    BY <1>4b, <2>1, QueriedUpgraded DEF InTime
  <2>3. QED
    BY <1>2, <2>1, <2>2 DEF InTime
<1>14. CASE VerifyChainFunctionality
  <2>1. CASE pc = "send"
    <3>1. pc' = "sent" /\ mark' = ChainHeight + 2 /\ pool'["send"] = 1
      BY <1>0, <1>1, <1>14, <2>1 DEF VerifyChainFunctionality, Broadcast, Wait
    <3>2. gov.status = "passed"
      BY <1>4b, <2>1 DEF InTime
    <3>3. OnItsWay("send", mark - TxBlocks)'
      <4>1. mark' - 2 = ChainHeight
        BY <1>1, <3>1
      <4>2. QED
        BY <1>0, <1>1, <1>3, <3>1, <4>1 DEF OnItsWay, TxBlocks
    <3>4. QED
      BY <1>2, <3>1, <3>2, <3>3 DEF InTime
  <2>2. CASE pc = "sent"
    <3>1. /\ ChainHeight >= mark
          /\ pc' = IF "send" \in included THEN "done" ELSE "failed"
      BY <1>0, <1>14, <2>2 DEF VerifyChainFunctionality
    <3>2. OnItsWay("send", mark - TxBlocks) /\ gov.status = "passed"
      BY <1>4b, <2>2 DEF InTime
    <3>3. ChainHeight # mark - TxBlocks /\ ChainHeight # mark - TxBlocks + 1
      BY <1>1, <3>1
    <3>4. pc' = "done"
      BY <1>0, <3>1, <3>2, <3>3 DEF OnItsWay
    <3>5. QED
      BY <1>2, <3>2, <3>4 DEF InTime
  <2>3. QED
    BY <1>0, <1>14, <2>1, <2>2 DEF VerifyChainFunctionality
<1>15. QED
  BY <1>0, <1>6, <1>7, <1>8, <1>9, <1>10, <1>11, <1>12, <1>13, <1>14 DEF PerformUpgrade

\* The fixed waits of the procedure suffice when the queried node takes part in
\* every block, the voting period has room for both transactions and the
\* delays, the wait after the vote covers it, and two blocks follow the swap: then, if no transaction is refused, the only
\* way to fail is a planned height that was past when the vote ended.
THEOREM WaitsAreLongEnough ==
  ASSUME WaitsSuffice
  PROVE  ProcedureSpec => []FailsOnlyForPastHeight
<1>1. TestInit => OnTime
  <2> SUFFICES ASSUME TestInit PROVE OnTime
    OBVIOUS
  <2>1. ChainHeight = 0 /\ Height(Queried) = 0
    BY ProcedureAssumption DEF TestInit, Init, ChainHeight, Height
  <2>2. QED
    BY <2>1 DEF TestInit, OnTime, InTime
<1>2. /\ DowngradeInv /\ ProcedureInv /\ (DowngradeInv /\ ProcedureInv)' /\ OnTime
      /\ [ProcedureNext]_<<vars, testVars>>
      => OnTime'
  <2> SUFFICES ASSUME DowngradeInv, ProcedureInv, DowngradeInv', ProcedureInv',
                      OnTime, [ProcedureNext]_<<vars, testVars>>
               PROVE  OnTime'
    OBVIOUS
  <2>1. CASE UNCHANGED <<vars, testVars>>
    <3>1. /\ UNCHANGED <<blocks, versions>>
          /\ UNCHANGED <<pc, target, mark, pool, included, refused, gov, lag>>
      BY <2>1 DEF vars, testVars
    <3>2. ChainHeight' = ChainHeight /\ Height(Queried)' = Height(Queried)
      BY <3>1 DEF ChainHeight, Height
    <3>3. QED
      BY <3>1, <3>2 DEF OnTime, InTime, Voting, OnItsWay, TxBlocks
  <2>2. CASE PerformUpgrade
    BY <2>2, ProgramOnTime
  <2>3. CASE SomeBlock
    BY <2>3, BlockOnTime
  <2>4. ASSUME NEW n \in Nodes, SomeNode(n) PROVE OnTime'
    BY <2>4, NodeOnTime DEF SomeNode
  <2>5. CASE CommandFails
    <3>1. TypeOK
      BY DEF DowngradeInv
    <3>2. UNCHANGED <<blocks, versions, refused>> /\ pc' = "error"
      BY <2>5, <3>1, ProgramOnNodes DEF CommandFails
    <3>3. ChainHeight' = ChainHeight /\ Height(Queried)' = Height(Queried)
      BY <3>2 DEF ChainHeight, Height
    <3>4. InTime'
      BY <3>2 DEF InTime
    <3>5. QED
      BY <3>3, <3>4 DEF OnTime
  <2>6. QED
    BY <2>1, <2>2, <2>3, <2>4, <2>5 DEF ProcedureNext
<1>3. OnTime => FailsOnlyForPastHeight
  BY DEF OnTime, InTime, FailsOnlyForPastHeight
<1>4. QED
  BY <1>1, <1>2, <1>3, ProcedureInvariance, PTL DEF ProcedureSpec
=============================================================================
