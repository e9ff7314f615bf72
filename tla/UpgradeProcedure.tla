-------------------------- MODULE UpgradeProcedure --------------------------
(***************************************************************************)
(* PerformUpgrade of interchaintest/upgrade_helpers.go against the network *)
(* of module Upgrade: one program submits the upgrade proposal, votes,     *)
(* waits for fixed numbers of blocks, sleeps for a fixed time, swaps all   *)
(* binaries and verifies the result, while blocks are decided at their own *)
(* pace.  Blocks and steps of the nodes come in any order with the steps   *)
(* of the program; only the number of blocks it waits for is its own.      *)
(***************************************************************************)
EXTENDS Upgrade

CONSTANTS
  UpgradeName,         \* UpgradeParams.UpgradeName
  PostUpgradeVersion,  \* UpgradeParams.PostUpgradeVersion
  Queried,             \* the one node that is queried (chain.GetNode())
  UpgradeHeights,      \* the heights UpgradeParams.UpgradeHeight may have
  VotingPeriods,       \* blocks that fit in the voting period (VotingPeriod)
  PassBlocks,          \* blocks WaitForProposalPass waits for
  PostBlocks,          \* blocks ExecuteUpgrade waits for at its end
  MaxLag,              \* bound: blocks decided while the program is working
  MaxAfter             \* bound: the last block decided after it has ended

\* Blocks a program waits for its transaction (WaitForBlocks(ctx, 2, chain)).
TxBlocks == 2

ASSUME ProcedureAssumption ==
  /\ UpgradeName \in Names /\ PostUpgradeVersion = ReleaseOf[UpgradeName]
  /\ Queried \in Nodes
  /\ UpgradeHeights \cup VotingPeriods \subseteq Nat \ {0}
  /\ {PassBlocks, PostBlocks, MaxLag, MaxAfter} \subseteq Nat

\* The version before the upgrade does not know it (upgrade_test.go, usage).
ASSUME UpgradeIsNew == UpgradeName \notin Upgrades[Genesis]

\* The proposal of UpgradeParams is one that governance may pass.
ASSUME ScheduleAssumption ==
  \A h \in UpgradeHeights :
    [kind |-> "schedule", plan |-> [name |-> UpgradeName, height |-> h]]
      \in Proposals

VARIABLES
  pc,       \* what PerformUpgrade does next
  target,   \* UpgradeParams.UpgradeHeight
  mark,     \* the height it waits for
  pool,     \* pool[t]: 0 not pending, 1 just broadcast, 2 in every mempool
  included, \* its transactions that a block executed with success
  refused,  \* its transactions that were rejected or failed
  gov,      \* the proposal: its status and the block that ends the voting
  lag       \* blocks decided while the program was working, so far

testVars == <<pc, target, mark, pool, included, refused, gov, lag>>

TestTxs == {"submit", "vote", "send"}
Waiting == {"submitted", "voted", "execute", "upgraded", "sent"}
Working == {"submit", "poll", "vote", "verify", "send"}
\* "failed": what the program found is not what it requires; "error": one of
\* its commands did not work (require.NoError).
Ended == {"done", "failed", "error"}

ProcedureTypeOK ==
  /\ pc \in Waiting \cup Working \cup Ended
  /\ target \in UpgradeHeights
  /\ mark \in Nat
  /\ pool \in [TestTxs -> 0..2]
  /\ included \subseteq TestTxs /\ refused \subseteq TestTxs
  /\ gov \in [status : {"none", "voting", "passed", "failed", "rejected"}, end : Nat]
  /\ lag \in 0..MaxLag

TestInit ==
  /\ Init
  /\ pc = "submit"
  /\ target \in UpgradeHeights
  /\ mark = 0
  /\ pool = [t \in TestTxs |-> 0]
  /\ included = {} /\ refused = {}
  /\ gov = [status |-> "none", end |-> 0]
  /\ lag = 0

ChainHeight == Len(blocks)
\* chain.Height: the last block in the store of the queried node, which has
\* the block it executes before it commits it.
QueriedHeight ==
  IF Height(Queried) < ChainHeight THEN Height(Queried) + 1 ELSE Height(Queried)

\* The program has something to do: it neither waits for a block nor sleeps.
Busy ==
  \/ pc = "submit" /\ QueriedHeight > 0
  \/ pc \in Working \ {"submit"}
  \/ pc \in Waiting \ {"execute"} /\ QueriedHeight >= mark
Broadcast(t) == pool' = [pool EXCEPT ![t] = 1]
Wait(n) == mark' = QueriedHeight + n

\* Mutant: the submission is queried after one block.
SubmitUpgradeProposalHasty ==
  /\ pc = "submit" /\ QueriedHeight > 0
  /\ Broadcast("submit") /\ Wait(1)
  /\ pc' = "submitted"
  /\ UNCHANGED <<vars, target, included, refused, gov, lag>>

\* SubmitUpgradeProposal, up to its wait, on a chain that is running.
SubmitUpgradeProposal ==
  /\ pc = "submit" /\ QueriedHeight > 0
  /\ Broadcast("submit") /\ Wait(TxBlocks)
  /\ pc' = "submitted"
  /\ UNCHANGED <<vars, target, included, refused, gov, lag>>

\* Its rest: the proposal's number is read from the included transaction.
QueryProposalID ==
  /\ pc = "submitted" /\ QueriedHeight >= mark
  /\ pc' = IF "submit" \in included THEN "poll" ELSE "failed"
  /\ UNCHANGED <<vars, target, mark, pool, included, refused, gov, lag>>

\* Ten polls are one: an ended voting period does not start again.
WaitForProposalVotingPeriod ==
  /\ pc = "poll"
  /\ pc' = IF gov.status = "voting" THEN "vote" ELSE "failed"
  /\ UNCHANGED <<vars, target, mark, pool, included, refused, gov, lag>>

VoteOnProposal ==
  /\ pc = "vote"
  /\ Broadcast("vote") /\ Wait(PassBlocks)
  /\ pc' = "voted"
  /\ UNCHANGED <<vars, target, included, refused, gov, lag>>

\* Mutant: the planned height is not waited for.
WaitForProposalPassOnly ==
  /\ pc = "voted" /\ QueriedHeight >= mark
  /\ pc' = IF gov.status = "passed" THEN "execute" ELSE "failed"
  /\ UNCHANGED <<vars, target, mark, pool, included, refused, gov, lag>>

\* The proposal must have passed; ExecuteUpgrade then reads the height and
\* waits for the blocks that are missing.
WaitForProposalPass ==
  /\ pc = "voted" /\ QueriedHeight >= mark
  /\ IF gov.status = "passed"
     THEN pc' = "execute" /\ mark' = IF QueriedHeight < target THEN target ELSE mark
     ELSE pc' = "failed" /\ UNCHANGED mark
  /\ UNCHANGED <<vars, target, pool, included, refused, gov, lag>>

\* All nodes are stopped, in whatever state they are, get the new version
\* and are started again.
SwapBinaries ==
  /\ status' = [n \in Nodes |-> "down"]
  /\ work' = [n \in Nodes |-> NoWork]
  /\ binary' = [n \in Nodes |-> PostUpgradeVersion]
  /\ UNCHANGED <<blocks, versions, info, verified, skips, faults>>

\* The sleep before the swap ends at any time: nothing makes the program wait
\* until the nodes have stopped for the upgrade.
ExecuteUpgrade ==
  /\ pc = "execute" /\ QueriedHeight >= mark
  /\ SwapBinaries
  /\ Wait(PostBlocks)
  /\ pc' = "upgraded"
  /\ UNCHANGED <<target, pool, included, refused, gov, lag>>

\* The end of ExecuteUpgrade.
CheckHeight ==
  /\ pc = "upgraded" /\ QueriedHeight >= mark
  /\ pc' = IF QueriedHeight > target THEN "verify" ELSE "failed"
  /\ UNCHANGED <<vars, target, mark, pool, included, refused, gov, lag>>

VerifyUpgradeApplied ==
  /\ pc = "verify"
  /\ pc' = IF Height(Queried) > 0 /\ Committed(Queried).done[UpgradeName] > 0
           THEN "send" ELSE "failed"
  /\ UNCHANGED <<vars, target, mark, pool, included, refused, gov, lag>>

\* VerifyChainFunctionality: a transfer, and its effect two blocks later.
VerifyChainFunctionality ==
  \/ /\ pc = "send"
     /\ Broadcast("send") /\ Wait(TxBlocks)
     /\ pc' = "sent"
     /\ UNCHANGED <<vars, target, included, refused, gov, lag>>
  \/ /\ pc = "sent" /\ QueriedHeight >= mark
     /\ pc' = IF "send" \in included THEN "done" ELSE "failed"
     /\ UNCHANGED <<vars, target, mark, pool, included, refused, gov, lag>>

PerformUpgrade ==
  \/ SubmitUpgradeProposal \/ QueryProposalID \/ WaitForProposalVotingPeriod
  \/ VoteOnProposal \/ WaitForProposalPass \/ ExecuteUpgrade \/ CheckHeight
  \/ VerifyUpgradeApplied \/ VerifyChainFunctionality

\* A command of the program does not work.  While the binaries are swapped
\* it leaves some nodes stopped, or all of them stopped with the new version
\* of which any may have been started.
CommandFails ==
  /\ pc \notin Ended /\ pc' = "error"
  /\ \/ UNCHANGED vars
     \/ /\ pc = "execute" /\ QueriedHeight >= mark
        /\ \/ SwapBinaries
           \/ \E stopped \in SUBSET Nodes :
                /\ status' = [n \in Nodes |-> IF n \in stopped THEN "down" ELSE status[n]]
                /\ work' = [n \in Nodes |-> IF n \in stopped THEN NoWork ELSE work[n]]
                /\ UNCHANGED <<blocks, versions, binary, info, verified, skips, faults>>
  /\ UNCHANGED <<target, mark, pool, included, refused, gov, lag>>

(***************************************************************************)
(* The chain.  A block includes what was in every mempool before it was    *)
(* proposed and may miss what was broadcast while it was being decided.    *)
(* A transaction may fail in its block, as when the gas price has moved    *)
(* since it was queried; one that the mempool rejects has no effect either.*)
(* Governance counts the one validator's vote when the period ends and     *)
(* executes the plan, which fails when its height is in the past.          *)
(***************************************************************************)
GovAfter(h, txs, period) ==
  IF "submit" \in txs THEN [status |-> "voting", end |-> h + period]
  ELSE IF gov.status # "voting" \/ h < gov.end THEN gov
  ELSE [gov EXCEPT !.status =
         IF "vote" \notin included \cup txs THEN "rejected"
         ELSE IF target >= h THEN "passed" ELSE "failed"]

\* Mutant: a transaction can wait in the mempool for ever.
DecideBlockStarving(txs, good, period) ==
  /\ txs \subseteq {t \in TestTxs : pool[t] > 0}
  /\ good \subseteq txs
  /\ Busy => lag < MaxLag
  /\ pc \in Ended => ChainHeight < MaxAfter
  /\ lag' = IF Busy THEN lag + 1 ELSE lag
  /\ included' = included \cup good
  /\ refused' = refused \cup (txs \ good)
  /\ pool' = [t \in TestTxs |->
       IF t \in txs \/ pool[t] = 0 THEN 0 ELSE pool[t] + 1]
  /\ gov' = GovAfter(ChainHeight + 1, good, period)
  /\ Decide(IF gov'.status = "passed" /\ gov.status = "voting"
            THEN [kind |-> "schedule",
                  plan |-> [name |-> UpgradeName, height |-> target]]
            ELSE NoProposal)
  /\ UNCHANGED <<pc, target, mark>>

DecideBlock(txs, good, period) ==
  /\ {t \in TestTxs : pool[t] = 2} \subseteq txs
  /\ txs \subseteq {t \in TestTxs : pool[t] > 0}
  /\ good \subseteq txs
  /\ Busy => lag < MaxLag
  /\ pc \in Ended => ChainHeight < MaxAfter
  /\ lag' = IF Busy THEN lag + 1 ELSE lag
  /\ included' = included \cup good
  /\ refused' = refused \cup (txs \ good)
  /\ pool' = [t \in TestTxs |->
       IF t \in txs \/ pool[t] = 0 THEN 0 ELSE pool[t] + 1]
  /\ gov' = GovAfter(ChainHeight + 1, good, period)
  /\ Decide(IF gov'.status = "passed" /\ gov.status = "voting"
            THEN [kind |-> "schedule",
                  plan |-> [name |-> UpgradeName, height |-> target]]
            ELSE NoProposal)
  /\ UNCHANGED <<pc, target, mark>>

SomeBlock ==
  \E txs \in SUBSET TestTxs, period \in VotingPeriods :
    \E good \in SUBSET txs : DecideBlock(txs, good, period)
SomeNode(n) == NodeStep(n) /\ UNCHANGED testVars

ProcedureNext ==
  PerformUpgrade \/ CommandFails \/ SomeBlock \/ \E n \in Nodes : SomeNode(n)

\* The program, consensus and the started processes go on.
ProcedureSpec ==
  /\ TestInit
  /\ [][ProcedureNext]_<<vars, testVars>>
  /\ WF_<<vars, testVars>>(PerformUpgrade)
  /\ WF_<<vars, testVars>>(SomeBlock)
  /\ \A n \in Nodes : WF_<<vars, testVars>>(SomeNode(n))

(***************************************************************************)
(* Properties.                                                             *)
(***************************************************************************)
\* The height of the block that applies the upgrade of a passed proposal: the
\* planned one, or the next if the vote ended in the block of that height.
UpgradeBlock == IF gov.end < target THEN target ELSE target + 1

\* When the procedure reports success, the queried node and the nodes of a
\* quorum are past the upgrade, and every node that is past it applied it in
\* the block that was due for it and runs the new release, in whatever state
\* the nodes were when their binaries were swapped (PerformUpgrade).
SuccessIsExact ==
  pc = "done" =>
    /\ Height(Queried) >= UpgradeBlock
    /\ \E Q \in Quorums : \A n \in Q : Height(n) >= UpgradeBlock
    /\ \A n \in Nodes : Height(n) >= UpgradeBlock =>
         /\ Committed(n).done[UpgradeName] = UpgradeBlock
         /\ Committed(n).code = PostUpgradeVersion

\* Release b runs the block of height h no earlier than it may: if it is the
\* new one, the proposal has passed and the block does not lie between the
\* one that ends the vote and the one that applies the upgrade.
NotEarly(b, h) ==
  b = PostUpgradeVersion =>
    gov.status = "passed" /\ (h <= gov.end \/ UpgradeBlock <= h)

\* A binary that is swapped before its node stopped executes blocks of the
\* past only on a node that lags behind the end of the vote, and never one
\* between that block and the upgrade: the plan stops it (ExecuteUpgrade, the
\* pre-blocker).
EarlyOnlyBehindVote ==
  \A n \in Nodes : \A h \in CommittedHeights(n) : NotEarly(versions[n][h].code, h)

\* The fixed waits are long enough: the submission is found, the vote counts,
\* the voting is over when its result is read and the transfer arrives.  If
\* no transaction was refused, the only way for the program to find something
\* else is a planned height that was past when the vote ended.
FailsOnlyForPastHeight ==
  pc = "failed" /\ refused = {} => gov.status = "failed"

\* A planned height that leaves room for all the waits before it is always
\* survived by a release that adds no store: the chain halts there, is upgraded
\* and goes on, and the procedure ends with success, also when the sleep was
\* too short for a node to stop.  Only a refused transaction or a command that
\* does not work prevents it (PerformUpgrade, ExecuteUpgrade).
Completes ==
  \A h \in UpgradeHeights : h >= 1 + TxBlocks + PassBlocks + MaxLag =>
    (target = h ~> pc \in {"done", "error"} \/ refused # {})

(***************************************************************************)
(* Inductive strengthenings.                                               *)
(***************************************************************************)
TestPlan == [name |-> UpgradeName, height |-> target]
\* The proposal goes through its stages once, and the block that ends its
\* voting schedules the plan when it passed.
GovKnown ==
  /\ pc = "submit" => gov.status = "none"
  /\ pc = "submit" \/ gov.status # "none" => pool["submit"] = 0
  /\ gov.status = "voting" => ChainHeight < gov.end
  /\ gov.status = "passed" =>
       0 < gov.end /\ gov.end <= ChainHeight /\ gov.end <= target
  /\ \A h \in 1..ChainHeight :
       blocks[h] = IF gov.status = "passed" /\ h = gov.end
                   THEN [kind |-> "schedule", plan |-> TestPlan]
                   ELSE NoProposal

\* State s stands before the vote's end, before the upgrade or after it.
Follows(s) ==
  /\ \A u \in Names \ {UpgradeName} : s.done[u] = 0
  /\ \/ /\ s.plan = NoPlan /\ s.done[UpgradeName] = 0
        /\ gov.status = "passed" => s.height < gov.end
     \/ /\ s.plan = TestPlan /\ s.done[UpgradeName] = 0
        /\ gov.status = "passed" /\ gov.end <= s.height
        /\ s.height < UpgradeBlock
     \/ /\ s.plan = NoPlan /\ s.done[UpgradeName] = UpgradeBlock
        /\ gov.status = "passed" /\ UpgradeBlock <= s.height

\* A state after the upgrade was made by the new release, which node n has.
MadeBy(n, s) ==
  s.done[UpgradeName] > 0 =>
    s.code = PostUpgradeVersion /\ binary[n] = PostUpgradeVersion

NodeFollows(n) ==
  /\ skips[n] = {}
  /\ binary[n] \in {Genesis, PostUpgradeVersion}
  /\ binary[n] = PostUpgradeVersion => gov.status = "passed"
  /\ Height(n) <= ChainHeight
  /\ Height(n) > 0 => Follows(Committed(n)) /\ MadeBy(n, Committed(n))
  /\ status[n] = "finalized" =>
       /\ Height(n) < ChainHeight
       /\ Follows(work[n]) /\ MadeBy(n, work[n])
       /\ NotEarly(work[n].code, Height(n) + 1)

NodesFollow == EarlyOnlyBehindVote /\ \A n \in Nodes : NodeFollows(n)

\* The nodes of a quorum have executed all blocks but the last.
QuorumFollows ==
  ChainHeight > 0 => \E Q \in Quorums : \A n \in Q : Height(n) + 1 >= ChainHeight

\* What has been verified of the queried node stays true, and two more blocks
\* are waited for.
ProgramKnows ==
  /\ pc = "execute" => gov.status = "passed"
  /\ pc \in {"send", "sent", "done"} =>
       gov.status = "passed" /\ Height(Queried) >= UpgradeBlock
  /\ pc = "sent" => mark >= UpgradeBlock + TxBlocks
  /\ pc = "done" => ChainHeight >= UpgradeBlock + TxBlocks

ProcedureInv ==
  /\ ProcedureTypeOK
  /\ GovKnown
  /\ NodesFollow
  /\ QuorumFollows
  /\ ProgramKnows

\* What the fixed waits must satisfy: the queried node has to take part in
\* every block, the voting period has room for the blocks between the two
\* transactions and for the vote's own, and the wait after the vote covers it.
WaitsSuffice ==
  /\ \A Q \in Quorums : Queried \in Q
  /\ \A p \in VotingPeriods : TxBlocks + MaxLag + 1 <= p /\ p <= PassBlocks
  /\ PostBlocks >= 2

\* The submission is in a block, and the voting lasts long enough.
Voting ==
  /\ "submit" \in included /\ gov.status = "voting"
  /\ mark - 1 <= ChainHeight
  /\ \E p \in VotingPeriods : gov.end \in {mark - 1 + p, mark + p}

\* Transaction t, broadcast at height h, is in a block or will be soon.
OnItsWay(t, h) ==
  \/ t \in included
  \/ pool[t] = 1 /\ ChainHeight = h
  \/ pool[t] = 2 /\ ChainHeight = h + 1

\* Where the procedure stands, what has happened on the chain in time if no
\* transaction was refused.
InTime ==
  /\ pc \in {"submitted", "poll", "vote"} => ChainHeight <= mark + lag
  /\ pc = "submitted" =>
       \/ Voting
       \/ gov.status = "none" /\ pool["submit"] = 1 /\ ChainHeight = mark - 2
       \/ gov.status = "none" /\ pool["submit"] = 2 /\ ChainHeight = mark - 1
  /\ pc \in {"poll", "vote"} => Voting /\ mark <= ChainHeight
  /\ pc = "voted" =>
       /\ gov.status \in {"voting", "passed", "failed"}
       /\ mark - PassBlocks + TxBlocks <= gov.end /\ gov.end <= mark
       /\ OnItsWay("vote", mark - PassBlocks)
  /\ pc \in {"execute", "upgraded", "verify", "send", "sent"} =>
       gov.status = "passed"
  /\ pc = "execute" => target <= ChainHeight \/ target <= mark
  /\ pc = "upgraded" => target + PostBlocks <= mark
  /\ pc = "verify" => target + PostBlocks <= ChainHeight
  /\ pc = "sent" => OnItsWay("send", mark - TxBlocks)
  /\ pc = "failed" => gov.status = "failed"
OnTime ==
  /\ ChainHeight <= Height(Queried) + 1
  /\ refused = {} => InTime
=============================================================================
