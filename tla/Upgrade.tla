------------------------------ MODULE Upgrade ------------------------------
(***************************************************************************)
(* The on-chain software upgrade of an Enoki network.                      *)
(*                                                                         *)
(* Every node runs one release of enokid.  NewEnokiApp (app/app.go)        *)
(* registers the handlers of app/upgrades.go, chooses the store loader     *)
(* from the upgrade-info file and loads the last committed version.  Each  *)
(* block then starts with the pre-blocker of x/upgrade, which may stop the *)
(* node, run the migrations of a due plan, or let the block through.       *)
(* Operators stop nodes and replace binaries as interchaintest's           *)
(* ExecuteUpgrade does.  Consensus is abstracted to one sequence of        *)
(* decided blocks, executed by every node at its own pace.                 *)
(***************************************************************************)
EXTENDS Integers, Sequences, FiniteSets

CONSTANTS
  Nodes,        \* the nodes of the network
  Quorums,      \* the sets of nodes that can decide a block
  Releases,     \* the released binaries
  Genesis,      \* the release the chain is started with
  Names,        \* upgrade names (UpgradeName)
  None,         \* the empty upgrade name
  Upgrades,     \* Upgrades[b]: the names in the Upgrades list of release b
  ReleaseOf,    \* ReleaseOf[u]: the release published for upgrade u
  Modules,      \* module names
  VersionMap,   \* VersionMap[b][m]: ConsensusVersion of m in b, 0 if absent
  StoreKeys,    \* names of KV stores
  Stores,       \* Stores[b]: the stores release b mounts
  Added,        \* Added[u]: StoreUpgrades.Added of upgrade u
  SkipHeights,  \* the heights whose upgrade the operators agree to skip
  Proposals,    \* what a passed governance proposal may do to the plan
  MaxHeight,    \* bound: height of the last decided block
  MaxFaults     \* bound: crashes plus premature binary swaps

Plan == [name : Names \cup {None}, height : Nat]
NoPlan == [name |-> None, height |-> 0]
Proposal == [kind : {"none", "schedule", "cancel"}, plan : Plan]
NoProposal == [kind |-> "none", plan |-> NoPlan]

ASSUME ConstantsAssumption ==
  /\ Nodes # {}
  /\ Quorums \subseteq SUBSET Nodes
  /\ Genesis \in Releases
  /\ None \notin Names
  /\ Upgrades \in [Releases -> SUBSET Names]
  /\ ReleaseOf \in [Names -> Releases]
  /\ VersionMap \in [Releases -> [Modules -> Nat]]
  /\ Stores \in [Releases -> SUBSET StoreKeys]
  /\ Added \in [Names -> SUBSET StoreKeys]
  /\ SkipHeights \subseteq Nat
  /\ Proposals \subseteq Proposal
  /\ NoProposal \in Proposals
  /\ \A p \in Proposals :
       p.kind = "schedule" => p.plan.name \in Names /\ p.plan.height > 0
  /\ MaxHeight \in Nat
  /\ MaxFaults \in Nat

\* A release published for an upgrade has that upgrade in its list.
ASSUME ReleaseHasHandler == \A u \in Names : u \in Upgrades[ReleaseOf[u]]

\* The list only grows (app/upgrades.go:15-18) and module versions never go
\* down: a release published for an upgrade that release c lacks is later
\* than c.
ASSUME ReleasesGrow ==
  \A c \in Releases, u \in Names : u \notin Upgrades[c] =>
    /\ Upgrades[c] \subseteq Upgrades[ReleaseOf[u]]
    /\ \A m \in Modules : VersionMap[c][m] <= VersionMap[ReleaseOf[u]][m]

\* The list of stores an upgrade adds (StoreUpgrades.Added in app/upgrades.go)
\* is complete: its release mounts no other store that a release without the
\* upgrade may lack.
ASSUME StoresListed ==
  \A c \in Releases, u \in Names : u \notin Upgrades[c] =>
    Stores[ReleaseOf[u]] \subseteq Stores[c] \cup Added[u]

VARIABLES
  blocks,    \* decided blocks: blocks[h] is what governance does at height h
  versions,  \* versions[n][h]: the state node n committed at height h
  work,      \* work[n]: the state of the block being executed, not committed
  status,    \* status[n]: running, or why the process is down
  binary,    \* binary[n]: the installed release
  info,      \* info[n]: the upgrade-info file in the node's home
  verified,  \* verified[n]: downgradeVerified of the running UpgradeKeeper
  skips,     \* skips[n]: skipUpgradeHeights, from --unsafe-skip-upgrades
  faults     \* crashes and premature swaps so far

vars ==
  <<blocks, versions, work, status, binary, info, verified, skips, faults>>

(***************************************************************************)
(* The application state, as far as upgrades see it.  "code" is the        *)
(* release whose logic produced the state: two nodes that executed a       *)
(* height with different releases have different application hashes.       *)
(* "schema" is the layout the modules' data really has, "vm" the layout    *)
(* x/upgrade believes it has, "inits" counts InitGenesis of each module.   *)
(***************************************************************************)
State == [height : Nat, plan : Plan, done : [Names -> Nat],
          vm : [Modules -> Nat], schema : [Modules -> Nat],
          inits : [Modules -> Nat], stores : SUBSET StoreKeys,
          code : Releases]

Running == {"idle", "inited", "finalized"}
Stopped == {"down", "needUpgrade", "early", "downgrade", "loadFail"}

TypeOK ==
  /\ blocks \in Seq(Proposals)
  /\ versions \in [Nodes -> Seq(State)]
  /\ work \in [Nodes -> State]
  /\ status \in [Nodes -> Running \cup Stopped]
  /\ binary \in [Nodes -> Releases]
  /\ info \in [Nodes -> Plan]
  /\ verified \in [Nodes -> BOOLEAN]
  /\ skips \in [Nodes -> SUBSET SkipHeights]
  /\ faults \in Nat

(***************************************************************************)
(* InitChainer stores the version map of the running binary before it      *)
(* initialises the modules, so that the first upgrade migrates them.       *)
(***************************************************************************)
Present(b, m) == VersionMap[b][m] > 0

\* Mutant: the version map is not stored at genesis.
InitChainerNoVersionMap(b) ==
  [height |-> 0, plan |-> NoPlan, done |-> [u \in Names |-> 0],
   vm |-> [m \in Modules |-> 0], schema |-> VersionMap[b],
   inits |-> [m \in Modules |-> IF Present(b, m) THEN 1 ELSE 0],
   stores |-> Stores[b], code |-> b]

InitChainer(b) ==
  [height |-> 0, plan |-> NoPlan, done |-> [u \in Names |-> 0],
   vm |-> VersionMap[b], schema |-> VersionMap[b],
   inits |-> [m \in Modules |-> IF Present(b, m) THEN 1 ELSE 0],
   stores |-> Stores[b], code |-> b]

\* The value of work[n] when no block is being executed.
NoWork == InitChainer(Genesis)

Height(n) == Len(versions[n])
Committed(n) == versions[n][Height(n)]
\* The state the next block is executed on: after InitChain the genesis state
\* is still uncommitted.
Base(n) == IF Height(n) = 0 THEN work[n] ELSE Committed(n)

Init ==
  /\ blocks = <<>>
  /\ versions = [n \in Nodes |-> <<>>]
  /\ work = [n \in Nodes |-> NoWork]
  /\ status = [n \in Nodes |-> "down"]
  /\ binary = [n \in Nodes |-> Genesis]
  /\ info = [n \in Nodes |-> NoPlan]
  /\ verified = [n \in Nodes |-> FALSE]
  /\ skips = [n \in Nodes |-> {}]
  /\ faults = 0

(***************************************************************************)
(* Start of the process: RegisterUpgradeHandlers, then LoadLatestVersion.  *)
(***************************************************************************)
HasHandler(b, u) == u \in Upgrades[b]
\* Mutant: any --unsafe-skip-upgrades flag skips every upgrade.
IsSkipHeightAny(n, h) == skips[n] # {}
IsSkipHeight(n, h) == h \in skips[n]

\* The stores the loader adds.  The handler for the name in the upgrade-info
\* file must be registered and its height not skipped; UpgradeStoreLoader
\* only acts when the file's height is the next one to be executed.
LoaderAdds(n) ==
  LET file == info[n] IN
  IF /\ ~IsSkipHeight(n, file.height)
     /\ HasHandler(binary[n], file.name)
     /\ file.height = Height(n) + 1
  THEN Added[file.name]
  ELSE {}

\* Every mounted store must have the version being loaded or be added.
LoadSucceeds(n) ==
  \/ Height(n) = 0
  \/ Stores[binary[n]] \ LoaderAdds(n) \subseteq Committed(n).stores

\* Mutant: the downgrade check is remembered over a restart.
NewEnokiAppKeepsVerified(n) ==
  /\ status[n] = "down"
  /\ status' = [status EXCEPT ![n] =
       IF LoadSucceeds(n) THEN "idle" ELSE "loadFail"]
  /\ UNCHANGED <<blocks, versions, work, binary, info, verified, skips, faults>>

NewEnokiApp(n) ==
  /\ status[n] = "down"
  /\ status' = [status EXCEPT ![n] =
       IF LoadSucceeds(n) THEN "idle" ELSE "loadFail"]
  /\ verified' = [verified EXCEPT ![n] = FALSE]
  /\ UNCHANGED <<blocks, versions, work, binary, info, skips, faults>>

InitChain(n) ==
  /\ status[n] = "idle" /\ Height(n) = 0
  /\ status' = [status EXCEPT ![n] = "inited"]
  /\ work' = [work EXCEPT ![n] = InitChainer(binary[n])]
  /\ UNCHANGED <<blocks, versions, binary, info, verified, skips, faults>>

(***************************************************************************)
(* The pre-blocker of x/upgrade.                                           *)
(***************************************************************************)
\* Mutant: the upgrade is executed one block late.
ShouldExecuteLate(plan, h) == plan.height > 0 /\ plan.height < h
ShouldExecute(plan, h) == plan.height > 0 /\ plan.height <= h

Due(s) == ShouldExecute(s.plan, s.height + 1)

LastApplied(s) ==
  {u \in Names : s.done[u] > 0 /\ \A v \in Names : s.done[v] <= s.done[u]}

\* The first block of a process checks that the binary knows the upgrade
\* that was applied last, unless this block applies one.
WrongAppVersion(n, s) ==
  /\ ~verified[n]
  /\ ~Due(s) \/ IsSkipHeight(n, s.height + 1)
  /\ \E u \in LastApplied(s) : ~HasHandler(binary[n], u)

\* Mutant: a handler that only announces its upgrade.
RunMigrationsNone(s, b) == s

\* RunMigrations: a module unknown to the version map is initialised, one
\* with an older version is migrated step by step to the binary's.
RunMigrations(s, b) ==
  LET missing == {m \in Modules : Present(b, m) /\ s.vm[m] = 0}
      older == {m \in Modules : s.vm[m] > 0 /\ s.vm[m] < VersionMap[b][m]}
  IN [s EXCEPT
       !.schema = [m \in Modules |->
          IF m \in missing THEN VersionMap[b][m]
          ELSE IF m \in older THEN s.schema[m] + (VersionMap[b][m] - s.vm[m])
          ELSE s.schema[m]],
       !.inits = [m \in Modules |->
          IF m \in missing THEN s.inits[m] + 1 ELSE s.inits[m]],
       !.vm = [m \in Modules |->
          IF Present(b, m) THEN VersionMap[b][m] ELSE s.vm[m]]]

\* ApplyUpgrade runs the handler, records the upgrade and clears the plan.
ApplyUpgrade(s, b) ==
  [RunMigrations(s, b) EXCEPT
     !.done = [s.done EXCEPT ![s.plan.name] = s.height + 1],
     !.plan = NoPlan]

ClearUpgradePlan(s) == [s EXCEPT !.plan = NoPlan]

\* The rest of the block: governance's end-blocker executes the messages of
\* a passed proposal.  A plan in the past or already applied is refused.
Schedulable(s, plan) == plan.height >= s.height + 1 /\ s.done[plan.name] = 0

DeliverBlock(s, b, p) ==
  [s EXCEPT
     !.height = s.height + 1,
     !.plan = CASE p.kind = "schedule" /\ Schedulable(s, p.plan) -> p.plan
                [] p.kind = "cancel" -> NoPlan
                [] OTHER -> s.plan,
     !.stores = Stores[b],
     !.code = b]

\* Node n has a decided block to execute and nothing in flight.
HasBlock(n) ==
  /\ status[n] = IF Height(n) = 0 THEN "inited" ELSE "idle"
  /\ Height(n) < Len(blocks)

Execute(n, s) ==
  /\ work' = [work EXCEPT
       ![n] = DeliverBlock(s, binary[n], blocks[Height(n) + 1])]
  /\ status' = [status EXCEPT ![n] = "finalized"]
  /\ verified' = [verified EXCEPT ![n] = TRUE]
  /\ UNCHANGED <<blocks, versions, binary, info, skips, faults>>

\* Mutant: a binary that already has the handler is let through.
FinalizeBlockUnchecked(n) ==
  /\ HasBlock(n)
  /\ ~WrongAppVersion(n, Base(n))
  /\ ~Due(Base(n))
  /\ Execute(n, Base(n))

\* No plan, or one that is not due and unknown to the binary.
FinalizeBlock(n) ==
  /\ HasBlock(n)
  /\ ~WrongAppVersion(n, Base(n))
  /\ ~Due(Base(n)) /\ ~HasHandler(binary[n], Base(n).plan.name)
  /\ Execute(n, Base(n))

\* Mutant: the plan of a skipped height is kept.
FinalizeSkippedUpgradeKeepsPlan(n) ==
  /\ HasBlock(n)
  /\ ~WrongAppVersion(n, Base(n))
  /\ Due(Base(n)) /\ IsSkipHeight(n, Base(n).height + 1)
  /\ Execute(n, Base(n))

\* A due plan at a height the operators chose to skip.
FinalizeSkippedUpgrade(n) ==
  /\ HasBlock(n)
  /\ ~WrongAppVersion(n, Base(n))
  /\ Due(Base(n)) /\ IsSkipHeight(n, Base(n).height + 1)
  /\ Execute(n, ClearUpgradePlan(Base(n)))

\* A due plan whose handler is registered.
FinalizeUpgrade(n) ==
  /\ HasBlock(n)
  /\ Due(Base(n)) /\ ~IsSkipHeight(n, Base(n).height + 1)
  /\ HasHandler(binary[n], Base(n).plan.name)
  /\ Execute(n, ApplyUpgrade(Base(n), binary[n]))

\* The pre-blocker returns an error: the process ends and the work is lost.
Halt(n, why) ==
  /\ status' = [status EXCEPT ![n] = why]
  /\ work' = [work EXCEPT ![n] = NoWork]
  /\ UNCHANGED <<blocks, versions, binary, verified, skips, faults>>

\* Mutants: the node stops without an upgrade-info file, or writes the plan's
\* height instead of the height it stopped at.
HaltForUpgradeNoInfo(n) ==
  /\ HasBlock(n)
  /\ Due(Base(n)) /\ ~IsSkipHeight(n, Base(n).height + 1)
  /\ ~HasHandler(binary[n], Base(n).plan.name)
  /\ UNCHANGED info
  /\ Halt(n, "needUpgrade")
HaltForUpgradePlanHeight(n) ==
  /\ HasBlock(n)
  /\ Due(Base(n)) /\ ~IsSkipHeight(n, Base(n).height + 1)
  /\ ~HasHandler(binary[n], Base(n).plan.name)
  /\ info' = [info EXCEPT ![n] = Base(n).plan]
  /\ Halt(n, "needUpgrade")

\* A due plan without a handler: write the upgrade-info file and stop.
HaltForUpgrade(n) ==
  /\ HasBlock(n)
  /\ Due(Base(n)) /\ ~IsSkipHeight(n, Base(n).height + 1)
  /\ ~HasHandler(binary[n], Base(n).plan.name)
  /\ info' = [info EXCEPT ![n] =
       [name |-> Base(n).plan.name, height |-> Base(n).height + 1]]
  /\ Halt(n, "needUpgrade")

\* "BINARY UPDATED BEFORE TRIGGER"
HaltEarly(n) ==
  /\ HasBlock(n)
  /\ ~WrongAppVersion(n, Base(n))
  /\ ~Due(Base(n)) /\ HasHandler(binary[n], Base(n).plan.name)
  /\ UNCHANGED info
  /\ Halt(n, "early")

\* "wrong app version ..., upgrade handler is missing"
HaltDowngrade(n) ==
  /\ HasBlock(n)
  /\ WrongAppVersion(n, Base(n))
  /\ UNCHANGED info
  /\ Halt(n, "downgrade")

Commit(n) ==
  /\ status[n] = "finalized"
  /\ versions' = [versions EXCEPT ![n] = Append(@, work[n])]
  /\ work' = [work EXCEPT ![n] = NoWork]
  /\ status' = [status EXCEPT ![n] = "idle"]
  /\ UNCHANGED <<blocks, binary, info, verified, skips, faults>>

(***************************************************************************)
(* The environment: consensus, crashes and operators.                      *)
(***************************************************************************)
\* A block is decided on top of the state a quorum of running nodes has.
Decide(p) ==
  /\ Len(blocks) < MaxHeight
  /\ \E Q \in Quorums : \A n \in Q :
       status[n] \in Running /\ Height(n) = Len(blocks)
  /\ blocks' = Append(blocks, p)
  /\ UNCHANGED <<versions, work, status, binary, info, verified, skips, faults>>

\* A crash, or an operator stopping the process, at any point of a block.
Crash(n) ==
  /\ faults < MaxFaults
  /\ status[n] \in Running
  /\ status' = [status EXCEPT ![n] = "down"]
  /\ work' = [work EXCEPT ![n] = NoWork]
  /\ faults' = faults + 1
  /\ UNCHANGED <<blocks, versions, binary, info, verified, skips>>

\* A migration returns an error: the handler of app/upgrades passes it on, the
\* block fails and the process ends as in a crash, with nothing of the upgrade
\* committed.  Started again, the node executes the block anew.
UpgradeFails(n) ==
  /\ HasBlock(n)
  /\ Due(Base(n)) /\ ~IsSkipHeight(n, Base(n).height + 1)
  /\ HasHandler(binary[n], Base(n).plan.name)
  /\ Crash(n)

\* The height at which the pending plan of state s takes effect.
ExecHeight(s) ==
  IF s.plan.height > s.height THEN s.plan.height ELSE s.height + 1

\* Node n needs a release its binary is not, for a plan nobody skips.
ReleasePending(n) ==
  /\ Height(n) > 0 /\ Committed(n).plan # NoPlan
  /\ ~HasHandler(binary[n], Committed(n).plan.name)
  /\ ExecHeight(Committed(n)) \notin SkipHeights

Install(n, b) ==
  /\ binary' = [binary EXCEPT ![n] = b]
  /\ status' = [status EXCEPT ![n] = "down"]
  /\ UNCHANGED <<blocks, versions, work, info, verified, skips>>

\* Mutant: the operator skips a height nobody agreed on.
SkipUpgradeAlone(n) ==
  /\ status[n] = "needUpgrade"
  /\ skips' = [skips EXCEPT ![n] = @ \cup {Height(n) + 1}]
  /\ status' = [status EXCEPT ![n] = "down"]
  /\ UNCHANGED <<blocks, versions, work, binary, info, verified, faults>>

\* The operators skip the upgrade a node stopped for: it is started again
\* with the height in --unsafe-skip-upgrades.
SkipUpgrade(n) ==
  /\ status[n] = "needUpgrade"
  /\ Height(n) + 1 \in SkipHeights
  /\ skips' = [skips EXCEPT ![n] = @ \cup {Height(n) + 1}]
  /\ status' = [status EXCEPT ![n] = "down"]
  /\ UNCHANGED <<blocks, versions, work, binary, info, verified, faults>>

\* ExecuteUpgrade on a node that stopped for the upgrade.
InstallRelease(n) ==
  /\ status[n] = "needUpgrade"
  /\ ReleasePending(n)
  /\ Install(n, ReleaseOf[Committed(n).plan.name])
  /\ UNCHANGED faults

\* ExecuteUpgrade swaps the binary of every node a fixed time after the
\* chain reached the height, whether or not that node has stopped for it.
InstallPrematurely(n) ==
  /\ faults < MaxFaults
  /\ status[n] = "down"
  /\ ReleasePending(n)
  /\ Install(n, ReleaseOf[Committed(n).plan.name])
  /\ faults' = faults + 1

\* The operator follows the error message and puts the old binary back.
Reinstall(n) ==
  /\ status[n] \in {"early", "loadFail"}
  /\ Height(n) > 0 /\ binary[n] # Committed(n).code
  /\ Install(n, Committed(n).code)
  /\ UNCHANGED faults

\* An operator without any discipline installs release b on a stopped node.
InstallAny(n, b) ==
  /\ faults < MaxFaults
  /\ status[n] \in Stopped
  /\ Install(n, b)
  /\ faults' = faults + 1

NodeStep(n) ==
  \/ NewEnokiApp(n) \/ InitChain(n)
  \/ FinalizeBlock(n) \/ FinalizeSkippedUpgrade(n) \/ FinalizeUpgrade(n)
  \/ HaltForUpgrade(n) \/ HaltEarly(n) \/ HaltDowngrade(n)
  \/ Commit(n)

OperatorStep(n) == InstallRelease(n) \/ SkipUpgrade(n) \/ Reinstall(n)

Next ==
  \/ \E p \in Proposals : Decide(p)
  \/ \E n \in Nodes : NodeStep(n) \/ OperatorStep(n)
  \/ \E n \in Nodes : InstallPrematurely(n) \/ Crash(n) \/ UpgradeFails(n)

Spec == Init /\ [][Next]_vars

\* A process that can run does run, its operator answers its messages, and
\* consensus decides blocks while a quorum is running.
Fairness ==
  /\ \A n \in Nodes : WF_vars(NodeStep(n)) /\ WF_vars(OperatorStep(n))
  /\ WF_vars(\E p \in Proposals : Decide(p))

LiveSpec == Spec /\ Fairness

\* Operators that install any release at any time.
NextUndisciplined == Next \/ \E n \in Nodes, b \in Releases : InstallAny(n, b)
SpecUndisciplined == Init /\ [][NextUndisciplined]_vars
(***************************************************************************)
(* Properties.                                                             *)
(***************************************************************************)
CommittedHeights(n) == 1..Len(versions[n])

\* Two nodes that committed the same height committed the same state and ran
\* the same release at it, whatever the crashes, the lag between nodes and
\* the premature swaps: no restart or swap around an upgrade forks the
\* application hash (the pre-blocker's checks and RegisterUpgradeHandlers).
AppHashAgreement ==
  \A n, m \in Nodes : \A h \in CommittedHeights(n) \cap CommittedHeights(m) :
    versions[n][h] = versions[m][h]

\* The release that runs the blocks of a node only changes in a block that
\* applies the upgrade the previous state had planned: a binary put in place
\* too early (ExecuteUpgrade) never executes a block before its upgrade.
CodeChangesOnlyByUpgrade ==
  \A n \in Nodes : \A h \in CommittedHeights(n) : h > 1 =>
    LET s == versions[n][h - 1]  t == versions[n][h] IN
    s.code # t.code => s.plan.name \in Names /\ t.done[s.plan.name] = h

\* A due plan is settled by the very next block, by running its upgrade or, at
\* a skipped height, by dropping it: the plan after the block is none, or the
\* one governance scheduled in that block.  An upgrade is recorded at a height
\* only if it was due there, once, and a plan that is not due yet is only
\* changed by governance (PreBlocker, ApplyUpgrade, ClearUpgradePlan).
AppliedExactlyWhenDue ==
  \A n \in Nodes : \A h \in CommittedHeights(n) : h > 1 =>
    LET s == versions[n][h - 1]  t == versions[n][h]  p == blocks[h] IN
    /\ \A u \in Names :
         IF Due(s) /\ s.plan.name = u /\ (h \notin SkipHeights \/ HasHandler(s.code, u))
         THEN s.done[u] = 0 /\ t.done[u] = h
         ELSE t.done[u] = s.done[u]
    /\ Due(s) => t.plan = NoPlan \/ (p.kind = "schedule" /\ t.plan = p.plan)
    /\ t.plan # s.plan => Due(s) \/ p.kind # "none"

\* The data of every module has the layout its running code expects, the
\* version map says so, and no module was initialised twice: the migrations
\* of the upgrade handlers run exactly once over any number of restarts, and
\* InitChainer's version map keeps them from re-initialising a module.
MigrationsExact ==
  \A n \in Nodes : \A h \in CommittedHeights(n) : \A m \in Modules :
    LET s == versions[n][h] IN
    /\ s.schema[m] = s.vm[m]
    /\ s.schema[m] = VersionMap[s.code][m]
    /\ s.inits[m] = IF s.vm[m] > 0 THEN 1 ELSE 0

\* A node that stopped for the pending upgrade always loads its stores with
\* the release of that upgrade, also when it crashed after the store upgrade
\* and before its commit; loading only fails for a binary that was swapped
\* without the old one having stopped for the plan, or having stopped for it
\* at a height that was skipped (upgrade-info file, store loader).
LoadFailsOnlyWithoutHalt ==
  \A n \in Nodes : status[n] = "loadFail" =>
    \/ info[n].name # Committed(n).plan.name
    \/ info[n].height \in skips[n]

\* Whatever releases the operators install, a block is executed by a binary
\* that has the handler of the last applied upgrade, unless the block itself
\* applies an upgrade (the downgrade check of the first block of a process).
NoSilentDowngrade ==
  \A n \in Nodes : \A h \in CommittedHeights(n) : h > 1 =>
    LET s == versions[n][h - 1]  t == versions[n][h] IN
    \/ \A u \in LastApplied(s) : HasHandler(t.code, u)
    \/ \E u \in Names : t.done[u] = h

\* Every node gets through every upgrade and executes all decided blocks.
EveryNodePassesUpgrades ==
  <>[](\A n \in Nodes : Height(n) = MaxHeight)

=============================================================================
