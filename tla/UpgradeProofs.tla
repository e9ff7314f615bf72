--------------------------- MODULE UpgradeProofs ---------------------------
(***************************************************************************)
(* Proofs about Upgrade, for any number of nodes, releases and upgrades    *)
(* that satisfy the assumptions of that module: first the network of       *)
(* nodes, then the start of a node, which stores it loads and which        *)
(* binaries its first block lets through.                                  *)
(***************************************************************************)
EXTENDS UpgradeInv, TLAPS

---------------------------------------------------------------------------
(* Operators on states. *)

\* InitChainer produces a state of the right type.
LEMMA InitChainerType ==
  ASSUME NEW b \in Releases
  PROVE  InitChainer(b) \in State
<1>1. NoPlan \in Plan
  BY DEF NoPlan, Plan
<1>2. VersionMap[b] \in [Modules -> Nat] /\ Stores[b] \in SUBSET StoreKeys
  BY ConstantsAssumption
<1>3. [m \in Modules |-> IF Present(b, m) THEN 1 ELSE 0] \in [Modules -> Nat]
  OBVIOUS
<1>4. QED
  BY <1>1, <1>2, <1>3 DEF InitChainer, State

\* The genesis state has the shape every committed state has.
LEMMA GenesisOK ==
  /\ GenesisState \in State
  /\ GenesisState.height = 0
  /\ GenesisState.code = Genesis
  /\ StateOK(GenesisState)
<1>1. Genesis \in Releases /\ VersionMap[Genesis] \in [Modules -> Nat]
  BY ConstantsAssumption
<1>2. GenesisState \in State
  BY <1>1, InitChainerType DEF GenesisState
<1>3. ModulesExact(GenesisState)
  BY <1>1 DEF GenesisState, InitChainer, ModulesExact, Present
<1>4. QED
  BY <1>1, <1>2, <1>3 DEF GenesisState, InitChainer, StateOK, PlanPending

\* RunMigrations keeps the type, whatever versions it starts from.
LEMMA RunMigrationsType ==
  ASSUME NEW s \in State, NEW b \in Releases
  PROVE  RunMigrations(s, b) \in State
<1> DEFINE r == RunMigrations(s, b)
<1>1. /\ VersionMap[b] \in [Modules -> Nat]
      /\ s.vm \in [Modules -> Nat]
      /\ s.schema \in [Modules -> Nat]
      /\ s.inits \in [Modules -> Nat]
  BY ConstantsAssumption DEF State
<1>2. \A m \in Modules : Present(b, m) \in BOOLEAN
  BY DEF Present
<1>3. r.vm \in [Modules -> Nat]
  BY <1>1 DEF RunMigrations, State
<1>4. r.schema \in [Modules -> Nat]
  BY <1>1 DEF RunMigrations, State
<1>5. r.inits \in [Modules -> Nat]
  BY <1>1 DEF RunMigrations, State
<1>6. r = [s EXCEPT !.schema = r.schema, !.inits = r.inits, !.vm = r.vm]
  BY DEF RunMigrations, State
<1>7. QED
  BY <1>3, <1>4, <1>5, <1>6 DEF State

\* RunMigrations leaves alone what is not about modules.
LEMMA RunMigrationsFrame ==
  ASSUME NEW s \in State, NEW b \in Releases
  PROVE  /\ RunMigrations(s, b).height = s.height
         /\ RunMigrations(s, b).plan = s.plan
         /\ RunMigrations(s, b).done = s.done
         /\ RunMigrations(s, b).code = s.code
BY DEF RunMigrations, State

\* Starting from exact modules, migrating to a release whose versions are at
\* least those of the current one makes them exact for that release.
LEMMA RunMigrationsExact ==
  ASSUME NEW s \in State, NEW b \in Releases, ModulesExact(s),
         \A m \in Modules : VersionMap[s.code][m] <= VersionMap[b][m],
         NEW m \in Modules
  PROVE  LET r == RunMigrations(s, b) IN
         /\ r.schema[m] = r.vm[m]
         /\ r.schema[m] = VersionMap[b][m]
         /\ r.inits[m] = IF r.vm[m] > 0 THEN 1 ELSE 0
<1> DEFINE r == RunMigrations(s, b)
<1>1. /\ VersionMap[b][m] \in Nat
      /\ s.vm[m] \in Nat /\ s.schema[m] \in Nat /\ s.inits[m] \in Nat
  BY ConstantsAssumption DEF State
<1>2. /\ s.schema[m] = s.vm[m]
      /\ s.vm[m] <= VersionMap[b][m]
      /\ s.inits[m] = IF s.vm[m] > 0 THEN 1 ELSE 0
  BY DEF ModulesExact
<1>3. r.vm[m] = IF VersionMap[b][m] > 0 THEN VersionMap[b][m] ELSE s.vm[m]
  BY DEF RunMigrations, Present, State
<1>4. r.schema[m] =
        IF VersionMap[b][m] > 0 /\ s.vm[m] = 0 THEN VersionMap[b][m]
        ELSE IF s.vm[m] > 0 /\ s.vm[m] < VersionMap[b][m]
             THEN s.schema[m] + (VersionMap[b][m] - s.vm[m])
             ELSE s.schema[m]
  BY DEF RunMigrations, Present, State
<1>5. r.inits[m] = IF VersionMap[b][m] > 0 /\ s.vm[m] = 0
                   THEN s.inits[m] + 1 ELSE s.inits[m]
  BY DEF RunMigrations, Present, State
<1>6. QED
  BY <1>1, <1>2, <1>3, <1>4, <1>5

\* The block after the pre-blocker keeps the type and sets height and code.
LEMMA DeliverBlockType ==
  ASSUME NEW s \in State, NEW b \in Releases, NEW p \in Proposals
  PROVE  /\ DeliverBlock(s, b, p) \in State
         /\ DeliverBlock(s, b, p).height = s.height + 1
         /\ DeliverBlock(s, b, p).code = b
         /\ DeliverBlock(s, b, p).done = s.done
         /\ DeliverBlock(s, b, p).vm = s.vm
         /\ DeliverBlock(s, b, p).schema = s.schema
         /\ DeliverBlock(s, b, p).inits = s.inits
<1> DEFINE pl == DeliverBlock(s, b, p).plan
<1>1. p.plan \in Plan /\ NoPlan \in Plan /\ s.plan \in Plan
  BY ConstantsAssumption DEF Proposal, Plan, NoPlan, State
<1>2. Stores[b] \in SUBSET StoreKeys /\ s.height + 1 \in Nat
  BY ConstantsAssumption DEF State
<1>3. DeliverBlock(s, b, p) =
        [s EXCEPT !.height = s.height + 1, !.plan = pl,
                  !.stores = Stores[b], !.code = b]
  BY DEF DeliverBlock, State
<1>4. pl \in Plan
  <2>1. pl \in {p.plan, NoPlan, s.plan}
    BY DEF DeliverBlock, State
  <2>2. QED
    BY <1>1, <2>1
<1>5. QED
  BY <1>2, <1>3, <1>4 DEF State

\* The plan left by a block is a pending one if the plan before it was.
LEMMA DeliverBlockPlan ==
  ASSUME NEW s \in State, NEW b \in Releases, NEW p \in Proposals,
         PlanPending(s)
  PROVE  PlanPending(DeliverBlock(s, b, p))
<1> DEFINE t == DeliverBlock(s, b, p)
<1>1. t.done = s.done
  BY DeliverBlockType
<1>2. p.kind \in {"none", "schedule", "cancel"}
      /\ (p.kind = "schedule" => p.plan.name \in Names)
  BY ConstantsAssumption DEF Proposal
<1>3. t.plan = CASE p.kind = "schedule" /\ Schedulable(s, p.plan) -> p.plan
                 [] p.kind = "cancel" -> NoPlan
                 [] OTHER -> s.plan
  BY DEF DeliverBlock, State
<1>4. CASE p.kind = "schedule" /\ Schedulable(s, p.plan)
  <2>1. t.plan = p.plan
    BY <1>3, <1>4
  <2>2. QED
    BY <1>1, <1>2, <1>4, <2>1 DEF PlanPending, Schedulable
<1>5. CASE p.kind = "cancel"
  BY <1>3, <1>5 DEF PlanPending
<1>6. CASE ~(p.kind = "schedule" /\ Schedulable(s, p.plan)) /\ p.kind # "cancel"
  <2>1. t.plan = s.plan
    BY <1>3, <1>6
  <2>2. QED
    BY <1>1, <2>1 DEF PlanPending
<1>7. QED
  BY <1>4, <1>5, <1>6

\* A due plan names an upgrade: the empty plan is never due.
LEMMA DueNamed ==
  ASSUME NEW s \in State, PlanPending(s), Due(s)
  PROVE  s.plan.name \in Names /\ s.done[s.plan.name] = 0
BY DEF PlanPending, Due, ShouldExecute, NoPlan

\* Where a plan is due, it takes effect at the next height.
LEMMA DueExecHeight ==
  ASSUME NEW s \in State, Due(s)
  PROVE  ExecHeight(s) = s.height + 1
<1>1. s.height \in Nat /\ s.plan.height \in Nat
  BY DEF State, Plan
<1>2. QED
  BY <1>1 DEF Due, ShouldExecute, ExecHeight

\* The release of the next block is known and not behind the current one.
LEMMA CodeForType ==
  ASSUME NEW s \in State, StateOK(s)
  PROVE  /\ CodeFor(s) \in Releases
         /\ \A m \in Modules : VersionMap[s.code][m] <= VersionMap[CodeFor(s)][m]
<1>1. s.code \in Releases
  BY DEF State
<1>2. \A m \in Modules : VersionMap[s.code][m] \in Nat
  BY <1>1, ConstantsAssumption
<1>3. CASE Applied(s) /\ ~HasHandler(s.code, s.plan.name)
  <2>1. s.plan.name \in Names
    BY <1>3, DueNamed DEF Applied, StateOK
  <2>2. CodeFor(s) = ReleaseOf[s.plan.name]
    BY <1>3 DEF CodeFor
  <2>3. QED
    BY <1>1, <1>3, <2>1, <2>2, ConstantsAssumption, ReleasesGrow
    DEF HasHandler
<1>4. CASE ~(Applied(s) /\ ~HasHandler(s.code, s.plan.name))
  <2>1. CodeFor(s) = s.code
    BY <1>4 DEF CodeFor
  <2>2. QED
    BY <1>1, <1>2, <2>1
<1>5. QED
  BY <1>3, <1>4

\* One step of the logical chain: the type, the height, the release and the
\* facts about plans and modules carry over.
LEMMA ChainStepOK ==
  ASSUME NEW s \in State, StateOK(s), NEW p \in Proposals
  PROVE  /\ ChainStep(s, p) \in State
         /\ ChainStep(s, p).height = s.height + 1
         /\ ChainStep(s, p).code = CodeFor(s)
         /\ StateOK(ChainStep(s, p))
<1> DEFINE b == CodeFor(s)
           r == AfterPreBlock(s)
           t == ChainStep(s, p)
<1>1. b \in Releases /\ \A m \in Modules : VersionMap[s.code][m] <= VersionMap[b][m]
  BY CodeForType
<1>2. NoPlan \in Plan
  BY DEF NoPlan, Plan
<1>3. /\ r \in State /\ r.height = s.height /\ PlanPending(r)
      /\ \A m \in Modules : /\ r.schema[m] = r.vm[m]
                            /\ r.schema[m] = VersionMap[b][m]
                            /\ r.inits[m] = IF r.vm[m] > 0 THEN 1 ELSE 0
  <2>1. CASE Applied(s)
    <3> DEFINE q == RunMigrations(s, b)
    <3>1. q \in State /\ q.height = s.height
      BY <1>1, RunMigrationsType, RunMigrationsFrame
    <3>2. s.done \in [Names -> Nat] /\ s.height + 1 \in Nat
      BY DEF State
    <3>3. r = [q EXCEPT !.done = [s.done EXCEPT ![s.plan.name] = s.height + 1],
                        !.plan = NoPlan]
      BY <2>1 DEF AfterPreBlock, ApplyUpgrade
    <3>4. [s.done EXCEPT ![s.plan.name] = s.height + 1] \in [Names -> Nat]
      BY <3>2
    <3>5. /\ r \in State /\ r.height = s.height /\ r.plan = NoPlan
          /\ r.vm = q.vm /\ r.schema = q.schema /\ r.inits = q.inits
      BY <1>2, <3>1, <3>3, <3>4 DEF State
    <3>6. ModulesExact(s)
      BY DEF StateOK
    <3>7. \A m \in Modules : /\ q.schema[m] = q.vm[m]
                             /\ q.schema[m] = VersionMap[b][m]
                             /\ q.inits[m] = IF q.vm[m] > 0 THEN 1 ELSE 0
      BY <1>1, <3>6, RunMigrationsExact
    <3>8. QED
      BY <3>5, <3>7 DEF PlanPending
  <2>2. CASE ~Applied(s)
    <3>1. b = s.code
      BY <2>2 DEF CodeFor
    <3>2. r = s \/ r = [s EXCEPT !.plan = NoPlan]
      BY <2>2 DEF AfterPreBlock, ClearUpgradePlan
    <3>3. /\ r \in State /\ r.height = s.height
          /\ (r.plan = NoPlan \/ (r.plan = s.plan /\ r.done = s.done))
          /\ r.vm = s.vm /\ r.schema = s.schema /\ r.inits = s.inits
      BY <1>2, <3>2 DEF State
    <3>4. PlanPending(r)
      BY <3>3 DEF PlanPending, StateOK
    <3>5. QED
      BY <3>1, <3>3, <3>4 DEF StateOK, ModulesExact
  <2>3. QED
    BY <2>1, <2>2
<1>4. /\ t \in State /\ t.height = s.height + 1 /\ t.code = b
      /\ t.vm = r.vm /\ t.schema = r.schema /\ t.inits = r.inits
  BY <1>1, <1>3, DeliverBlockType DEF ChainStep
<1>5. PlanPending(t)
  BY <1>1, <1>3, DeliverBlockPlan DEF ChainStep
<1>6. ModulesExact(t)
  BY <1>3, <1>4 DEF ModulesExact
<1>7. QED
  BY <1>4, <1>5, <1>6 DEF StateOK

---------------------------------------------------------------------------
(* The tip of a node. *)

\* In the invariant's states the tip is a well-formed state at the node's
\* height, and it is what the next block is executed on.
LEMMA TipOK ==
  ASSUME TypeOK, OnChain, WorkOnChain, NEW n \in Nodes
  PROVE  /\ Height(n) \in Nat
         /\ Tip(n) \in State
         /\ Tip(n).height = Height(n)
         /\ StateOK(Tip(n))
         /\ HasBlock(n) => Base(n) = Tip(n)
<1>1. versions[n] \in Seq(State) /\ Height(n) = Len(versions[n]) /\ Height(n) \in Nat
  BY DEF TypeOK, Height
<1>2. CASE Height(n) = 0
  BY <1>1, <1>2, GenesisOK DEF Tip, Base, HasBlock, WorkOnChain
<1>3. CASE Height(n) # 0
  <2>1. Height(n) \in CommittedHeights(n) /\ Committed(n) = versions[n][Height(n)]
    BY <1>1, <1>3 DEF CommittedHeights, Committed
  <2>2. Committed(n) \in State
    BY <1>1, <2>1 DEF CommittedHeights
  <2>3. QED
    BY <1>1, <1>3, <2>1, <2>2 DEF Tip, Base, OnChain
<1>4. QED
  BY <1>2, <1>3

\* A node whose versions do not change keeps its height and tip.
LEMMA TipUnchanged ==
  ASSUME NEW n \in Nodes, versions' = versions
  PROVE  /\ Height(n)' = Height(n)
         /\ Tip(n)' = Tip(n)
         /\ CommittedHeights(n)' = CommittedHeights(n)
BY DEF Height, Tip, Committed, CommittedHeights, GenesisState, InitChainer, Present

---------------------------------------------------------------------------
(* Executing a block continues the logical chain. *)

\* What the three executing actions have in common.
ExecutesChainStep(n) ==
  /\ HasBlock(n)
  /\ work' = [work EXCEPT ![n] = ChainStep(Tip(n), blocks[Height(n) + 1])]
  /\ CodeFor(Tip(n)) = binary[n]
  /\ status' = [status EXCEPT ![n] = "finalized"]
  /\ verified' = [verified EXCEPT ![n] = TRUE]
  /\ UNCHANGED <<blocks, versions, binary, info, skips, faults>>

\* Whichever way the pre-blocker lets a block through, the block is executed
\* as the logical chain executes it.
LEMMA ExecuteIsChainStep ==
  ASSUME TypeOK, OnChain, WorkOnChain, BinaryKnown, SkipsKnown,
         NEW n \in Nodes,
         FinalizeBlock(n) \/ FinalizeSkippedUpgrade(n) \/ FinalizeUpgrade(n)
  PROVE  ExecutesChainStep(n)
<1> DEFINE s == Tip(n)
<1>1. HasBlock(n)
  BY DEF FinalizeBlock, FinalizeSkippedUpgrade, FinalizeUpgrade
<1>2. /\ Base(n) = s /\ s \in State /\ StateOK(s)
      /\ s.height = Height(n) /\ Height(n) \in Nat
  BY <1>1, TipOK
<1>3. \/ binary[n] = s.code
      \/ /\ s.plan.name \in Names
         /\ ~HasHandler(s.code, s.plan.name)
         /\ ExecHeight(s) \notin SkipHeights
         /\ binary[n] = ReleaseOf[s.plan.name]
  BY DEF BinaryKnown
<1>4. CASE FinalizeBlock(n)
  <2>1. ~Due(s) /\ ~HasHandler(binary[n], s.plan.name)
    BY <1>2, <1>4 DEF FinalizeBlock
  <2>2. binary[n] = s.code
    BY <1>3, <2>1, ReleaseHasHandler DEF HasHandler
  <2>3. CodeFor(s) = binary[n] /\ AfterPreBlock(s) = s
    BY <2>1, <2>2 DEF CodeFor, AfterPreBlock, Applied, Skipped
  <2>4. Execute(n, s)
    BY <1>2, <1>4 DEF FinalizeBlock
  <2>5. QED
    BY <1>1, <2>3, <2>4 DEF Execute, ExecutesChainStep, ChainStep
<1>5. CASE FinalizeSkippedUpgrade(n)
  <2>1. Due(s) /\ Height(n) + 1 \in skips[n]
    BY <1>2, <1>5 DEF FinalizeSkippedUpgrade, IsSkipHeight
  <2>2. Height(n) + 1 \in SkipHeights
    BY <2>1 DEF TypeOK
  <2>3. ~HasHandler(s.code, s.plan.name)
    BY <2>1 DEF SkipsKnown
  <2>4. ExecHeight(s) = Height(n) + 1
    BY <1>2, <2>1, DueExecHeight
  <2>5. binary[n] = s.code
    BY <1>3, <2>2, <2>4
  <2>6. Skipped(s)
    BY <1>2, <2>1, <2>2, <2>3 DEF Skipped
  <2>7. CodeFor(s) = binary[n] /\ AfterPreBlock(s) = ClearUpgradePlan(s)
    BY <2>5, <2>6 DEF CodeFor, AfterPreBlock, Applied
  <2>8. Execute(n, ClearUpgradePlan(s))
    BY <1>2, <1>5 DEF FinalizeSkippedUpgrade
  <2>9. QED
    BY <1>1, <2>7, <2>8 DEF Execute, ExecutesChainStep, ChainStep
<1>6. CASE FinalizeUpgrade(n)
  <2>1. Due(s) /\ HasHandler(binary[n], s.plan.name)
    BY <1>2, <1>6 DEF FinalizeUpgrade
  <2>2. ExecHeight(s) = Height(n) + 1
    BY <1>2, <2>1, DueExecHeight
  <2>3. CodeFor(s) = binary[n] /\ Applied(s)
    BY <1>2, <1>3, <2>1, <2>2 DEF CodeFor, Applied, Skipped
  <2>4. AfterPreBlock(s) = ApplyUpgrade(s, binary[n])
    BY <2>3 DEF AfterPreBlock
  <2>5. Execute(n, ApplyUpgrade(s, binary[n]))
    BY <1>2, <1>6 DEF FinalizeUpgrade
  <2>6. QED
    BY <1>1, <2>3, <2>4, <2>5 DEF Execute, ExecutesChainStep, ChainStep
<1>7. QED
  BY <1>4, <1>5, <1>6

---------------------------------------------------------------------------
(* The invariant is inductive. *)

\* The invariant holds before genesis.
LEMMA InitInv == Init => Inv
<1> SUFFICES ASSUME Init PROVE Inv
  OBVIOUS
<1>1. GenesisState \in State /\ GenesisState.code = Genesis /\ Genesis \in Releases
  BY GenesisOK, ConstantsAssumption
<1>2. NoPlan \in Plan /\ NoWork = GenesisState
  BY DEF NoPlan, Plan, NoWork, GenesisState
<1>3. TypeOK
  BY <1>1, <1>2 DEF Init, TypeOK, Running, Stopped
<1>4. \A n \in Nodes : Height(n) = 0 /\ CommittedHeights(n) = {}
  BY DEF Init, Height, CommittedHeights
<1>5. \A n \in Nodes : Tip(n) = GenesisState
  BY <1>4 DEF Tip
<1>6. OnChain /\ AppHashAgreement
  BY <1>4 DEF OnChain, AppHashAgreement
<1>7. WorkOnChain /\ BinaryKnown /\ SkipsKnown
  BY <1>1, <1>5 DEF Init, WorkOnChain, BinaryKnown, SkipsKnown
<1>8. QED
  BY <1>3, <1>6, <1>7 DEF Inv

\* Steps that commit nothing and decide nothing keep the committed history.
LEMMA HistoryUnchanged ==
  ASSUME OnChain, AppHashAgreement, UNCHANGED <<blocks, versions>>
  PROVE  OnChain' /\ AppHashAgreement'
<1>1. \A n \in Nodes : CommittedHeights(n)' = CommittedHeights(n)
  BY DEF CommittedHeights
<1>2. OnChain'
  BY <1>1 DEF OnChain
<1>3. AppHashAgreement'
  BY <1>1 DEF AppHashAgreement
<1>4. QED
  BY <1>2, <1>3

\* Every step keeps the invariant.
LEMMA NextInv == Inv /\ [Next]_vars => Inv'
<1> SUFFICES ASSUME Inv, [Next]_vars PROVE Inv'
  OBVIOUS
<1> USE DEF Inv
<1>1. ASSUME NEW p \in Proposals, Decide(p) PROVE Inv'
  <2>1. /\ blocks' = Append(blocks, p) /\ blocks \in Seq(Proposals)
        /\ UNCHANGED <<versions, work, status, binary, info, verified, skips, faults>>
    BY <1>1 DEF Decide, TypeOK
  <2>2. /\ blocks' \in Seq(Proposals)
        /\ Len(blocks') = Len(blocks) + 1
        /\ \A h \in 1..Len(blocks) : blocks'[h] = blocks[h]
    BY <2>1
  <2>3. \A m \in Nodes : /\ Tip(m)' = Tip(m) /\ Height(m)' = Height(m)
                         /\ CommittedHeights(m)' = CommittedHeights(m)
    BY <2>1, TipUnchanged
  <2>4. TypeOK'
    BY <2>1, <2>2 DEF TypeOK
  <2>5. OnChain'
    <3>1. \A m \in Nodes : \A h \in CommittedHeights(m) : h \in 1..Len(blocks)
      BY <2>1 DEF OnChain, CommittedHeights
    <3>2. QED
      BY <2>1, <2>2, <2>3, <3>1 DEF OnChain
  <2>6. WorkOnChain'
    <3>1. \A m \in Nodes : Height(m) \in Nat
      BY TipOK
    <3>2. \A m \in Nodes : Height(m) < Len(blocks) =>
            Height(m) < Len(blocks') /\ blocks'[Height(m) + 1] = blocks[Height(m) + 1]
      BY <2>1, <2>2, <3>1
    <3>3. QED
      BY <2>1, <2>3, <3>2 DEF WorkOnChain
  <2>7. BinaryKnown' /\ SkipsKnown' /\ AppHashAgreement'
    BY <2>1, <2>3 DEF BinaryKnown, SkipsKnown, AppHashAgreement
  <2>8. QED
    BY <2>4, <2>5, <2>6, <2>7
<1>2. ASSUME NEW n \in Nodes, NewEnokiApp(n) PROVE Inv'
  <2>1. UNCHANGED <<blocks, versions>>
    BY <1>2 DEF NewEnokiApp
  <2>2. TypeOK'
    BY <1>2 DEF TypeOK, Running, Stopped, NewEnokiApp
  <2>3. OnChain' /\ AppHashAgreement'
    BY <2>1, HistoryUnchanged
  <2>4. \A m \in Nodes : Tip(m)' = Tip(m) /\ Height(m)' = Height(m)
    BY <2>1, TipUnchanged
  <2>5. WorkOnChain'
    BY <1>2, <2>1, <2>4 DEF WorkOnChain, TypeOK, NewEnokiApp
  <2>6. BinaryKnown'
    BY <1>2, <2>4 DEF BinaryKnown, TypeOK, NewEnokiApp
  <2>7. SkipsKnown'
    BY <1>2, <2>4 DEF SkipsKnown, TypeOK, NewEnokiApp
  <2>8. QED
    BY <2>2, <2>3, <2>5, <2>6, <2>7
<1>3. ASSUME NEW n \in Nodes, InitChain(n) PROVE Inv'
  <2>0. Height(n) = 0 /\ InitChainer(binary[n]) = GenesisState
    <3>1. Tip(n) = GenesisState /\ Height(n) = 0
      BY <1>3 DEF InitChain, Tip
    <3>2. GenesisState.plan.name = None /\ GenesisState.code = Genesis
      BY DEF GenesisState, InitChainer, NoPlan
    <3>3. binary[n] = Genesis
      BY <3>1, <3>2, ConstantsAssumption DEF BinaryKnown
    <3>4. QED
      BY <3>1, <3>3 DEF GenesisState
  <2>1. UNCHANGED <<blocks, versions>>
    BY <1>3 DEF InitChain
  <2>2. TypeOK'
    BY <1>3, <2>0, GenesisOK DEF TypeOK, Running, Stopped, InitChain
  <2>3. OnChain' /\ AppHashAgreement'
    BY <2>1, HistoryUnchanged
  <2>4. \A m \in Nodes : Tip(m)' = Tip(m) /\ Height(m)' = Height(m)
    BY <2>1, TipUnchanged
  <2>5. WorkOnChain'
    BY <1>3, <2>1, <2>4, <2>0 DEF WorkOnChain, TypeOK, InitChain
  <2>6. BinaryKnown'
    BY <1>3, <2>4, <2>0 DEF BinaryKnown, TypeOK, InitChain
  <2>7. SkipsKnown'
    BY <1>3, <2>4 DEF SkipsKnown, TypeOK, InitChain
  <2>8. QED
    BY <2>2, <2>3, <2>5, <2>6, <2>7
<1>4. ASSUME NEW n \in Nodes,
             FinalizeBlock(n) \/ FinalizeSkippedUpgrade(n) \/ FinalizeUpgrade(n)
      PROVE  Inv'
  <2> DEFINE t == ChainStep(Tip(n), blocks[Height(n) + 1])
  <2>1. ExecutesChainStep(n)
    BY <1>4, ExecuteIsChainStep
  <2>2. /\ Height(n) \in Nat /\ Height(n) < Len(blocks)
        /\ Tip(n) \in State /\ StateOK(Tip(n))
    BY <2>1, TipOK DEF ExecutesChainStep, HasBlock
  <2>3. blocks[Height(n) + 1] \in Proposals
    BY <2>2 DEF TypeOK
  <2>4. t \in State /\ t.code = binary[n]
    BY <2>1, <2>2, <2>3, ChainStepOK DEF ExecutesChainStep
  <2>5. UNCHANGED <<blocks, versions, binary, info, skips, faults>>
    BY <2>1 DEF ExecutesChainStep
  <2>6. /\ work' = [work EXCEPT ![n] = t]
        /\ status' = [status EXCEPT ![n] = "finalized"]
        /\ verified' = [verified EXCEPT ![n] = TRUE]
    BY <2>1 DEF ExecutesChainStep
  <2>7. TypeOK'
    BY <2>4, <2>5, <2>6 DEF TypeOK, Running
  <2>8. OnChain' /\ AppHashAgreement'
    BY <2>5, HistoryUnchanged
  <2>9. \A m \in Nodes : Tip(m)' = Tip(m) /\ Height(m)' = Height(m)
    BY <2>5, TipUnchanged
  <2>10. WorkOnChain'
    BY <2>2, <2>4, <2>5, <2>6, <2>9 DEF WorkOnChain, TypeOK
  <2>11. BinaryKnown' /\ SkipsKnown'
    BY <2>5, <2>6, <2>9 DEF BinaryKnown, SkipsKnown, TypeOK
  <2>12. QED
    BY <2>7, <2>8, <2>10, <2>11
<1>5. ASSUME NEW n \in Nodes, HaltForUpgrade(n) PROVE Inv'
  <2>0. /\ NoWork \in State
        /\ [name |-> Base(n).plan.name, height |-> Base(n).height + 1] \in Plan
        /\ binary[n] = Tip(n).code
        /\ ~HasHandler(Tip(n).code, Tip(n).plan.name)
    <3>1. Base(n) = Tip(n) /\ Tip(n) \in State /\ StateOK(Tip(n))
      BY <1>5, TipOK DEF HaltForUpgrade
    <3>2. Tip(n).plan.name \in Names /\ Tip(n).height + 1 \in Nat
      BY <1>5, <3>1, DueNamed DEF HaltForUpgrade, StateOK, State
    <3>3. ~HasHandler(binary[n], Tip(n).plan.name)
      BY <1>5, <3>1 DEF HaltForUpgrade
    <3>4. binary[n] = Tip(n).code
      BY <3>3, ReleaseHasHandler DEF BinaryKnown, HasHandler
    <3>5. NoWork \in State
      BY GenesisOK DEF NoWork, GenesisState
    <3>6. QED
      BY <3>1, <3>2, <3>3, <3>4, <3>5 DEF Plan
  <2>1. UNCHANGED <<blocks, versions>>
    BY <1>5 DEF HaltForUpgrade, Halt
  <2>2. TypeOK'
    BY <1>5, <2>0 DEF TypeOK, Running, Stopped, HaltForUpgrade, Halt
  <2>3. OnChain' /\ AppHashAgreement'
    BY <2>1, HistoryUnchanged
  <2>4. \A m \in Nodes : Tip(m)' = Tip(m) /\ Height(m)' = Height(m)
    BY <2>1, TipUnchanged
  <2>5. WorkOnChain'
    BY <1>5, <2>1, <2>4 DEF WorkOnChain, TypeOK, HaltForUpgrade, Halt
  <2>6. BinaryKnown'
    BY <1>5, <2>4, <2>0 DEF BinaryKnown, TypeOK, HaltForUpgrade, Halt
  <2>7. SkipsKnown'
    BY <1>5, <2>4, <2>0 DEF SkipsKnown, TypeOK, HaltForUpgrade, Halt
  <2>8. QED
    BY <2>2, <2>3, <2>5, <2>6, <2>7
<1>6. ASSUME NEW n \in Nodes, HaltEarly(n) PROVE Inv'
  <2>0. NoWork \in State
    BY GenesisOK DEF NoWork, GenesisState
  <2>1. UNCHANGED <<blocks, versions>>
    BY <1>6 DEF HaltEarly, Halt
  <2>2. TypeOK'
    BY <1>6, <2>0 DEF TypeOK, Running, Stopped, HaltEarly, Halt
  <2>3. OnChain' /\ AppHashAgreement'
    BY <2>1, HistoryUnchanged
  <2>4. \A m \in Nodes : Tip(m)' = Tip(m) /\ Height(m)' = Height(m)
    BY <2>1, TipUnchanged
  <2>5. WorkOnChain'
    BY <1>6, <2>1, <2>4 DEF WorkOnChain, TypeOK, HaltEarly, Halt
  <2>6. BinaryKnown'
    BY <1>6, <2>4 DEF BinaryKnown, TypeOK, HaltEarly, Halt
  <2>7. SkipsKnown'
    BY <1>6, <2>4 DEF SkipsKnown, TypeOK, HaltEarly, Halt
  <2>8. QED
    BY <2>2, <2>3, <2>5, <2>6, <2>7
<1>7. ASSUME NEW n \in Nodes, HaltDowngrade(n) PROVE Inv'
  <2>0. NoWork \in State
    BY GenesisOK DEF NoWork, GenesisState
  <2>1. UNCHANGED <<blocks, versions>>
    BY <1>7 DEF HaltDowngrade, Halt
  <2>2. TypeOK'
    BY <1>7, <2>0 DEF TypeOK, Running, Stopped, HaltDowngrade, Halt
  <2>3. OnChain' /\ AppHashAgreement'
    BY <2>1, HistoryUnchanged
  <2>4. \A m \in Nodes : Tip(m)' = Tip(m) /\ Height(m)' = Height(m)
    BY <2>1, TipUnchanged
  <2>5. WorkOnChain'
    BY <1>7, <2>1, <2>4 DEF WorkOnChain, TypeOK, HaltDowngrade, Halt
  <2>6. BinaryKnown'
    BY <1>7, <2>4 DEF BinaryKnown, TypeOK, HaltDowngrade, Halt
  <2>7. SkipsKnown'
    BY <1>7, <2>4 DEF SkipsKnown, TypeOK, HaltDowngrade, Halt
  <2>8. QED
    BY <2>2, <2>3, <2>5, <2>6, <2>7
<1>8. ASSUME NEW n \in Nodes, Commit(n) PROVE Inv'
  <2>1. /\ status[n] = "finalized"
        /\ versions' = [versions EXCEPT ![n] = Append(versions[n], work[n])]
        /\ work' = [work EXCEPT ![n] = NoWork]
        /\ status' = [status EXCEPT ![n] = "idle"]
        /\ UNCHANGED <<blocks, binary, info, verified, skips, faults>>
    BY <1>8 DEF Commit
  <2> DEFINE k == Height(n)
             t == work[n]
             p == blocks[k + 1]
  <2>2. /\ k \in Nat /\ k < Len(blocks)
        /\ Tip(n) \in State /\ Tip(n).height = k /\ StateOK(Tip(n))
        /\ t = ChainStep(Tip(n), p) /\ t.code = binary[n]
    BY <2>1, TipOK DEF WorkOnChain
  <2>3. p \in Proposals /\ Len(blocks) \in Nat
    BY <2>2 DEF TypeOK
  <2>4. t \in State /\ t.height = k + 1 /\ StateOK(t)
    BY <2>2, <2>3, ChainStepOK
  <2>5. /\ versions[n] \in Seq(State) /\ k = Len(versions[n])
        /\ versions'[n] = Append(versions[n], t)
        /\ \A m \in Nodes : m # n => versions'[m] = versions[m]
    BY <2>1 DEF TypeOK, Height
  <2>6. /\ Len(versions'[n]) = k + 1
        /\ versions'[n][k + 1] = t
        /\ \A h \in 1..k : versions'[n][h] = versions[n][h]
    BY <2>5
  <2>7. /\ Tip(n)' = t /\ Height(n)' = k + 1
        /\ CommittedHeights(n)' = 1..(k + 1) /\ CommittedHeights(n) = 1..k
    BY <2>2, <2>5, <2>6 DEF Tip, Height, Committed, CommittedHeights
  <2>8. ASSUME NEW m \in Nodes, m # n
        PROVE  /\ Tip(m)' = Tip(m) /\ Height(m)' = Height(m)
               /\ CommittedHeights(m)' = CommittedHeights(m)
    BY <2>5, <2>8 DEF Tip, Height, Committed, CommittedHeights, GenesisState,
       InitChainer, Present
  <2>9. t = ChainStep(IF k + 1 = 1 THEN GenesisState ELSE versions[n][k], blocks[k + 1])
    BY <2>2 DEF Tip, Committed
  <2>10. TypeOK'
    <3>1. NoWork \in State
      BY GenesisOK DEF NoWork, GenesisState
    <3>2. versions' \in [Nodes -> Seq(State)]
      BY <2>1, <2>4 DEF TypeOK
    <3>3. QED
      BY <2>1, <3>1, <3>2 DEF TypeOK, Running
  <2>11. OnChain'
    <3>1. ASSUME NEW m \in Nodes, NEW h \in CommittedHeights(m)'
          PROVE  /\ h <= Len(blocks')
                 /\ versions'[m][h].height = h
                 /\ StateOK(versions'[m][h])
                 /\ versions'[m][h] =
                      ChainStep(IF h = 1 THEN GenesisState
                                ELSE versions'[m][h - 1], blocks'[h])
      <4>1. CASE m # n
        BY <2>1, <2>5, <2>8, <3>1, <4>1 DEF OnChain
      <4>2. CASE m = n /\ h = k + 1
        BY <2>1, <2>2, <2>3, <2>4, <2>6, <2>9, <4>2
      <4>3. CASE m = n /\ h \in 1..k
        <5>1. h = 1 \/ h - 1 \in 1..k
          BY <2>2, <4>3
        <5>2. /\ h <= Len(blocks)
              /\ versions[n][h].height = h
              /\ StateOK(versions[n][h])
              /\ versions[n][h] =
                   ChainStep(IF h = 1 THEN GenesisState ELSE versions[n][h - 1],
                             blocks[h])
          BY <2>7, <4>3 DEF OnChain
        <5>3. /\ versions'[n][h] = versions[n][h]
              /\ h = 1 \/ versions'[n][h - 1] = versions[n][h - 1]
          BY <2>6, <4>3, <5>1
        <5>4. QED
          BY <2>1, <4>3, <5>2, <5>3
      <4>4. QED
        BY <2>2, <2>7, <3>1, <4>1, <4>2, <4>3
    <3>2. QED
      BY <3>1 DEF OnChain
  <2>12. AppHashAgreement'
    <3>1. ASSUME NEW m \in Nodes, m # n, k + 1 \in CommittedHeights(m)
          PROVE  versions[m][k + 1] = t
      <4>1. versions[m][k + 1] =
              ChainStep(IF k + 1 = 1 THEN GenesisState ELSE versions[m][k], blocks[k + 1])
        BY <2>2, <3>1 DEF OnChain
      <4>2. k = 0 \/ versions[m][k] = versions[n][k]
        <5>1. k = 0 \/ (k \in CommittedHeights(m) /\ k \in CommittedHeights(n))
          BY <2>2, <2>7, <3>1 DEF CommittedHeights
        <5>2. QED
          BY <5>1 DEF AppHashAgreement
      <4>3. QED
        BY <2>2, <2>9, <4>1, <4>2
    <3>2. ASSUME NEW a \in Nodes, NEW b \in Nodes,
                 NEW h \in CommittedHeights(a)' \cap CommittedHeights(b)'
          PROVE  versions'[a][h] = versions'[b][h]
      <4>1. CASE a # n /\ b # n
        BY <2>5, <2>8, <3>2, <4>1 DEF AppHashAgreement
      <4>2. CASE a = n /\ b = n
        BY <4>2
      <4>3. CASE a = n /\ b # n
        <5>1. versions'[b] = versions[b] /\ h \in CommittedHeights(b)
          BY <2>5, <2>8, <3>2, <4>3
        <5>2. h \in 1..k \/ h = k + 1
          BY <2>2, <2>7, <3>2, <4>3
        <5>3. CASE h \in 1..k
          <6>1. h \in CommittedHeights(n) \cap CommittedHeights(b)
            BY <2>7, <5>1, <5>3
          <6>2. versions[n][h] = versions[b][h]
            BY <6>1 DEF AppHashAgreement
          <6>3. versions'[n][h] = versions[n][h]
            BY <2>6, <5>3
          <6>4. QED
            BY <4>3, <5>1, <6>2, <6>3
        <5>4. CASE h = k + 1
          BY <2>6, <3>1, <4>3, <5>1, <5>4
        <5>5. QED
          BY <5>2, <5>3, <5>4
      <4>4. CASE a # n /\ b = n
        <5>1. versions'[a] = versions[a] /\ h \in CommittedHeights(a)
          BY <2>5, <2>8, <3>2, <4>4
        <5>2. h \in 1..k \/ h = k + 1
          BY <2>2, <2>7, <3>2, <4>4
        <5>3. CASE h \in 1..k
          <6>1. h \in CommittedHeights(n) \cap CommittedHeights(a)
            BY <2>7, <5>1, <5>3
          <6>2. versions[n][h] = versions[a][h]
            BY <6>1 DEF AppHashAgreement
          <6>3. versions'[n][h] = versions[n][h]
            BY <2>6, <5>3
          <6>4. QED
            BY <4>4, <5>1, <6>2, <6>3
        <5>4. CASE h = k + 1
          BY <2>6, <3>1, <4>4, <5>1, <5>4
        <5>5. QED
          BY <5>2, <5>3, <5>4
      <4>5. QED
        BY <4>1, <4>2, <4>3, <4>4
    <3>3. QED
      BY <3>2 DEF AppHashAgreement
  <2>13. WorkOnChain'
    BY <2>1, <2>8 DEF WorkOnChain, TypeOK
  <2>14. BinaryKnown'
    BY <2>1, <2>2, <2>7, <2>8 DEF BinaryKnown, TypeOK
  <2>15. SkipsKnown'
    <3>1. ASSUME NEW m \in Nodes, m # n
          PROVE  skips'[m] = skips[m] /\ status'[m] = status[m]
      BY <2>1, <3>1 DEF TypeOK
    <3>2. \A h \in skips'[n] : h \in Int /\ h <= k + 1
      BY <2>1, <2>2, ConstantsAssumption DEF SkipsKnown, TypeOK
    <3>3. status'[n] = "idle"
      BY <2>1 DEF TypeOK
    <3>4. QED
      BY <2>2, <2>7, <2>8, <3>1, <3>2, <3>3 DEF SkipsKnown
  <2>16. QED
    BY <2>10, <2>11, <2>12, <2>13, <2>14, <2>15
<1>9. ASSUME NEW n \in Nodes, Crash(n) PROVE Inv'
  <2>0. NoWork \in State
    BY GenesisOK DEF NoWork, GenesisState
  <2>1. UNCHANGED <<blocks, versions>>
    BY <1>9 DEF Crash
  <2>2. TypeOK'
    BY <1>9, <2>0 DEF TypeOK, Running, Stopped, Crash
  <2>3. OnChain' /\ AppHashAgreement'
    BY <2>1, HistoryUnchanged
  <2>4. \A m \in Nodes : Tip(m)' = Tip(m) /\ Height(m)' = Height(m)
    BY <2>1, TipUnchanged
  <2>5. WorkOnChain'
    BY <1>9, <2>1, <2>4 DEF WorkOnChain, TypeOK, Crash
  <2>6. BinaryKnown'
    BY <1>9, <2>4 DEF BinaryKnown, TypeOK, Crash
  <2>7. SkipsKnown'
    BY <1>9, <2>4 DEF SkipsKnown, TypeOK, Crash
  <2>8. QED
    BY <2>2, <2>3, <2>5, <2>6, <2>7
<1>10. ASSUME NEW n \in Nodes, InstallRelease(n) PROVE Inv'
  <2>0. /\ Tip(n) = Committed(n) /\ Tip(n).plan.name \in Names
        /\ ~HasHandler(Tip(n).code, Tip(n).plan.name)
        /\ ReleaseOf[Tip(n).plan.name] \in Releases
        /\ ExecHeight(Tip(n)) \notin SkipHeights
    <3>1. /\ Tip(n) = Committed(n)
          /\ ~HasHandler(binary[n], Tip(n).plan.name)
          /\ ExecHeight(Tip(n)) \notin SkipHeights
      BY <1>10 DEF InstallRelease, ReleasePending, Tip
    <3>2. Tip(n).plan # NoPlan
      BY <1>10, <3>1 DEF InstallRelease, ReleasePending
    <3>3. StateOK(Tip(n))
      BY TipOK
    <3>4. Tip(n).plan.name \in Names
      BY <3>2, <3>3 DEF StateOK, PlanPending
    <3>5. binary[n] = Tip(n).code
      BY <3>1, <3>4, ReleaseHasHandler DEF BinaryKnown, HasHandler
    <3>6. QED
      BY <3>1, <3>4, <3>5, ConstantsAssumption
  <2>1. UNCHANGED <<blocks, versions>>
    BY <1>10 DEF InstallRelease, Install
  <2>2. TypeOK'
    BY <1>10, <2>0 DEF TypeOK, Running, Stopped, InstallRelease, Install
  <2>3. OnChain' /\ AppHashAgreement'
    BY <2>1, HistoryUnchanged
  <2>4. \A m \in Nodes : Tip(m)' = Tip(m) /\ Height(m)' = Height(m)
    BY <2>1, TipUnchanged
  <2>5. WorkOnChain'
    BY <1>10, <2>1, <2>4 DEF WorkOnChain, TypeOK, InstallRelease, Install
  <2>6. BinaryKnown'
    BY <1>10, <2>4, <2>0 DEF BinaryKnown, TypeOK, InstallRelease, Install
  <2>7. SkipsKnown'
    BY <1>10, <2>4 DEF SkipsKnown, TypeOK, InstallRelease, Install
  <2>8. QED
    BY <2>2, <2>3, <2>5, <2>6, <2>7
<1>11. ASSUME NEW n \in Nodes, InstallPrematurely(n) PROVE Inv'
  <2>0. /\ Tip(n) = Committed(n) /\ Tip(n).plan.name \in Names
        /\ ~HasHandler(Tip(n).code, Tip(n).plan.name)
        /\ ReleaseOf[Tip(n).plan.name] \in Releases
        /\ ExecHeight(Tip(n)) \notin SkipHeights
    <3>1. /\ Tip(n) = Committed(n)
          /\ ~HasHandler(binary[n], Tip(n).plan.name)
          /\ ExecHeight(Tip(n)) \notin SkipHeights
      BY <1>11 DEF InstallPrematurely, ReleasePending, Tip
    <3>2. Tip(n).plan # NoPlan
      BY <1>11, <3>1 DEF InstallPrematurely, ReleasePending
    <3>3. StateOK(Tip(n))
      BY TipOK
    <3>4. Tip(n).plan.name \in Names
      BY <3>2, <3>3 DEF StateOK, PlanPending
    <3>5. binary[n] = Tip(n).code
      BY <3>1, <3>4, ReleaseHasHandler DEF BinaryKnown, HasHandler
    <3>6. QED
      BY <3>1, <3>4, <3>5, ConstantsAssumption
  <2>1. UNCHANGED <<blocks, versions>>
    BY <1>11 DEF InstallPrematurely, Install
  <2>2. TypeOK'
    BY <1>11, <2>0 DEF TypeOK, Running, Stopped, InstallPrematurely, Install
  <2>3. OnChain' /\ AppHashAgreement'
    BY <2>1, HistoryUnchanged
  <2>4. \A m \in Nodes : Tip(m)' = Tip(m) /\ Height(m)' = Height(m)
    BY <2>1, TipUnchanged
  <2>5. WorkOnChain'
    BY <1>11, <2>1, <2>4 DEF WorkOnChain, TypeOK, InstallPrematurely, Install
  <2>6. BinaryKnown'
    BY <1>11, <2>4, <2>0 DEF BinaryKnown, TypeOK, InstallPrematurely, Install
  <2>7. SkipsKnown'
    BY <1>11, <2>4 DEF SkipsKnown, TypeOK, InstallPrematurely, Install
  <2>8. QED
    BY <2>2, <2>3, <2>5, <2>6, <2>7
<1>12. ASSUME NEW n \in Nodes, SkipUpgrade(n) PROVE Inv'
  <2>0. Height(n) \in Nat
    BY TipOK
  <2>1. UNCHANGED <<blocks, versions>>
    BY <1>12 DEF SkipUpgrade
  <2>2. TypeOK'
    BY <1>12, <2>0 DEF TypeOK, Running, Stopped, SkipUpgrade
  <2>3. OnChain' /\ AppHashAgreement'
    BY <2>1, HistoryUnchanged
  <2>4. \A m \in Nodes : Tip(m)' = Tip(m) /\ Height(m)' = Height(m)
    BY <2>1, TipUnchanged
  <2>5. WorkOnChain'
    BY <1>12, <2>1, <2>4 DEF WorkOnChain, TypeOK, SkipUpgrade
  <2>6. BinaryKnown'
    BY <1>12, <2>4 DEF BinaryKnown, TypeOK, SkipUpgrade
  <2>7. SkipsKnown'
    BY <1>12, <2>4, <2>0 DEF SkipsKnown, TypeOK, SkipUpgrade
  <2>8. QED
    BY <2>2, <2>3, <2>5, <2>6, <2>7
<1>13. ASSUME NEW n \in Nodes, Reinstall(n) PROVE Inv'
  <2>0. Committed(n) = Tip(n) /\ Tip(n).code \in Releases
    <3>1. Committed(n) = Tip(n)
      BY <1>13, TipOK DEF Reinstall, Tip
    <3>2. QED
      BY <3>1, TipOK DEF State
  <2>1. UNCHANGED <<blocks, versions>>
    BY <1>13 DEF Reinstall, Install
  <2>2. TypeOK'
    BY <1>13, <2>0 DEF TypeOK, Running, Stopped, Reinstall, Install
  <2>3. OnChain' /\ AppHashAgreement'
    BY <2>1, HistoryUnchanged
  <2>4. \A m \in Nodes : Tip(m)' = Tip(m) /\ Height(m)' = Height(m)
    BY <2>1, TipUnchanged
  <2>5. WorkOnChain'
    BY <1>13, <2>1, <2>4 DEF WorkOnChain, TypeOK, Reinstall, Install
  <2>6. BinaryKnown'
    BY <1>13, <2>4, <2>0 DEF BinaryKnown, TypeOK, Reinstall, Install
  <2>7. SkipsKnown'
    BY <1>13, <2>4 DEF SkipsKnown, TypeOK, Reinstall, Install
  <2>8. QED
    BY <2>2, <2>3, <2>5, <2>6, <2>7
<1>14. ASSUME UNCHANGED vars PROVE Inv'
  <2>1. UNCHANGED <<blocks, versions, work, status, binary, info, verified, skips, faults>>
    BY <1>14 DEF vars
  <2>2. \A m \in Nodes : Tip(m)' = Tip(m) /\ Height(m)' = Height(m)
    BY <2>1, TipUnchanged
  <2>3. OnChain' /\ AppHashAgreement'
    BY <2>1, HistoryUnchanged
  <2>4. TypeOK' /\ WorkOnChain' /\ BinaryKnown' /\ SkipsKnown'
    BY <2>1, <2>2 DEF TypeOK, WorkOnChain, BinaryKnown, SkipsKnown
  <2>5. QED
    BY <2>3, <2>4
<1>15. QED
  BY <1>1, <1>2, <1>3, <1>4, <1>5, <1>6, <1>7, <1>8, <1>9, <1>10, <1>11, <1>12, <1>13, <1>14
     DEF Next, NodeStep, OperatorStep, UpgradeFails

---------------------------------------------------------------------------
(* The theorems. *)

\* Every reachable state satisfies the inductive invariant: every node is
\* on the one logical chain, with a binary that can only continue it.
THEOREM Invariance == Spec => []Inv
<1>1. QED
  BY InitInv, NextInv, PTL DEF Spec

\* Type correctness of nodes, blocks and committed states.
THEOREM TypeCorrect == Spec => []TypeOK
<1>1. Inv => TypeOK
  BY DEF Inv
<1>2. QED
  BY <1>1, Invariance, PTL

\* No crash, lag, restart, skip or premature swap forks the chain: nodes that
\* committed the same height committed the same state, with any number of
\* nodes, releases and upgrades.
THEOREM Agreement == Spec => []AppHashAgreement
<1>1. Inv => AppHashAgreement
  BY DEF Inv
<1>2. QED
  BY <1>1, Invariance, PTL

\* On the chain, a state and its successor are related by ChainStep.
LEMMA Successor ==
  ASSUME Inv, NEW n \in Nodes, NEW h \in CommittedHeights(n), h > 1
  PROVE  LET s == versions[n][h - 1]  t == versions[n][h] IN
         /\ s \in State /\ StateOK(s) /\ s.height + 1 = h
         /\ blocks[h] \in Proposals
         /\ t = ChainStep(s, blocks[h])
<1> USE DEF Inv
<1>1. /\ versions[n] \in Seq(State) /\ h \in 1..Len(versions[n])
      /\ h - 1 \in 1..Len(versions[n])
  BY DEF TypeOK, CommittedHeights
<1>2. /\ versions[n][h - 1] \in State /\ StateOK(versions[n][h - 1])
      /\ versions[n][h - 1].height = h - 1
  BY <1>1 DEF OnChain, CommittedHeights
<1>3. versions[n][h] = ChainStep(versions[n][h - 1], blocks[h])
  BY <1>1 DEF OnChain
<1>4. h <= Len(blocks)
  BY DEF OnChain
<1>5. blocks[h] \in Proposals
  BY <1>1, <1>4 DEF TypeOK
<1>6. QED
  BY <1>1, <1>2, <1>3, <1>5

\* What a step of the chain does to the record of applied upgrades.
LEMMA ChainStepDone ==
  ASSUME NEW s \in State, StateOK(s), NEW p \in Proposals
  PROVE  ChainStep(s, p).done =
           IF Applied(s) THEN [s.done EXCEPT ![s.plan.name] = s.height + 1]
           ELSE s.done
<1> DEFINE b == CodeFor(s)
           r == AfterPreBlock(s)
<1>1. b \in Releases
  BY CodeForType
<1>2. NoPlan \in Plan
  BY DEF NoPlan, Plan
<1>3. CASE Applied(s)
  <2> DEFINE q == RunMigrations(s, b)
  <2>1. q \in State
    BY <1>1, RunMigrationsType
  <2>2. [s.done EXCEPT ![s.plan.name] = s.height + 1] \in [Names -> Nat]
    <3>1. s.done \in [Names -> Nat] /\ s.height + 1 \in Nat
      BY DEF State
    <3>2. QED
      BY <3>1
  <2>3. r = [q EXCEPT !.done = [s.done EXCEPT ![s.plan.name] = s.height + 1],
                      !.plan = NoPlan]
    BY <1>3 DEF AfterPreBlock, ApplyUpgrade
  <2>4. r \in State /\ r.done = [s.done EXCEPT ![s.plan.name] = s.height + 1]
    BY <1>2, <2>1, <2>2, <2>3 DEF State
  <2>5. QED
    BY <1>1, <1>3, <2>4, DeliverBlockType DEF ChainStep
<1>4. CASE ~Applied(s)
  <2>1. r = s \/ r = [s EXCEPT !.plan = NoPlan]
    BY <1>4 DEF AfterPreBlock, ClearUpgradePlan
  <2>2. r \in State /\ r.done = s.done
    BY <1>2, <2>1 DEF State
  <2>3. QED
    BY <1>1, <1>4, <2>2, DeliverBlockType DEF ChainStep
<1>5. QED
  BY <1>3, <1>4

\* The release executing the blocks changes only in the block that applies
\* the planned upgrade.
THEOREM CodeChange == Spec => []CodeChangesOnlyByUpgrade
<1>1. ASSUME Inv PROVE CodeChangesOnlyByUpgrade
  <2>1. SUFFICES ASSUME NEW n \in Nodes, NEW h \in CommittedHeights(n), h > 1,
                        versions[n][h - 1].code # versions[n][h].code
                 PROVE  /\ versions[n][h - 1].plan.name \in Names
                        /\ versions[n][h].done[versions[n][h - 1].plan.name] = h
    BY DEF CodeChangesOnlyByUpgrade
  <2> DEFINE s == versions[n][h - 1]
             t == versions[n][h]
  <2>2. /\ s \in State /\ StateOK(s) /\ s.height + 1 = h
        /\ blocks[h] \in Proposals /\ t = ChainStep(s, blocks[h])
    BY <1>1, <2>1, Successor
  <2>3. t.code = CodeFor(s)
    BY <2>2, ChainStepOK
  <2>4. Applied(s)
    BY <2>1, <2>3 DEF CodeFor
  <2>5. s.plan.name \in Names
    BY <2>2, <2>4, DueNamed DEF Applied, StateOK
  <2>6. t.done = [s.done EXCEPT ![s.plan.name] = h]
    BY <2>2, <2>4, ChainStepDone
  <2>7. s.done \in [Names -> Nat]
    BY <2>2 DEF State
  <2>8. QED
    BY <2>5, <2>6, <2>7
<1>2. QED
  BY <1>1, Invariance, PTL

\* What the pre-blocker leaves is a state.
LEMMA AfterPreBlockType ==
  ASSUME NEW s \in State, StateOK(s)
  PROVE  AfterPreBlock(s) \in State
<1> DEFINE b == CodeFor(s)
           q == RunMigrations(s, b)
<1>1. b \in Releases
  BY CodeForType
<1>2. NoPlan \in Plan
  BY DEF NoPlan, Plan
<1>3. q \in State
  BY <1>1, RunMigrationsType
<1>4. [s.done EXCEPT ![s.plan.name] = s.height + 1] \in [Names -> Nat]
  <2>1. s.done \in [Names -> Nat] /\ s.height + 1 \in Nat
    BY DEF State
  <2>2. QED
    BY <2>1
<1>5. ApplyUpgrade(s, b) \in State
  BY <1>2, <1>3, <1>4 DEF ApplyUpgrade, State
<1>6. ClearUpgradePlan(s) \in State
  BY <1>2 DEF ClearUpgradePlan, State
<1>7. QED
  BY <1>5, <1>6 DEF AfterPreBlock

\* What a step of the logical chain does to the plan.
LEMMA ChainStepPlan ==
  ASSUME NEW s \in State, StateOK(s), NEW p \in Proposals
  PROVE  LET t == ChainStep(s, p)
             rest == IF Due(s) THEN NoPlan ELSE s.plan
         IN t.plan = IF /\ p.kind = "schedule"
                        /\ p.plan.height > s.height /\ t.done[p.plan.name] = 0
                     THEN p.plan
                     ELSE IF p.kind = "cancel" THEN NoPlan ELSE rest
<1> DEFINE b == CodeFor(s)
           r == AfterPreBlock(s)
           t == ChainStep(s, p)
           rest == IF Due(s) THEN NoPlan ELSE s.plan
<1>1. b \in Releases
  BY CodeForType
<1>2. NoPlan \in Plan
  BY DEF NoPlan, Plan
<1>3. r \in State /\ r.height = s.height /\ r.plan = rest
  <2>1. CASE Applied(s)
    <3> DEFINE q == RunMigrations(s, b)
    <3>1. q \in State /\ q.height = s.height
      BY <1>1, RunMigrationsType, RunMigrationsFrame
    <3>2. [s.done EXCEPT ![s.plan.name] = s.height + 1] \in [Names -> Nat]
      <4>1. s.done \in [Names -> Nat] /\ s.height + 1 \in Nat
        BY DEF State
      <4>2. QED
        BY <4>1
    <3>3. r = [q EXCEPT !.done = [s.done EXCEPT ![s.plan.name] = s.height + 1],
                        !.plan = NoPlan]
      BY <2>1 DEF AfterPreBlock, ApplyUpgrade
    <3>4. r \in State /\ r.height = s.height /\ r.plan = NoPlan
      BY <1>2, <3>1, <3>2, <3>3 DEF State
    <3>5. QED
      BY <2>1, <3>4 DEF Applied
  <2>2. CASE Skipped(s)
    <3>1. r = [s EXCEPT !.plan = NoPlan]
      BY <2>2 DEF AfterPreBlock, ClearUpgradePlan, Applied
    <3>2. QED
      BY <1>2, <2>2, <3>1 DEF State, Skipped
  <2>3. CASE ~Applied(s) /\ ~Skipped(s)
    BY <2>3 DEF AfterPreBlock, Applied
  <2>4. QED
    BY <2>1, <2>2, <2>3
<1>4. t.done = r.done /\ t = DeliverBlock(r, b, p)
  BY <1>1, <1>3, DeliverBlockType DEF ChainStep
<1>5. t.plan = CASE p.kind = "schedule" /\ Schedulable(r, p.plan) -> p.plan
                 [] p.kind = "cancel" -> NoPlan
                 [] OTHER -> rest
  BY <1>3, <1>4 DEF DeliverBlock, State
<1>6. Schedulable(r, p.plan) <=>
        p.plan.height > s.height /\ t.done[p.plan.name] = 0
  <2>1. p.plan.height \in Nat /\ s.height \in Nat
    BY ConstantsAssumption DEF Proposal, Plan, State
  <2>2. QED
    BY <1>3, <1>4, <2>1 DEF Schedulable
<1>7. QED
  BY <1>5, <1>6

\* A due plan is settled by the very next block, applied or, at a skipped
\* height, dropped; an upgrade is recorded at no other height, and a plan that
\* is not due changes only by governance.
THEOREM Timely == Spec => []AppliedExactlyWhenDue
<1>1. ASSUME Inv PROVE AppliedExactlyWhenDue
  <2>1. SUFFICES ASSUME NEW n \in Nodes, NEW h \in CommittedHeights(n), h > 1
                 PROVE  LET s == versions[n][h - 1]
                            t == versions[n][h]
                            p == blocks[h] IN
                   /\ \A u \in Names :
                        IF Due(s) /\ s.plan.name = u
                           /\ (h \notin SkipHeights \/ HasHandler(s.code, u))
                        THEN s.done[u] = 0 /\ t.done[u] = h
                        ELSE t.done[u] = s.done[u]
                   /\ Due(s) =>
                        t.plan = NoPlan \/ (p.kind = "schedule" /\ t.plan = p.plan)
                   /\ t.plan # s.plan => Due(s) \/ p.kind # "none"
    BY DEF AppliedExactlyWhenDue
  <2> DEFINE s == versions[n][h - 1]
             t == versions[n][h]
             p == blocks[h]
  <2>2. /\ s \in State /\ StateOK(s) /\ s.height + 1 = h
        /\ p \in Proposals /\ t = ChainStep(s, p)
    BY <1>1, <2>1, Successor
  <2>3. t.done = IF Applied(s) THEN [s.done EXCEPT ![s.plan.name] = h] ELSE s.done
    BY <2>2, ChainStepDone
  <2>4. s.done \in [Names -> Nat]
    BY <2>2 DEF State
  <2>5. Applied(s) <=> /\ Due(s)
                       /\ h \notin SkipHeights \/ HasHandler(s.code, s.plan.name)
    BY <2>2 DEF Applied, Skipped
  <2>6. Due(s) => s.done[s.plan.name] = 0
    BY <2>2, DueNamed DEF StateOK
  <2>7. ASSUME NEW u \in Names
        PROVE  IF Due(s) /\ s.plan.name = u
                  /\ (h \notin SkipHeights \/ HasHandler(s.code, u))
               THEN s.done[u] = 0 /\ t.done[u] = h
               ELSE t.done[u] = s.done[u]
    BY <2>3, <2>4, <2>5, <2>6
  <2>8. t.plan = IF /\ p.kind = "schedule"
                    /\ p.plan.height > s.height /\ t.done[p.plan.name] = 0
                 THEN p.plan
                 ELSE IF p.kind = "cancel" THEN NoPlan
                 ELSE IF Due(s) THEN NoPlan ELSE s.plan
    BY <2>2, ChainStepPlan
  <2>9. Due(s) => t.plan = NoPlan \/ (p.kind = "schedule" /\ t.plan = p.plan)
    BY <2>8
  <2>10. t.plan # s.plan => Due(s) \/ p.kind # "none"
    BY <2>8
  <2>11. QED
    BY <2>7, <2>9, <2>10
<1>2. QED
  BY <1>1, Invariance, PTL

\* The migrations run exactly once and leave every module's data in the layout
\* of the code that runs on it.
THEOREM Migrations == Spec => []MigrationsExact
<1>1. Inv => MigrationsExact
  BY DEF Inv, OnChain, StateOK, ModulesExact, MigrationsExact
<1>2. QED
  BY <1>1, Invariance, PTL

---------------------------------------------------------------------------
(* Stores. *)

\* A committed state has the stores its release mounts.
LEMMA TipStores ==
  ASSUME Inv, NEW n \in Nodes
  PROVE  Tip(n).stores = Stores[Tip(n).code]
<1> USE DEF Inv
<1>1. Height(n) \in Nat
  BY TipOK
<1>2. CASE Height(n) = 0
  BY <1>2 DEF Tip, GenesisState, InitChainer
<1>3. CASE Height(n) # 0
  <2> DEFINE h == Height(n)
             s == IF h = 1 THEN GenesisState ELSE versions[n][h - 1]
             p == blocks[h]
  <2>1. h \in CommittedHeights(n) /\ Tip(n) = versions[n][h]
    BY <1>1, <1>3 DEF CommittedHeights, Height, Tip, Committed
  <2>2. versions[n][h] = ChainStep(s, p) /\ h <= Len(blocks)
    BY <2>1 DEF OnChain
  <2>3. p \in Proposals
    BY <1>1, <1>3, <2>2 DEF TypeOK
  <2>4. s \in State /\ StateOK(s)
    <3>1. CASE h = 1
      BY <3>1, GenesisOK
    <3>2. CASE h # 1
      BY <1>1, <1>3, <2>1, <3>2, Successor
    <3>3. QED
      BY <3>1, <3>2
  <2>5. AfterPreBlock(s) \in State
    BY <2>4, AfterPreBlockType
  <2>6. QED
    BY <2>1, <2>2, <2>5 DEF ChainStep, DeliverBlock, State
<1>4. QED
  BY <1>2, <1>3

\* A node whose file names the pending plan, and whose stop was not skipped,
\* loads its stores with whichever binary it can have.
LEMMA LoadsAfterStop ==
  ASSUME Inv, InfoKnown, NEW n \in Nodes, Height(n) > 0,
         info[n].name = Committed(n).plan.name, info[n].height \notin skips[n]
  PROVE  LoadSucceeds(n)
<1> USE DEF Inv
<1> DEFINE s == Tip(n)
           u == s.plan.name
<1>1. s = Committed(n) /\ s \in State /\ StateOK(s)
  BY TipOK DEF Tip
<1>2. s.stores = Stores[s.code]
  BY TipStores
<1>3. CASE binary[n] = s.code
  BY <1>1, <1>2, <1>3 DEF LoadSucceeds
<1>4. CASE binary[n] # s.code
  <2>1. /\ u \in Names /\ ~HasHandler(s.code, u)
        /\ binary[n] = ReleaseOf[u]
    BY <1>4 DEF BinaryKnown
  <2>2. s.done[u] = 0
    BY <1>1, <2>1, ConstantsAssumption DEF StateOK, PlanPending, NoPlan
  <2>3. StopSettled(n)
    BY <1>1, <2>1 DEF InfoKnown
  <2>4. info[n].height = Height(n) + 1
    BY <1>1, <2>2, <2>3 DEF StopSettled
  <2>5. LoaderAdds(n) = Added[u]
    BY <1>1, <2>1, <2>4, ReleaseHasHandler
    DEF LoaderAdds, IsSkipHeight, HasHandler
  <2>6. Stores[binary[n]] \subseteq s.stores \cup Added[u]
    BY <1>1, <1>2, <2>1, StoresListed DEF HasHandler, State
  <2>7. QED
    BY <1>1, <2>5, <2>6 DEF LoadSucceeds
<1>5. QED
  BY <1>3, <1>4

---------------------------------------------------------------------------
(* The invariant of store loading is inductive. *)

\* What LoadInv adds to Inv.
LoadPart ==
  /\ InfoKnown /\ SkipFlagged
  /\ \A n \in Nodes : status[n] = "loadFail" => Height(n) > 0
  /\ LoadFailsOnlyWithoutHalt

\* A step that neither commits nor writes a file, and after which no node
\* newly executes or fails to load.
LEMMA QuietStep ==
  ASSUME LoadPart, UNCHANGED <<versions, info>>,
         \A n \in Nodes :
           /\ skips[n] \subseteq skips'[n]
           /\ status'[n] = "finalized" => status[n] = "finalized"
           /\ status'[n] = "loadFail" => status[n] = "loadFail"
  PROVE  LoadPart'
<1> USE DEF LoadPart
<1>1. \A n \in Nodes : /\ Tip(n)' = Tip(n) /\ Height(n)' = Height(n)
                       /\ Committed(n)' = Committed(n)
  BY TipUnchanged DEF Committed, Height
<1>2. InfoKnown'
  <2>1. SUFFICES ASSUME NEW n \in Nodes, info[n].name \in Names
                 PROVE  StopSettled(n)'
    BY DEF InfoKnown
  <2>2. StopSettled(n)
    BY <2>1 DEF InfoKnown
  <2>3. QED
    BY <1>1, <2>2 DEF StopSettled
<1>3. SkipFlagged'
  BY <1>1 DEF SkipFlagged
<1>4. LoadFailsOnlyWithoutHalt'
  BY <1>1 DEF LoadFailsOnlyWithoutHalt
<1>5. \A n \in Nodes : status'[n] = "loadFail" => Height(n)' > 0
  BY <1>1
<1>6. QED
  BY <1>2, <1>3, <1>4, <1>5

\* NewEnokiApp sets up the store loader; whether it then loads depends on the
\* file and the stores alone, as LoadPart says.
LEMMA NewEnokiAppLoad ==
  ASSUME Inv, LoadPart, NEW n \in Nodes, NewEnokiApp(n)
  PROVE  LoadPart'
<1> USE DEF LoadPart
<1>1. /\ UNCHANGED <<versions, info, skips>>
      /\ status' = [status EXCEPT ![n] =
           IF LoadSucceeds(n) THEN "idle" ELSE "loadFail"]
      /\ status \in [Nodes -> Running \cup Stopped]
  BY DEF NewEnokiApp, Inv, TypeOK
<1>2. \A m \in Nodes : /\ Tip(m)' = Tip(m) /\ Height(m)' = Height(m)
                       /\ Committed(m)' = Committed(m)
  BY <1>1, TipUnchanged DEF Committed, Height
<1>3. Height(n) \in Nat
  BY TipOK DEF Inv
<1>4. \A m \in Nodes : StopSettled(m)' <=> StopSettled(m)
  BY <1>1, <1>2 DEF StopSettled
<1>5. InfoKnown' /\ SkipFlagged'
  BY <1>1, <1>2, <1>4 DEF InfoKnown, SkipFlagged
<1>6. ASSUME NEW m \in Nodes, status'[m] = "loadFail"
      PROVE  /\ Height(m) > 0
             /\ \/ info[m].name # Committed(m).plan.name
                \/ info[m].height \in skips[m]
  <2>1. CASE m = n
    <3>1. ~LoadSucceeds(n)
      BY <1>1, <1>6, <2>1
    <3>2. Height(n) > 0
      BY <1>3, <3>1 DEF LoadSucceeds
    <3>3. QED
      BY <2>1, <3>1, <3>2, LoadsAfterStop
  <2>2. CASE m # n
    <3>1. status[m] = "loadFail"
      BY <1>1, <1>6, <2>2
    <3>2. QED
      BY <3>1 DEF LoadFailsOnlyWithoutHalt
  <2>3. QED
    BY <2>1, <2>2
<1>7. QED
  BY <1>1, <1>2, <1>5, <1>6 DEF LoadFailsOnlyWithoutHalt

\* Only a node with the flag gets through the block of a skipped upgrade.
LEMMA ExecuteLoad ==
  ASSUME Inv, LoadPart, NEW n \in Nodes,
         FinalizeBlock(n) \/ FinalizeSkippedUpgrade(n) \/ FinalizeUpgrade(n)
  PROVE  LoadPart'
<1> USE DEF LoadPart
<1> DEFINE s == Tip(n)
<1>1. ExecutesChainStep(n)
  BY ExecuteIsChainStep DEF Inv
<1>2. /\ UNCHANGED <<versions, info, skips>>
      /\ status' = [status EXCEPT ![n] = "finalized"]
      /\ status \in [Nodes -> Running \cup Stopped]
      /\ Base(n) = s /\ s \in State /\ s.height = Height(n)
  BY <1>1, TipOK DEF ExecutesChainStep, Inv, TypeOK
<1>3. \A m \in Nodes : /\ Tip(m)' = Tip(m) /\ Height(m)' = Height(m)
                       /\ Committed(m)' = Committed(m)
  BY <1>2, TipUnchanged DEF Committed, Height
<1>4. Skipped(s) => Height(n) + 1 \in skips[n]
  <2>1. CASE FinalizeBlock(n)
    BY <1>2, <2>1 DEF FinalizeBlock, Skipped
  <2>2. CASE FinalizeSkippedUpgrade(n)
    BY <1>2, <2>2 DEF FinalizeSkippedUpgrade, IsSkipHeight
  <2>3. CASE FinalizeUpgrade(n)
    <3>1. HasHandler(binary[n], s.plan.name) /\ Due(s)
      BY <1>2, <2>3 DEF FinalizeUpgrade
    <3>2. ExecHeight(s) = s.height + 1
      BY <1>2, <3>1, DueExecHeight
    <3>3. QED
      BY <3>1, <3>2 DEF Skipped, Inv, BinaryKnown
  <2>4. QED
    BY <2>1, <2>2, <2>3
<1>5. \A m \in Nodes : StopSettled(m)' <=> StopSettled(m)
  BY <1>2, <1>3 DEF StopSettled
<1>6. InfoKnown' /\ LoadFailsOnlyWithoutHalt'
  BY <1>2, <1>3, <1>5 DEF InfoKnown, LoadFailsOnlyWithoutHalt
<1>7. SkipFlagged'
  BY <1>2, <1>3, <1>4 DEF SkipFlagged
<1>8. QED
  BY <1>2, <1>3, <1>6, <1>7

\* The file is written for the plan and the height the node stopped at.
LEMMA HaltForUpgradeLoad ==
  ASSUME Inv, LoadPart, NEW n \in Nodes, HaltForUpgrade(n)
  PROVE  LoadPart'
<1> USE DEF LoadPart
<1> DEFINE s == Tip(n)
<1>1. /\ UNCHANGED <<versions, skips>>
      /\ status' = [status EXCEPT ![n] = "needUpgrade"]
      /\ status \in [Nodes -> Running \cup Stopped]
      /\ Base(n) = s /\ s.height = Height(n) /\ Due(s)
      /\ info \in [Nodes -> Plan]
      /\ info' = [info EXCEPT ![n] =
                   [name |-> s.plan.name, height |-> Height(n) + 1]]
  BY TipOK DEF HaltForUpgrade, Halt, Inv, TypeOK
<1>2. \A m \in Nodes : /\ Tip(m)' = Tip(m) /\ Height(m)' = Height(m)
                       /\ Committed(m)' = Committed(m)
  BY <1>1, TipUnchanged DEF Committed, Height
<1>3. StopSettled(n)'
  BY <1>1, <1>2 DEF StopSettled
<1>4. \A m \in Nodes \ {n} : StopSettled(m)' <=> StopSettled(m)
  BY <1>1, <1>2 DEF StopSettled
<1>5. InfoKnown'
  BY <1>1, <1>3, <1>4 DEF InfoKnown
<1>6. SkipFlagged' /\ LoadFailsOnlyWithoutHalt'
  BY <1>1, <1>2 DEF SkipFlagged, LoadFailsOnlyWithoutHalt
<1>7. QED
  BY <1>1, <1>2, <1>5, <1>6

\* The block after a stop settles it: by the upgrade or by the skip.
LEMMA CommitLoad ==
  ASSUME Inv, LoadPart, NEW n \in Nodes, Commit(n)
  PROVE  LoadPart'
<1> USE DEF LoadPart
<1> DEFINE s == Tip(n)
           k == Height(n)
           t == work[n]
           p == blocks[k + 1]
<1>1. /\ status[n] = "finalized"
      /\ status' = [status EXCEPT ![n] = "idle"]
      /\ status \in [Nodes -> Running \cup Stopped]
      /\ versions \in [Nodes -> Seq(State)]
      /\ versions' = [versions EXCEPT ![n] = Append(versions[n], t)]
      /\ UNCHANGED <<info, skips>>
      /\ info \in [Nodes -> Plan]
  BY DEF Commit, Inv, TypeOK
<1>2. /\ k \in Nat /\ k < Len(blocks) /\ t = ChainStep(s, p)
      /\ s \in State /\ StateOK(s) /\ s.height = k
  BY <1>1, TipOK DEF Inv, WorkOnChain
<1>3. p \in Proposals
  BY <1>2 DEF Inv, TypeOK
<1>4. t \in State
  BY <1>2, <1>3, ChainStepOK
<1>5. t.done = IF Applied(s) THEN [s.done EXCEPT ![s.plan.name] = k + 1] ELSE s.done
  BY <1>2, <1>3, ChainStepDone
<1>6. s.done \in [Names -> Nat]
  BY <1>2 DEF State
<1>7. /\ versions[n] \in Seq(State) /\ k = Len(versions[n])
      /\ versions'[n] = Append(versions[n], t)
      /\ \A m \in Nodes \ {n} : versions'[m] = versions[m]
  BY <1>1 DEF Height
<1>8. Len(versions'[n]) = k + 1 /\ versions'[n][k + 1] = t
  BY <1>4, <1>7
<1>9. Height(n)' = k + 1 /\ Tip(n)' = t
  BY <1>2, <1>8 DEF Height, Tip, Committed
<1>10. \A m \in Nodes \ {n} : /\ Tip(m)' = Tip(m) /\ Height(m)' = Height(m)
                              /\ Committed(m)' = Committed(m)
  BY <1>7 DEF Tip, Height, Committed, GenesisState, InitChainer, Present
<1>11. InfoKnown'
  <2>1. SUFFICES ASSUME NEW m \in Nodes, info[m].name \in Names
                 PROVE  StopSettled(m)'
    BY <1>1 DEF InfoKnown
  <2>2. StopSettled(m)
    BY <2>1 DEF InfoKnown
  <2>3. CASE m # n
    BY <1>1, <1>10, <2>2, <2>3 DEF StopSettled
  <2>4. CASE m = n
    <3> DEFINE u == info[n].name
    <3>1. CASE info[n].height \in skips[n]
      BY <1>1, <2>4, <3>1 DEF StopSettled
    <3>2. CASE s.done[u] > 0
      <4>1. t.done[u] > 0
        BY <1>2, <1>5, <1>6, <2>1, <2>4, <3>2
      <4>2. QED
        BY <1>1, <1>9, <2>4, <4>1 DEF StopSettled
    <3>3. CASE info[n].height = k + 1 /\ Due(s) /\ s.plan.name = u
      <4>1. CASE Applied(s)
        <5>1. t.done[u] > 0
          BY <1>2, <1>5, <1>6, <2>1, <2>4, <3>3, <4>1
        <5>2. QED
          BY <1>1, <1>9, <2>4, <5>1 DEF StopSettled
      <4>2. CASE ~Applied(s)
        <5>1. Skipped(s)
          BY <3>3, <4>2 DEF Applied
        <5>2. k + 1 \in skips[n]
          BY <1>1, <5>1 DEF SkipFlagged
        <5>3. QED
          BY <1>1, <2>4, <3>3, <5>2 DEF StopSettled
      <4>3. QED
        BY <4>1, <4>2
    <3>4. QED
      BY <2>2, <2>4, <3>1, <3>2, <3>3 DEF StopSettled
  <2>5. QED
    BY <2>3, <2>4
<1>12. \A m \in Nodes : status'[m] \in {"finalized", "loadFail"} =>
                        m # n /\ status'[m] = status[m]
  BY <1>1
<1>13. SkipFlagged' /\ LoadFailsOnlyWithoutHalt'
  BY <1>1, <1>10, <1>12 DEF SkipFlagged, LoadFailsOnlyWithoutHalt
<1>14. \A m \in Nodes : status'[m] = "loadFail" => Height(m)' > 0
  BY <1>10, <1>12
<1>15. QED
  BY <1>11, <1>13, <1>14

\* Every step of nodes and operators keeps what is known about loading stores.
LEMMA NextLoad == Inv /\ LoadPart /\ [Next]_vars => LoadPart'
<1> SUFFICES ASSUME Inv, LoadPart, [Next]_vars PROVE LoadPart'
  OBVIOUS
<1>1. /\ status \in [Nodes -> Running \cup Stopped]
      /\ skips \in [Nodes -> SUBSET SkipHeights]
  BY DEF Inv, TypeOK
<1>2. ASSUME NEW p \in Proposals, Decide(p) PROVE LoadPart'
  BY <1>2, QuietStep DEF Decide
<1>3. ASSUME NEW n \in Nodes, NodeStep(n) PROVE LoadPart'
  <2>1. CASE NewEnokiApp(n)
    BY <2>1, NewEnokiAppLoad
  <2>2. CASE InitChain(n)
    BY <1>1, <2>2, QuietStep DEF InitChain
  <2>3. CASE FinalizeBlock(n) \/ FinalizeSkippedUpgrade(n) \/ FinalizeUpgrade(n)
    BY <2>3, ExecuteLoad
  <2>4. CASE HaltForUpgrade(n)
    BY <2>4, HaltForUpgradeLoad
  <2>5. CASE HaltEarly(n)
    BY <1>1, <2>5, QuietStep DEF HaltEarly, Halt
  <2>6. CASE HaltDowngrade(n)
    BY <1>1, <2>6, QuietStep DEF HaltDowngrade, Halt
  <2>7. CASE Commit(n)
    BY <2>7, CommitLoad
  <2>8. QED
    BY <1>3, <2>1, <2>2, <2>3, <2>4, <2>5, <2>6, <2>7 DEF NodeStep
<1>4. ASSUME NEW n \in Nodes,
             InstallRelease(n) \/ InstallPrematurely(n) \/ Reinstall(n)
      PROVE  LoadPart'
  <2>1. PICK b : Install(n, b)
    BY <1>4 DEF InstallRelease, InstallPrematurely, Reinstall
  <2>2. QED
    BY <1>1, <2>1, QuietStep DEF Install
<1>5. ASSUME NEW n \in Nodes, SkipUpgrade(n) PROVE LoadPart'
  BY <1>1, <1>5, QuietStep DEF SkipUpgrade
<1>6. ASSUME NEW n \in Nodes, Crash(n) PROVE LoadPart'
  BY <1>1, <1>6, QuietStep DEF Crash
<1>7. CASE UNCHANGED vars
  BY <1>7, QuietStep DEF vars
<1>8. QED
  BY <1>2, <1>3, <1>4, <1>5, <1>6, <1>7 DEF Next, OperatorStep, UpgradeFails

\* The invariant of store loading holds in every reachable state: what the
\* upgrade-info file of a node says is settled by its skip flags, by its last
\* state or by the very next block.
THEOREM LoadInvariance == Spec => []LoadInv
<1>1. Init => LoadPart
  <2>1. Init => \A n \in Nodes : info[n].name = None /\ status[n] = "down"
    BY DEF Init, NoPlan
  <2>2. QED
    BY <2>1, ConstantsAssumption
    DEF LoadPart, InfoKnown, SkipFlagged, LoadFailsOnlyWithoutHalt
<1>2. Spec => []LoadPart
  BY <1>1, Invariance, NextLoad, PTL DEF Spec
<1>3. Inv /\ LoadPart => LoadInv
  BY DEF LoadPart, LoadInv
<1>4. QED
  BY <1>2, <1>3, Invariance, PTL

\* Whatever crashes, swaps, skips and cancellations came before, the stop that
\* a node's upgrade-info file tells of was skipped, followed by its upgrade, or
\* is the one the node has to get through next.
THEOREM InfoIsSettled == Spec => []InfoKnown
<1>1. LoadInv => InfoKnown
  BY DEF LoadInv
<1>2. QED
  BY <1>1, LoadInvariance, PTL

\* With any number of nodes, releases and stores, a node only fails to load
\* when its binary was swapped without a stop for the pending plan.
THEOREM LoadFails == Spec => []LoadFailsOnlyWithoutHalt
<1>1. LoadInv => LoadFailsOnlyWithoutHalt
  BY DEF LoadInv
<1>2. QED
  BY <1>1, LoadInvariance, PTL

---------------------------------------------------------------------------
(* The downgrade check, with operators who install any release. *)

\* A committed state, and the state the next block is executed on.
LEMMA CommittedOK ==
  ASSUME DowngradeInv, NEW n \in Nodes, Height(n) > 0
  PROVE  /\ Committed(n) \in State /\ Committed(n).height = Height(n)
         /\ Recorded(Committed(n))
<1>1. versions[n] \in Seq(State) /\ Height(n) \in 1..Len(versions[n])
  BY DEF DowngradeInv, TypeOK, Height
<1>2. QED
  BY <1>1 DEF DowngradeInv, CommittedRecorded, CommittedHeights, Committed

\* The state a running node executes its next block on is a recorded one, and
\* its release knows it when the downgrade check was passed.
LEMMA BaseOK ==
  ASSUME DowngradeInv, NEW n \in Nodes, HasBlock(n)
  PROVE  /\ Height(n) \in Nat
         /\ Base(n) \in State /\ Base(n).height = Height(n)
         /\ Recorded(Base(n))
         /\ verified[n] => Knows(binary[n], Base(n))
         /\ blocks[Height(n) + 1] \in Proposals /\ binary[n] \in Releases
<1>1. /\ versions[n] \in Seq(State) /\ Height(n) = Len(versions[n])
      /\ Height(n) \in Nat /\ binary[n] \in Releases
      /\ blocks \in Seq(Proposals) /\ Height(n) < Len(blocks)
  BY DEF DowngradeInv, TypeOK, Height, HasBlock
<1>2. blocks[Height(n) + 1] \in Proposals
  BY <1>1
<1>3. CASE Height(n) = 0
  <2>1. Base(n) = InitChainer(binary[n])
    BY <1>3 DEF HasBlock, Base, DowngradeInv, RunningChecked
  <2>2. Base(n) \in State
    BY <1>1, <2>1, InitChainerType
  <2>3. Base(n).height = 0 /\ Base(n).plan = NoPlan
        /\ \A u \in Names : Base(n).done[u] = 0
    BY <2>1 DEF InitChainer
  <2>4. QED
    BY <1>1, <1>2, <1>3, <2>2, <2>3 DEF Recorded, Knows, LastApplied
<1>4. CASE Height(n) # 0
  BY <1>1, <1>2, <1>4, CommittedOK
  DEF Base, HasBlock, DowngradeInv, RunningChecked
<1>5. QED
  BY <1>3, <1>4

\* What the rest of a block keeps: r is the state the pre-blocker leaves.
LEMMA DeliverRecorded ==
  ASSUME NEW r \in State, NEW b \in Releases, NEW p \in Proposals,
         r.plan = NoPlan \/ r.plan.name \in Names,
         \A u \in Names : r.done[u] <= r.height + 1
  PROVE  LET t == DeliverBlock(r, b, p) IN
         /\ t \in State /\ t.height = r.height + 1 /\ Recorded(t)
         /\ t.code = b /\ t.done = r.done
         /\ LastApplied(t) = LastApplied(r)
<1> DEFINE t == DeliverBlock(r, b, p)
<1>1. /\ t \in State /\ t.height = r.height + 1
      /\ t.code = b /\ t.done = r.done
  BY DeliverBlockType
<1>2. t.plan = CASE p.kind = "schedule" /\ Schedulable(r, p.plan) -> p.plan
                 [] p.kind = "cancel" -> NoPlan
                 [] OTHER -> r.plan
  BY DEF DeliverBlock, State
<1>3. p.kind = "schedule" => p.plan.name \in Names
  BY ConstantsAssumption
<1>4. t.plan = NoPlan \/ t.plan.name \in Names
  BY <1>2, <1>3
<1>5. QED
  BY <1>1, <1>4 DEF Recorded, LastApplied

\* A block that gets past the pre-blocker is executed by a binary that knows
\* the last upgrade, or applies one; afterwards the binary knows the last one.
LEMMA ExecuteChecked ==
  ASSUME DowngradeInv, NEW n \in Nodes,
         FinalizeBlock(n) \/ FinalizeSkippedUpgrade(n) \/ FinalizeUpgrade(n)
  PROVE  \E t \in State :
           /\ work' = [work EXCEPT ![n] = t]
           /\ status' = [status EXCEPT ![n] = "finalized"]
           /\ verified' = [verified EXCEPT ![n] = TRUE]
           /\ UNCHANGED <<blocks, versions, binary, info, skips, faults>>
           /\ t.height = Height(n) + 1 /\ Recorded(t)
           /\ Knows(binary[n], t)
           /\ Checked(Base(n), t, Height(n) + 1)
<1> DEFINE s == Base(n)
           b == binary[n]
           p == blocks[Height(n) + 1]
<1>0. HasBlock(n)
  BY DEF FinalizeBlock, FinalizeSkippedUpgrade, FinalizeUpgrade
<1>1. /\ Height(n) \in Nat /\ s \in State /\ s.height = Height(n)
      /\ Recorded(s) /\ p \in Proposals /\ b \in Releases
      /\ verified[n] => Knows(b, s)
  BY <1>0, BaseOK
<1>2. NoPlan \in Plan /\ s.done \in [Names -> Nat]
  BY <1>1 DEF NoPlan, Plan, State
<1>3. CASE FinalizeBlock(n) \/ FinalizeSkippedUpgrade(n)
  <2> DEFINE r == IF FinalizeBlock(n) THEN s ELSE ClearUpgradePlan(s)
             t == DeliverBlock(r, b, p)
  <2>1. Execute(n, r)
    BY <1>3 DEF FinalizeBlock, FinalizeSkippedUpgrade
  <2>2. /\ r \in State /\ r.height = Height(n) /\ r.done = s.done
        /\ r.plan = NoPlan \/ r.plan.name \in Names
    BY <1>1, <1>2 DEF ClearUpgradePlan, State, Recorded
  <2>3. Knows(b, s)
    <3>1. ~WrongAppVersion(n, s)
      BY <1>3 DEF FinalizeBlock, FinalizeSkippedUpgrade
    <3>2. ~Due(s) \/ IsSkipHeight(n, s.height + 1)
      BY <1>3 DEF FinalizeBlock, FinalizeSkippedUpgrade
    <3>3. QED
      BY <1>1, <3>1, <3>2 DEF WrongAppVersion, Knows
  <2>4. \A u \in Names : r.done[u] <= r.height + 1
    BY <1>1, <1>2, <2>2 DEF Recorded
  <2>5. /\ t \in State /\ t.height = Height(n) + 1 /\ Recorded(t)
        /\ t.code = b /\ LastApplied(t) = LastApplied(r)
    BY <1>1, <2>2, <2>4, DeliverRecorded
  <2>6. LastApplied(r) = LastApplied(s)
    BY <2>2 DEF LastApplied
  <2>7. Knows(b, t) /\ Checked(s, t, Height(n) + 1)
    BY <2>3, <2>5, <2>6 DEF Knows, Checked
  <2>8. QED
    BY <2>1, <2>5, <2>7 DEF Execute
<1>4. CASE FinalizeUpgrade(n)
  <2> DEFINE u == s.plan.name
             r == ApplyUpgrade(s, b)
             q == RunMigrations(s, b)
             done == [s.done EXCEPT ![u] = s.height + 1]
             t == DeliverBlock(r, b, p)
  <2>1. Execute(n, r) /\ Due(s) /\ HasHandler(b, u)
    BY <1>4 DEF FinalizeUpgrade
  <2>2. u \in Names
    BY <1>1, <2>1 DEF Due, ShouldExecute, Recorded, NoPlan
  <2>3. q \in State /\ q.height = s.height
    BY <1>1, RunMigrationsType, RunMigrationsFrame
  <2>4. done \in [Names -> Nat]
    <3>1. s.done \in [Names -> Nat] /\ s.height + 1 \in Nat
      BY <1>1, <1>2
    <3>2. QED
      BY <3>1
  <2>5. r = [q EXCEPT !.done = done, !.plan = NoPlan]
    BY DEF ApplyUpgrade
  <2> HIDE DEF done, q, r
  <2>6. /\ r \in State /\ r.height = Height(n)
        /\ r.done = done /\ r.plan = NoPlan
    BY <1>1, <1>2, <2>3, <2>4, <2>5 DEF State
  <2>7. /\ done[u] = Height(n) + 1
        /\ \A v \in Names \ {u} : done[v] = s.done[v] /\ s.done[v] <= Height(n)
    BY <1>1, <1>2, <2>2 DEF Recorded, done
  <2>8. \A v \in Names : r.done[v] <= r.height + 1
    BY <1>1, <1>2, <2>6, <2>7
  <2>9. /\ t \in State /\ t.height = Height(n) + 1 /\ Recorded(t)
        /\ t.done = done /\ LastApplied(t) = LastApplied(r)
    BY <1>1, <2>6, <2>8, DeliverRecorded
  <2>10. LastApplied(r) = {u}
    BY <1>1, <1>2, <2>2, <2>6, <2>7 DEF LastApplied
  <2>11. Knows(b, t)
    BY <2>1, <2>9, <2>10 DEF Knows
  <2>12. Checked(s, t, Height(n) + 1)
    BY <2>2, <2>7, <2>9 DEF Checked
  <2>13. QED
    BY <2>1, <2>9, <2>11, <2>12 DEF Execute
<1>5. QED
  BY <1>3, <1>4

\* What DowngradeInv says of a process: its work, its binary, its memory.
LEMMA QuietProcess ==
  ASSUME DowngradeInv, TypeOK', versions' = versions,
         \A n \in Nodes : status'[n] \in Running =>
           /\ binary'[n] = binary[n]
           /\ \/ /\ status'[n] = status[n] /\ work'[n] = work[n]
                 /\ verified'[n] = verified[n]
              \/ status'[n] = "idle" /\ ~verified'[n]
  PROVE  DowngradeInv'
<1>1. \A n \in Nodes : /\ Height(n)' = Height(n) /\ Committed(n)' = Committed(n)
                       /\ CommittedHeights(n)' = CommittedHeights(n)
  BY DEF Height, Committed, CommittedHeights
<1>2. CommittedRecorded'
  BY <1>1 DEF DowngradeInv, CommittedRecorded
<1>3. NoSilentDowngrade'
  BY <1>1 DEF DowngradeInv, NoSilentDowngrade
<1>4. ASSUME NEW n \in Nodes
      PROVE  /\ status'[n] = "inited" =>
                  Height(n)' = 0 /\ work'[n] = InitChainer(binary'[n])
             /\ status'[n] = "idle" /\ verified'[n] /\ Height(n)' > 0 =>
                  Knows(binary'[n], Committed(n)')
             /\ status'[n] = "finalized" =>
                  /\ verified'[n] /\ Knows(binary'[n], work'[n])
                  /\ work'[n].height = Height(n)' + 1 /\ Recorded(work'[n])
                  /\ Height(n)' > 0 =>
                       Checked(Committed(n)', work'[n], Height(n)' + 1)
  <2>1. CASE status'[n] \notin Running
    BY <2>1 DEF Running
  <2>2. CASE status'[n] = "idle" /\ ~verified'[n]
    BY <2>2
  <2>3. CASE /\ status'[n] = status[n] /\ work'[n] = work[n]
             /\ verified'[n] = verified[n] /\ binary'[n] = binary[n]
    BY <1>1, <2>3 DEF DowngradeInv, RunningChecked
  <2>4. QED
    BY <2>1, <2>2, <2>3
<1>5. RunningChecked'
  BY <1>4 DEF RunningChecked, Knows, Recorded, Checked, InitChainer, HasHandler,
     LastApplied, Present
<1>6. QED
  BY <1>2, <1>3, <1>5 DEF DowngradeInv

\* A commit records the state that was checked before it was executed.
LEMMA CommitChecked ==
  ASSUME DowngradeInv, NEW n \in Nodes, Commit(n)
  PROVE  DowngradeInv'
<1> DEFINE t == work[n]
           k == Height(n)
<1>1. /\ status[n] = "finalized" /\ t \in State /\ TypeOK
      /\ status' = [status EXCEPT ![n] = "idle"]
      /\ status \in [Nodes -> Running \cup Stopped]
      /\ work' = [work EXCEPT ![n] = NoWork]
      /\ versions \in [Nodes -> Seq(State)]
      /\ versions' = [versions EXCEPT ![n] = Append(versions[n], t)]
      /\ UNCHANGED <<blocks, binary, info, verified, skips, faults>>
  BY DEF Commit, DowngradeInv, TypeOK
<1>2. /\ verified[n] /\ Knows(binary[n], t)
      /\ t.height = k + 1 /\ Recorded(t)
      /\ k > 0 => Checked(Committed(n), t, k + 1)
  BY <1>1 DEF DowngradeInv, RunningChecked
<1>3. /\ versions[n] \in Seq(State) /\ k = Len(versions[n]) /\ k \in Nat
      /\ versions'[n] = Append(versions[n], t)
      /\ \A m \in Nodes \ {n} : versions'[m] = versions[m]
  BY <1>1 DEF Height
<1>4. /\ Len(versions'[n]) = k + 1
      /\ versions'[n][k + 1] = t
      /\ \A h \in 1..k : versions'[n][h] = versions[n][h]
  BY <1>1, <1>3
<1>5. /\ Height(n)' = k + 1 /\ Committed(n)' = t
      /\ CommittedHeights(n)' = 1..(k + 1) /\ CommittedHeights(n) = 1..k
  BY <1>3, <1>4 DEF Height, Committed, CommittedHeights
<1>6. \A m \in Nodes \ {n} : /\ Height(m)' = Height(m) /\ Committed(m)' = Committed(m)
                             /\ CommittedHeights(m)' = CommittedHeights(m)
  BY <1>3 DEF Height, Committed, CommittedHeights
<1>7. TypeOK'
  <2>1. NoWork \in State
    BY InitChainerType, ConstantsAssumption DEF NoWork
  <2>2. versions' \in [Nodes -> Seq(State)]
    BY <1>1
  <2>3. QED
    BY <1>1, <2>1, <2>2 DEF TypeOK, Running
<1>8. CommittedRecorded'
  <2>1. SUFFICES ASSUME NEW m \in Nodes, NEW h \in CommittedHeights(m)'
                 PROVE  versions'[m][h].height = h /\ Recorded(versions'[m][h])
    BY DEF CommittedRecorded, Recorded
  <2>2. CASE m # n
    BY <1>3, <1>6, <2>1, <2>2 DEF DowngradeInv, CommittedRecorded
  <2>3. CASE m = n /\ h = k + 1
    BY <1>2, <1>4, <2>3
  <2>4. CASE m = n /\ h \in 1..k
    BY <1>4, <1>5, <2>4 DEF DowngradeInv, CommittedRecorded
  <2>5. QED
    BY <1>3, <1>5, <2>1, <2>2, <2>3, <2>4
<1>9. NoSilentDowngrade'
  <2>1. SUFFICES ASSUME NEW m \in Nodes, NEW h \in CommittedHeights(m)', h > 1
                 PROVE  Checked(versions'[m][h - 1], versions'[m][h], h)
    BY DEF NoSilentDowngrade, Checked, Knows, LastApplied, HasHandler
  <2>2. CASE m # n
    <3>1. h \in CommittedHeights(m) /\ versions'[m] = versions[m]
      BY <1>3, <1>6, <2>1, <2>2
    <3>2. Checked(versions[m][h - 1], versions[m][h], h)
      BY <2>1, <3>1 DEF DowngradeInv, NoSilentDowngrade, Checked, Knows
    <3>3. QED
      BY <3>1, <3>2
  <2>3. CASE m = n /\ h = k + 1
    <3>1. k > 0 /\ h - 1 = k /\ versions'[n][k] = Committed(n)
      BY <1>3, <1>4, <2>1, <2>3 DEF Committed
    <3>2. QED
      BY <1>2, <1>4, <2>3, <3>1
  <2>4. CASE m = n /\ h \in 1..k
    <3>1. h \in 1..k /\ h - 1 \in 1..k
      BY <1>3, <2>1, <2>4
    <3>2. Checked(versions[n][h - 1], versions[n][h], h)
      BY <1>5, <2>1, <2>4 DEF DowngradeInv, NoSilentDowngrade, Checked, Knows
    <3>3. QED
      BY <1>4, <2>4, <3>1, <3>2
  <2>5. QED
    BY <1>3, <1>5, <2>1, <2>2, <2>3, <2>4
<1>10. RunningChecked'
  <2>1. ASSUME NEW m \in Nodes
        PROVE  /\ status'[m] = "inited" =>
                    Height(m)' = 0 /\ work'[m] = InitChainer(binary'[m])
               /\ status'[m] = "idle" /\ verified'[m] /\ Height(m)' > 0 =>
                    Knows(binary'[m], Committed(m)')
               /\ status'[m] = "finalized" =>
                    /\ verified'[m] /\ Knows(binary'[m], work'[m])
                    /\ work'[m].height = Height(m)' + 1 /\ Recorded(work'[m])
                    /\ Height(m)' > 0 =>
                         Checked(Committed(m)', work'[m], Height(m)' + 1)
    <3>1. CASE m = n
      BY <1>1, <1>2, <1>5, <3>1
    <3>2. CASE m # n
      <4>1. status'[m] = status[m] /\ work'[m] = work[m] /\ work[m] = work[m]
        BY <1>1, <3>2 DEF TypeOK
      <4>2. QED
        BY <1>1, <1>6, <3>2, <4>1 DEF DowngradeInv, RunningChecked
    <3>3. QED
      BY <3>1, <3>2
  <2>2. QED
    BY <2>1 DEF RunningChecked, Knows, Recorded, Checked, InitChainer, HasHandler,
       LastApplied, Present
<1>11. QED
  BY <1>7, <1>8, <1>9, <1>10 DEF DowngradeInv

\* A binary that an operator installs is a release.
LEMMA InstallQuiet ==
  ASSUME DowngradeInv, NEW n \in Nodes, NEW b \in Releases,
         Install(n, b), faults' \in Nat
  PROVE  DowngradeInv'
<1>1. /\ versions' = versions
      /\ binary' = [binary EXCEPT ![n] = b]
      /\ status' = [status EXCEPT ![n] = "down"]
      /\ UNCHANGED <<blocks, work, info, verified, skips>> /\ TypeOK
  BY DEF Install, DowngradeInv
<1>2. TypeOK'
  BY <1>1 DEF TypeOK, Stopped
<1>3. \A m \in Nodes : status'[m] \in Running => m # n
  BY <1>1 DEF TypeOK, Running
<1>4. QED
  BY <1>1, <1>2, <1>3, QuietProcess DEF TypeOK

\* Every step keeps the records, also those of undisciplined operators.
LEMMA NextDowngrade ==
  DowngradeInv /\ [NextUndisciplined]_vars => DowngradeInv'
<1> SUFFICES ASSUME DowngradeInv, [NextUndisciplined]_vars PROVE DowngradeInv'
  OBVIOUS
<1>0. TypeOK
  BY DEF DowngradeInv
<1>1. ASSUME NEW p \in Proposals, Decide(p) PROVE DowngradeInv'
  <2>1. TypeOK' /\ UNCHANGED <<versions, work, status, binary, verified>>
    BY <1>0, <1>1 DEF Decide, TypeOK
  <2>2. QED
    BY <2>1, QuietProcess
<1>2. ASSUME NEW n \in Nodes, NewEnokiApp(n) PROVE DowngradeInv'
  <2>1. /\ TypeOK' /\ versions' = versions
        /\ \A m \in Nodes : status'[m] \in Running =>
             /\ binary'[m] = binary[m]
             /\ \/ /\ status'[m] = status[m] /\ work'[m] = work[m]
                   /\ verified'[m] = verified[m]
                \/ status'[m] = "idle" /\ ~verified'[m]
    BY <1>0, <1>2 DEF NewEnokiApp, TypeOK, Running, Stopped
  <2>2. QED
    BY <2>1, QuietProcess
<1>3. ASSUME NEW n \in Nodes, InitChain(n) PROVE DowngradeInv'
  <2> DEFINE g == InitChainer(binary[n])
  <2>1. /\ Height(n) = 0 /\ UNCHANGED <<blocks, versions, binary, info, verified, skips, faults>>
        /\ status' = [status EXCEPT ![n] = "inited"]
        /\ work' = [work EXCEPT ![n] = g]
    BY <1>3 DEF InitChain
  <2>2. g \in State
    BY <1>0, InitChainerType DEF TypeOK
  <2>3. TypeOK'
    BY <1>0, <2>1, <2>2 DEF TypeOK, Running
  <2>4. \A m \in Nodes : /\ Height(m)' = Height(m) /\ Committed(m)' = Committed(m)
                         /\ CommittedHeights(m)' = CommittedHeights(m)
    BY <2>1 DEF Height, Committed, CommittedHeights
  <2>5. CommittedRecorded' /\ NoSilentDowngrade'
    BY <2>1, <2>4 DEF DowngradeInv, CommittedRecorded, NoSilentDowngrade
  <2>6. RunningChecked'
    <3>1. status'[n] = "inited" /\ work'[n] = g
      BY <1>0, <2>1 DEF TypeOK
    <3>2. \A m \in Nodes \ {n} : status'[m] = status[m] /\ work'[m] = work[m]
      BY <1>0, <2>1 DEF TypeOK
    <3>3. ASSUME NEW m \in Nodes
          PROVE  /\ status'[m] = "inited" =>
                      Height(m)' = 0 /\ work'[m] = InitChainer(binary'[m])
                 /\ status'[m] = "idle" /\ verified'[m] /\ Height(m)' > 0 =>
                      Knows(binary'[m], Committed(m)')
                 /\ status'[m] = "finalized" =>
                      /\ verified'[m] /\ Knows(binary'[m], work'[m])
                      /\ work'[m].height = Height(m)' + 1 /\ Recorded(work'[m])
                      /\ Height(m)' > 0 =>
                           Checked(Committed(m)', work'[m], Height(m)' + 1)
      <4>1. CASE m = n
        BY <2>1, <2>4, <3>1, <4>1
      <4>2. CASE m # n
        BY <2>1, <2>4, <3>2, <4>2 DEF DowngradeInv, RunningChecked
      <4>3. QED
        BY <4>1, <4>2
    <3>4. QED
      BY <3>3 DEF RunningChecked, Knows, Recorded, Checked, InitChainer,
         HasHandler, LastApplied, Present
  <2>7. QED
    BY <2>3, <2>5, <2>6 DEF DowngradeInv
<1>4. ASSUME NEW n \in Nodes,
             FinalizeBlock(n) \/ FinalizeSkippedUpgrade(n) \/ FinalizeUpgrade(n)
      PROVE  DowngradeInv'
  <2>1. PICK t \in State :
          /\ work' = [work EXCEPT ![n] = t]
          /\ status' = [status EXCEPT ![n] = "finalized"]
          /\ verified' = [verified EXCEPT ![n] = TRUE]
          /\ UNCHANGED <<blocks, versions, binary, info, skips, faults>>
          /\ t.height = Height(n) + 1 /\ Recorded(t)
          /\ Knows(binary[n], t)
          /\ Checked(Base(n), t, Height(n) + 1)
    BY <1>4, ExecuteChecked
  <2>2. Height(n) > 0 => Base(n) = Committed(n)
    BY <1>0 DEF Base, TypeOK, Height
  <2>3. TypeOK'
    BY <1>0, <2>1 DEF TypeOK, Running
  <2>4. \A m \in Nodes : /\ Height(m)' = Height(m) /\ Committed(m)' = Committed(m)
                         /\ CommittedHeights(m)' = CommittedHeights(m)
    BY <2>1 DEF Height, Committed, CommittedHeights
  <2>5. CommittedRecorded' /\ NoSilentDowngrade'
    BY <2>1, <2>4 DEF DowngradeInv, CommittedRecorded, NoSilentDowngrade
  <2>6. RunningChecked'
    <3>1. status'[n] = "finalized" /\ work'[n] = t /\ verified'[n]
      BY <1>0, <2>1 DEF TypeOK
    <3>2. \A m \in Nodes \ {n} : /\ status'[m] = status[m] /\ work'[m] = work[m]
                                 /\ verified'[m] = verified[m]
      BY <1>0, <2>1 DEF TypeOK
    <3>3. ASSUME NEW m \in Nodes
          PROVE  /\ status'[m] = "inited" =>
                      Height(m)' = 0 /\ work'[m] = InitChainer(binary'[m])
                 /\ status'[m] = "idle" /\ verified'[m] /\ Height(m)' > 0 =>
                      Knows(binary'[m], Committed(m)')
                 /\ status'[m] = "finalized" =>
                      /\ verified'[m] /\ Knows(binary'[m], work'[m])
                      /\ work'[m].height = Height(m)' + 1 /\ Recorded(work'[m])
                      /\ Height(m)' > 0 =>
                           Checked(Committed(m)', work'[m], Height(m)' + 1)
      <4>1. CASE m = n
        BY <2>1, <2>2, <2>4, <3>1, <4>1
      <4>2. CASE m # n
        BY <2>1, <2>4, <3>2, <4>2 DEF DowngradeInv, RunningChecked
      <4>3. QED
        BY <4>1, <4>2
    <3>4. QED
      BY <3>3 DEF RunningChecked, Knows, Recorded, Checked, InitChainer,
         HasHandler, LastApplied, Present
  <2>7. QED
    BY <2>3, <2>5, <2>6 DEF DowngradeInv
<1>5. ASSUME NEW n \in Nodes, HaltForUpgrade(n) \/ HaltEarly(n) \/ HaltDowngrade(n)
      PROVE  DowngradeInv'
  <2>1. PICK why \in {"needUpgrade", "early", "downgrade"} :
          Halt(n, why) /\ HasBlock(n) /\ info' \in [Nodes -> Plan]
    <3>1. CASE HaltForUpgrade(n)
      <4>1. Base(n) \in State
        BY <3>1, BaseOK DEF HaltForUpgrade
      <4>2. [name |-> Base(n).plan.name, height |-> Base(n).height + 1] \in Plan
        BY <4>1 DEF State, Plan
      <4>3. QED
        BY <1>0, <3>1, <4>2 DEF HaltForUpgrade, TypeOK
    <3>2. CASE HaltEarly(n)
      BY <1>0, <3>2 DEF HaltEarly, TypeOK
    <3>3. CASE HaltDowngrade(n)
      BY <1>0, <3>3 DEF HaltDowngrade, TypeOK
    <3>4. QED
      BY <1>5, <3>1, <3>2, <3>3
  <2>2. NoWork \in State
    BY InitChainerType, ConstantsAssumption DEF NoWork
  <2>3. TypeOK'
    BY <1>0, <2>1, <2>2 DEF Halt, TypeOK, Stopped
  <2>4. \A m \in Nodes : status'[m] \in Running => m # n
    BY <1>0, <2>1 DEF Halt, TypeOK, Running
  <2>5. QED
    BY <1>0, <2>1, <2>3, <2>4, QuietProcess DEF Halt, TypeOK
<1>6. ASSUME NEW n \in Nodes, Commit(n) PROVE DowngradeInv'
  BY <1>6, CommitChecked
<1>7. ASSUME NEW n \in Nodes, Crash(n) PROVE DowngradeInv'
  <2>1. NoWork \in State
    BY InitChainerType, ConstantsAssumption DEF NoWork
  <2>2. TypeOK'
    BY <1>0, <1>7, <2>1 DEF Crash, TypeOK, Stopped
  <2>3. \A m \in Nodes : status'[m] \in Running => m # n
    BY <1>0, <1>7 DEF Crash, TypeOK, Running
  <2>4. QED
    BY <1>0, <1>7, <2>2, <2>3, QuietProcess DEF Crash, TypeOK
<1>8. ASSUME NEW n \in Nodes, InstallRelease(n) \/ InstallPrematurely(n)
      PROVE  DowngradeInv'
  <2> DEFINE b == ReleaseOf[Committed(n).plan.name]
  <2>1. ReleasePending(n) /\ Install(n, b) /\ faults' \in Nat
    BY <1>0, <1>8 DEF InstallRelease, InstallPrematurely, TypeOK
  <2>2. Committed(n).plan.name \in Names
    BY <2>1, CommittedOK DEF ReleasePending, Recorded
  <2>3. b \in Releases
    BY <2>2, ConstantsAssumption
  <2>4. QED
    BY <2>1, <2>3, InstallQuiet
<1>9. ASSUME NEW n \in Nodes, Reinstall(n) PROVE DowngradeInv'
  <2>1. Committed(n).code \in Releases
    BY <1>9, CommittedOK DEF Reinstall, State
  <2>2. QED
    BY <1>0, <1>9, <2>1, InstallQuiet DEF Reinstall, TypeOK
<1>10. ASSUME NEW n \in Nodes, NEW b \in Releases, InstallAny(n, b)
       PROVE  DowngradeInv'
  BY <1>0, <1>10, InstallQuiet DEF InstallAny, TypeOK
<1>11. ASSUME NEW n \in Nodes, SkipUpgrade(n) PROVE DowngradeInv'
  <2>1. TypeOK'
    BY <1>0, <1>11 DEF SkipUpgrade, TypeOK, Stopped
  <2>2. \A m \in Nodes : status'[m] \in Running => m # n
    BY <1>0, <1>11 DEF SkipUpgrade, TypeOK, Running
  <2>3. QED
    BY <1>0, <1>11, <2>1, <2>2, QuietProcess DEF SkipUpgrade, TypeOK
<1>12. CASE UNCHANGED vars
  <2>1. TypeOK' /\ UNCHANGED <<versions, work, status, binary, verified>>
    BY <1>0, <1>12 DEF vars, TypeOK
  <2>2. QED
    BY <2>1, QuietProcess
<1>13. QED
  BY <1>1, <1>2, <1>3, <1>4, <1>5, <1>6, <1>7, <1>8, <1>9, <1>10, <1>11, <1>12
  DEF NextUndisciplined, Next, NodeStep, OperatorStep, UpgradeFails

\* Whatever releases the operators put in place and whenever: a process that
\* has verified its binary runs one that knows the last applied upgrade.
THEOREM DowngradeInvariance == SpecUndisciplined => []DowngradeInv
<1>1. Init => DowngradeInv
  <2>1. SUFFICES ASSUME Init PROVE DowngradeInv
    OBVIOUS
  <2>2. TypeOK
    BY <2>1, InitInv DEF Inv
  <2>3. \A n \in Nodes : /\ status[n] = "down" /\ Height(n) = 0
                         /\ CommittedHeights(n) = {}
    BY <2>1 DEF Init, Height, CommittedHeights
  <2>4. QED
    BY <2>2, <2>3
    DEF DowngradeInv, CommittedRecorded, RunningChecked, NoSilentDowngrade
<1>2. QED
  BY <1>1, NextDowngrade, PTL DEF SpecUndisciplined

\* No block is executed by a binary without the handler of the last applied
\* upgrade, but the block of an upgrade itself.
THEOREM NoDowngrade == SpecUndisciplined => []NoSilentDowngrade
<1>1. DowngradeInv => NoSilentDowngrade
  BY DEF DowngradeInv
<1>2. QED
  BY <1>1, DowngradeInvariance, PTL

=============================================================================
