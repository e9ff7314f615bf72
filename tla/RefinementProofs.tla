------------------------- MODULE RefinementProofs -------------------------
(***************************************************************************)
(* Proof that Upgrade implements ChainUpgrade, for any number of nodes,    *)
(* releases and upgrades.                                                  *)
(***************************************************************************)
EXTENDS UpgradeRefinement, UpgradeProofs, WellFoundedInduction

\* The front is a node no other is ahead of.
Leads == Front \in Nodes /\ \A m \in Nodes : Height(m) <= Height(Front)

\* Nodes at one height have one tip.
SameTip == \A n, m \in Nodes : Height(n) = Height(m) => Tip(n) = Tip(m)

\* Some node leads: heights are bounded by the number of decided blocks.
LEMMA FrontLeads == Inv => Leads
<1> SUFFICES ASSUME Inv PROVE Leads
  OBVIOUS
<1> DEFINE Behind(n) == Len(blocks) - Height(n)
           T == {Behind(n) : n \in Nodes}
<1>1. Len(blocks) \in Nat
  BY DEF Inv, TypeOK
<1>2. \A n \in Nodes : Height(n) \in Nat /\ Height(n) <= Len(blocks)
  <2>1. TAKE n \in Nodes
  <2>2. Height(n) \in Nat
    BY TipOK DEF Inv
  <2>3. Height(n) > 0 => Height(n) \in CommittedHeights(n)
    BY <2>2 DEF CommittedHeights, Height
  <2>4. QED
    BY <1>1, <2>2, <2>3 DEF Inv, OnChain
<1>3. T \subseteq Nat /\ T # {}
  BY <1>1, <1>2, ConstantsAssumption
<1>4. PICK x \in T : \A y \in T : ~(<<y, x>> \in OpToRel(<, Nat))
  BY <1>3, NatLessThanWellFounded, WFMin
<1>5. \A y \in T : ~(y < x)
  BY <1>3, <1>4 DEF OpToRel
<1>6. PICK n \in Nodes : x = Behind(n)
  OBVIOUS
<1>7. \A m \in Nodes : Height(m) <= Height(n)
  <2>1. TAKE m \in Nodes
  <2>2. ~(Behind(m) < Behind(n))
    BY <1>5, <1>6
  <2>3. QED
    BY <1>1, <1>2, <2>2
<1>8. QED
  BY <1>7 DEF Front, Leads

\* Two nodes that committed as many blocks committed the same last state.
LEMMA OneTip == Inv => SameTip
<1> SUFFICES ASSUME Inv, NEW n \in Nodes, NEW m \in Nodes, Height(n) = Height(m)
             PROVE  Tip(n) = Tip(m)
  BY DEF SameTip
<1>1. Height(n) \in Nat
  BY TipOK DEF Inv
<1>2. CASE Height(n) = 0
  BY <1>2 DEF Tip
<1>3. CASE Height(n) # 0
  <2>1. Height(n) \in CommittedHeights(n) \cap CommittedHeights(m)
    BY <1>1, <1>3 DEF CommittedHeights, Height
  <2>2. QED
    BY <1>3, <2>1 DEF Inv, AppHashAgreement, Tip, Committed
<1>4. QED
  BY <1>2, <1>3

\* A commit extends the chain of its node by one step and no other chain.
LEMMA CommitExtends ==
  ASSUME Inv, NEW n \in Nodes, Commit(n)
  PROVE  /\ \E p \in Proposals : Tip(n)' = ChainStep(Tip(n), p)
         /\ Height(n)' = Height(n) + 1
         /\ \A m \in Nodes \ {n} : Tip(m)' = Tip(m) /\ Height(m)' = Height(m)
<1> DEFINE k == Height(n)
           t == work[n]
<1>1. /\ status[n] = "finalized"
      /\ versions \in [Nodes -> Seq(State)]
      /\ versions' = [versions EXCEPT ![n] = Append(versions[n], t)]
  BY DEF Commit, Inv, TypeOK
<1>2. k \in Nat /\ k < Len(blocks) /\ t = ChainStep(Tip(n), blocks[k + 1])
  BY <1>1, TipOK DEF Inv, WorkOnChain
<1>3. blocks[k + 1] \in Proposals
  BY <1>2 DEF Inv, TypeOK
<1>4. Tip(n) \in State /\ StateOK(Tip(n))
  BY TipOK DEF Inv
<1>5. t \in State
  BY <1>2, <1>3, <1>4, ChainStepOK
<1>6. /\ versions[n] \in Seq(State) /\ k = Len(versions[n])
      /\ versions'[n] = Append(versions[n], t)
      /\ \A m \in Nodes \ {n} : versions'[m] = versions[m]
  BY <1>1 DEF Height
<1>7. Len(versions'[n]) = k + 1 /\ versions'[n][k + 1] = t
  BY <1>5, <1>6
<1>8. Height(n)' = k + 1 /\ Tip(n)' = t
  BY <1>2, <1>7 DEF Height, Tip, Committed
<1>9. \A m \in Nodes \ {n} : Tip(m)' = Tip(m) /\ Height(m)' = Height(m)
  BY <1>6 DEF Tip, Height, Committed, GenesisState, InitChainer, Present
<1>10. QED
  BY <1>2, <1>3, <1>8, <1>9

\* The layout the chain's data has is the one of the chain's release.
LEMMA LayoutOfCode ==
  ASSUME NEW s \in State, ModulesExact(s)
  PROVE  s.schema = VersionMap[s.code]
<1>1. s.schema \in [Modules -> Nat] /\ VersionMap[s.code] \in [Modules -> Nat]
  BY ConstantsAssumption DEF State
<1>2. \A m \in Modules : s.schema[m] = VersionMap[s.code][m]
  BY DEF ModulesExact
<1>3. QED
  BY <1>1, <1>2

\* A step of the logical chain is one block of the abstract chain.
LEMMA ChainStepIsAbstract ==
  ASSUME NEW s \in State, StateOK(s), NEW p \in Proposals,
         Tip(Front) = s, Tip(Front)' = ChainStep(s, p)
  PROVE  Chain!Next
<1> DEFINE t == ChainStep(s, p)
           rest == IF Due(s) THEN NoPlan ELSE s.plan
<1>1. /\ t \in State /\ t.height = s.height + 1
      /\ t.code = CodeFor(s) /\ StateOK(t)
  BY ChainStepOK
<1>2. t.schema = VersionMap[t.code] /\ s.schema = VersionMap[s.code]
  BY <1>1, LayoutOfCode DEF StateOK
<1>3. t.plan = IF /\ p.kind = "schedule"
                  /\ p.plan.height > s.height /\ t.done[p.plan.name] = 0
               THEN p.plan
               ELSE IF p.kind = "cancel" THEN NoPlan ELSE rest
  BY ChainStepPlan
<1>4. /\ Chain!Due <=> Due(s)
      /\ Chain!Known <=> HasHandler(s.code, s.plan.name)
      /\ Chain!Dropped <=> Skipped(s)
      /\ Chain!NoPlan = NoPlan
  BY DEF Chain!Due, Chain!Known, Chain!Dropped, Chain!NoPlan, NoPlan,
         Due, ShouldExecute, HasHandler, Skipped
<1>5. CASE Applied(s)
  <2>1. t.done = [s.done EXCEPT ![s.plan.name] = s.height + 1]
    BY <1>5, ChainStepDone
  <2>2. Due(s) /\ ~Skipped(s) /\ s.done[s.plan.name] = 0
    BY <1>5, DueNamed DEF Applied, StateOK
  <2>3. t.code = IF HasHandler(s.code, s.plan.name) THEN s.code
                 ELSE ReleaseOf[s.plan.name]
    BY <1>1, <1>5 DEF CodeFor
  <2>4. Chain!UpgradeBlock(p)
    BY <1>1, <1>2, <1>3, <1>4, <2>1, <2>2, <2>3
    DEF Chain!UpgradeBlock, Chain!Governed
  <2>5. QED
    BY <2>4 DEF Chain!Next
<1>6. CASE ~Applied(s)
  <2>1. t.done = s.done
    BY <1>6, ChainStepDone
  <2>2. ~Due(s) \/ Skipped(s)
    BY <1>6 DEF Applied
  <2>3. t.code = s.code
    BY <1>1, <1>6 DEF CodeFor
  <2>4. Chain!Block(p)
    BY <1>1, <1>2, <1>3, <1>4, <2>1, <2>2, <2>3
    DEF Chain!Block, Chain!Governed
  <2>5. QED
    BY <2>4 DEF Chain!Next
<1>7. QED
  BY <1>5, <1>6

---------------------------------------------------------------------------
(* The refinement. *)

\* Steps that commit nothing leave the abstract chain alone.
LEMMA Invisible ==
  ASSUME versions' = versions
  PROVE  UNCHANGED Tip(Front)
BY DEF Front, Height, Tip, Committed, GenesisState, InitChainer, Present

\* A commit is one block of the abstract chain when the leading node makes
\* it, and no step of the abstract chain when a lagging node catches up.
LEMMA CommitRefines ==
  ASSUME Inv, Inv', NEW n \in Nodes, Commit(n)
  PROVE  Chain!Next \/ UNCHANGED Tip(Front)
<1>1. Leads /\ SameTip
  BY FrontLeads, OneTip
<1>2. Leads'
  BY FrontLeads, PTL
<1>3. SameTip'
  BY OneTip, PTL
<1>4. \A m \in Nodes : Height(m) \in Nat
  BY TipOK DEF Inv
<1>5. PICK p \in Proposals : Tip(n)' = ChainStep(Tip(n), p)
  BY CommitExtends
<1>6. /\ Height(n)' = Height(n) + 1
      /\ \A m \in Nodes \ {n} : Tip(m)' = Tip(m) /\ Height(m)' = Height(m)
  BY CommitExtends
<1>7. PICK a \in Nodes : a = Front
  BY <1>1 DEF Leads
<1>8. PICK b \in Nodes : b = Front'
  BY <1>2 DEF Leads
<1>9. Tip(Front) = Tip(a) /\ Tip(Front)' = Tip(b)'
  BY <1>7, <1>8 DEF Tip, Height, Committed
<1>10. Height(n) <= Height(a) /\ Height(a)' <= Height(b)' /\ Height(n)' <= Height(b)'
  <2>1. \A m \in Nodes : Height(m) <= Height(a)
    BY <1>1, <1>7 DEF Leads
  <2>2. \A m \in Nodes : Height(m)' <= Height(b)'
    BY <1>2, <1>8 DEF Leads, Height
  <2>3. QED
    BY <2>1, <2>2
<1>11. CASE Height(n) = Height(a)
  <2>1. Tip(a) = Tip(n)
    BY <1>1, <1>11 DEF SameTip
  <2>2. b = n
    <3>1. Height(b) <= Height(n)
      BY <1>1, <1>7, <1>11 DEF Leads
    <3>2. QED
      BY <1>4, <1>6, <1>10, <3>1
  <2>3. Tip(Front)' = ChainStep(Tip(n), p)
    BY <1>5, <1>9, <2>2
  <2>4. Tip(n) \in State /\ StateOK(Tip(n))
    BY TipOK DEF Inv
  <2>5. QED
    BY <1>9, <2>1, <2>3, <2>4, ChainStepIsAbstract
<1>12. CASE Height(n) # Height(a)
  <2>1. a # n /\ Tip(a)' = Tip(a) /\ Height(a)' = Height(a)
    BY <1>6, <1>12
  <2>2. Height(b)' = Height(a)'
    <3>1. Height(b) <= Height(a)
      BY <1>1, <1>7 DEF Leads
    <3>2. QED
      BY <1>4, <1>6, <1>10, <1>12, <2>1, <3>1
  <2>3. Tip(b)' = Tip(a)'
    BY <1>3, <2>2 DEF SameTip
  <2>4. QED
    BY <1>9, <2>1, <2>3
<1>13. QED
  BY <1>11, <1>12

\* The network starts where the abstract chain starts.
LEMMA InitRefines == Init => Chain!Init
<1> SUFFICES ASSUME Init PROVE Chain!Init
  OBVIOUS
<1>1. Front \in Nodes
  BY InitInv, FrontLeads DEF Leads
<1>2. Height(Front) = 0
  BY <1>1 DEF Init, Height
<1>3. Tip(Front) = InitChainer(Genesis)
  BY <1>2 DEF Tip, GenesisState
<1>4. QED
  BY <1>3 DEF Chain!Init, Chain!NoPlan, NoPlan, InitChainer

\* Whatever the nodes and operators do, the network behaves as one machine
\* that changes its release and its data layout in the block of the planned
\* upgrade and nowhere else: Upgrade implements ChainUpgrade.
THEOREM Refinement == Spec => OneChain
<1>1. ASSUME Inv, Inv', [Next]_vars PROVE [Chain!Next]_(Chain!chain)
  <2>1. CASE versions' = versions
    <3>1. UNCHANGED Tip(Front)
      BY <2>1, Invisible
    <3>2. QED
      BY <3>1 DEF Chain!chain
  <2>2. CASE \E n \in Nodes : Commit(n)
    <3>1. Chain!Next \/ UNCHANGED Tip(Front)
      BY <1>1, <2>2, CommitRefines
    <3>2. QED
      BY <3>1 DEF Chain!chain
  <2>3. versions' = versions \/ \E n \in Nodes : Commit(n)
    BY <1>1 DEF Next, vars, NodeStep, OperatorStep, Decide, NewEnokiApp, InitChain,
       FinalizeBlock, FinalizeSkippedUpgrade, FinalizeUpgrade, Execute,
       HaltForUpgrade, HaltEarly, HaltDowngrade, Halt, InstallRelease,
       SkipUpgrade, Reinstall, InstallPrematurely, Install, Crash, UpgradeFails
  <2>4. QED
    BY <2>1, <2>2, <2>3
<1>2. QED
  BY <1>1, InitRefines, Invariance, PTL DEF Spec, OneChain, Chain!Spec

=============================================================================
