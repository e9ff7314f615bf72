--------------------------- MODULE ChainUpgrade ---------------------------
(***************************************************************************)
(* What an Enoki network promises about upgrades, seen from outside: one   *)
(* machine that executes blocks, changes its release in the block in which *)
(* a planned upgrade is due and in no other, and always holds its data in  *)
(* the layout of the release it runs.  There are no nodes, processes,      *)
(* files, halts or operators here; module Upgrade implements this machine. *)
(***************************************************************************)
EXTENDS Naturals

CONSTANTS
  Genesis,      \* the release the chain is started with
  Names,        \* upgrade names
  None,         \* the empty upgrade name
  Upgrades,     \* Upgrades[b]: the upgrades release b knows
  ReleaseOf,    \* ReleaseOf[u]: the release published for upgrade u
  VersionMap,   \* VersionMap[b]: the data layout of release b
  SkipHeights,  \* heights whose upgrade the operators agreed to skip
  Proposals     \* what a block's governance may do to the plan

VARIABLES
  height,  \* blocks executed
  plan,    \* the pending upgrade plan
  done,    \* done[u]: the height at which u was applied, or 0
  code,    \* the release that executes blocks
  layout   \* the layout of the data

chain == <<height, plan, done, code, layout>>

NoPlan == [name |-> None, height |-> 0]

Init ==
  /\ height = 0
  /\ plan = NoPlan
  /\ done = [u \in Names |-> 0]
  /\ code = Genesis
  /\ layout = VersionMap[Genesis]

Due == plan.height > 0 /\ plan.height <= height + 1
Known == plan.name \in Upgrades[code]
Dropped == Due /\ height + 1 \in SkipHeights /\ ~Known

\* The plan after a block whose governance does p, when the block leaves the
\* plan "rest" and the record "applied".
Governed(p, rest, applied) ==
  IF p.kind = "schedule" /\ p.plan.height > height /\ applied[p.plan.name] = 0
  THEN p.plan
  ELSE IF p.kind = "cancel" THEN NoPlan ELSE rest

\* A block without a due plan, or at a skipped height.
Block(p) ==
  /\ ~Due \/ Dropped
  /\ height' = height + 1
  /\ plan' = Governed(p, IF Due THEN NoPlan ELSE plan, done)
  /\ UNCHANGED <<done, code, layout>>

\* The block that applies the planned upgrade.
UpgradeBlock(p) ==
  /\ Due /\ ~Dropped
  /\ done[plan.name] = 0
  /\ height' = height + 1
  /\ done' = [done EXCEPT ![plan.name] = height + 1]
  /\ code' = IF Known THEN code ELSE ReleaseOf[plan.name]
  /\ layout' = VersionMap[code']
  /\ plan' = Governed(p, NoPlan, done')

Next == \E p \in Proposals : Block(p) \/ UpgradeBlock(p)

Spec == Init /\ [][Next]_chain
=============================================================================
