--------------------------- MODULE GenesisExport ---------------------------
(***************************************************************************)
(* The genesis export of app/export.go, started in any state a chain with  *)
(* staking, fees and slashes can reach.  An export for zero height goes    *)
(* through the steps of prepForZeroHeightGenesis one by one, in the order  *)
(* of the code; the exported genesis starts a new chain, which may be      *)
(* exported again.  Errors of the store (a failing read, write or          *)
(* iteration) and of marshalling the result are left out: each ends the    *)
(* export with no genesis, as "panic" does, or for iter.Close before the   *)
(* last two steps.                                                         *)
(***************************************************************************)
EXTENDS Distribution

CONSTANTS
  Fees,        \* the amounts a validator may be allocated in a block
  Bonds,       \* the amounts a delegator may delegate
  SlashDivs,   \* a slash burns 1/k of the tokens, for k in this set
  GenesisDels, \* the self-delegations of the genesis transactions
  Strangers,   \* addresses of no validator; a validator's own address in
               \* capital letters is one, as the list is compared as text
  Unreadable,  \* words that are no validator address
  AllowLists,  \* values of --jail-allowed-addrs, as sets
  MaxHeight,   \* bound: height of a chain
  MaxOps,      \* bound: staking and fee operations over all chains
  MaxChains    \* bound: chains, counting the ones started from an export

Words == Validators \cup Strangers \cup Unreadable

ASSUME ExportAssumption ==
  /\ IsFiniteSet(Validators) /\ IsFiniteSet(Delegators)
  /\ Fees \subseteq Nat /\ Bonds \subseteq Nat \ {0}
  /\ GenesisDels \subseteq Delegations
  /\ \A v \in Validators : Cardinality({dl \in GenesisDels : dl[2] = v}) = 1
  /\ Strangers \cap Validators = {}
  /\ Unreadable \cap (Validators \cup Strangers) = {}
  /\ AllowLists \subseteq SUBSET Words
  /\ SlashDivs \subseteq Nat \ {0}
  /\ Prec \in Nat \ {0}
  /\ MaxHeight \in Nat /\ MaxOps \in Nat /\ MaxChains \in Nat \ {0}

VARIABLES
  height,  \* height of the last committed block
  ops,     \* operations done so far
  chain,   \* which chain this is, 1 for the first
  stk,     \* state of x/staking and x/slashing
  dist,    \* state of x/distribution
  pc,      \* where the running block is, or the step of the export
  todo,    \* what the current step's loop has still to visit
  allowed, \* the export's allow list
  genesis, \* height of the exported genesis
  owed     \* coins each delegation could withdraw when the export began,
           \* less what the export has paid it

vars == <<height, ops, chain, stk, dist, pc, todo, allowed, genesis, owed>>

Running == {"committed", "fees", "faults", "txs"}
Steps == Running \cup
         {"commission", "rewards", "clear", "validators",
          "delegations", "unbonding", "jailing", "apply", "slashing",
          "exported", "panic", "fatal", "refused"}

Delegated == {dl \in Delegations : stk.del[dl] > 0}

TypeOK ==
  /\ height \in 0..MaxHeight /\ genesis \in 0..(MaxHeight + 1)
  /\ ops \in 0..MaxOps /\ chain \in 1..MaxChains
  /\ pc \in Steps /\ allowed \subseteq Words
  /\ todo \in Seq(Validators) \cup Seq(Delegations)
  /\ stk.del \in [Delegations -> Nat]
  /\ stk.tokens \in [Validators -> Nat] /\ stk.shares \in [Validators -> Nat]
  /\ stk.jailed \subseteq Validators /\ stk.power \subseteq Validators
  /\ dist.balance \in Nat /\ dist.pool \in Nat
  /\ dist.outstanding \in [Validators -> Nat]
  /\ dist.commission \in [Validators -> Nat]
  /\ owed \in [Delegations -> Int]

\* The tokens of a genesis delegation.
GenesisBond == 4

\* Genesis: the modules' InitGenesis and the genesis transactions run at
\* context height 0.
GenesisStaking ==
  [del |-> [dl \in Delegations |-> IF dl \in GenesisDels THEN GenesisBond ELSE 0],
   tokens |-> [v \in Validators |-> GenesisBond],
   shares |-> [v \in Validators |-> GenesisBond],
   jailed |-> {},                                \* Jailed
   power |-> Validators,                         \* power index
   unbonding |-> [v \in Validators |-> 0],       \* UnbondingHeight
   entries |-> {},                               \* (un|re)delegation entries
   signing |-> [v \in Validators |-> 0]]         \* StartHeight

\* The self-delegation closed the first period of its validator.
GenesisDistribution ==
  [hist |-> [v \in Validators |-> [p \in {1} |-> [ratio |-> 0, refs |-> 2]]],
   cur |-> [v \in Validators |-> [rewards |-> 0, period |-> 2]],
   commission |-> [v \in Validators |-> 0],
   outstanding |-> [v \in Validators |-> 0],
   start |-> [dl \in Delegations |->
      IF dl \in GenesisDels
      THEN [prev |-> 1, stake |-> GenesisBond * Prec, height |-> 0]
      ELSE NoStart],
   slashes |-> [v \in Validators |-> <<>>],
   pool |-> 0, balance |-> 0]

Init ==
  /\ height = 0 /\ ops = 0 /\ chain = 1
  /\ stk = GenesisStaking /\ dist = GenesisDistribution
  /\ pc = "fees" /\ todo = <<>> /\ allowed = {} /\ genesis = 0
  /\ owed = [dl \in Delegations |-> 0]

(***************************************************************************)
(* The running chain.  The block being executed has height + 1: fees are   *)
(* distributed first, then faults are punished, then transactions run.     *)
(***************************************************************************)
Now == height + 1

\* An operation of the stage "at" of a block, after the stages "before".
Operate(before, at) ==
  /\ pc \in before \cup {at} /\ pc' = at
  /\ ops < MaxOps /\ ops' = ops + 1
  /\ height < MaxHeight
  /\ UNCHANGED <<height, chain, todo, allowed, genesis, owed>>
InBeginBlock == {"committed", "fees"}
InTxs == {"committed", "fees", "faults"}

EndBlock ==
  /\ pc \in Running /\ height < MaxHeight
  /\ pc' = "committed"
  /\ height' = Now
  /\ UNCHANGED <<ops, chain, stk, dist, todo, allowed, genesis, owed>>

\* Mutant: fees are distributed after faults are punished.
AllocateFeesLate(v, coins) ==
  /\ Operate({"committed", "fees"}, "faults")
  /\ dist' = Allocate(dist, v, coins, (coins * Prec) \div 10)
  /\ UNCHANGED stk

AllocateFees(v, coins) ==
  /\ Operate({"committed"}, "fees")
  /\ dist' = Allocate(dist, v, coins, (coins * Prec) \div 10)
  /\ UNCHANGED stk

\* Delegate: the hooks close a period and, for an existing delegation, pay
\* its rewards; shares are issued at the current rate.  They are decimals in
\* the code, never rounded to none.
Delegate(dl, amount) ==
  LET v == dl[2]
      issued == (amount * stk.shares[v]) \div stk.tokens[v]
      before == IF dl \in Delegated THEN PayRewards(dist, stk, dl, Now)
                ELSE IncrementPeriod(dist, stk, v)
      after == [stk EXCEPT !.del[dl] = @ + issued,
                           !.tokens[v] = @ + amount,
                           !.shares[v] = @ + issued]
  IN /\ Operate(InTxs, "txs")
     /\ stk.tokens[v] > 0 /\ issued > 0
     /\ dl \in Delegated => Pending(dist, stk, dl, Now).sane
     /\ stk' = after
     /\ dist' = InitializeDelegation(before, after, dl, Now)

\* Undelegate everything: the entry remembers the height it was created at.
\* The last delegation of a validator stays.
Undelegate(dl) ==
  LET v == dl[2] IN
  /\ Operate(InTxs, "txs")
  /\ dl \in Delegated
  /\ \E other \in Delegated : other # dl /\ other[2] = v
  /\ Pending(dist, stk, dl, Now).sane
  /\ dist' = PayRewards(dist, stk, dl, Now)
  /\ stk' = [stk EXCEPT
       !.del[dl] = 0,
       !.tokens[v] = @ - (TokensFromShares(stk, dl) \div Prec),
       !.shares[v] = @ - stk.del[dl],
       !.entries = @ \cup {[dl |-> dl, height |-> Now]}]

Withdraw(dl) ==
  /\ Operate(InTxs, "txs")
  /\ dl \in Delegated
  /\ Pending(dist, stk, dl, Now).sane
  /\ dist' = WithdrawRewards(dist, stk, dl, Now)
  /\ UNCHANGED stk

\* A fault: the validator is slashed and jailed.  Jailing takes it out of the
\* power index; it starts unbonding at the end of the block.
Slash(v, k) ==
  LET burnt == stk.tokens[v] \div k
      fraction == (burnt * Prec + stk.tokens[v] - 1) \div stk.tokens[v]
  IN /\ Operate(InBeginBlock, "faults")
     /\ burnt > 0
     /\ dist' = RecordSlash(dist, stk, v, Now, fraction)
     /\ stk' = [stk EXCEPT
          !.tokens[v] = @ - burnt,
          !.jailed = @ \cup {v}, !.power = @ \ {v},
          !.unbonding[v] = IF v \in stk.jailed THEN @ ELSE Now]

\* A jailed validator comes back; its signing info starts again.
Unjail(v) ==
  /\ Operate(InTxs, "txs")
  /\ v \in stk.jailed /\ stk.tokens[v] > 0
  /\ stk' = [stk EXCEPT !.jailed = @ \ {v}, !.power = @ \cup {v},
                        !.signing[v] = Now]
  /\ UNCHANGED dist

(***************************************************************************)
(* ExportAppStateAndValidators and prepForZeroHeightGenesis.               *)
(***************************************************************************)
Chain == <<height, ops, chain>>
Paused == UNCHANGED <<Chain, allowed, genesis>>

\* The step after a loop: its body has visited everything.
Goto(from, to, work) ==
  pc = from /\ todo = <<>> /\ pc' = to /\ todo' = work

\* The body of a loop, on the entry it has reached.
Visit(step, x) == pc = step /\ todo # <<>> /\ Head(todo) = x

\* The store's key order: some fixed order.
InOrder(S) == SetToSeq(S)

\* Mutant: the next chain starts a block too late.
ExportAtHeightLate ==
  /\ pc = "committed"
  /\ pc' = "exported"
  /\ genesis' = height + 2
  /\ UNCHANGED <<Chain, stk, dist, todo, allowed, owed>>

\* Export at a height: the state is written as it is.
ExportAtHeight ==
  /\ pc = "committed"
  /\ pc' = "exported"
  /\ genesis' = height + 1
  /\ UNCHANGED <<Chain, stk, dist, todo, allowed, owed>>

\* "As if they could withdraw from the start of the next block."
OwedNow(dl) ==
  IF dl \in Delegated /\ Pending(dist, stk, dl, Now).sane
  THEN Pending(dist, stk, dl, Now).rewards \div Prec ELSE 0

\* The list is read before anything else.
Readable(list) == list \cap Unreadable = {}

ExportForZeroHeight(list) ==
  /\ pc = "committed" /\ Readable(list)
  /\ pc' = "commission" /\ todo' = InOrder(Validators)
  /\ allowed' = list /\ genesis' = 0
  /\ owed' = [dl \in Delegations |-> OwedNow(dl)]
  /\ UNCHANGED <<Chain, stk, dist>>

\* An entry of the list is no address: log.Fatal ends the process.
RefuseAllowList(list) ==
  /\ pc = "committed" /\ ~Readable(list)
  /\ pc' = "refused"
  /\ allowed' = list /\ genesis' = 0
  /\ UNCHANGED <<Chain, stk, dist, todo, owed>>

\* Mutant: the context keeps its height.
ExportHeightKept == height

\* The context height while fee distribution is handled: it is set to zero
\* before the first withdrawal.
ExportHeight == 0

PayCommission(v) ==
  /\ Visit("commission", v)
  /\ dist' = WithdrawCommission(dist, v)
  /\ todo' = Tail(todo)
  /\ UNCHANGED <<stk, pc, owed>> /\ Paused

CommissionPaid ==
  Goto("commission", "rewards", InOrder(Delegated)) /\ UNCHANGED <<stk, dist, owed>> /\ Paused

\* Mutant: the delegation is re-initialised without being paid.
PayDelegationNothing(dl) ==
  /\ Visit("rewards", dl)
  /\ Pending(dist, stk, dl, ExportHeight).sane
  /\ dist' = InitializeDelegation(dist, stk, dl, ExportHeight)
  /\ owed' = owed
  /\ todo' = Tail(todo)
  /\ UNCHANGED <<stk, pc>> /\ Paused

PayDelegation(dl) ==
  /\ Visit("rewards", dl)
  /\ Pending(dist, stk, dl, ExportHeight).sane
  /\ dist' = WithdrawRewards(dist, stk, dl, ExportHeight)
  /\ owed' = [owed EXCEPT ![dl] = @ - (dist.balance - dist'.balance)]
  /\ todo' = Tail(todo)
  /\ UNCHANGED <<stk, pc>> /\ Paused

\* The stake check of the reward calculation fails: the export panics.
RewardsPanic(dl) ==
  /\ Visit("rewards", dl)
  /\ ~Pending(dist, stk, dl, ExportHeight).sane
  /\ pc' = "panic" /\ todo' = <<>>
  /\ UNCHANGED <<stk, dist, owed>> /\ Paused

RewardsPaid ==
  Goto("rewards", "clear", <<>>) /\ UNCHANGED <<stk, dist, owed>> /\ Paused

\* Mutant: the slash events stay.
ClearHistoryKeepsSlashes ==
  /\ Goto("clear", "validators", InOrder(Validators))
  /\ dist' = [dist EXCEPT !.hist = [v \in Validators |-> <<>>]]
  /\ UNCHANGED <<stk, owed>> /\ Paused

ClearHistory ==
  /\ Goto("clear", "validators", InOrder(Validators))
  /\ dist' = [dist EXCEPT
       !.slashes = [v \in Validators |-> <<>>],
       !.hist = [v \in Validators |-> <<>>]]
  /\ UNCHANGED <<stk, owed>> /\ Paused

\* Mutant: the scraps are not donated.
ReinitValidatorNoDonation(v) ==
  /\ Visit("validators", v)
  /\ dist' = InitializeValidator(dist, v)
  /\ todo' = Tail(todo)
  /\ UNCHANGED <<stk, pc, owed>> /\ Paused

ReinitValidator(v) ==
  /\ Visit("validators", v)
  /\ dist' = InitializeValidator(
       [dist EXCEPT !.pool = @ + dist.outstanding[v]], v)
  /\ todo' = Tail(todo)
  /\ UNCHANGED <<stk, pc, owed>> /\ Paused

ValidatorsReady ==
  Goto("validators", "delegations", InOrder(Delegated)) /\ UNCHANGED <<stk, dist, owed>> /\ Paused

ReinitDelegation(dl) ==
  /\ Visit("delegations", dl)
  /\ dist' = InitializeDelegation(IncrementPeriod(dist, stk, dl[2]), stk, dl,
                                  ExportHeight)
  /\ todo' = Tail(todo)
  /\ UNCHANGED <<stk, pc, owed>> /\ Paused

DelegationsReady ==
  Goto("delegations", "unbonding", <<>>) /\ UNCHANGED <<stk, dist, owed>> /\ Paused

\* Redelegations and unbonding delegations lose their creation heights.
ResetEntries ==
  /\ Goto("unbonding", "jailing", InOrder(Validators))
  /\ stk' = [stk EXCEPT !.entries = {[e EXCEPT !.height = 0] : e \in @}]
  /\ UNCHANGED <<dist, owed>> /\ Paused

\* Mutants: the unbonding height stays; an empty allow list jails everyone.
ResetValidatorKeepsHeight(v) ==
  /\ Visit("jailing", v)
  /\ stk' = [stk EXCEPT
       !.jailed = IF allowed # {} /\ v \notin allowed THEN @ \cup {v} ELSE @]
  /\ todo' = Tail(todo)
  /\ UNCHANGED <<dist, pc, owed>> /\ Paused
ResetValidatorJailsAll(v) ==
  /\ Visit("jailing", v)
  /\ stk' = [stk EXCEPT
       !.unbonding[v] = 0,
       !.jailed = IF v \notin allowed THEN @ \cup {v} ELSE @]
  /\ todo' = Tail(todo)
  /\ UNCHANGED <<dist, pc, owed>> /\ Paused

\* Validators outside a given allow list are jailed by rewriting the record
\* only: the power index is not touched.
ResetValidator(v) ==
  /\ Visit("jailing", v)
  /\ stk' = [stk EXCEPT
       !.unbonding[v] = 0,
       !.jailed = IF allowed # {} /\ v \notin allowed THEN @ \cup {v} ELSE @]
  /\ todo' = Tail(todo)
  /\ UNCHANGED <<dist, pc, owed>> /\ Paused

ValidatorsReset ==
  Goto("jailing", "apply", <<>>) /\ UNCHANGED <<stk, dist, owed>> /\ Paused

\* ApplyAndReturnValidatorSetUpdates refuses a jailed validator it finds in
\* the power index, and the export ends the process.
ApplyValidatorSet ==
  /\ Goto("apply", IF stk.power \cap stk.jailed = {} THEN "slashing" ELSE "fatal", <<>>)
  /\ UNCHANGED <<stk, dist, owed>> /\ Paused

ResetSigningInfos ==
  /\ Goto("slashing", "exported", <<>>)
  /\ stk' = [stk EXCEPT !.signing = [v \in Validators |-> 0]]
  /\ UNCHANGED <<dist, owed>> /\ Paused

\* A new chain starts from the exported genesis.
InitChain ==
  /\ pc = "exported" /\ chain < MaxChains
  /\ chain' = chain + 1
  /\ height' = IF genesis = 0 THEN 0 ELSE genesis - 1
  /\ pc' = "fees"        \* the first block has no votes to pay fees for
  /\ allowed' = {}
  /\ owed' = [dl \in Delegations |-> 0]
  /\ UNCHANGED <<ops, stk, dist, todo, genesis>>

ExportStep ==
  \/ \E v \in Validators : PayCommission(v) \/ ReinitValidator(v) \/ ResetValidator(v)
  \/ \E dl \in Delegations :
       PayDelegation(dl) \/ RewardsPanic(dl) \/ ReinitDelegation(dl)
  \/ CommissionPaid \/ RewardsPaid \/ ClearHistory \/ ValidatorsReady
  \/ DelegationsReady \/ ResetEntries \/ ValidatorsReset
  \/ ApplyValidatorSet \/ ResetSigningInfos

Next ==
  \/ EndBlock
  \/ \E v \in Validators, coins \in Fees : AllocateFees(v, coins)
  \/ \E dl \in Delegations, amount \in Bonds : Delegate(dl, amount)
  \/ \E dl \in Delegations : Undelegate(dl) \/ Withdraw(dl)
  \/ \E v \in Validators, k \in SlashDivs : Slash(v, k)
  \/ \E v \in Validators : Unjail(v)
  \/ ExportAtHeight
  \/ \E list \in AllowLists : ExportForZeroHeight(list) \/ RefuseAllowList(list)
  \/ ExportStep
  \/ InitChain

Spec == Init /\ [][Next]_vars

(***************************************************************************)
(* Properties.                                                             *)
(***************************************************************************)
Settled == pc \in Running \cup {"exported"}
Of(v) == {dl \in Delegated : dl[2] = v}

\* The coins of the distribution module account are, at every step of a block
\* and of an export, exactly what is outstanding to the validators plus the
\* community pool: the export's withdrawals, donations of scraps and
\* re-initialisations neither lose nor invent a coin.
AccountBacked ==
  dist.balance * Prec = SumFunction(dist.outstanding) + dist.pool

\* What is outstanding to a validator covers its commission and everything
\* its delegators could withdraw, also in an exported genesis and on the
\* chain started from it: no withdrawal is ever cut short or panics.
RewardsCovered ==
  Settled =>
    \A v \in Validators :
      /\ \A dl \in Of(v) : Pending(dist, stk, dl, Now).sane
      /\ dist.outstanding[v] >=
           dist.commission[v]
           + SumFunction([dl \in Of(v) |-> Pending(dist, stk, dl, Now).rewards])

\* What starts from period p of v: the delegations in S, the slashes and the
\* current period.
References(D, S, v, p) ==
  Cardinality({dl \in S : dl[2] = v /\ D.start[dl].prev = p})
  + Cardinality({i \in DOMAIN D.slashes[v] : D.slashes[v][i].period = p})
  + (IF p = D.cur[v].period - 1 THEN 1 ELSE 0)

\* The reference count of the record of period p, zero without a record.
Recorded(hist, p) == IF p \in DOMAIN hist THEN hist[p].refs ELSE 0

\* Every record of historical rewards is referenced by exactly the current
\* period, the delegations and the slashes that start from it; in particular
\* a re-initialised genesis holds no stale record and misses none.
ReferencesExact ==
  Settled =>
    \A v \in Validators : \A p \in 0..dist.cur[v].period :
      Recorded(dist.hist[v], p) = References(dist, Delegated, v, p)

\* A genesis exported for height zero refers to no height of the old chain,
\* owes nothing from it and has a power index without jailed validators:
\* InitGenesis of the new chain can load it.
ZeroHeightGenesis ==
  pc = "exported" /\ genesis = 0 =>
    /\ \A dl \in Delegated : dist.start[dl].height = 0
    /\ \A e \in stk.entries : e.height = 0
    /\ \A v \in Validators :
         /\ stk.unbonding[v] = 0 /\ stk.signing[v] = 0
         /\ dist.slashes[v] = <<>> /\ dist.outstanding[v] = 0
         /\ dist.commission[v] = 0 /\ dist.cur[v].rewards = 0
    /\ stk.power = Validators \ stk.jailed

\* When a zero-height export fails, errors of the store apart: only on an
\* allow list with an unreadable entry; on a delegation that started after genesis and was slashed since;
\* or on a readable, non-empty list that leaves out a validator of the power
\* index (the two log.Fatal and the panics of prepForZeroHeightGenesis).
FailsOnlyWhen ==
  /\ pc = "refused" => ~Readable(allowed)
  /\ pc = "panic" =>
       \E dl \in Delegated :
         /\ dist.start[dl].height > 0
         /\ \E i \in DOMAIN dist.slashes[dl[2]] :
              dist.slashes[dl[2]][i].period > dist.start[dl].prev
  /\ pc = "fatal" =>
       allowed # {} /\ Readable(allowed) /\ ~(stk.power \subseteq allowed)

\* app.go:801-803, slashing runs after fee distribution "so that there is
\* nothing left over in the validator fee pool": at the end of a block that
\* slashed a validator, all its rewards are in the periods the slash closed,
\* so none of the block's fees is earned by the slashed stake.
NothingLeftOver ==
  pc = "committed" =>
    \A v \in Validators : \A i \in DOMAIN dist.slashes[v] :
      dist.slashes[v][i].height = height => dist.cur[v].rewards = 0

\* A delegation that started after genesis, on a validator that was never
\* slashed, is paid exactly what it was owed when the export began, whatever
\* has been withdrawn before its turn and although the context height is zero.
LaterDelegationsPaid ==
  [][\A dl \in Delegations :
       PayDelegation(dl) /\ dist.start[dl].height > 0 /\ dist.slashes[dl[2]] = <<>>
       => owed'[dl] = 0]_vars

\* export.go:99 "withdraw all delegator rewards", as of export.go:22 "as if
\* they could withdraw from the start of the next block".
AllRewardsWithdrawn ==
  pc = "clear" => \A dl \in Delegations : owed[dl] <= 0

\* sim_test.go:229-230: an export for zero height with an empty allow list
\* does not fail.
ExportSucceeds == ~(pc = "panic" /\ allowed = {})

(***************************************************************************)
(* The inductive invariant of AccountBacked, ReferencesExact,              *)
(* ZeroHeightGenesis and FailsOnlyWhen: what holds at every step of a      *)
(* block and of an export.                                                 *)
(***************************************************************************)
\* What the loop of a step has still to visit, if it is running.
Left == Range(todo)
Ahead(step) == IF pc = step THEN Left ELSE {}

\* A loop visits each of its entries once.
Entries ==
  CASE pc \in {"commission", "validators", "jailing"} -> Validators
    [] pc \in {"rewards", "delegations"} -> Delegated
    [] OTHER -> {}
VisitsOnce ==
  /\ todo \in Seq(Entries)
  /\ \A i, j \in DOMAIN todo : todo[i] = todo[j] => i = j

\* The shares of a validator are those of its delegations.
StakingSound(st) ==
  /\ DOMAIN st = DOMAIN GenesisStaking
  /\ st.del \in [Delegations -> Nat]
  /\ st.tokens \in [Validators -> Nat] /\ st.shares \in [Validators -> Nat \ {0}]
  /\ st.unbonding \in [Validators -> Nat] /\ st.signing \in [Validators -> Nat]
  /\ st.entries \subseteq [dl : Delegations, height : Nat]
  /\ st.jailed \subseteq Validators /\ st.power \subseteq Validators
  /\ \A v \in Validators :
       st.shares[v] = SumFunctionOnSet(st.del, Delegators \X {v})

SlashEvent == [height : Nat, period : Nat, fraction : Int]
DistTyped(D) ==
  /\ DOMAIN D = DOMAIN GenesisDistribution
  /\ D.pool \in Int /\ D.balance \in Int
  /\ D.outstanding \in [Validators -> Int] /\ D.commission \in [Validators -> Int]
  /\ D.cur \in [Validators -> [rewards : Int, period : Nat \ {0}]]
  /\ D.start \in [Delegations -> [prev : Nat, stake : Int, height : Nat]]
  /\ D.slashes \in [Validators -> Seq(SlashEvent)]
  /\ DOMAIN D.hist = Validators
  /\ \A v \in Validators :
       /\ D.hist[v] \in [DOMAIN D.hist[v] -> [ratio : Int, refs : Int]]
       /\ DOMAIN D.hist[v] \subseteq 0..(D.cur[v].period - 1)

Balanced(D) == D.balance * Prec = SumFunction(D.outstanding) + D.pool

\* The reference counts are exact for the delegations in S.
Counted(D, S) ==
  /\ \A dl \in S : D.start[dl].prev < D.cur[dl[2]].period
  /\ \A v \in Validators :
       /\ \A i \in DOMAIN D.slashes[v] : D.slashes[v][i].period < D.cur[v].period
       /\ \A p \in 0..D.cur[v].period :
            Recorded(D.hist[v], p) = References(D, S, v, p)

\* Only while validators are re-initialised do the counts lag behind: their
\* records were deleted.  Delegations are then counted one by one.
CountsKept ==
  IF pc = "validators"
  THEN /\ \A v \in Left : DOMAIN dist.hist[v] = {}
       /\ \A v \in Validators \ Left :
            /\ dist.hist[v] = [p \in {0} |-> [ratio |-> 0, refs |-> 1]]
            /\ dist.cur[v] = [rewards |-> 0, period |-> 1]
  ELSE Counted(dist, Delegated \ Ahead("delegations"))

\* What an export for zero height has rewritten so far.
Rewritten == pc = "exported" /\ genesis = 0
Cleared == pc \in {"validators", "delegations", "unbonding", "jailing", "apply",
                   "slashing", "fatal"} \/ Rewritten
Restarted ==
  IF pc = "rewards" THEN Delegated \ Left
  ELSE IF pc = "clear" \/ Cleared THEN Delegated ELSE {}
ClearedSoFar ==
  /\ \A dl \in Restarted : dist.start[dl].height = 0
  /\ Cleared => \A v \in Validators : dist.slashes[v] = <<>>
  /\ Cleared => \A v \in Validators \ Ahead("validators") :
       dist.outstanding[v] = 0 /\ dist.commission[v] = 0 /\ dist.cur[v].rewards = 0
ResetSoFar ==
  /\ pc \in {"jailing", "apply", "slashing", "fatal"} \/ Rewritten =>
       /\ \A e \in stk.entries : e.height = 0
       /\ \A v \in Validators \ Ahead("jailing") : stk.unbonding[v] = 0
  /\ Rewritten => \A v \in Validators : stk.signing[v] = 0

\* A delegation is worth no less than when it started, unless it was slashed.
WorthTheStake(dl) == dist.start[dl].stake <= TokensFromShares(stk, dl)
SlashedSince(dl) ==
  \E i \in DOMAIN dist.slashes[dl[2]] :
    dist.slashes[dl[2]][i].period > dist.start[dl].prev
StakesKept ==
  /\ \A dl \in Delegated : WorthTheStake(dl) \/ SlashedSince(dl)
  /\ \A dl \in Restarted : WorthTheStake(dl)
  /\ pc = "panic" =>
       \E dl \in Delegated : dist.start[dl].height > 0 /\ SlashedSince(dl)

\* Jailed validators leave the power index, but for those the export jails.
PowerKept ==
  /\ Validators \ stk.jailed \subseteq stk.power
  /\ IF pc \in {"jailing", "apply", "fatal"}
     THEN \A v \in stk.power \cap stk.jailed : allowed # {} /\ v \notin allowed
     ELSE stk.power \cap stk.jailed = {}
  /\ pc = "fatal" => stk.power \cap stk.jailed # {}

\* The export only goes on with a list it could read.
ListRead == pc = "refused" <=> ~Readable(allowed)

ExportInv ==
  /\ height \in Nat /\ genesis \in Nat /\ VisitsOnce
  /\ StakingSound(stk) /\ DistTyped(dist) /\ Balanced(dist)
  /\ CountsKept /\ ClearedSoFar /\ ResetSoFar /\ StakesKept /\ PowerKept

(***************************************************************************)
(* The inductive invariant of RewardsCovered and TypeOK: what every claim  *)
(* on a validator's outstanding rewards is worth before it is rounded.     *)
(***************************************************************************)
\* No block is as high: from here every slash since a start is visited.
Horizon == MaxHeight + 2

\* What delegation dl has earned by the last closed period of its validator,
\* in units of 1/Prec of a decimal unit: the rewards up to its last slash,
\* and those of the stake that was left since then, not yet rounded.
Earned(D, dl) ==
  LET last == AfterSlashes(D, dl, Horizon)
      hist == D.hist[dl[2]]
  IN last.rewards * Prec
     + (hist[D.cur[dl[2]].period - 1].ratio - hist[last.from].ratio) * last.stake

\* What is outstanding to v covers its commission, the rewards of the current
\* period and what the delegations in S have earned.
Claims(D, S, v) ==
  (D.commission[v] + D.cur[v].rewards) * Prec
  + SumFunctionOnSet([dl \in Delegations |-> Earned(D, dl)], {dl \in S : dl[2] = v})

\* The records of v: a later period has no smaller ratio, and nothing is
\* negative.
RecordsSound(D, v) ==
  /\ \A p \in DOMAIN D.hist[v] :
       D.hist[v][p].ratio <= D.hist[v][D.cur[v].period - 1].ratio
  /\ D.commission[v] >= 0 /\ D.cur[v].rewards >= 0 /\ D.outstanding[v] >= 0

\* At context height h the start of dl and the slashes since are in step, and
\* dl earns for no more than it is worth.
InStep(D, st, dl, h) ==
  LET s == D.start[dl]
      slashes == D.slashes[dl[2]]
      last == AfterSlashes(D, dl, Horizon)
  IN /\ s.height <= h
     /\ \A i \in DOMAIN slashes :
          slashes[i].period > s.prev => slashes[i].height >= s.height
     /\ last.rewards >= 0
     /\ 0 <= last.stake /\ last.stake <= TokensFromShares(st, dl)

SolventAt(D, st, S, h, v) ==
  /\ RecordsSound(D, v)
  /\ \A i \in DOMAIN D.slashes[v] : D.slashes[v][i].height <= h
  /\ \A dl \in S : dl[2] = v => InStep(D, st, dl, h)
  /\ Claims(D, S, v) <= D.outstanding[v] * Prec
Solvent(D, st, S, h) == \A v \in Validators : SolventAt(D, st, S, h, v)

\* While the export withdraws rewards it ignores slashes and may pay a
\* delegation more than it has earned; only what is outstanding limits that.
\* A validator without tokens gives its current rewards away.
StillCovered ==
  \A v \in Validators :
    /\ dist.cur[v].rewards >= 0
    /\ stk.tokens[v] = 0 => dist.cur[v].rewards <= dist.outstanding[v]

SolvencyInv ==
  /\ height \in 0..MaxHeight
  /\ pc \in Running \/ genesis = 0 \/ (pc = "exported" /\ genesis = Now)
  /\ dist.pool >= 0
  /\ \A v \in Validators : dist.outstanding[v] >= 0 /\ dist.commission[v] >= 0
  /\ pc = "rewards" => StillCovered
  /\ pc \notin {"rewards", "clear", "panic", "validators"} =>
       Solvent(dist, stk, Delegated \ Ahead("delegations"), Now)

\* With SolvencyInv, the inductive invariant of LaterDelegationsPaid: while
\* rewards are withdrawn, a validator that was never slashed still covers its
\* claims, and a delegation that waits can still withdraw what it was owed.
Unslashed(v) == dist.slashes[v] = <<>>
Waiting == IF pc = "rewards" THEN Left ELSE Delegated
PaidInv ==
  /\ pc \in {"committed", "commission", "rewards"} =>
       \A dl \in Delegated : dist.start[dl].height <= height
  /\ pc \in {"commission", "rewards"} =>
       \A dl \in Waiting : Unslashed(dl[2]) => owed[dl] = OwedNow(dl)
  /\ pc = "rewards" =>
       \A v \in Validators : Unslashed(v) => SolventAt(dist, stk, Delegated, Now, v)

\* The rest of what TypeOK says.
CountersInv ==
  /\ genesis \in 0..(MaxHeight + 1)
  /\ ops \in 0..MaxOps /\ chain \in 1..MaxChains
  /\ pc \in Steps /\ allowed \subseteq Words
  /\ owed \in [Delegations -> Int]
=============================================================================
