---------------------------- MODULE Distribution ----------------------------
(***************************************************************************)
(* Fee distribution of x/distribution as operators on a record, as far as  *)
(* app/export.go drives it: periods, historical rewards with reference     *)
(* counts, slash events, delegator starting infos, the outstanding rewards *)
(* and the community pool.                                                 *)
(*                                                                         *)
(* Decimal amounts (DecCoins, ratios, stakes) are integers in units of     *)
(* 1/Prec and are truncated where the code truncates; coins are integers.  *)
(***************************************************************************)
EXTENDS Integers, FiniteSets, SequencesExt

CONSTANTS
  Validators,
  Delegators,
  Prec        \* decimal units per coin (10^18 in the code)

Delegations == Delegators \X Validators

\* The least of two amounts.
Least(x, y) == IF x < y THEN x ELSE y

\* Staking's view of validator v: its tokens and shares, the shares of each
\* delegation, and the worth of one in decimal units.
TokensFromShares(stk, dl) ==
  LET v == dl[2] IN (stk.del[dl] * stk.tokens[v] * Prec) \div stk.shares[v]

NoStart == [prev |-> 0, stake |-> 0, height |-> 0]

\* Reference counts of historical rewards; a record whose count drops to
\* zero is deleted.
IncRef(hist, p) == [hist EXCEPT ![p].refs = @ + 1]
DecRef(hist, p) ==
  IF hist[p].refs = 1 THEN Restrict(hist, DOMAIN hist \ {p})
  ELSE [hist EXCEPT ![p].refs = @ - 1]
WithRecord(hist, p, r) ==
  [q \in DOMAIN hist \cup {p} |-> IF q = p THEN r ELSE hist[q]]

\* AfterValidatorCreated: initializeValidator.
InitializeValidator(D, v) ==
  [D EXCEPT
    !.hist[v] = WithRecord(@, 0, [ratio |-> 0, refs |-> 1]),
    !.cur[v] = [rewards |-> 0, period |-> 1],
    !.commission[v] = 0,
    !.outstanding[v] = 0]

\* IncrementValidatorPeriod: close the current period of v.
IncrementPeriod(D, stk, v) ==
  LET c == D.cur[v]
      prev == D.hist[v][c.period - 1].ratio
      idle == stk.tokens[v] = 0
      gain == IF idle THEN 0 ELSE c.rewards \div stk.tokens[v]
      lost == IF idle THEN c.rewards ELSE 0
  IN [D EXCEPT
       !.hist[v] = WithRecord(DecRef(@, c.period - 1), c.period,
                              [ratio |-> prev + gain, refs |-> 1]),
       !.cur[v] = [rewards |-> 0, period |-> c.period + 1],
       !.outstanding[v] = @ - lost,
       !.pool = @ + lost]

\* initializeDelegation, at context height h.
InitializeDelegation(D, stk, dl, h) ==
  LET v == dl[2]
      prev == D.cur[v].period - 1
  IN [D EXCEPT
       !.hist[v] = IncRef(@, prev),
       !.start[dl] = [prev |-> prev, stake |-> TokensFromShares(stk, dl),
                      height |-> h]]

\* Rewards of a stake between two periods.
Between(hist, from, to, stake) ==
  ((hist[to].ratio - hist[from].ratio) * stake) \div Prec

\* A slash of validator v while a delegation earns: the rewards up to its
\* period, and what it leaves of the stake.
AfterSlash(hist, a, e) ==
  [from |-> e.period,
   stake |-> (a.stake * (Prec - e.fraction)) \div Prec,
   rewards |-> a.rewards + Between(hist, a.from, e.period, a.stake)]

\* The slashes since the start of dl, in their order.  They are only visited
\* if the context height h is above the start height.
AfterSlashes(D, dl, h) ==
  LET s == D.start[dl]
      slashes == D.slashes[dl[2]]
      Counts(e) == h > s.height /\ e.height >= s.height /\ e.height <= h
      After[i \in 0..Len(slashes)] ==
        IF i = 0 THEN [from |-> s.prev, stake |-> s.stake, rewards |-> 0]
        ELSE IF Counts(slashes[i]) /\ slashes[i].period > After[i - 1].from
        THEN AfterSlash(D.hist[dl[2]], After[i - 1], slashes[i])
        ELSE After[i - 1]
  IN After[Len(slashes)]

\* CalculateDelegationRewards up to period "end" at context height h; "sane"
\* is the final check that the stake, with the slashes applied, is not above
\* the current one by more than rounding: the code panics otherwise.
DelegationRewards(D, stk, dl, end, h) ==
  LET last == AfterSlashes(D, dl, h)
      current == TokensFromShares(stk, dl)
  IN IF D.start[dl].height = h THEN [sane |-> TRUE, rewards |-> 0]
     ELSE [sane |-> last.stake <= current + 3,
           rewards |-> last.rewards
              + Between(D.hist[dl[2]], last.from, end, Least(last.stake, current))]

\* The rewards a withdrawal of dl at context height h computes.
Pending(D, stk, dl, h) ==
  DelegationRewards(IncrementPeriod(D, stk, dl[2]), stk, dl,
                    D.cur[dl[2]].period, h)

\* withdrawDelegationRewards: pay whole coins, leave the rest to the
\* community pool, drop the starting info.
PayRewards(D, stk, dl, h) ==
  LET v == dl[2]
      D1 == IncrementPeriod(D, stk, v)
      raw == Least(Pending(D, stk, dl, h).rewards, D1.outstanding[v])
      coins == raw \div Prec
  IN [D1 EXCEPT
       !.outstanding[v] = @ - raw,
       !.pool = @ + (raw - coins * Prec),
       !.balance = @ - coins,
       !.hist[v] = DecRef(@, D.start[dl].prev),
       !.start[dl] = NoStart]

\* WithdrawDelegationRewards: pay, then start a new period for dl.
WithdrawRewards(D, stk, dl, h) ==
  InitializeDelegation(PayRewards(D, stk, dl, h), stk, dl, h)

\* WithdrawValidatorCommission: whole coins only.
WithdrawCommission(D, v) ==
  LET coins == D.commission[v] \div Prec IN
  [D EXCEPT
    !.commission[v] = @ - coins * Prec,
    !.outstanding[v] = @ - coins * Prec,
    !.balance = @ - coins]

\* AllocateTokensToValidator: a share of the block's fees.
Allocate(D, v, coins, commission) ==
  [D EXCEPT
    !.cur[v].rewards = @ + (coins * Prec - commission),
    !.commission[v] = @ + commission,
    !.outstanding[v] = @ + coins * Prec,
    !.balance = @ + coins]

\* BeforeValidatorSlashed: close the period and remember the slash.
RecordSlash(D, stk, v, h, fraction) ==
  LET p == D.cur[v].period
      D1 == IncrementPeriod(D, stk, v)
  IN [D1 EXCEPT
       !.hist[v] = IncRef(@, p),
       !.slashes[v] =
          Append(@, [height |-> h, period |-> p, fraction |-> fraction])]
=============================================================================
