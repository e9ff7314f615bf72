----------------------------- MODULE TxPipeline -----------------------------
(***************************************************************************)
(* One transaction through the application: the ante handler of            *)
(* app/ante/ante.go takes the offered fee, the messages run, the post      *)
(* handler of app/app.go settles the fee.  The ante handler writes a store *)
(* branch of its own; messages and post handler share a second one, which  *)
(* is dropped when either fails.  Between blocks governance may switch the *)
(* fee market, its price moves, and the collected fees are distributed.    *)
(***************************************************************************)
EXTENDS MsgFilter, Integers, FiniteSets, FiniteSetsExt, Functions

CONSTANTS
  Users,        \* accounts that sign transactions
  Proposer,     \* the account of the block's proposer
  Txs,          \* the transactions that reach a block, in any order, repeatedly
  Funds,        \* balance of each user at genesis
  Prices,       \* base gas prices the fee market moves between
  MaxUtil,      \* max_block_utilization: gas of one block
  MaxGas,       \* bound: gas a transaction can use
  MaxHeight     \* bound: blocks

Params == [enabled : BOOLEAN, distribute : BOOLEAN]
Tx == [signer : Users, seq : Nat, fee : Nat, gas : Nat, body : Body]

\* The module accounts that this component moves coins of.
maccPerms == {"fee_collector", "feemarket-fee-collector", "distribution", "gov"}

ASSUME PipelineAssumption ==
  /\ Users \cup {Proposer} \cup maccPerms \subseteq Accounts
  /\ Users \cap maccPerms = {} /\ Proposer \notin Users \cup maccPerms
  /\ Txs \subseteq Tx
  /\ Prices \subseteq Nat \ {0} /\ Prices # {}
  /\ {Funds, MaxUtil, MaxGas, MaxHeight} \subseteq Nat /\ MaxHeight >= 1

VARIABLES
  bank,      \* bank[a]: balance of account a
  sequence,  \* sequence[u]: the sequence u's next transaction must have
  params,    \* parameters of the fee market
  since,     \* the height at which the fee market was enabled last
  price,     \* its base gas price
  window,    \* gas of the current block it counted
  height,    \* the current block
  ledger     \* history: the transactions that passed the ante handler

vars == <<bank, sequence, params, since, price, window, height, ledger>>

Entry ==
  [tx : Tx, ok : BOOLEAN, ran : SUBSET MsgTypes, used : Nat, height : Nat,
   params : Params, price : Prices]

TypeOK ==
  /\ bank \in [Accounts -> Nat]
  /\ sequence \in [Users -> Nat]
  /\ params \in Params
  /\ since \in -1..MaxHeight
  /\ price \in Prices
  /\ window \in 0..MaxUtil
  /\ height \in 1..MaxHeight
  /\ ledger \subseteq Entry

Init ==
  /\ bank = [a \in Accounts |-> IF a \in Users THEN Funds ELSE 0]
  /\ sequence = [u \in Users |-> 0]
  /\ params = [enabled |-> TRUE, distribute |-> FALSE]
  /\ since = -1
  /\ price = Min(Prices)
  /\ window = 0
  /\ height = 1
  /\ ledger = {}

Move(b, from, to, amount) ==
  [[b EXCEPT ![from] = @ - amount] EXCEPT ![to] = @ + amount]

(***************************************************************************)
(* The ante handler: SigVerification and IncrementSequence, then           *)
(* FeeMarketCheck, which falls back to DeductFee while the fee market is   *)
(* off.  The fee market escrows everything the transaction offers.         *)
(***************************************************************************)
AntePasses(tx) ==
  /\ Decodes(tx.body)
  /\ tx.seq = sequence[tx.signer]
  /\ params.enabled => tx.fee >= price * tx.gas
  /\ bank[tx.signer] >= tx.fee

\* Mutant: the sequence is not incremented.
IncrementSequenceNot(tx) == sequence
IncrementSequence(tx) == [sequence EXCEPT ![tx.signer] = @ + 1]

CheckedBank(tx) ==
  Move(bank, tx.signer,
       IF params.enabled THEN "feemarket-fee-collector" ELSE "fee_collector",
       tx.fee)

(***************************************************************************)
(* The messages.  The bank refuses to send to a blocked address.           *)
(***************************************************************************)
BlockedAddresses == maccPerms \ {"gov"}

RunMsg(r, m, signer) ==
  IF m.type # "send" THEN r
  ELSE IF r.ok /\ m.to \notin BlockedAddresses /\ r.bank[signer] >= m.amount
       THEN [ok |-> TRUE, bank |-> Move(r.bank, signer, m.to, m.amount)]
       ELSE [ok |-> FALSE, bank |-> r.bank]

RunMsgs(b, tx) ==
  LET ms == Unfolded[tx.body]
      After[i \in 0..Len(ms)] ==
        IF i = 0 THEN [ok |-> TRUE, bank |-> b]
        ELSE RunMsg(After[i - 1], ms[i], tx.signer)
  IN After[Len(ms)]

(***************************************************************************)
(* The post handler.  Of the escrowed fee, the price of the gas used goes  *)
(* to the fee collector or stays (a soft burn), the rest is the proposer's *)
(* tip.  It refuses a transaction the block's utilization has no room for. *)
(***************************************************************************)
Settles == params.enabled /\ height > since
\* Mutant: the utilization is not bounded.
PostPassesAlways(used) == TRUE
PostPasses(used) == Settles => window + used <= MaxUtil

\* Mutant: setPostHandler is not called.
PostHandlerMissing(b, tx, used) == b
PostHandler(b, tx, used) ==
  IF ~Settles THEN b
  ELSE LET fee == price * used
           paid == IF params.distribute
                   THEN Move(b, "feemarket-fee-collector", "fee_collector", fee)
                   ELSE b
       IN Move(paid, "feemarket-fee-collector", Proposer, tx.fee - fee)

Record(tx, used, ok) ==
  ledger' = ledger \cup
    {[tx |-> tx, ok |-> ok, used |-> used, height |-> height,
      ran |-> IF ok THEN {m.type : m \in ToSet(Unfolded[tx.body])} ELSE {},
      params |-> params, price |-> price]}

Succeeds(tx, used) ==
  RunMsgs(CheckedBank(tx), tx).ok /\ used <= tx.gas /\ PostPasses(used)

\* Messages and post handler succeed: both branches are written.
DeliverTx(tx, used) ==
  /\ AntePasses(tx)
  /\ Succeeds(tx, used)
  /\ bank' = PostHandler(RunMsgs(CheckedBank(tx), tx).bank, tx, used)
  /\ window' = IF Settles THEN window + used ELSE window
  /\ sequence' = IncrementSequence(tx)
  /\ Record(tx, used, TRUE)
  /\ UNCHANGED <<params, since, price, height>>

\* Mutant: the messages before the failing one are kept.
DeliverFailingTxKept(tx, used) ==
  /\ AntePasses(tx)
  /\ ~Succeeds(tx, used)
  /\ bank' = RunMsgs(CheckedBank(tx), tx).bank
  /\ sequence' = IncrementSequence(tx)
  /\ Record(tx, used, FALSE)
  /\ UNCHANGED <<params, since, price, window, height>>

\* A message fails, gas runs out or the post handler refuses: only the ante
\* handler's branch is written.
DeliverFailingTx(tx, used) ==
  /\ AntePasses(tx)
  /\ ~Succeeds(tx, used)
  /\ bank' = CheckedBank(tx)
  /\ sequence' = IncrementSequence(tx)
  /\ Record(tx, used, FALSE)
  /\ UNCHANGED <<params, since, price, window, height>>

(***************************************************************************)
(* The end of a block and the begin-blockers of the next.  Governance runs *)
(* before the fee market (SetOrderEndBlockers); new parameters reset the   *)
(* fee market's state.  Mint runs before distribution and pays each        *)
(* block's inflation into the same fee collector: those coins, which come  *)
(* from no user, are left out, so the balance of the fee collector and     *)
(* what distribution gets are what the fees alone amount to.               *)
(***************************************************************************)
AllocateTokens ==
  bank' = Move(bank, "fee_collector", "distribution", bank["fee_collector"])

NextBlockSetParams(p) ==
  /\ height < MaxHeight
  /\ params' = p
  /\ since' = IF p.enabled /\ ~params.enabled THEN height ELSE since
  /\ price' = Min(Prices)
  /\ window' = 0
  /\ height' = height + 1
  /\ AllocateTokens
  /\ UNCHANGED <<sequence, ledger>>

\* The price falls when less than half of the utilization was used, and rises
\* when more was (UpdateFeeMarket).
NextBlock(q) ==
  /\ height < MaxHeight
  /\ IF ~params.enabled THEN q = price
     ELSE /\ 2 * window < MaxUtil => q <= price
          /\ 2 * window > MaxUtil => q >= price
          /\ 2 * window = MaxUtil => q = price
  /\ price' = q
  /\ window' = IF params.enabled THEN 0 ELSE window
  /\ height' = height + 1
  /\ AllocateTokens
  /\ UNCHANGED <<sequence, params, since, ledger>>

Next ==
  \/ \E tx \in Txs, used \in 1..MaxGas :
       DeliverTx(tx, used) \/ DeliverFailingTx(tx, used)
  \/ \E p \in Params : NextBlockSetParams(p)
  \/ \E q \in Prices : NextBlock(q)

Spec == Init /\ [][Next]_vars

(***************************************************************************)
(* Properties.                                                             *)
(***************************************************************************)

\* The coins the messages of body b move from the signer, and to account a,
\* when all of them run.
Amounts(b) == [i \in DOMAIN Unfolded[b] |-> Unfolded[b][i].amount]
SentAway(b) == SumFunction(Amounts(b))
Sent(b, a) ==
  SumFunctionOnSet(Amounts(b), {i \in DOMAIN Unfolded[b] : Unfolded[b][i].to = a})

\* Sums over entries of the ledger.
Fees(S) == SumFunction([e \in S |-> e.tx.fee])
Charges(S) == SumFunction([e \in S |-> e.price * e.used])
Spent(S) == SumFunction([e \in S |-> IF e.ok THEN SentAway(e.tx.body) ELSE 0])
Received(S, a) == SumFunction([e \in S |-> IF e.ok THEN Sent(e.tx.body, a) ELSE 0])

\* What a user owns is explained by the whole offered fees of the accepted
\* transactions and by all the messages of those that succeeded: a failed one
\* leaves no message behind and gives no part of the fee back (the branches
\* of runTx, the ante and post handlers, BlockedAddresses).
UsersExact ==
  \A a \in Users \cup {"gov"} :
    LET own == {e \in ledger : e.tx.signer = a} IN
    bank[a] = (IF a \in Users THEN Funds ELSE 0)
                - Fees(own) - Spent(own) + Received(ledger, a)

\* The transactions that paid into the fee market's escrow, those of them that
\* were settled, and those of these whose gas price the stakers got.
Market == {e \in ledger : e.params.enabled}
Settled == {e \in Market : e.ok}
Shared == {e \in Settled : e.params.distribute}

\* Every fee is where the pipeline must bring it: the price of the gas used
\* at the stakers' or softly burned, the rest the proposer's tip, the whole
\* fee of a failed transaction in the escrow account, also across blocks in
\* which governance switches the fee market; and no message ever reaches
\* these accounts, but for what users send to the proposer (ante.go,
\* setPostHandler, maccPerms, BlockedAddresses, SetOrderEndBlockers).
FeesExact ==
  /\ bank["feemarket-fee-collector"] =
       Fees(Market \ Settled) + Charges(Settled \ Shared)
  /\ bank["fee_collector"] + bank["distribution"] =
       Fees(ledger \ Market) + Charges(Shared)
  /\ bank[Proposer] =
       Fees(Settled) - Charges(Settled) + Received(ledger, Proposer)

\* A transaction is charged once: however often and in whatever order the
\* proposers include it, each signer's sequence counts its charges
\* (IncrementSequence before FeeMarketCheck, both in the ante branch).
SequencesExact ==
  \A u \in Users :
    {e.tx.seq : e \in {e \in ledger : e.tx.signer = u}} = 0..(sequence[u] - 1)

\* Had the filter been installed for any set of types, it would refuse exactly
\* the transactions that execute one of these types at some depth of authz
\* nesting, and those that do not decode (HasDisallowedMessage).
FilterSound ==
  \A blocked \in SUBSET MsgTypes :
    /\ \A e \in ledger : e.ok =>
         (HasDisallowedMessage(blocked, e.tx.body) <=> e.ran \cap blocked # {})
    /\ \A tx \in Txs :
         ~Decodes(tx.body) => HasDisallowedMessage(blocked, tx.body)

(***************************************************************************)
(* The inductive strengthening of these properties.                        *)
(***************************************************************************)

\* What the books take for granted of every entry: it was decoded, and when it
\* succeeded, all its messages ran.
EntriesExact ==
  /\ IsFiniteSet(ledger)
  /\ \A e \in ledger :
       /\ Decodes(e.tx.body)
       /\ e.ok => e.ran = {m.type : m \in ToSet(Unfolded[e.tx.body])}

\* The fee market was switched on in an earlier block, so that what the ante
\* handler escrows is what the post handler settles.
MarketInEffect == since < height

PipelineInv ==
  TypeOK /\ EntriesExact /\ MarketInEffect /\ SequencesExact /\ FeesExact /\ UsersExact
=============================================================================
