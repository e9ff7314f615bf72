# Enoki in TLA+

A verification development for `enokid`, the application binary of the Enoki
chain (`src/`). Enoki is a thin Cosmos SDK application: most transaction logic
lives in libraries, and what this repository decides is how they are put
together, how a network moves from one release to the next, how a chain is
exported into a new genesis, which way an IBC transfer goes through the
middleware, and what a transaction passes on its way to a block. Those are the
parts modelled here. A library that the code calls is modelled from how the code uses it
and is marked external in `PROJECT.json`.

## The system

| Component | State | Operations | What makes it hard |
|---|---|---|---|
| On-chain upgrades (`app/upgrades.go`, `app/upgrades/*`, `app/app.go` 461-475, 751-787, 902-1089) | plan, done upgrades, version map (in the application state); `upgrade-info.json`; skip heights; the installed binary | start (`NewEnokiApp`, `RegisterUpgradeHandlers`), `InitChainer`, `PreBlocker`, the handler, commit | nodes lag, crash between two steps, are restarted on another binary; the file outlives the upgrade |
| Upgrade procedure (`interchaintest/upgrade_helpers.go`) | where the program is, its transactions, the proposal | submit, vote, wait, stop, swap, start, verify | waits for fixed numbers of blocks and a fixed time, not for what it needs; swaps binaries under running nodes |
| Genesis export (`app/export.go`) | the whole application state | export at a height or for height zero | one long sequence of rewrites of records that refer to each other |
| Block execution (`app/app.go` 801-900, 1058-1089) | orders of pre-, begin-, end-blockers and genesis | one call per block | the order distribution before slashing is load-bearing |
| IBC transfer stack (`app/app.go` 594-734) | escrow accounts, vouchers, packets, forwards in flight, rate limit quotas | send, receive, acknowledge, time out, retry | keepers are copied by value before they are wired; packets are reordered, time out and fail |
| Transaction pipeline (`app/ante/ante.go`, `app/app.go` 942-974, 1029-1053) | balances, fees held, sequences, gas price | ante handler, messages, post handler | the two handlers run in different store branches |
| Message filter (`app/decorators/msg_filter_template.go`) | none | recursive check of nested messages | nesting at any depth; not installed by `ante.go` |
| Module accounts (`app/app.go` 188-201, 1231-1255) | a table | `BlockedAddresses` | the fee accounts must not receive sends |
| Start and export commands (`cmd/enokid`) | none | `newApp`, `appExport` | wiring |
| Encoding, parameters, test fixtures, deployment | none | | configuration |

Interactions: consensus calls `InitChainer` once and then, per block, the
pre-blocker (`x/upgrade`), the begin-blockers, the ante handler, messages and
post handler of each transaction, and the end-blockers, where governance runs the
messages of passed proposals (a plan is scheduled there). The pre-blocker talks to
the next start of the process only through `upgrade-info.json`. The export reads the
last committed state and produces the input of another chain's `InitChainer`.
Relayers call the transfer stack through core IBC.

## Modules

| Module | Models |
|---|---|
| `Upgrade` | the network of nodes going through software upgrades: state machine and properties |
| `UpgradeInv` | the inductive invariants of `Upgrade`: of the network, of the start of a node, of the downgrade check |
| `UpgradeProofs` | theorems about `Upgrade`, checked by TLAPS: the network, and the start of a node (store loading, the downgrade check) |
| `ChainUpgrade` | what the network promises, as one machine without nodes or binaries |
| `UpgradeRefinement` | the refinement mapping from `Upgrade` to `ChainUpgrade` |
| `RefinementProofs` | the theorem that `Upgrade` implements `ChainUpgrade`, checked by TLAPS |
| `MCUpgrade` | instances: the releases of `app/upgrades.go` and one that adds a store |
| `UpgradeProcedure` | `PerformUpgrade` as a program that runs beside `Upgrade`, with governance and the mempool |
| `MCUpgradeProcedure` | its instance: one validator, as in the end-to-end tests, and a full node |
| `ProcedureProofs` | theorems about `UpgradeProcedure` |
| `Distribution` | operators on the records of `x/distribution` that `export.go` drives (external) |
| `GenesisExport` | a running chain, the export of its state step by step, and the chain started from it |
| `MCGenesisExport` | instances of `GenesisExport` |
| `ExportProofs` | theorems about `GenesisExport`: books, reference counts, the exported genesis, failures |
| `SolvencyProofs` | theorems about `GenesisExport`: what is outstanding covers every claim, who is paid, types |
| `TransferStack` | ICS20 transfers, forwards and rate limits through the middleware of `app.go` |
| `MCTransferStack` | instances of `TransferStack`: two channels, one limited |
| `TransferProofs` | theorems about `TransferStack` |
| `MsgFilter` | messages, nested ones included, and the filter over them |
| `TxPipeline` | transactions through ante handler, messages and post handler, block after block |
| `MCTxPipeline` | its instance: two users, seven transactions, nested and undecodable messages |
| `TxProofs` | theorems about `TxPipeline` and `MsgFilter` |
| `SumTheorems` | sums over finite sets, induction over sets and the value of recursive functions, for the proofs above |

`UpgradeProcedure` extends `Upgrade`: its steps are steps of the nodes, of consensus or of the test program.
`TxPipeline` extends `MsgFilter`: the bodies that the filter inspects are the ones that the pipeline executes.

An operator or action whose comment starts with "Mutant:" is not part of a model. It is a
variant of the definition below it with a plausible bug; exchanging the two must make
the property named in `PROJECT.json` fail, which shows that the property can see the code.

### Upgrade

*State.* `blocks` is the log consensus decided; of a block only what governance does to the
plan matters. `versions[n]` are the multistore versions node `n` committed; each is a record
with the plan, the upgrades done and their heights, the version map (`vm`), the version the modules' data
really has (`schema`), the number of `InitGenesis` calls per module, the stores, and the
release that executed the height (`code`): two nodes that execute a height with different releases compute
different application hashes, so agreement on this record is agreement on the hash.
`work[n]` is the uncommitted block, `status[n]` the process, `binary[n]` the installed release,
`info[n]` the upgrade-info file, `verified[n]` the flag `downgradeVerified` of the running
keeper, `skips[n]` the heights of `--unsafe-skip-upgrades`.

*Actions.* `NewEnokiApp` is the constructor: it registers handlers, sets the store loader when
the file names a known upgrade, and loads the latest version, which fails if a mounted store
has no version there and is not added. `InitChain` is `InitChainer`. The five
outcomes of the pre-blocker are `FinalizeBlock`, `FinalizeSkippedUpgrade`, `FinalizeUpgrade`
(each with the rest of the block), `HaltForUpgrade` (writes the file), `HaltEarly` and
`HaltDowngrade`. `UpgradeFails` is the error return of the upgrade handler (`v2_2_0/upgrades.go` 37-39): the process
ends with nothing written, as in a crash, and counts as a fault. A cause that goes away is thereby covered; one that is
in the state fails again at each start, and the chain halts until another release is published, which
`EveryNodePassesUpgrades` does not speak of. `Commit` persists. `Decide` is consensus, `Crash` loses what is uncommitted, at any
point. Operators: `InstallRelease` (the node stopped for the upgrade), `InstallPrematurely` (the
timer of `ExecuteUpgrade`), `Reinstall` (go back after an error), `SkipUpgrade`, and `InstallAny`
for operators without discipline.

*Abstractions.* Consensus is a log, decided only while a quorum is up to date and running. A
migration adds the difference of versions to `schema`. A skip height takes effect on a
node after that node stopped there, and operators only skip heights they agreed on
(`SkipHeights`). The code cannot make them agree: with `SkipUpgradeAlone`, a mutant in which one operator skips another
height, `AppHashAgreement` fails.

*Plan settlement.* `AppliedExactlyWhenDue` says of a due plan that the next block applies it, unless the operators skipped it there,
and in both cases that it is gone from the state afterwards, unless governance schedules another in that very
block; of a plan that is not due, that only governance changes it. `InfoKnown` says the same of the other place where a stop
is kept: the stop a node's `upgrade-info.json` tells of was skipped, or its upgrade applied, or it is the one pending.

*Left out.* Snapshots (state sync), cosmovisor and pruning.

### ChainUpgrade and the refinement

`ChainUpgrade` has five variables: the height, the plan, the upgrades done, the release (`code`) and the layout of the
data. A step is a block without a due plan (or at a height the operators skip), or the block that applies the
upgrade. In `UpgradeRefinement` they are the fields of the last state of `Front`, a node that committed as many blocks
as any other. Everything else in `Upgrade` (processes, files, halts, binary swaps, lagging and crashing nodes,
replays) is a stuttering step. `OneChain` is checked by TLC in `upgrade_safety` and proved (below).

### UpgradeProcedure

*State.* That of `Upgrade`, and: `pc` (the step of `PerformUpgrade`), `target` (the planned height), `mark` (the height
waited for), `pool`, `included` and `refused` (the program's three transactions), `gov` (the proposal), `lag`.

*Actions.* One per function of `upgrade_helpers.go`, split where the function waits for blocks: `SubmitUpgradeProposal`
and `QueryProposalID` are the two halves of the first; the wait at the start of `WaitForProposalPass` belongs to the step
before it, as the wait at the start of `ExecuteUpgrade` does. `DecideBlock` is a block with some of the pending
transactions and the end-blocker of governance, which schedules the plan or fails to when its height is past.
The program looks at one node only, `Queried` (`chain.GetNode()`): its height, its included transactions and whether it
applied the upgrade (346-347).

*The swap.* `ExecuteUpgrade` has no guard but the height of the queried node. The sleep of ten seconds (line 315) is no time at all in the
model: the program may stop and swap the nodes at once, or any number of steps later, and each node is then where it
happens to be: halted at the upgrade, in the middle of a block, or blocks behind. `SwapBinaries` loses what is
uncommitted, installs the new release everywhere, and leaves the nodes stopped; starting them is their own step, so that
`StartAllNodes` may take any time and come in any order.

*Errors.* A transaction may fail in its block or be refused by the mempool (the gas price of 115 and 252 may have moved):
it is then in `refused`, and has no effect. `CommandFails` is any `require.NoError`: the program ends with "error", and in
the swap it may have stopped some nodes, or all of them with or without their new release.

*Time.* Durations are compared in blocks. Two assumptions stand for the speeds of the real network: a
transaction broadcast before a block was proposed is in that block, one broadcast meanwhile may miss it
(so it is included within two blocks); and while the program is working, not waiting or asleep, at most `MaxLag` blocks are decided in
all. The wait for the vote's result is longer than the voting period. Ten polls for the voting period are one, for a voting
period that is not open when first looked at will not open later. Nodes neither crash nor fail a migration here
(`Upgrade` has both).

*What the swap does.* `SuccessIsExact` holds however early the swap comes: a reported success means that the queried node and
the nodes of a quorum are past the upgrade, and that each node past it applied it when it was due with the new release.
It does not mean that every node is past it: a node that is not queried may be behind, or stuck.
`EarlyOnlyBehindVote` says what a node does with a binary it got too early. The new release refuses each block
while the plan is pending ("BINARY UPDATED BEFORE TRIGGER"), so between the vote's end and the upgrade no node executes
a block with it. But a node that lags behind the end of the vote knows no plan yet: after the swap it executes the old
blocks with the new release, and `AppHashAgreement` of `Upgrade` fails there. That takes a node that at the
time of the swap has not executed the block in which the vote ended, so at least two nodes, and the tests start one.

*What fails.* When the planned height is reached during the wait for the vote's result, the chain
halts below the block that the program waits for, and the program waits for ever. `Completes` therefore
demands a height that leaves room for all waits; the instance also has smaller ones. The tests use height 50
(`upgrade_test.go` 43), which leaves room for waits of 2 and 20 blocks. With such a height, a release that adds no store
(as `v2.2.0` does not) and one validator that is queried, the procedure completes however short the sleep was: a node swapped
before it executed the block of the upgrade executes it at once with the new release. A release that adds a store would find no
upgrade-info file on such a node and never load; `LoadFailsOnlyWithoutHalt` of `Upgrade` is about that.

### GenesisExport

*State.* `stk` (tokens, shares, delegations, jailed flags, power index, unbonding heights, creation
heights of unbonding and redelegation entries, signing infos), `dist` (historical rewards with
reference counts, current period, commission, outstanding rewards, starting infos, slash events,
community pool, balance of the module account), `pc` and `todo` for the position in a block or in an export.

*Actions.* A block distributes fees, then punishes faults, then runs transactions, in that order
(`app.go` 806-835). An export for zero height goes through each loop of `prepForZeroHeightGenesis`
with one action per entry, in the order of the code. `InitChain` starts a new chain from the
result, which runs and may be exported again.

*Allow list.* The words of `--jail-allowed-addrs` are addresses of validators, addresses of none (`Strangers`) or words that are no validator
address at all (`Unreadable`). The code reads the whole list before it changes anything and ends the process on the first word it cannot read
(export.go 76-80): `RefuseAllowList`. The list is compared as text, so a validator's address in other letters is a
stranger.

*Failures.* `FailsOnlyWhen` is about the failures that depend on the chain and the list: the two `log.Fatal` and the panics of
`prepForZeroHeightGenesis`. Left out are errors of the store (reads, writes, iterations; a failing `iter.Close` returns
early from the step that jails, line 232, and lets the export go on without its last two), of `ExportGenesisForModules`,
`MarshalIndent` and `WriteValidators` (lines 33-46), which return an error and change nothing.

*Abstractions.* Decimals are integers in units of `1/Prec`, truncated where the library
truncates, but a delegation is never issued zero shares: the code's eighteen decimals make the smallest one worth something.
Slashes of a delegation are visited in their order, each taking its part of the stake (`AfterSlashes`). Entries of redelegations and unbonding delegations are one set. The last
delegation of a validator stays, so validators are not removed. Fees enter as an amount
per validator, with a commission of a tenth.

### TransferStack

*State.* `bank` (users' tokens and the escrow account of each channel), `abroad` and `locked` (what users of the other
chains hold, and what those chains hold in escrow), `out` and `recv` (packets not yet settled with their
sender), `inflight` (PFM's records), `limit` (flows and pending packets of the rate limit).

*Actions.* `Transfer` is `MsgTransfer`. `ReceiveTransfer`, `ReceiveForward`, `RefuseOverLimit` and `RefuseBelow` are the
outcomes of `OnRecvPacket` through RateLimit, PFM, Callbacks and Transfer; `AcknowledgePacket`,
`TimeoutPacket` and `RetryForward` those of the answers. `ResetWindow` is the begin-blocker of the rate limit. The other chains
send, receive or refuse, and learn the outcome.

*The wiring.* `SendStack` says which layers a packet passes on its way out. It depends on the sender, since keepers are structs:
the message server is created after `WithICS4Wrapper` (`app.go` 703 and 780), PFM received its copy before (647).

*Abstractions.* Quotas are a number of native tokens per window (the code derives it from a percentage of the supply
recorded at the start of the window, and the supply of a window does not change here); whitelisted address pairs
and hourly windows of different lengths are left out. A contract callback that fails on receipt is one
of the causes of `RefuseBelow`; callbacks on answers do not change the outcome. The intermediate account of a forward
is part of `held`.

### MsgFilter and TxPipeline

*State.* `bank` (balances, module accounts included), `sequence`, the fee market (`params`, the height `since` which it is
enabled, `price`, `window`: gas counted in the block), `height`, and `ledger`, a history of the transactions that passed
the ante handler, with the parameters and the price they met. Inflation is left out: mint runs before distribution
(`app.go` 812-814) and pays each block's new coins into the fee collector, from where they go with the fees to
distribution. They come from no user and go to none, so no property speaks of them.

*Actions.* `DeliverTx` and `DeliverFailingTx` are one transaction each, in `runTx`: the ante handler's branch is
always written, the branch of messages and post handler only when both succeed. A
transaction that the ante handler refuses changes nothing. `NextBlock` and `NextBlockSetParams` are the end of a block and
the begin-blocker of distribution in the next; in the second one governance changes the fee market.

*Fees.* While the fee market is on, the ante handler moves the whole offered fee into its collector account; the post
handler pays the price of the gas used from there to the fee collector (or leaves it, if fees are not
distributed) and the rest to the proposer. While it is off, `DeductFee` pays the fee collector at once. In the
block that enables it the post handler does not act yet; no transaction can meet that, for parameters change at the end of a block.
The fee of a failed transaction stays in the collector account.

*Messages.* A body is a sequence of messages; an `exec` has a body of its own. `Unfolded` is what authz executes, and
the reference that `FilterSound` compares `HasDisallowedMessage` with. `Depth` bounds the nesting of each body: a message is a finite tree. `ante.go` does not install the filter, so the property speaks of the
answer it would give, for every set of blocked types.

*Abstractions.* One denomination, the one fees are paid in. The gas a transaction uses is any number; more than it
asked for is a failure. The price moves between the values of `Prices` in the direction the utilization demands.
All executed messages are signed by the signer of the transaction (authz grants are not modelled). Decorators that
only refuse (memo, timeout height, size, number of signatures, redundant relays), fee grants and `CheckTx` are left out:
the properties hold of any set of transactions, so of those these let pass as well.

## Runs

| Run | Question | Bounds |
|---|---|---|
| `upgrade_safety` | Do nodes agree, on state and code, whatever the crashes, premature swaps and skipped heights; is every plan settled when due; do migrations run exactly once; when can the release that adds a store fail to load; is the network one machine (`OneChain`); does the inductive invariant hold; is what the upgrade-info file says settled? | 2 nodes, each of them a quorum so that the other may lag arbitrarily; 3 releases; 4 blocks: two upgrades, on time or a block later than planned, cancelled, or skipped at height 2 and planned again; 2 faults: a node swapped early, stopped that crashes after its store upgrade, or whose migration fails |
| `upgrade_undisciplined` | Does the downgrade check hold with operators who install anything? | 2 faults (installs or crashes) |
| `upgrade_live` | Does every node get through all upgrades? | 1 fault |
| `export_accounts` | Do books, reference counts and rewards stay consistent in a chain, its export and the next chain; is a later delegation on a validator without slashes paid in full; is nothing left in a slashed validator's current rewards at the end of the block? | 1 validator, 2 delegators, 5 operations, 2 chains of 3 blocks: delegate, slash, and withdraw before and after an export |
| `export_genesis` | What does an exported genesis contain; when can the export fail? | 2 validators; 3 operations; allow lists empty, with one of the validators, with an address of none, with a word that is no address |
| `transfer_forward` | Is every voucher backed, is each forward settled once, in any order of answers, and is each forwarded packet answered? | 2 channels, 3 tokens, 2 packets of users (a token goes out and comes back as a forward), amounts 1 and 2, 1 retry, quota 1 |
| `transfer_quota` | Does the rate limit bound what really leaves when packets fail late? | no forwards, 3 packets of users, 2 window changes, one token blacklisted |
| `tx_fees` | Is every coin where messages and fees say, is each transaction charged once, would the filter see every message? | 2 users, 7 transactions that may be included repeatedly, 3 blocks: the fee market is switched off and on again, fees distributed or not, two prices, a block full after two transactions |
| `upgrade_procedure` | When does the upgrade procedure succeed, when does it fail, when must it complete; what does a node do with a binary it got too early? | 1 validator as in `setup.go`, and a full node that may lag by any number of blocks, so that it is swapped before the vote's end, between vote and upgrade, or halted; planned heights 4 (past when the vote ends), 7 (within the waits, or the very block in which the vote ends) and 9 (after them, the least for which `Completes` demands an end), a voting period of 4 blocks, waits of 2, 5 and 2 blocks for 2, 20 and 10; 14 blocks, which is enough for each of these; the chain is followed to block 10 once the program has ended (`MaxAfter`), which is past the upgrade |
| `transfer_bypass` | finding 3 | violation expected |
| `export_rewards_lost` | finding 1 | violation expected |
| `export_slash_panics` | finding 2 | violation expected |

All runs have `CHECK_DEADLOCK FALSE`: the bounds on heights, faults and operations end
every behaviour, and in `upgrade_undisciplined` a network may really stop for good.

*Symmetry.* `upgrade_safety` takes nodes as interchangeable. They start alike, quorums are any of them, and `Front` may
stand for any of the nodes that lead, which have the same last state (`OneTip` in `RefinementProofs`). No run
with a liveness property uses symmetry.

*Fairness* (`transfer_forward`). Packets that Enoki sent are resolved: relaying is permissionless, and a packet
that nobody receives can be timed out. Nothing else is fair.

*Fairness* (`upgrade_procedure`). The test program, consensus and each process go on. There are no crashes and no
operators in this run but the program itself. Neither a refused transaction nor `CommandFails` is fair, so neither has
to happen, and `Completes` excepts the behaviours in which one does.

*Fairness* (`upgrade_live`). Weak fairness of each node's own steps: a started process runs.
Of operator steps: the node printed a message asking for that step. Of consensus:
a quorum of running nodes decides blocks. Crashes and premature swaps are not fair and bounded by `MaxFaults`.
The run `upgrade_live` only schedules names the running release lacks: a plan for a name that the running binary
already has stops every node at its next block ("BINARY UPDATED BEFORE TRIGGER") and no step of
the procedure gets the network out of it.

## Findings

1. `AllRewardsWithdrawn` is violated. `export.go` 65 sets the context height to 0 before "withdraw all
   delegator rewards" (line 99). The library returns no rewards when a delegation's starting height is the context height,
   so delegations of the genesis file (and all delegations after a zero-height restart) are paid nothing; what they
   were owed is donated to the community pool at line 139. `LaterDelegationsPaid` shows
   that a delegation made later, on a validator that was never slashed, is paid in full, and `AccountBacked` that no coin is lost.
2. `ExportSucceeds` is violated. For a delegation that started at a positive height, with the context at height 0, slash
   events are not visited, the computed stake exceeds the current one and the library panics. `app/sim_test.go` 229-230
   requires such an export to succeed. `FailsOnlyWhen` shows that this, an allow list with
   an unreadable word and a readable one that leaves out a validator of the power index are the only ways to fail,
   errors of the store and of writing the result apart.

3. `EverySendLimited` is violated. `app.go` 689 describes the way of every sent packet as Transfer, Callbacks, PFM, RateLimit, core.
   A packet sent by PFM goes from Transfer to core, because PFM's copy of the transfer keeper was made before the keeper
   was given its wrapper. `QuotaKept` holds without forwards (run `transfer_quota`), so the rate limit itself works
   for the packets it sees.

Also noted: `export.go` 207 says "by power descending", the iteration is by operator address; the
body does not depend on the order.

## Proofs

Every theorem holds for all values of the constants that the named assumptions of its module allow; TLC evaluates these
assumptions on each instance. Proofs follow one pattern: an inductive invariant that is stronger than the
properties, shown to hold in the initial states and to be kept by each action, one lemma per action. TLC checked each
invariant on the instances above before it was proved.

| Module | Theorems | Inductive invariant |
|---|---|---|
| `UpgradeProofs` | `Invariance`, `TypeCorrect`, `Agreement`, `CodeChange`, `Timely`, `Migrations`; `LoadInvariance`, `InfoIsSettled`, `LoadFails`; `DowngradeInvariance`, `NoDowngrade` | `Inv`; `LoadInv`; `DowngradeInv` |
| `RefinementProofs` | `Refinement` | `Inv` |
| `ProcedureProofs` | `ProcedureInvariance`, `ProcedureTypeCorrect`, `SuccessExact`, `NoEarlyBlocks`; `WaitsAreLongEnough` | `ProcedureInv` and `DowngradeInv`; `OnTime` |
| `TransferProofs` | `TransferInvariance`, `TransferTypes`, `VouchersAreBacked`, `ForwardsAreExact`, `UndoIsCovered`; `QuotaIsKept`, `UsersSendsLimited` | `TransferInv`; `NoForwardInv` |
| `TxProofs` | `PipelineInvariance`, `PipelineTypes`, `ChargedOnce`, `FeesAreAccounted`, `UsersAreAccounted`, `FilterIsSound` | `PipelineInv` |
| `ExportProofs` | `ExportInvariance`, `BooksBalance`, `CountsAreExact`, `GenesisIsFresh`; `ListIsRead`, `FailuresExplained` | `ExportInv`; `ListRead` |
| `SolvencyProofs` | `SolvencyInvariance`, `RewardsAreCovered`; `CountersInvariance`, `ExportTypes`; `PaidInvariance`, `LaterDelegationsArePaid` | `SolvencyInv`; `CountersInv`; `PaidInv`, each beside `ExportInv` |

*The network of `Upgrade`.* None of its properties is inductive: that two nodes agree at a height says nothing about the
binary a lagging node will use for it. `Inv` says instead that every committed state follows from the one
before it by the function `ChainStep` of that state and the decided block alone (`OnChain`, `WorkOnChain`), that a node's
binary is the one its last state was made with or the release of the pending plan (`BinaryKnown`), that the skip
flags name skipped heights (`SkipsKnown`), and that each state's module data is exact for
its release (`StateOK`). Agreement is itself a conjunct of `Inv`: when a node
commits height h and another one has it, both applied `ChainStep` to the same block and, by agreement at h - 1, to the
same state. `Spec` excludes operators of `InstallAny`. Assumptions: `ConstantsAssumption` (types), `ReleaseHasHandler` (the
release published for an upgrade has its handler), `ReleasesGrow` (the list of upgrades only grows, module versions do not go down).

*The refinement.* Some node leads, since heights are bounded by the decided
blocks (`FrontLeads`, by well-foundedness), and nodes of one height have one last state (`OneTip`, from agreement). Only a commit
changes committed states (`Invisible` for the rest). A commit of a node that leads makes it the only leader, and its new state
is `ChainStep` of the old one, which is a block of `ChainUpgrade` (`ChainStepIsAbstract`); a commit of a node that lags
leaves the leader's state as it is (`CommitRefines`). That the data has the layout of the release is not in `ChainStep`
itself; it comes from the invariant (`LayoutOfCode`).

*The start of a node.* The upgrade-info file outlives the stop it tells of. `LoadInv` says what a node finds in it: a stop
that was skipped, one that its upgrade has followed, or the one the node has to get through next (`StopSettled`). With
`StoresListed` (the release of an upgrade mounts no store that is neither in the older releases nor in `Added`) a binary
then loads its stores unless it was swapped on a node that had not stopped, or had stopped at a skipped
height and is swapped when the skipped upgrade is planned again. That second exception was found by the
proof: the property did not have it before, and the run now has a proposal that reaches it. `DowngradeInv`
needs none of `Inv`, for `NoDowngrade` holds of `SpecUndisciplined`, where operators install anything: a process that has
verified runs a binary that knows the last upgrade, and an uncommitted block was made by such a process.

*The upgrade procedure.* `Inv` cannot be used: its operators swap early only a node that knows the plan, and the program
swaps them all. `ProcedureInv` relates the proposal, the block that ended its voting, the state of each node
(before the vote's end, before the upgrade, or after it: `Follows`), the binary that made it (`MadeBy`) and
where a node can have executed blocks with the new release (`NotEarly`). Since no one verifies more than the queried node,
the rest of `SuccessExact` comes from consensus: a block is decided only when a quorum executed the one before
it (`QuorumFollows`), and a success is reported after two more blocks (`ProgramKnows`). That the release before the
upgrade does not know it (`UpgradeIsNew`) is what stops each node there. `SuccessExact` and `NoEarlyBlocks` hold for any network, any quorums and any
waits, whenever the swap comes and whichever transactions or commands fail. `WaitsAreLongEnough` has a hypothesis,
`WaitsSuffice`: the queried node takes part in every block (so that it is at most one block behind the chain), the voting period has room for the two transactions and the delays, the wait after the vote covers the voting
period and two blocks follow the swap. The tests satisfy it (they query the one validator), and TLC evaluates it on the instance
(`TestWaitsSuffice`). A queried node that may lag by any number of blocks is covered by the other two theorems alone. `OnTime` then says for each step of the program what has happened on the chain by now, if no
transaction was refused. Assumptions: `ProcedureAssumption` (types), `UpgradeIsNew`, and `ScheduleAssumption` (the
proposal the test submits is one that governance may pass).

*The transfer stack.* `TransferInv` adds to the properties that packet identifiers are unique and below `nextId`
(`Identified`). The proof follows the books: what each action adds to and takes from the totals of the packets under way, with
the laws of sums in `SumTheorems`. `QuotaIsKept` and `UsersSendsLimited` have the hypothesis `Destinations
\subseteq {None}`: no user asks for a forward, as in the run `transfer_quota`. Without it both are false, by finding 3; so forwards
are the only way past the rate limit. `NoForwardInv` says that then what left in the window is within what was counted
(`CountedWithin`).

*The transaction pipeline.* Balances are explained by sums over the ledger (`FeesExact`, `UsersExact`), which each transaction
extends by one entry, with an amount that depends on the way it went through the two handlers. What the messages of a transaction
do is the value of a recursive function over its unfolded body; by induction over the prefix that has run, it moves the amounts
it says, and blocked accounts receive nothing. `MarketInEffect` (the fee market was enabled in an earlier block) makes ante and post
handler agree. `FilterIsSound` goes by induction on `Depth`, with `NestingAssumption`: the bodies in the execs of
a body nest less deep. `Recursion` in `SumTheorems` shows that the recursive functions of `MsgFilter` satisfy their
equations, which TLA+ does not give for free.

*Genesis export.* Between blocks the books are simple; inside an export they are not, since each loop has
rewritten the records of some validators and delegations and not yet those of the others. `ExportInv` says for each step
(`pc`) and position (`todo`) what holds. Its core is that reference counts are exact for
the delegations that count at that moment (`Counted(dist, S)`): all of them on a running chain, none when the validators are
ready, then those already visited. Between clearing the history and the end of the loop over validators counts are out of step,
and `CountsKept` says what the records are instead. A lemma for each operation of `Distribution` shows that it keeps the
books for the delegations in S, and one for each staking operation that no share loses value unless a slash of it is recorded
(`StakesKept`), which is what makes the library's check of a delegation's stake fail only as `FailsOnlyWhen` says. Decimals,
truncation and `Prec` are as in the model, so the theorems hold for any precision. Assumption: `ExportAssumption` (types,
finite sets, one genesis delegation per validator, a positive `Prec`, bounds that are numbers, words of the allow list that are
validators, other addresses or unreadable). What the export does with an unreadable list is `ListRead`, an invariant of its own: the
list that an export has kept is unreadable just when the export was refused.

*Solvency.* That no outstanding rewards become negative is the same fact as that they cover every claim, and it is not
inductive in terms of what a withdrawal pays, for each withdrawal rounds at its own time. `SolvencyInv` says instead, for each validator, that what is
outstanding, times `Prec`, is at least the commission and the current rewards, times `Prec`, and what its delegations have earned by the
last closed period, not rounded (`Earned`: slash by slash, each period with the stake that was left). What rounding keeps back only helps. A
claim grows with the ratio of a closed period, and all claims of a validator together by no more than the current rewards that the ratio
divides, since the stakes of its delegations are at most what their shares are worth, and those together at most its tokens. This
needs of each delegation that its start is not later than the slashes counted since (`InStep`), and of each validator that
ratios do not decrease (`RecordsSound`). There is one lemma per operation for the validator it acts on and one for the others.

The export breaks it. At context height zero its withdrawals ignore slashes, so a delegation may be paid more than it has
earned; only what is outstanding limits that. In that loop `SolvencyInv` keeps `StillCovered` alone, which is enough for
no amount to be negative, and full solvency is back with the records of each validator that the export
re-initialises. For a validator that was never slashed the loop is harmless: `PaidInv` keeps its solvency there, and with it what each waiting
delegation is owed, which gives `LaterDelegationsPaid`.

*Why never slashed.* The proof of an earlier form of `LaterDelegationsPaid`, for every delegation whose rewards the export computes,
failed, and TLC found why. The library accepts a computed stake that exceeds the current one by at most three of the smallest units, and
then takes the current one. After a slash within that margin the export does not fail, and pays for all periods at a stake
that is not the one the delegation had: with `Prec` 10, fees of 10000, bonds of 1 and 996 and one token of 1001 slashed, a
delegation of 5 shares is paid 43 coins of the 44 it was owed. With the code's eighteen decimals only delegations of next to nothing are within the margin.

*Only model-checked.*

- Liveness: `EveryNodePassesUpgrades`, `ForwardsAnswered`, `Completes`. Fairness and `ENABLED` are out of the prover's reach.
- The properties of the runs that expect a violation, but for `EverySendLimited` without forwards.

## Not modelled

- `cmd/enokid`: flags, configuration files and key commands. `appExport` only chooses the height that is loaded
  before the export; `GenesisExport` starts from a committed state of any height.
- IBC v2, interchain account and contract stacks: the transfer stack of v2 has neither forwards nor asynchronous
  acknowledgements; the others run library or user code the repository does not determine.
- The modules of `maccPerms` other than the ones fees pass through, with their mint and burn permissions.
- `CheckTx`, the mempool (but for its delay in `UpgradeProcedure`), simulation and queries.
- Encoding, build tags, fixtures of the tests, `setup.go`, deployment: no state.
- State sync and snapshots, pruning, cosmovisor.
- A failed forward whose tokens stay counted in the rate limit's window (`app.go` 602) is part of `TransferStack`, but
  nothing in the repository says what the quota should be then, so no property does.

## Plan

In this order; what is done is described above.

1. `Upgrade` with its invariant, the start of a node and the proofs. Done.
2. `Distribution`, `GenesisExport` and the proofs of `AccountBacked`, `ReferencesExact`, `ZeroHeightGenesis` and `FailsOnlyWhen`. Done.
3. `TransferStack`, with proofs of all its safety properties. Done.
4. `MsgFilter` and `TxPipeline`, with proofs of all their properties. Done.
5. `ChainUpgrade`, `UpgradeRefinement` and the proof of the refinement. Done.
6. `UpgradeProcedure`, composed with `Upgrade`, with proofs of its safety properties. Done.
7. Solvency of the distribution module, with proofs of `RewardsCovered`, `TypeOK` and `LaterDelegationsPaid`. Done.
8. State sync and restart from a snapshot.
