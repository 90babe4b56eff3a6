# A verification project for ln-node

ln-node is a Lightning node built on LDK (rust-lightning), with bitcoind as its
chain source and BDK as its on-chain wallet. LDK implements the protocol; the
code of this repository decides in which order LDK, the wallet, the payment
store and bitcoind are told about what, and what is on disk when the process
dies. That is what these modules model.

## 1. Inventory

The process `lnnode` runs these tasks on one tokio runtime:

| task | code | what it does |
|---|---|---|
| main | `bin/lnnode.rs` | builds the node, binds the socket, spawns the next two, waits for ctrl_c, then for the node task |
| node | `Node::start` | synchronizes LDK with the chain, spawns the tasks below, waits for the shutdown token, stops the background task, saves the peers |
| server | `UnixSocketServer::start_server` | one request at a time; every malformed request, failed write and failed `receive` panics the task |
| background | `process_events_async_with_kv_store_sync` | calls `LdkEventHandler::handle_event` for LDK's events and persists ChannelManager, graph and scorer |
| chain | closure in `Node::start` | brings the wallet to the tip, then polls bitcoind every 5 s through LDK's `SpvClient` |
| fees | `update_fee_estimates` | asks bitcoind for 8 fee rates, every 5 minutes |
| peers | closures in `Node::start` | reconnects to the stored peers, accepts connections |

Components, their state, and what makes them correct:

* **NodeStore** (`storage.rs`): one file per payment and per peer. Writes replace
  the whole file and compare nothing; the lock covers one file operation. Every
  read-modify-write of a caller is two steps.
* **Outbound payments** (`server.rs` send_payment, `Node::pay_bolt11_invoice`,
  PaymentSent and PaymentFailed in `event_handler.rs`): the record of a payment is
  created by the server task after LDK took the payment, and updated by the
  background task when LDK reports the outcome. Correct if the record never
  claims a success that was not one, shows the outcome once all is at rest,
  keeps a proof of payment, and does not stay Pending. Hard: the two tasks race,
  events are replayed after a crash, the same invoice can be paid again, each
  file operation can fail after the money has moved.
* **Inbound payments** (receive, `Node::create_bolt11_invoice`, PaymentClaimable
  and PaymentClaimed): the record is stored before the client gets the invoice;
  the claim does not look at the store. Correct if all money taken belongs to an
  invoice with a record and no HTLC is left hanging.
* **Chain synchronization** (`Node::start`, `ChainListener`): ChannelManager,
  ChainMonitor, wallet and SpvClient each have a tip. Correct if they agree when
  at rest, blocks are given in order and none is left out. Hard: changes of branch
  at every moment, three synchronizers (LDK's at start, the wallet's Emitter, the
  SpvClient) that each see another tip, failed calls half way, restarts from what
  was persisted.
* **Fee estimates** (`BitcoindRpcClient`): a cache that is updated entry by entry
  while others read it. Correct if every rate is usable at any moment.
* **Construction, start and shutdown** (`NodeBuilder::build`, `WalletManager::new`,
  main, the end of `Node::start`): a sequence of file operations, each of which can
  be the last one. Correct if keys and channels survive and a shutdown ends.
* **Channels** (`open_channel`, `close_channel`, FundingGenerationReady,
  OpenChannelRequest, `WalletManager::build_transaction`,
  `broadcast_transactions`): LDK asks for a funding transaction with an event, and
  has it broadcast later. The wallet knows only what it saw in blocks. Correct if
  no money goes to a channel LDK gave up, a funding transaction is not lost
  without a reason, and a rejected channel stays closed. Hard: channels are
  dropped while their event waits, coins are selected twice, broadcast errors are
  only logged, the rejecting branch falls through to the accepting call.
* **Wallet addresses** (`WalletManager`: next_address, the scripts it gives to LDK,
  change): indices of two keychains, none of them ever saved. Correct if a wallet
  that starts over finds what was paid to addresses of earlier runs.
* **The wallet's mutex**: shared by the server, the event handler, LDK's calls of
  the signer and the chain task, which holds it over the whole first
  synchronization. Correct if nobody waits in a circle, everybody gets it in the
  end, and it is poisoned only where the chain task panics. Hard: LDK calls the
  signer, the fee cache and `broadcast_transactions` with its own locks held, and the
  last of them blocks on an RPC call.
* **UnixSocketServer and lncli**: one connection at a time; every parse error and
  failed write is unwrapped. Correct if a client ends, a failed command was not
  carried out, and the server dies only of named causes. Hard: a client that is
  killed, an error after LDK has done its part, locks that other tasks poisoned.
* **Peers** (`connect`, list_peers, add_peer, the listener): stored at an orderly
  shutdown, reconnected at the next start. Correct if nobody connected is
  forgotten and nobody whose stored address can be used is skipped.
* **Block source, key and signing traits**: forward to bitcoind or to LDK's
  KeysManager and keep no state.
* **Config, Logger**: plain data and output.

The repository has no tests. What it says about itself is in comments and log
messages; two of those are refuted by a run.

## 2. Modules

| module | models | state |
|---|---|---|
| `NodeStore` | payments in `storage.rs` | none: operators over a function from payment ids to records |
| `PaymentTasks` | what sending and receiving share | the store, the server task, how often the process died |
| `OutboundPayments` | server task, background task and LDK for a payment we send | per hash the attempts LDK accepted, their results, how many events are handled; what the ChannelManager on disk knows of it; the handler's program counter |
| `InboundPayments` | the same for a payment we receive | invoices made and given out; LDK's state of each HTLC |
| `ChainSync` | `Node::start`, the chain task, `ChainListener` | bitcoind's chain; the tip of each follower; the blocks the monitor was given; what is on disk |
| `FeeEstimates` | the fee cache and its task | cache, bitcoind's estimates, position in the round |
| `NodeLifecycle` | main, build, start and shutdown over several runs | the files; the program counters of main, the node task and the background task |
| `PaymentLedger` | the abstract specification: what get_payment may show | per hash a status, whether it was paid, and how often it was tried |
| `OutboundLedger` | the refinement mapping from OutboundPayments to PaymentLedger | |
| `ChannelFunding` | channels from the request to the block with their funding | LDK's state of each channel and its events; the coins, transactions, mempool; the wallet's view of the coins; the event handler |
| `WalletAddresses` | one keychain of the wallet over several runs | the indices blocks pay; what the wallet has seen, revealed and takes for used |
| `WalletLock` | the tasks that share the wallet's mutex | the rest of each task's operation; owners; poisoned locks; the worker threads, and those that gave their worker away |
| `Server` | lncli processes and start_server | where each process is; backlog, requests, answers; the server task; locks others poisoned; main |
| `Peers` | peers over several runs | the records; the connections; the node task, the reconnecting task, the listener |
| `PaymentsProofs`, `ChainSyncProofs`, `ChannelFundingProofs`, `WalletAddressesProofs`, `WalletLockProofs`, `ServerProofs`, `NodeLifecycleProofs`, `SpawnedTasksProofs` | the theorems of section 5 | |

`OutboundPayments` and `InboundPayments` extend `PaymentTasks`, which extends
`NodeStore`; `OutboundLedger` puts `OutboundPayments` under `PaymentLedger`; the
others stand alone. `PaymentsProofs` extends both payment modules and
`SpawnedTasksProofs` both `FeeEstimates` and `Peers`, whose specifications therefore
have names of their own (`InboundSpec`, `PeersSpec`). Where components
meet, one module has both: `Server` the clients and the server task, `WalletLock`
the five tasks around one mutex, `ChannelFunding` LDK, wallet and bitcoind.
Each action is one step between two points at which another task can run: a file
operation, an RPC call, a return to the runtime. `PROJECT.json` maps every
definition to its lines.

### What is abstracted

* A payment is its direction, its status and whether the preimage is there. The
  amount, the hash and the fee are written with the rest and decide nothing. The
  TLV encoding marks every field as required and encodes options with a length, so
  it reads back what was written; it is the identity on what the model keeps.
* A block is the chain that ends in it, a sequence of choices; work is length.
* There is one channel and one monitor: monitors are treated alike and do not
  interact.
* LDK, BDK and bitcoind are external and modelled from how the code uses them:
  LDK refuses a payment id it knows and forgets a failed one at once and a sent
  one later; it drops an event when `handle_event` returns `Ok` and the
  ChannelManager was persisted afterwards; it hands out an event again otherwise.
  `ChannelMonitor::clone` copies. BDK's `apply_block` needs the parent among the
  wallet's checkpoints. `SpvClient::poll_best_tip` reports an error only for the
  tip itself and keeps what it connected before a block failed.
* A panic of the server task is the action `ReceiveFails` of `InboundPayments`.
  `OutboundPayments` needs none: nobody has to send a request, so a dead server
  is an idle one to which no request comes.
* A channel is a state of LDK, a transaction the set of coins it spends; all
  channels have one value and all transactions one fee. Coin selection is any set
  of coins that covers both, so every algorithm of BDK is included.
* An operation in `WalletLock` is the list of locks it takes and gives back; LDK's
  locks are one lock, which can only add waiting. BDK and LDK are assumed not to
  panic on their own. `block_in_place` around `block_on` is tokio's: the thread gives
  its worker to another thread and waits; what it waits for, an answer, a connection
  or a timeout, is delivered by a worker that is not stuck in a task, so
  `BlockReturns` needs a free one. The reconnecting task does what a `connect` request
  does and is not a sixth task. The force close of a rejected request broadcasts
  nothing, because the channel was never funded.
* A peer's record is where it listens ("listening"), where its connection came from
  ("source"), an address that is no IP address ("other"), or not readable. The
  program stores only the first two, since `lightning-net-tokio` knows IP addresses
  only; the others are what `Damage` leaves, a record of another version included.
* A crash is the death of the process. Files that were written stay written;
  a power failure, after which the seed (written without a sync) could be gone while
  the database is not, is another matter.
* A request in `Server` is its command and whether the server can parse it; what
  the command does is in the module of its component. lncli has no get_payment,
  which the server does know; as a read it adds nothing to list_channels. The stream
  is ready when there is something to read: tokio's documentation allows `readable`
  to return without, and `try_read` would then be unwrapped on "would block".
* `ApplyBlock` recognises the payments of a block in the least favourable order.
* The history variables `effects` (Server), `given`, `change`, `reused` and `widest`
  (WalletAddresses; `given` stands for the addresses the world knows, and only
  those are paid), `rejected` (ChannelFunding), `tried` and `atStop` (Peers),
  `lost` (OutboundPayments), `boot` and `reorgs` (ChainSync),
  `claimed` (InboundPayments), `clean` (FeeEstimates) and `lastEnd`
  (NodeLifecycle) are not part of the program; no guard reads them.

## 3. Runs

One passing run per part of the system, with its invariants, action properties
and liveness together, and two runs that show a statement of the code violated.

* **Outbound** (28,000 states; module `OutboundLedger`): one invoice, three
  attempts, two file errors, two crashes. `SuccessIsProven`: no record claims a
  success that did not happen. `OutcomeRecorded`: at rest the record shows the last
  outcome, or the outcome was lost in one of the ways `lost` names.
  `PaidTwiceOnlyAfterPurge`: repeating a request is safe, because the payment id is
  the payment hash. `SuccessLostOnlyByRepay`: a proof of payment is overwritten only
  by paying again. `ImplementsLedger`: what a reader of the store sees is a
  behaviour of `PaymentLedger`. `PendingResolves`: no record stays Pending unless
  its outcome was lost. Two attempts are needed for stale copies and replayed
  events to meet a later attempt, a third to repeat after a repeat; two crashes
  replay an event twice. Payments touch one another only by sharing the two tasks:
  a task that is at another payment is one that is not running yet, and the
  theorems of section 5 are for any number of them.
* **Inbound**: two hashes, one for an invoice and one for a spontaneous payment or
  two invoices, three HTLCs, one failed request, two crashes.
* **Chain** (292,000 states): two competing blocks per height, three heights, two
  changes of branch, one RPC error, one restart. `TipsAgree`, `ChainOrder`;
  `MissedOnlyAtBoot` bounds what a monitor misses; `ApplyNeedsTwoReorgs` is sharp:
  with two changes of branch the panic in `apply_block` is reached. `CatchesUp`.
* **Fee** (192,000 states): `U32Max` is scaled to 12000 (TLC's integers are 32 bits
  wide with a sign); the estimates are zero, one that saturates only by the addition
  of 2500, and one that saturates in the cast; one change of them and one failed call.
  `FeeFloor`, `OrderedWhenClean`, `StopsAfterShutdown`.
* **Lifecycle**: three runs of the process, one failing operation, a crash at any
  step, two seeds so that a second seed would be noticed. `SeedOfWalletKept`,
  `NoAmnesia`: neither keys nor channels are lost; the price, visible in
  `Unbootable`, is that some crashes leave a node that has to be repaired by hand.
  `CleanEndIsBootable`, `ShutdownEnds`.
* **Addresses** (1.75 million states): three runs, three blocks, two transactions
  built, a lookahead of two instead of BDK's 25: a small window is the hard case, and
  two transactions fill it. `RescanFindsDeposits` shows that saving nothing is safe
  for deposits, the behaviours in which no transaction was built.
  `RescanFindsChange` has a condition that deposits do not need: `finish` marks
  change addresses as used before a block shows them. `ReuseOnlyBehind` says when
  privacy is lost: only a wallet that is behind the chain, or has missed change,
  gives a paid address out again.
* **WalletLock** (138,000 states): two workers, four operations. Two workers are
  enough for all of them to be stuck behind one holder, four operations for the three
  lock holders and one more. `HangsOnlyInBroadcast`: the locks make no circle, and
  there is one way to hang. It is reached in this instance: LDK broadcasts a
  transaction with its lock held, in a message of a peer for example, while the
  server and the background task wait for that lock on both workers; nobody is left
  to read bitcoind's answer, nor to run the timeout. With more workers it takes more
  tasks at once (connections of peers are tasks too). The code has the remark "don't
  block, can do it in a task". `OperationsEnd`: everything else ends, however long the
  first synchronization takes. `PanicsContained`: the server dies of its own unwraps,
  but without a lock, so it takes nobody along; a lock is poisoned, and another task
  dies, only after the chain task.
* **Server** (548,000 states): two clients, one killed, one failing operation, the
  wallet's and LDK's locks poisoned at any moment. The server has one client at a
  time, so a second one stands for all those in the backlog. `FailedMeansNotDone`:
  repeating a failed command is safe, with two exceptions: lncli got no answer because
  the node was being stopped, and send_payment, which is refused after LDK took the
  payment if only the record could not be written. `DiesOnlyOf`: a request that does
  not parse, a killed client, an error of receive, or a request that meets a
  poisoned lock (open_channel and close_channel meet the wallet's inside LDK).
  `ClientsEnd`: a silent client is the only thing that holds up the others.
* **Funding** (243,000 states): two outbound channels, an inbound anchor channel and
  another inbound one; two deposits, each of which pays for one channel and leaves
  change, below the reserve alone and above it together; one RPC error. The two
  outbound channels can spend the same coin, or the second the change of the first.
  `NeverPaysDropped`, `LostOnlyByConflict`, `RejectedStaysClosed`.
* **Peers** (1.26 million states): two peers, three runs, one error. The first run
  stores, the second reads and stores over it, the third reads that.
  `EveryPeerTried`: every peer stored with an IP address is tried, whichever others
  do not answer or are passed over. An unreadable record ends the task before it tries
  anybody; the properties except that. `ConnectedPeersSaved`: who is connected from the
  cancelled token until `list_peers` is stored; in between the background task ends,
  and peers come and go. `ReconnectingEnds`.

The type invariants of `OutboundPayments`, `InboundPayments`, `FeeEstimates`,
`NodeLifecycle`, `Server` and `Peers` are theorems (section 5) and are in no run; the
runs check those of the other modules.

Deadlock is not checked where a bounded model comes to its end: in all runs but
those of outbound payments, in which a request can always be rejected.

Violation runs, each of a statement the code makes about itself:

* **OutboundRace** (`SentPaymentIsStored`): "Could not retrieve payment from store
  [...] Something really wrong..." happens without anything wrong: PaymentSent is
  handled before the record is stored. The record then stays Pending.
* **ChainMonitors** (`MonitorsSynced`): "Sync channel manager and channel monitors
  to same chain tip" synchronizes clones of the monitors: a restart, with a block
  mined since the monitor was persisted, leaves the monitor in use where it was. The
  model starts with a channel and its monitor, as build reads them from disk; a first
  start has no monitor to leave behind. `MissedOnlyAtBoot` and
  `TipsAgree` bound the damage: exactly the blocks between the persisted monitor
  and the tip at start are missed.

Four more places where the code does other than it says are modelled as the code
has them and have no run of their own. The server answers "Could not make payment"
for a payment LDK is making when only the record could not be stored
(`AddPaymentFails`, and the second exception of `FailedMeansNotDone`). ChainListener's comment has the wallet told of disconnected
blocks, and `blocks_disconnected` does not tell it. The reserve of "10000 sats per
channel" is one of 10000 sats for all channels (`OpenChannelRequest`). A peer that
had connected to the node is stored with the source address of that connection, at
which nobody answers in the next run (`SavePeer`, `Reconnect`).

## 4. Fairness

Weak fairness, and only of steps the runtime or a library is bound to take: a
spawned task that can run is run (AddPayment, the handler's steps, the fetches,
the chain task, the shutdown steps); LDK ends every attempt, since its retries are
bounded by `Retry::Timeout` and an HTLC by its expiry; LDK completes a claim. No
fairness for requests, crashes, restarts, persisting, mining, ctrl_c or errors: a
failing call is allowed to happen only as often as its bound says, and nothing
waits for it. All of this is for tasks that live: the liveness properties of the
payments assume that the background task has not died of a poisoned mutex, which
`WalletLock` shows it can.

`WalletLock` assumes that the runtime queues its tasks fairly, a worker thread runs, and a
free worker delivers what has arrived from the network; std's mutex is not fair, and weak fairness of `Acquire` is enough because the
bounded operations do not contend for ever. `Server` assumes that lncli runs to its
end and a call of the node returns, and not that a client writes its request:
that is the exception in `ClientsEnd`. `Peers` assumes that `connect` returns, since
LDK closes a connection that makes no progress.

## 5. Proofs

Each theorem holds for every value of the constants that satisfies the module's
assumptions. Those say that the bounds are naturals, that an idle marker is not a
hash and the marks of a missing or torn file are not seeds; for the fees that u32
reaches 10000; for the wallet that there is a first run and BDK watches at least
one script ahead; for channels that there are finitely many of them and of the
deposits, and that a channel and its fee cost something.

Every invariant and every action property that a run checks is a theorem.

`PaymentsProofs`: `TypeCorrect`, `NoFalseSuccess` (`SuccessIsProven`),
`OutcomeIsRecorded` (`OutcomeRecorded`), `SuccessIsKept`
(`SuccessLostOnlyByRepay`) and `RepeatIsSafe` (`PaidTwiceOnlyAfterPurge`), all from `Invariance`: `Spec => []IndInv`.
`SuccessIsProven` is not inductive: the handler writes back a copy it read
earlier, so the copy must be proven too (`CopyIsProven`), which needs that the
handler is at an event that exists (`HandlerHasEvent`); the result it writes is
that of an attempt which is over (`HandledIsResolved`), also after a restart from
what is on disk, which must not be ahead of memory (`SavedIsPast`).
`OutcomeRecorded` further needs that an outcome handled while the server has yet
to store the Pending record counts as lost (`WindowIsLost`). There is one lemma
per action, with a step per part of the invariant the action can disturb.
`RepeatIsSafe` adds that LDK drops its entry only for an event that was handled
and persisted (`PurgedIsSaved`), which a crash does not take back.

`LedgerImplemented`: `Spec => ImplementsLedger`, the refinement. `Init` maps to
the ledger's `Init`; `LedgerStep` takes each action to a step of the ledger or to a
stutter. Storing the record is `Open`, the handler's update is `Succeed` or `Fail`,
an accepted attempt is `Try`, a settled one `Pay`, and a crash, which takes LDK
back to what is on disk, is `Forget`. Beside `IndInv` it needs that a record the handler holds
a copy of does not go away (`RecordStaysThere`), and that a restart forgets no
payment that was made, since the monitors know it (`CrashKeepsPaid`).

In the same module, for `InboundPayments`: `InboundTypes` (`InboundTypeOK`), `ClaimsHaveRecords` (`ClaimedHasRecord`) and
`ClaimsHaveInvoices` (`OnlyInvoicesClaimed`). The invariant adds the order the
code relies on: a record exists before the invoice is written to the client
(`RecordFirst`), and an HTLC treated as an invoice's pays one that was given out
(`PaidIsInvoice`).

`SpawnedTasksProofs`: for `FeeEstimates`, `FeeTypes` (`TypeOK`), `FloorHolds` (`FeeFloor`) and
`RatesOrdered` (`OrderedWhenClean`). The first two are inductive together; the work
is in `RateBounds`, on the cast, the floor and the saturating addition, and in
`TargetsListed` and `FallbackFees`. The order needs to know of each entry from
which round it is (`RoundInv`), and that cast, floor and addition keep the order
of bitcoind's answers (`RateMonotone`). For `Peers`, `PeersTypes`, `NobodySkipped`
(`EveryPeerTried`) and `NobodyForgotten` (`ConnectedPeersSaved`): while the task
connects, every peer stored with an IP address was tried or is left (`TriedOrLeft`);
until the peers are listed those in question are still connected, and while they are
written, each is saved or to be saved (`SavedOrToSave`).

`NodeLifecycleProofs`: `LifecycleTypes`, `KeysAreKept` (`SeedOfWalletKept`),
`ChannelsAreKept` (`NoAmnesia`) and `NextRunStarts` (`CleanEndIsBootable`). `SeedPhase` says where WalletManager::new may be
when there is a database; it also shows that the descriptor check of load_wallet
never fails on files this program wrote. `StorePhase` says that "store" is empty
until it exists and is left alone until the node task runs. `BootPhase` says that
the node task is done only after the manager was written, or failed to be.

`ChainSyncProofs`: `ChainTypes` (`TypeOK`), `TipsAlwaysAgree` (`TipsAgree`),
`NothingMissedLater` (`MissedOnlyAtBoot`), `OneReorgIsSafe` (`ApplyNeedsTwoReorgs`)
and `BlocksInOrder` (`ChainOrder`), from `ChainInvariance`. Chains are sequences, and
the first part of the module is about prefixes: they are an order (`PrefixOrder`,
`PrefixTrans`), the block where two branches part exists and is common to both
(`ForkIsCommon`), the next block towards a tip extends what one has
(`BlockAfterIsNext`) and adds no other prefix (`PrefixOfNext`). The invariant adds
that nobody is ahead of bitcoind, whose chain never gets shorter (`Heights`), and
where the tips of LDK are between start and the first block (`Tips`).
`ApplyNeedsTwoReorgs` is far from inductive, since the wallet is told of no
disconnected block.
`WalletFollows` says what it is sure to have: all that the SpvClient has while
bitcoind has not changed branch, and after one change still every chain that the
SpvClient's branch and bitcoind's share, which is where `blocks_disconnected` takes
the ChannelManager. A second change can go back below that, and the run shows that
it does. TLC checked `ChainInv` on the instance of the run before it was proved.

`WalletAddressesProofs`: `WalletTypes` (`TypeOK`), `RescanFindsDepositsHolds`,
`RescanFindsChangeHolds` and `ReuseOnlyBehindHolds`, from `WalletInvariance`. An
index is given out only when the wallet takes every smaller one for used, because a
block it saw paid it or because a transaction has its change there
(`UsedExplained`); so the smaller ones that no block pays are change
(`GivenWindow`), and there are at most `widest` of them (`WidestBound`). By counting,
a block that pays an index leaves fewer than Lookahead smaller ones unpaid by the
blocks before it (`PaidWindow`). This is a fact about the chain alone: a later run
that has found all that those blocks pay (`SeenAll`) has the index in its window,
whatever it has forgotten. Deposits are the case without change, where `widest` is 0.

`WalletLockProofs`: `LockTypes` (`TypeOK`), `NoOtherHang` (`HangsOnlyInBroadcast`) and
`ServerDiesAlone` (`PanicsContained`), from `LockInvariance`. A step of an
operation obeys the discipline of the code (`MayStep`): locks are taken in the order
ldk, wallet, fees and given back only by their holder; none is held over an await, and
none but ldk over block_in_place; a call that can fail is unwrapped by the chain task,
or by the server without a lock. A `Segment` is a list of steps that
obeys it, with the locks held before and after; segments are closed under
concatenation and nesting, so that each operation is one (`Good`) because its parts
are. The invariant says that the rest of every task's operation is a segment from
the locks it owns to none (`Disciplined`) and that who owns a lock has a thread
(`HoldersRun`). The owner of the highest lock that is taken then waits for no lock:
it can go on, or it is in block_in_place with ldk and no worker is free, and then
every worker waits for ldk. An operation that took `wallet` before `ldk` would not be a
segment, and the proof would stop there.

`ChannelFundingProofs`: `MoneyGoesToChannels` (`NeverPaysDropped`),
`LossesExplained` (`LostOnlyByConflict`), `RejectionHolds` (`RejectedStaysClosed`)
and `FundingTypes` (`TypeOK`), over `ChannelInv`, `CoinInv` and `RequestInv`. `CoinInv`
says that every coin the wallet or a transaction knows is still on the chain or was
spent by the transaction of a confirmed channel, and that a transaction LDK took
pays for its channel; bitcoind then refuses it only for a conflict. The types need
the value of the change, a sum over a set that the library defines by recursion. The
sum exists (`SumsExist`: sums over sets of n coins give those over n + 1) and is a
number (`SatsType`).

The library's induction theorems cannot be used, so inductions over numbers, like
these, are by the smallest counterexample: a set of naturals has a smallest element
(`SmallestExists`, from `WFMin`), and the step before it gives the contradiction. In
`ChainSyncProofs` the same theorem gives the longest common prefix
(`LargestExists`).

`ServerProofs`: `ServerTypes`, `RetryIsSafe` (`FailedMeansNotDone`) and
`DeathsExplained` (`DiesOnlyOf`). A client whose request had an effect is still
being served, or its whole answer is written, or for send_payment the text of an
error (`Served`, `Answered`), which needs that a client is in one place (`Places`) and
is served once (`Once`).

Only model-checked: the liveness properties `PendingResolves`, `HtlcResolved`,
`CatchesUp`, `StopsAfterShutdown`, `ShutdownEnds`, `OperationsEnd`, `ClientsEnd` and
`ReconnectingEnds`, because fairness and ENABLED are outside the prover's reach; and
the two violations, which are facts about one behaviour each.

## 6. Not modelled

Router, scorer, gossip, onion messages: constructed once and passed to LDK.
`list_payments`, `list_payments_by_status`, `remove_payment`, `remove_peer`: no
caller. Key derivation, `sign_psbt` and the signing traits: cryptography, forwarded
to LDK and BDK. JSON answers, Config, Logger: presentation and data. Event variants
with an empty body, of which SpendableOutputs is in `ChannelFunding` as the coin
that does not come.

Left out of modules that have the part: in `ChannelFunding` changes of branch (the
wallet keeps the coins of abandoned blocks, a further cause of a refused funding
transaction), LDK closing a channel whose funding is not mined yet, and a peer that
repeats a temporary id between the rejection and the acceptance; in
`InboundPayments` an outbound payment with the hash of an own invoice, which shares
the key in the store (LDK finds no route to the node itself), and the branch of
PaymentClaimable that ignores an HTLC without a preimage, which LDK knows for every
invoice of this node.

## 7. What is left

1. Abstract specifications beside `PaymentLedger`: what a client of the server, or
   the ChannelManager as a follower of a chain, may see, and that `Server` and
   `ChainSync` implement them.
2. The safety part of the liveness arguments: that a step which must be taken is
   enabled where the property needs it, as an invariant.
3. Five hazards without a property, with the reason beside each in `PROJECT.json`.
