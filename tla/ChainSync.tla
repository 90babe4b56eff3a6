----------------------------- MODULE ChainSync -----------------------------
(***************************************************************************)
(* How the node follows bitcoind's chain.  Node::start first brings the    *)
(* ChannelManager to the best tip (init::synchronize_listeners), then the  *)
(* chain task brings the BDK wallet to the best tip with an Emitter of its *)
(* own, and from then on polls bitcoind through LDK's SpvClient, which     *)
(* tells ChainListener of blocks to disconnect and to connect.             *)
(*                                                                         *)
(* A block is identified with the chain that ends in it, and a chain is    *)
(* the sequence of choices made at each height: <<>> is the block at which *)
(* the model starts, and two chains that differ at a height are competing  *)
(* branches.  Work is length.                                              *)
(*                                                                         *)
(* One channel is open, so there is one ChannelMonitor.  Only the Listen   *)
(* calls of ChannelManager, ChainMonitor and wallet are modelled, by the   *)
(* block they take for the best one and, for the monitor, by the blocks    *)
(* whose transactions it was given: a transaction in a block it never saw  *)
(* is one it cannot react to.                                              *)
(***************************************************************************)
EXTENDS Naturals, SequencesExt

CONSTANTS Forks,         \* the competing blocks that may extend one block
          MaxHeight,     \* bound: length of the chain
          MaxReorgs,     \* bound: times bitcoind changes branch
          MaxRpcErrors,  \* bound: RPC calls to bitcoind that fail
          MaxRestarts    \* bound: times the process is stopped and started

ASSUME ChainBounds ==
  /\ MaxHeight \in Nat
  /\ MaxReorgs \in Nat
  /\ MaxRpcErrors \in Nat
  /\ MaxRestarts \in Nat

VARIABLES
  best,      \* bitcoind's active chain
  cm,        \* ChannelManager's best block
  mon,       \* the best block of the monitor inside chain_monitor
  seen,      \* the blocks whose transactions that monitor was given
  wallet,    \* the chain of checkpoints in bdk_wallet
  spv,       \* SpvClient.chain_tip
  target,    \* the tip poll_best_tip is synchronizing to
  pc,        \* where Node::start and the chain task it spawns are
  saved,     \* what a restart reads: ChannelManager and monitor on disk
  boot,      \* history: the chain_tip of this run of the process
  reorgs,    \* history: changes of branch since boot was determined
  allReorgs, rpcErrors, restarts

vars == <<best, cm, mon, seen, wallet, spv, target, pc, saved, boot, reorgs,
          allReorgs, rpcErrors, restarts>>
bounds == <<allReorgs, rpcErrors, restarts>>

Chains == BoundedSeq(Forks, MaxHeight)

\* The panics: start() returned an error, and .unwrap() on the Emitter, on
\* poll_best_tip and on apply_block.  The other tasks of the process go on.
Dead == pc \in {"start_failed", "wallet_panic", "poll_panic", "apply_panic"}

\* A process that was started before, with its channel open: build has read the
\* ChannelManager and the monitor from disk.  A first start has no monitor.
Init ==
  /\ best = <<>> /\ cm = <<>> /\ mon = <<>> /\ wallet = <<>>
  /\ spv = <<>> /\ target = <<>> /\ boot = <<>>
  /\ seen = {}
  /\ pc = "start"
  /\ saved = [cm |-> <<>>, mon |-> <<>>, seen |-> {}]
  /\ reorgs = 0 /\ allReorgs = 0 /\ rpcErrors = 0 /\ restarts = 0

-----------------------------------------------------------------------------
(* bitcoind, external.                                                     *)

MineBlock(b) ==
  /\ Len(best) < MaxHeight
  /\ best' = Append(best, b)
  /\ UNCHANGED <<cm, mon, seen, wallet, spv, target, pc, saved, boot, reorgs,
                 bounds>>

\* A longer branch replaces the tip.
Reorg(chain) ==
  /\ allReorgs < MaxReorgs
  /\ Len(chain) = Len(best) + 1
  /\ ~IsPrefix(best, chain)
  /\ best' = chain
  /\ reorgs' = reorgs + 1
  /\ allReorgs' = allReorgs + 1
  /\ UNCHANGED <<cm, mon, seen, wallet, spv, target, pc, saved, boot,
                 rpcErrors, restarts>>

RpcError(next) ==
  /\ rpcErrors < MaxRpcErrors
  /\ rpcErrors' = rpcErrors + 1
  /\ pc' = next

-----------------------------------------------------------------------------
(* Node::start.                                                            *)

\* init::synchronize_listeners reads the best tip and walks each listener
\* back to the fork and up to that tip.  Nothing else is running yet, so it
\* is one step.  The listeners are the ChannelManager and a clone() of the
\* monitor: the monitor inside chain_monitor stays where it is.
SynchronizeListeners ==
  /\ pc = "start"
  /\ cm' = best
  /\ boot' = best
  /\ spv' = best
  /\ reorgs' = 0
  /\ pc' = "wallet"
  /\ UNCHANGED <<best, mon, seen, wallet, target, saved, bounds>>

\* start() returns Err, and main's .unwrap() ends the node task.
StartFails ==
  /\ pc = "start"
  /\ RpcError("start_failed")
  /\ UNCHANGED <<best, cm, mon, seen, wallet, spv, target, saved, boot, reorgs,
                 allReorgs, restarts>>

-----------------------------------------------------------------------------
(* The chain task, with bdk_wallet locked: the Emitter's loop.             *)

Fork(a, b) == LongestCommonPrefix({a, b})

BlockAfter(chain, tip) == SubSeq(tip, 1, Len(chain) + 1)

\* emitter.next_block finds the last checkpoint that is still in the chain
\* and returns the block after it; apply_block_connected_to adopts it and
\* drops the checkpoints of the old branch.
WalletBlock ==
  /\ pc = "wallet"
  /\ wallet # best
  /\ wallet' = BlockAfter(Fork(wallet, best), best)
  /\ UNCHANGED <<best, cm, mon, seen, spv, target, pc, saved, boot, reorgs,
                 bounds>>

\* Mutant: the chain task goes on to polling without waiting for the wallet.
WalletDoneEarly ==
  /\ pc = "wallet"
  /\ pc' = "poll"
  /\ UNCHANGED <<best, cm, mon, seen, wallet, spv, target, saved, boot, reorgs,
                 bounds>>

\* emitter.next_block returns None: the lock is released, the SpvClient set up.
WalletDone ==
  /\ pc = "wallet"
  /\ wallet = best
  /\ pc' = "poll"
  /\ UNCHANGED <<best, cm, mon, seen, wallet, spv, target, saved, boot, reorgs,
                 bounds>>

WalletRpcFails ==
  /\ pc = "wallet"
  /\ RpcError("wallet_panic")
  /\ UNCHANGED <<best, cm, mon, seen, wallet, spv, target, saved, boot, reorgs,
                 allReorgs, restarts>>

-----------------------------------------------------------------------------
(* The chain task: SpvClient::poll_best_tip (external) and ChainListener.  *)

\* Mutant: only the ChainMonitor is told of the fork.
MonitorDisconnected(fork) ==
  /\ mon' = fork
  /\ seen' = {b \in seen : Len(b) <= Len(fork)}
  /\ UNCHANGED <<cm, wallet>>

\* ChainListener::blocks_disconnected tells the ChannelManager and the
\* ChainMonitor, and not the wallet.
blocks_disconnected(fork) ==
  /\ cm' = fork
  /\ mon' = fork
  /\ seen' = {b \in seen : Len(b) <= Len(fork)}
  /\ UNCHANGED wallet

\* Mutant: a better tip is taken to extend the known one.
PollBetterNoFork ==
  /\ pc = "poll"
  /\ Len(best) > Len(spv)
  /\ target' = best
  /\ pc' = "connecting"
  /\ UNCHANGED <<best, cm, mon, seen, wallet, spv, saved, boot, reorgs, bounds>>

\* The tip has more work than chain_tip.  If chain_tip is not on that branch
\* the listener is told of the fork.
PollBetter ==
  /\ pc = "poll"
  /\ Len(best) > Len(spv)
  /\ target' = best
  /\ IF IsPrefix(spv, best)
     THEN UNCHANGED <<cm, mon, seen, wallet>>
     ELSE blocks_disconnected(Fork(spv, best))
  /\ pc' = "connecting"
  /\ UNCHANGED <<best, spv, saved, boot, reorgs, bounds>>

\* The first call of poll_best_tip, asking for the tip, fails: .unwrap().
PollFails ==
  /\ pc = "poll"
  /\ RpcError("poll_panic")
  /\ UNCHANGED <<best, cm, mon, seen, wallet, spv, target, saved, boot, reorgs,
                 allReorgs, restarts>>

\* A header is missing when the fork is searched: poll_best_tip says nothing
\* of it, and the next poll tries again.
FindForkFails ==
  /\ pc = "poll"
  /\ Len(best) > Len(spv)
  /\ RpcError("poll")
  /\ UNCHANGED <<best, cm, mon, seen, wallet, spv, target, saved, boot, reorgs,
                 allReorgs, restarts>>

\* BDK's apply_block accepts a block whose parent is one of the wallet's
\* checkpoints; a block it has changes nothing, another one replaces what
\* was above the parent.
apply_block(block) ==
  wallet' = IF IsPrefix(block, wallet) THEN wallet ELSE block

\* Mutant: the ChainMonitor is not told of the block.
TellManagerOnly(block) == cm' = block /\ UNCHANGED <<mon, seen>>

\* The first two calls of ChainListener::filtered_block_connected.
TellLdk(block) ==
  /\ cm' = block
  /\ mon' = block
  /\ seen' = seen \cup {block}

\* ChainListener::filtered_block_connected: ChannelManager, ChainMonitor,
\* then the wallet, whose error is unwrapped with the lock held.
ConnectBlock ==
  LET block == BlockAfter(cm, target) IN
  /\ pc = "connecting"
  /\ TellLdk(block)
  /\ IF IsPrefix(cm, wallet)
     THEN /\ apply_block(block)
          /\ pc' = IF block = target THEN "poll" ELSE "connecting"
          /\ spv' = IF block = target THEN target ELSE spv
     ELSE pc' = "apply_panic" /\ UNCHANGED <<wallet, spv>>
  /\ UNCHANGED <<best, target, saved, boot, reorgs, bounds>>

\* Mutant: the SpvClient takes the target for reached although a block failed.
FetchFailsSkips ==
  /\ pc = "connecting"
  /\ RpcError("poll")
  /\ spv' = target
  /\ UNCHANGED <<best, cm, mon, seen, wallet, target, saved, boot, reorgs,
                 allReorgs, restarts>>

\* A block cannot be fetched: poll_best_tip keeps what was connected so far.
FetchFails ==
  /\ pc = "connecting"
  /\ RpcError("poll")
  /\ spv' = cm
  /\ UNCHANGED <<best, cm, mon, seen, wallet, target, saved, boot, reorgs,
                 allReorgs, restarts>>

-----------------------------------------------------------------------------
(* Persistence and restart.                                                *)

\* The background task writes the ChannelManager, ChainMonitor the monitor,
\* each in its own time, and neither before start() has spawned its tasks.
\* The wallet is never persisted.
Persist ==
  /\ pc \notin {"start", "start_failed"}
  /\ \/ saved' = [saved EXCEPT !.cm = cm]
     \/ saved' = [saved EXCEPT !.mon = mon, !.seen = seen]
  /\ UNCHANGED <<best, cm, mon, seen, wallet, spv, target, pc, boot, reorgs,
                 bounds>>

\* NodeBuilder::build reads both back; the wallet starts from its first
\* checkpoint.
Restart ==
  /\ restarts < MaxRestarts
  /\ restarts' = restarts + 1
  /\ cm' = saved.cm
  /\ mon' = saved.mon
  /\ seen' = saved.seen
  /\ wallet' = <<>>
  /\ pc' = "start"
  /\ UNCHANGED <<best, spv, target, saved, boot, reorgs, allReorgs, rpcErrors>>

-----------------------------------------------------------------------------
Next ==
  \/ \E b \in Forks : MineBlock(b)
  \/ \E chain \in Chains : Reorg(chain)
  \/ SynchronizeListeners \/ StartFails
  \/ WalletBlock \/ WalletDone \/ WalletRpcFails
  \/ PollBetter \/ PollFails \/ FindForkFails
  \/ ConnectBlock \/ FetchFails
  \/ Persist \/ Restart

Spec == Init /\ [][Next]_vars

\* The runtime runs start() and the chain task, which polls every 5 seconds.
\* bitcoind need not mine, and nobody need restart the process.
Fairness ==
  /\ WF_vars(SynchronizeListeners)
  /\ WF_vars(WalletBlock \/ WalletDone)
  /\ WF_vars(PollBetter)
  /\ WF_vars(ConnectBlock)

FairSpec == Spec /\ Fairness

-----------------------------------------------------------------------------
(* Properties.                                                             *)

Following == pc \in {"poll", "connecting"}

\* Every variable has its type, and a target is being approached only from
\* one of its own blocks.
TypeOK ==
  /\ {best, cm, mon, wallet, spv, target, boot} \subseteq Chains
  /\ seen \subseteq Chains
  /\ saved \in [cm : Chains, mon : Chains, seen : SUBSET Chains]
  /\ pc \in {"start", "wallet", "poll", "connecting"} \/ Dead
  /\ reorgs \in 0..MaxReorgs /\ allReorgs \in 0..MaxReorgs
  /\ rpcErrors \in 0..MaxRpcErrors /\ restarts \in 0..MaxRestarts
  /\ pc = "connecting" => IsStrictPrefix(cm, target)

\* Between two polls the SpvClient's tip is the ChannelManager's, whichever
\* fetch failed half way, and so is the monitor's from the first block that
\* was connected or disconnected after the start.  (At the tip the node
\* started with it is excepted: that is what MonitorsSynced is about.)
TipsAgree ==
  pc = "poll" => cm = spv /\ (mon = cm \/ cm = boot)

\* While the node follows the chain, a block of the ChannelManager's chain
\* that the monitor was not given is one the node had when it started.
MissedOnlyAtBoot ==
  Following =>
    \A b \in Prefixes(cm) \ {<<>>} : b \in seen \/ IsPrefix(b, boot)

\* apply_block(..).unwrap() in filtered_block_connected can only fail after
\* bitcoind changed branch twice since start(): one change, whenever it
\* falls, and any fetch error or restart are survived although the wallet is
\* never told of disconnected blocks.
ApplyNeedsTwoReorgs ==
  pc = "apply_panic" => reorgs >= 2

\* LDK's contract for Listen: the ChannelManager is given blocks in chain
\* order, one at a time, and is taken back only to a block of its chain.
ChainOrder ==
  [][Following /\ cm' # cm /\ restarts' = restarts
       => \/ IsStrictPrefix(cm', cm)
          \/ IsPrefix(cm, cm') /\ Len(cm') = Len(cm) + 1]_vars

\* Once bitcoind's chain is at rest, ChannelManager and wallet reach its tip
\* and the monitor does unless the tip is the one the node started with - or
\* the chain task died of an RPC error, as one failed poll is enough for, or
\* of apply_block.
CatchesUp ==
  <>[](Dead \/ /\ cm = best
               /\ wallet = best
               /\ mon = best \/ cm = boot)

\* What Node::start says of synchronize_listeners ("Sync channel manager and
\* channel monitors to same chain tip"): after every restart of a node with a
\* channel they are at the same tip before anything else follows the chain.
MonitorsSynced ==
  pc = "wallet" /\ restarts > 0 => mon = cm

=============================================================================
