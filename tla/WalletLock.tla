----------------------------- MODULE WalletLock -----------------------------
(***************************************************************************)
(* The tasks that share the mutex of the bdk wallet.  Each operation of a  *)
(* task is the list of the locks it takes and gives back, in the order of  *)
(* the code; "fail" is a call whose error is unwrapped.  The locks are     *)
(* std::sync::Mutex: who waits for one blocks a worker thread of the       *)
(* runtime, and a panic while one is held poisons it, so that every later  *)
(* lock().unwrap() of it panics too.                                       *)
(*                                                                         *)
(* LDK's own locks are one lock, "ldk": LDK calls get_destination_script   *)
(* and get_shutdown_scriptpubkey of the WalletManager, the fee estimator   *)
(* and broadcast_transactions while it holds it, and holds none while      *)
(* handle_event runs.                                                      *)
(*                                                                         *)
(* "block" is tokio's block_in_place around block_on: the task gives its   *)
(* worker away and waits on a thread of its own for bitcoind or a peer.    *)
(* What it waits for is read from the network by the workers, and only by  *)
(* one that is not itself stuck in a task.                                 *)
(***************************************************************************)
EXTENDS Naturals, Sequences, FiniteSets

CONSTANTS Workers,   \* worker threads of the runtime
          MaxOps     \* bound: operations of all tasks

ASSUME WorkersAssumption == Workers \in Nat \ {0} /\ MaxOps \in Nat

Tasks == {"server", "background", "chain", "peer", "fees"}
Locks == {"wallet", "ldk", "fees"}
NoTask == "nobody"

Lock(l)   == <<"lock", l>>
Unlock(l) == <<"unlock", l>>
Fail      == <<"fail">>
Await     == <<"await">>
Block     == <<"block">>

With(l, body) == <<Lock(l)>> \o body \o <<Unlock(l)>>

-----------------------------------------------------------------------------
(* The server's operations.                                                *)

\* A request is read and parsed, carried out and answered; what goes wrong
\* with reading, parsing or writing is unwrapped.
Request(body) == <<Fail>> \o body \o <<Await, Fail>>

\* Mutant: the guard is never dropped.
next_address_leaked == <<Lock("wallet")>>

next_address == With("wallet", <<>>)

\* Mutant: the wallet is asked for something that can fail, and unwrapped.
balance_unwraps == With("wallet", <<Fail>>) \o With("ldk", <<>>)

\* The guard is a temporary of the first statement.
balance == With("wallet", <<>>) \o With("ldk", <<>>)

\* list_channels, and the payments and invoices.
list_channels == With("ldk", <<>>)

\* create_channel reads the fees and asks the signer for its scripts under
\* LDK's lock.
open_channel == With("ldk", With("fees", <<>>) \o With("wallet", <<>>))

close_channel == With("ldk", <<>>) \o With("ldk", With("wallet", <<>>))

\* connect waits for the connection and looks for the peer in list_peers.
connect == <<Block>> \o With("ldk", <<>>)

-----------------------------------------------------------------------------
(* The operations of the other tasks.                                      *)

\* broadcast_transactions, with or without a transaction to broadcast: each
\* is sent with a blocking RPC call, whose error is logged.
broadcast_transactions == {<<>>, <<Block>>}

\* The fee rate is read while the wallet is locked.
build_transaction == With("wallet", With("fees", <<>>))

FundingGenerationReady == build_transaction \o With("ldk", <<>>)

\* Mutant: the guard lives as long as the balance that is compared.
OpenChannelGuarded ==
  With("wallet", With("ldk", <<>>)) \o With("ldk", With("wallet", <<>>))

\* The balance, perhaps force_close (nothing to broadcast: the channel was
\* never funded), then accept_inbound_channel.
OpenChannelRequest ==
  With("wallet", <<>>) \o With("ldk", <<>>) \o With("ldk", With("wallet", <<>>))

\* BumpTransactionEventHandler: coins, change script and signature in turn,
\* then the broadcast, without a lock.
BumpTransaction ==
  With("wallet", <<>>) \o With("wallet", <<>>) \o With("wallet", <<>>)
    \o <<Block>>

\* The background processor has ChainMonitor broadcast its claims again.
RebroadcastClaims(b) == With("ldk", b)

\* Mutant: the blocks are fetched with an asynchronous client.
InitialSyncAsync == With("wallet", <<Await, Fail>>)

\* The blocks are fetched with a blocking client while the wallet is locked;
\* next_block and apply_block_connected_to are unwrapped.
InitialSync == With("wallet", <<Fail>>)

\* poll_best_tip().await.unwrap(), and in it filtered_block_connected of
\* ChainListener: LDK may answer a block with transactions of its own.
filtered_block_connected(b) ==
  <<Await, Fail>> \o With("ldk", With("fees", <<>>) \o b)
    \o With("wallet", <<Fail>>)

\* A message of a peer, in the connection's own task: one that makes LDK ask
\* the signer for a script, as shutdown does.
PeerMessage == With("ldk", With("wallet", <<>>))

\* And the one on which LDK broadcasts the funding transaction.
funding_signed == With("ldk", <<Block>>)

\* The fees are written when bitcoind's answer is there.
update_fee_estimates == <<Await>> \o With("fees", <<>>)

-----------------------------------------------------------------------------
VARIABLES
  todo,      \* todo[t]: what is left of the operation of task t
  running,   \* tasks on a worker thread
  detached,  \* tasks on a thread that gave its worker away
  owner,     \* owner[l]: the task that holds l
  poisoned,  \* locks a task panicked with
  dead,      \* tasks that panicked
  synced,    \* the chain task has begun the first synchronization
  started    \* operations begun

\* The chain task synchronizes once and then follows the chain.
Operations(t) ==
  [server     |-> {Request(op) : op \in {next_address, balance, list_channels,
                                         open_channel, close_channel, connect}},
   background |-> {FundingGenerationReady, OpenChannelRequest, BumpTransaction}
                    \cup {RebroadcastClaims(b) : b \in broadcast_transactions},
   chain      |-> IF ~synced THEN {InitialSync}
                  ELSE {filtered_block_connected(b) :
                          b \in broadcast_transactions},
   peer       |-> {PeerMessage, funding_signed},
   fees       |-> {update_fee_estimates}][t]

vars == <<todo, running, detached, owner, poisoned, dead, synced, started>>

Init ==
  /\ todo = [t \in Tasks |-> <<>>]
  /\ running = {} /\ detached = {}
  /\ owner = [l \in Locks |-> NoTask]
  /\ poisoned = {} /\ dead = {}
  /\ synced = FALSE /\ started = 0

OnThread(t) == t \in running \cup detached

Step(t, kind) == OnThread(t) /\ todo[t] # <<>> /\ Head(todo[t])[1] = kind

\* The lock that t asks for.
Wanted(t) == Head(todo[t])[2]

FreeWorker == Cardinality(running) < Workers

\* A request, an event, a block, a message or a timer; the task needs a
\* worker thread to begin with it.
Begin(t) ==
  /\ t \notin dead /\ todo[t] = <<>>
  /\ started < MaxOps
  /\ \E op \in Operations(t) : todo' = [todo EXCEPT ![t] = op]
  /\ synced' = (synced \/ t = "chain")
  /\ started' = started + 1
  /\ UNCHANGED <<running, detached, owner, poisoned, dead>>

\* A worker thread takes up a task that can go on.
Schedule(t) ==
  /\ todo[t] # <<>> /\ ~OnThread(t)
  /\ FreeWorker
  /\ running' = running \cup {t}
  /\ UNCHANGED <<todo, detached, owner, poisoned, dead, synced, started>>

LeavesThread(t) == running' = running \ {t} /\ detached' = detached \ {t}

Panic(t) ==
  /\ dead' = dead \cup {t}
  /\ poisoned' = poisoned \cup {l \in Locks : owner[l] = t}
  /\ owner' = [l \in Locks |-> IF owner[l] = t THEN NoTask ELSE owner[l]]
  /\ todo' = [todo EXCEPT ![t] = <<>>]
  /\ LeavesThread(t)
  /\ UNCHANGED <<synced, started>>

Advance(t) ==
  /\ todo' = [todo EXCEPT ![t] = Tail(@)]
  /\ IF Tail(todo[t]) = <<>> \/ Head(todo[t]) = Await
     THEN LeavesThread(t) ELSE UNCHANGED <<running, detached>>

\* lock().unwrap(): waits while the lock is held, without leaving the thread.
Acquire(t) ==
  /\ Step(t, "lock")
  /\ owner[Wanted(t)] = NoTask
  /\ \/ /\ Wanted(t) \notin poisoned
        /\ owner' = [owner EXCEPT ![Wanted(t)] = t]
        /\ Advance(t)
        /\ UNCHANGED <<poisoned, dead, synced, started>>
     \/ Wanted(t) \in poisoned /\ Panic(t)

Release(t) ==
  /\ Step(t, "unlock")
  /\ owner' = [owner EXCEPT ![Wanted(t)] = NoTask]
  /\ Advance(t)
  /\ UNCHANGED <<poisoned, dead, synced, started>>

\* An unwrapped call, and an await: the task leaves its thread.
Call(t) ==
  /\ \/ Step(t, "fail") /\ Panic(t)
     \/ /\ Step(t, "fail") \/ Step(t, "await")
        /\ Advance(t)
        /\ UNCHANGED <<owner, poisoned, dead, synced, started>>

\* block_in_place: another thread takes over the worker.
BlockInPlace(t) ==
  /\ Step(t, "block") /\ t \in running
  /\ running' = running \ {t} /\ detached' = detached \cup {t}
  /\ UNCHANGED <<todo, owner, poisoned, dead, synced, started>>

\* block_on returns: a worker read the answer, or the timeout, which is the
\* runtime's as well.  The thread goes on without a worker, or with the one
\* it gave away if nobody took it over yet.
BlockReturns(t) ==
  /\ Step(t, "block") /\ t \in detached
  /\ FreeWorker
  /\ \/ Advance(t)
     \/ /\ Tail(todo[t]) # <<>>
        /\ todo' = [todo EXCEPT ![t] = Tail(@)]
        /\ running' = running \cup {t} /\ detached' = detached \ {t}
  /\ UNCHANGED <<owner, poisoned, dead, synced, started>>

Next ==
  \E t \in Tasks :
    \/ Begin(t) \/ Schedule(t) \/ Acquire(t) \/ Release(t) \/ Call(t)
    \/ BlockInPlace(t) \/ BlockReturns(t)

Spec == Init /\ [][Next]_vars

\* The threads run, the runtime queues its tasks fairly, and a worker that
\* is free reads what has arrived.  The tasks do MaxOps operations, so no
\* lock is contended for ever.
Fairness ==
  \A t \in Tasks : /\ WF_vars(Schedule(t))
                   /\ WF_vars(\/ Acquire(t) \/ Release(t) \/ Call(t)
                              \/ BlockInPlace(t) \/ BlockReturns(t))

FairSpec == Spec /\ Fairness

-----------------------------------------------------------------------------
(* Properties.                                                             *)

\* Every variable has its type; a task has one thread at most, and one that
\* holds a lock is in the middle of an operation.
TypeOK ==
  /\ running \subseteq Tasks /\ Cardinality(running) <= Workers
  /\ detached \subseteq Tasks \ running
  /\ owner \in [Locks -> Tasks \cup {NoTask}]
  /\ poisoned \subseteq Locks /\ dead \subseteq Tasks
  /\ synced \in BOOLEAN /\ started \in 0..MaxOps
  /\ \A l \in Locks : owner[l] # NoTask => todo[owner[l]] # <<>>

Blocked(t) == Step(t, "lock") /\ owner[Wanted(t)] # NoTask

\* What t does next is possible now.
CanGoOn(t) ==
  \/ ~OnThread(t) /\ FreeWorker
  \/ OnThread(t) /\ ~Blocked(t) /\ ~Step(t, "block")
  \/ Step(t, "block") /\ (t \in running \/ FreeWorker)

\* Something is to be done, and nobody can go on.
Hung ==
  /\ \E t \in Tasks : todo[t] # <<>>
  /\ \A t \in Tasks : todo[t] # <<>> => ~CanGoOn(t)

\* Each worker runs a task that waits for LDK's lock, and its owner waits in
\* broadcast_transactions for an answer that no worker is left to read.
Starved ==
  /\ Cardinality(running) = Workers
  /\ \A t \in running : Blocked(t) /\ Wanted(t) = "ldk"
  /\ owner["ldk"] \in detached /\ Step(owner["ldk"], "block")

\* The locks never make the tasks wait for each other in a circle: there is
\* one way for the node to hang.  It takes every worker, and LDK calling
\* broadcast_transactions under its lock.
HangsOnlyInBroadcast == Hung => Starved

\* However long the first synchronization keeps the wallet locked, every
\* request, event and message that began comes to its end, or its task died,
\* or the node hangs in broadcast_transactions.
OperationsEnd ==
  \A t \in Tasks : todo[t] # <<>> ~> (todo[t] = <<>> \/ Starved)

\* The server task dies of bad requests and of clients that are gone, but
\* alone: it panics without a lock.  A lock is poisoned, and a task other
\* than the server dies, only once the chain task has died.
PanicsContained ==
  poisoned # {} \/ dead \ {"server"} # {} => "chain" \in dead

=============================================================================
