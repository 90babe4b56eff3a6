--------------------------- MODULE NodeLifecycle ---------------------------
(***************************************************************************)
(* The process lnnode from its start to its end, over many runs: what main *)
(* and NodeBuilder::build find on disk, what they leave there, and what a  *)
(* crash between two of their steps leaves for the next run.               *)
(*                                                                         *)
(* Files: the seed and the wallet database (WalletManager::new), the       *)
(* directory "store" with the file "manager" and the channel monitors      *)
(* (FilesystemStore, written by LDK's background task), the peers and the  *)
(* server's socket.  A file of FilesystemStore is written whole, but its   *)
(* directory is created first; the seed is written in place, and a crash   *)
(* may leave a part of it.                                                 *)
(***************************************************************************)
EXTENDS Naturals

CONSTANTS Seeds,      \* mnemonics the generator may return
          Peers,      \* peers that may be connected
          MaxRuns,    \* bound: times the process is started
          MaxErrors   \* bound: file operations and RPC calls that fail

ASSUME LifecycleBounds == MaxRuns \in Nat /\ MaxErrors \in Nat

\* States of the seed file and of the wallet database, beside holding a seed.
ASSUME SeedsAreSeeds == {"none", "torn"} \cap Seeds = {}

VARIABLES
  seed,        \* the seed file
  walletDb,    \* the seed the wallet database was created from
  storeDir,    \* the directory "store" exists
  manager,     \* the file "manager" exists in it
  monitors,    \* channel monitors exist in it
  savedPeers,  \* the peers in NodeStore
  socket,      \* the file /tmp/ldk_node.sock exists
  main,        \* where main is
  mnemonic,    \* the seed of this run, in memory
  node,        \* the task of Node::start
  background,  \* the task of process_events_async
  peers,       \* the connected peers
  shutdown,    \* the shutdown tokens are cancelled
  lastEnd,     \* history: how the last run ended
  runs, errors

disk   == <<seed, walletDb, storeDir, manager, monitors, savedPeers, socket>>
tasks  == <<node, background, peers, shutdown>>
vars   == <<disk, main, mnemonic, tasks, lastEnd, runs, errors>>

Init ==
  /\ seed = "none" /\ walletDb = "none"
  /\ storeDir = FALSE /\ manager = FALSE /\ monitors = FALSE
  /\ savedPeers = {}
  /\ socket = FALSE
  /\ main = "off"
  /\ mnemonic = "none"
  /\ node = "none" /\ background = "none"
  /\ peers = {}
  /\ shutdown = FALSE
  /\ lastEnd = "clean"
  /\ runs = 0 /\ errors = 0

Error == errors < MaxErrors /\ errors' = errors + 1

\* The process ends and with it everything in memory.
End(how) ==
  /\ main' = "off"
  /\ mnemonic' = "none"
  /\ node' = "none" /\ background' = "none"
  /\ peers' = {}
  /\ shutdown' = FALSE
  /\ lastEnd' = how

Start ==
  /\ main = "off"
  /\ runs < MaxRuns
  /\ runs' = runs + 1
  /\ main' = "read_seed"
  /\ UNCHANGED <<disk, mnemonic, tasks, lastEnd, errors>>

\* kill -9, a panic that aborts: the process dies, and what it wrote stays
\* with the operating system.  Not a power failure, which may also undo
\* writes: the seed is written without a sync.
Crash ==
  /\ main # "off"
  /\ End("crash")
  /\ UNCHANGED <<disk, runs, errors>>

-----------------------------------------------------------------------------
(* NodeBuilder::build.  An error leaves main through "?".                  *)

BuildFails == End("error")

\* WalletManager::new takes the mnemonic from the file, or makes one.
ReadSeed ==
  /\ main = "read_seed"
  /\ \/ /\ seed = "torn"
        /\ BuildFails
     \/ /\ seed = "none"
        /\ mnemonic' \in Seeds
        /\ main' = "load_wallet"
        /\ UNCHANGED <<tasks, lastEnd>>
     \/ /\ seed \in Seeds
        /\ mnemonic' = seed
        /\ main' = "load_wallet"
        /\ UNCHANGED <<tasks, lastEnd>>
  /\ UNCHANGED <<disk, runs, errors>>

\* load_wallet compares the descriptors: a database of another seed is an
\* error; without one the seed is written, also when it was just read.
LoadWallet ==
  /\ main = "load_wallet"
  /\ \/ /\ walletDb = "none"
        /\ main' = "write_seed"
        /\ UNCHANGED <<mnemonic, tasks, lastEnd>>
     \/ /\ walletDb = mnemonic
        /\ main' = "load_manager"
        /\ UNCHANGED <<mnemonic, tasks, lastEnd>>
     \/ /\ walletDb \notin {"none", mnemonic}
        /\ BuildFails
  /\ UNCHANGED <<disk, runs, errors>>

\* Mutant: the wallet is created before its seed is written.
CreateWalletFirst ==
  /\ main = "write_seed"
  /\ walletDb' = mnemonic
  /\ main' = "fill_seed"
  /\ UNCHANGED <<seed, storeDir, manager, monitors, savedPeers, socket,
                 mnemonic, tasks, lastEnd, runs, errors>>

\* fs::write truncates the file and writes it, in this order.
TruncateSeed ==
  /\ main = "write_seed"
  /\ seed' = "torn"
  /\ main' = "fill_seed"
  /\ UNCHANGED <<walletDb, storeDir, manager, monitors, savedPeers, socket,
                 mnemonic, tasks, lastEnd, runs, errors>>

FillSeed ==
  /\ main = "fill_seed"
  /\ seed' = mnemonic
  /\ main' = "create_wallet"
  /\ UNCHANGED <<walletDb, storeDir, manager, monitors, savedPeers, socket,
                 mnemonic, tasks, lastEnd, runs, errors>>

CreateWallet ==
  /\ main = "create_wallet"
  /\ walletDb' = mnemonic
  /\ main' = "load_manager"
  /\ UNCHANGED <<seed, storeDir, manager, monitors, savedPeers, socket,
                 mnemonic, tasks, lastEnd, runs, errors>>

\* Mutant: a missing file "manager" is taken for a new node.
LoadManagerOrNew ==
  /\ main = "load_manager"
  /\ main' = "bind"
  /\ UNCHANGED <<disk, mnemonic, tasks, lastEnd, runs, errors>>

\* Without the directory "store" a ChannelManager is made from scratch; with
\* it the file "manager" has to be there.
LoadManager ==
  /\ main = "load_manager"
  /\ IF storeDir /\ ~manager
     THEN BuildFails
     ELSE main' = "bind" /\ UNCHANGED <<mnemonic, tasks, lastEnd>>
  /\ UNCHANGED <<disk, runs, errors>>

\* Any file operation of build, or get_best_block for a new ChannelManager.
BuildError ==
  /\ main \in {"read_seed", "load_wallet", "write_seed", "fill_seed",
               "create_wallet", "load_manager"}
  /\ Error
  /\ BuildFails
  /\ UNCHANGED <<disk, runs>>

-----------------------------------------------------------------------------
(* main.                                                                   *)

\* UnixSocketServer::new(..).unwrap(): bind refuses a path that exists.
Bind ==
  /\ main = "bind"
  /\ socket' = TRUE
  /\ IF socket
     THEN End("panic")
     ELSE /\ main' = "serving"
          /\ node' = "starting"
          /\ UNCHANGED <<mnemonic, background, peers, shutdown, lastEnd>>
  /\ UNCHANGED <<seed, walletDb, storeDir, manager, monitors, savedPeers, runs,
                 errors>>

\* ctrl_c: both tokens are cancelled.
CtrlC ==
  /\ main = "serving"
  /\ shutdown' = TRUE
  /\ main' = "awaiting"
  /\ UNCHANGED <<disk, mnemonic, node, background, peers, lastEnd, runs,
                 errors>>

\* ctrl_c() returns an error: logged, and nobody will cancel the tokens.
SignalFails ==
  /\ main = "serving"
  /\ Error
  /\ main' = "awaiting"
  /\ UNCHANGED <<disk, mnemonic, tasks, lastEnd, runs>>

\* node_handle.await? and, only if that was Ok, fs::remove_file.
MainEnds ==
  /\ main = "awaiting"
  /\ \/ node = "done" /\ socket' = FALSE /\ End("clean")
     \/ node = "panicked" /\ UNCHANGED socket /\ End("error")
  /\ UNCHANGED <<seed, walletDb, storeDir, manager, monitors, savedPeers, runs,
                 errors>>

-----------------------------------------------------------------------------
(* Node::start and the tasks it spawns.                                    *)

\* synchronize_listeners returns; the background task is spawned.
StartTasks ==
  /\ node = "starting"
  /\ node' = "running"
  /\ background' = "running"
  /\ UNCHANGED <<disk, main, mnemonic, peers, shutdown, lastEnd, runs, errors>>

\* synchronize_listeners fails: main's closure unwraps the error.
StartFails ==
  /\ node = "starting"
  /\ Error
  /\ node' = "panicked"
  /\ UNCHANGED <<disk, main, mnemonic, background, peers, shutdown, lastEnd,
                 runs>>

\* The background task, or the final round of it, writes to "store".  The
\* first write of all makes the directory.
MakeStoreDir ==
  /\ background \in {"running", "stopping"}
  /\ ~storeDir
  /\ storeDir' = TRUE
  /\ UNCHANGED <<seed, walletDb, manager, monitors, savedPeers, socket, main,
                 mnemonic, tasks, lastEnd, runs, errors>>

PersistManager ==
  /\ background = "running"
  /\ storeDir /\ ~manager
  /\ manager' = TRUE
  /\ UNCHANGED <<seed, walletDb, storeDir, monitors, savedPeers, socket, main,
                 mnemonic, tasks, lastEnd, runs, errors>>

\* process_events_async returns an error when it cannot write the manager.
PersistFails ==
  /\ background = "running"
  /\ Error
  /\ background' = "failed"
  /\ UNCHANGED <<disk, main, mnemonic, node, peers, shutdown, lastEnd, runs>>

\* A channel is funded: its monitor is on disk before LDK goes on.
FundChannel ==
  /\ background = "running"
  /\ storeDir /\ ~monitors
  /\ monitors' = TRUE
  /\ UNCHANGED <<seed, walletDb, storeDir, manager, savedPeers, socket, main,
                 mnemonic, tasks, lastEnd, runs, errors>>

\* PeerManager, external.
PeersChange(p) ==
  /\ node \in {"running", "stopping"}
  /\ peers' = IF p \in peers THEN peers \ {p} ELSE peers \cup {p}
  /\ UNCHANGED <<disk, main, mnemonic, node, background, shutdown, lastEnd,
                 runs, errors>>

\* Mutant: the background task is aborted, not stopped.
AbortBackground ==
  /\ node = "running"
  /\ shutdown
  /\ node' = "stopping"
  /\ background' = "done"
  /\ UNCHANGED <<disk, main, mnemonic, peers, shutdown, lastEnd, runs, errors>>

\* Mutant: the node waits for a background task that has ended already.
StopBackgroundWaits ==
  /\ node = "running"
  /\ shutdown
  /\ background = "running"
  /\ node' = "stopping"
  /\ background' = "stopping"
  /\ UNCHANGED <<disk, main, mnemonic, peers, shutdown, lastEnd, runs, errors>>

\* The token is cancelled: stop_sender.send(()).unwrap() finds the receiver
\* gone when the background task has ended.
StopBackground ==
  /\ node = "running"
  /\ shutdown
  /\ IF background = "failed"
     THEN node' = "panicked" /\ UNCHANGED background
     ELSE node' = "stopping" /\ background' = "stopping"
  /\ UNCHANGED <<disk, main, mnemonic, peers, shutdown, lastEnd, runs, errors>>

\* The last thing the background task does is to persist the manager.
FinalPersist ==
  /\ background = "stopping"
  /\ storeDir
  /\ manager' = TRUE
  /\ background' = "done"
  /\ UNCHANGED <<seed, walletDb, storeDir, monitors, savedPeers, socket, main,
                 mnemonic, node, peers, shutdown, lastEnd, runs, errors>>

\* If it cannot, its result is dropped (let _ = handle.await.unwrap()).
FinalPersistFails ==
  /\ background = "stopping"
  /\ Error
  /\ background' = "done"
  /\ UNCHANGED <<disk, main, mnemonic, node, peers, shutdown, lastEnd, runs>>

\* The peers still connected are stored, then disconnected.  A peer that
\* cannot be stored is logged and left out.
SavePeers ==
  /\ node = "stopping" /\ background = "done"
  /\ \/ savedPeers' = savedPeers \cup peers /\ UNCHANGED errors
     \/ /\ Error
        /\ \E p \in peers : savedPeers' = savedPeers \cup (peers \ {p})
  /\ peers' = {}
  /\ node' = "done"
  /\ UNCHANGED <<seed, walletDb, storeDir, manager, monitors, socket, main,
                 mnemonic, background, shutdown, lastEnd, runs>>

-----------------------------------------------------------------------------
Next ==
  \/ Start \/ Crash
  \/ ReadSeed \/ LoadWallet \/ TruncateSeed \/ FillSeed \/ CreateWallet
  \/ LoadManager \/ BuildError
  \/ Bind \/ CtrlC \/ SignalFails \/ MainEnds
  \/ StartTasks \/ StartFails \/ StopBackground \/ SavePeers
  \/ MakeStoreDir \/ PersistManager \/ PersistFails
  \/ FinalPersist \/ FinalPersistFails
  \/ FundChannel
  \/ \E p \in Peers : PeersChange(p)

Spec == Init /\ [][Next]_vars

\* The runtime runs every task, and an RPC call ends one way or the other.
Fairness ==
  /\ WF_vars(StartTasks)
  /\ WF_vars(StopBackground)
  /\ WF_vars(MakeStoreDir)
  /\ WF_vars(FinalPersist)
  /\ WF_vars(SavePeers)
  /\ WF_vars(MainEnds)

FairSpec == Spec /\ Fairness

-----------------------------------------------------------------------------
(* Properties.                                                             *)

\* Every variable has its type, and the node task runs only inside main.
TypeOK ==
  /\ seed \in Seeds \cup {"none", "torn"}
  /\ walletDb \in Seeds \cup {"none"} /\ mnemonic \in Seeds \cup {"none"}
  /\ {storeDir, manager, monitors, socket, shutdown} \subseteq BOOLEAN
  /\ savedPeers \subseteq Peers /\ peers \subseteq Peers
  /\ main \in {"off", "read_seed", "load_wallet", "write_seed", "fill_seed",
               "create_wallet", "load_manager", "bind", "serving", "awaiting"}
  /\ node \in {"none", "starting", "running", "stopping", "done", "panicked"}
  /\ background \in {"none", "running", "stopping", "done", "failed"}
  /\ lastEnd \in {"clean", "error", "panic", "crash"}
  /\ runs \in 0..MaxRuns /\ errors \in 0..MaxErrors
  /\ node # "none" <=> main \in {"serving", "awaiting"}

\* As soon as a wallet exists, so that an address can have been given out,
\* the seed it came from is in the seed file: a crash at any step of
\* WalletManager::new loses no keys, and no run writes another seed over it.
SeedOfWalletKept ==
  walletDb # "none" => seed = walletDb

\* What a new run cannot get over by itself.
Unbootable == seed = "torn" \/ (storeDir /\ ~manager) \/ socket

\* A run that ended in order, with no file error on the way, leaves nothing
\* that keeps the next one from starting.
CleanEndIsBootable ==
  main = "off" /\ lastEnd = "clean" /\ errors = 0 => ~Unbootable

\* A ChannelManager is made from scratch only if no channel was ever funded:
\* a crash never makes the node forget its channels.
NoAmnesia ==
  main = "bind" /\ ~manager => ~monitors

\* Once the tokens are cancelled the process ends, whatever state the node
\* task and the background task were in and whatever peers come and go.
ShutdownEnds == shutdown ~> main = "off"

=============================================================================
