-------------------------------- MODULE Peers --------------------------------
(***************************************************************************)
(* The peers of the node over several runs: stored at an orderly shutdown, *)
(* read and connected to again at the next start.  The address stored is   *)
(* the one of the connection at that moment: for a peer that had connected *)
(* to us it is where its connection came from, not where it listens.       *)
(***************************************************************************)
EXTENDS Naturals

CONSTANTS Peers,      \* nodes, other than this one
          MaxRuns,    \* bound: starts of the process
          MaxErrors   \* bound: file operations and connections that fail

ASSUME PeersAssumption == MaxRuns \in Nat /\ MaxErrors \in Nat

VARIABLES
  saved,      \* saved[p]: the record of p in NodeStore
  conn,       \* conn[p]: "no", or who opened the connection
  up,         \* peers that listen at their address
  node,       \* the task of Node::start
  list,       \* the peers as Node::start found them when it stopped
  toSave,     \* those of them it has yet to store
  reconnect,  \* the reconnecting task
  left,       \* the peers it has yet to connect to
  tried,      \* history: peers it tried in this run
  acceptor,   \* the task that listens for peers
  atStop,     \* history: connected from the last orderly stop until listed
  runs, errors

stop == <<list, toSave, atStop>>
again == <<reconnect, left, tried>>
peersVars == <<saved, conn, up, node, stop, again, acceptor, runs, errors>>

Nobody == [p \in Peers |-> "no"]

PeersInit ==
  /\ saved = [p \in Peers |-> "none"]
  /\ conn = Nobody /\ list = Nobody
  /\ up = Peers
  /\ node = "off" /\ reconnect = "off" /\ acceptor = "off"
  /\ left = {} /\ tried = {} /\ toSave = {} /\ atStop = {}
  /\ runs = 0 /\ errors = 0

Error == errors < MaxErrors /\ errors' = errors + 1

Stored == {p \in Peers : saved[p] # "none"}

\* Stored with an IP address.
HasIp == {p \in Peers : saved[p] \in {"listening", "source"}}

Start ==
  /\ node = "off" /\ runs < MaxRuns
  /\ runs' = runs + 1
  /\ node' = "running" /\ reconnect' = "list" /\ acceptor' = "listening"
  /\ UNCHANGED <<saved, conn, up, stop, left, tried, errors>>

-----------------------------------------------------------------------------
(* The reconnecting task.                                                  *)

\* NodeStore::list_peers: one record that cannot be read is an error for all,
\* and "?" ends the task with it.
list_peers ==
  /\ reconnect = "list"
  /\ IF \E p \in Stored : saved[p] = "unreadable"
     THEN reconnect' = "failed" /\ UNCHANGED left
     ELSE reconnect' = "connecting" /\ left' = Stored
  /\ UNCHANGED <<saved, conn, up, node, stop, tried, acceptor, runs, errors>>

\* Mutant: a connection that fails ends the task.
ReconnectOrEnd(p) ==
  /\ reconnect = "connecting" /\ p \in left
  /\ tried' = tried \cup ({p} \cap HasIp)
  /\ IF p \in up /\ saved[p] = "listening"
     THEN /\ left' = left \ {p}
          /\ conn' = [conn EXCEPT ![p] = IF @ = "no" THEN "outbound" ELSE @]
     ELSE left' = {} /\ UNCHANGED conn
  /\ UNCHANGED <<saved, up, node, stop, reconnect, acceptor, runs, errors>>

\* Mutant: the task waits for the peer for ever.
ReconnectOrWait(p) ==
  /\ reconnect = "connecting" /\ p \in left
  /\ p \in up /\ saved[p] = "listening"
  /\ tried' = tried \cup {p}
  /\ left' = left \ {p}
  /\ conn' = [conn EXCEPT ![p] = IF @ = "no" THEN "outbound" ELSE @]
  /\ UNCHANGED <<saved, up, node, stop, reconnect, acceptor, runs, errors>>

\* connect(), one peer after the other; an error is logged.  Nobody listens
\* where a connection of the peer came from.  A peer whose address is not an
\* IP address is passed over.
Reconnect(p) ==
  /\ reconnect = "connecting" /\ p \in left
  /\ left' = left \ {p}
  /\ tried' = tried \cup ({p} \cap HasIp)
  /\ IF p \in up /\ saved[p] = "listening"
     THEN conn' = [conn EXCEPT ![p] = IF @ = "no" THEN "outbound" ELSE @]
     ELSE UNCHANGED conn
  /\ UNCHANGED <<saved, up, node, stop, reconnect, acceptor, runs, errors>>

ReconnectEnds ==
  /\ reconnect = "connecting" /\ left = {}
  /\ reconnect' = "done"
  /\ UNCHANGED <<saved, conn, up, node, stop, left, tried, acceptor, runs,
                 errors>>

-----------------------------------------------------------------------------
(* Connections.                                                            *)

\* The server's "connect", with an address at which the peer listens; the
\* server is stopped last.
connect_to_peer(p) ==
  /\ node # "off" /\ p \in up /\ conn[p] = "no"
  /\ conn' = [conn EXCEPT ![p] = "outbound"]
  /\ UNCHANGED <<saved, up, node, stop, again, acceptor, runs, errors>>

\* Where the connection came from is unknown if the socket is closed before
\* it is asked.
Inbound(p) ==
  /\ acceptor = "listening" /\ conn[p] = "no"
  /\ \/ conn' = [conn EXCEPT ![p] = "inbound"] /\ UNCHANGED errors
     \/ conn' = [conn EXCEPT ![p] = "unknown"] /\ Error
  /\ UNCHANGED <<saved, up, node, stop, again, acceptor, runs>>

\* bind and accept are unwrapped: the task ends, the node does not.
AcceptorDies ==
  /\ acceptor = "listening" /\ Error
  /\ acceptor' = "dead"
  /\ UNCHANGED <<saved, conn, up, node, stop, again, runs>>

Disconnect(p) ==
  /\ conn[p] # "no"
  /\ conn' = [conn EXCEPT ![p] = "no"]
  /\ atStop' = IF node = "stopping" THEN atStop \ {p} ELSE atStop
  /\ UNCHANGED <<saved, up, node, list, toSave, again, acceptor, runs, errors>>

\* A peer stops to listen or listens again.
UpDown(p) ==
  /\ up' = IF p \in up THEN up \ {p} ELSE up \cup {p}
  /\ UNCHANGED <<saved, conn, node, stop, again, acceptor, runs, errors>>

-----------------------------------------------------------------------------
(* The end of Node::start.                                                 *)

Connected == {p \in Peers : conn[p] # "no"}

\* The token is cancelled, and Node::start sends the background task the
\* signal to stop.  Everything else goes on: the reconnecting task, the
\* connections, the task that accepts more of them.
BeginStop ==
  /\ node = "running"
  /\ node' = "stopping"
  /\ atStop' = Connected
  /\ UNCHANGED <<saved, conn, up, list, toSave, again, acceptor, runs, errors>>

\* Mutant: the peers are disconnected before they are listed.
ListAfterDisconnect ==
  /\ node = "stopping"
  /\ node' = "saving"
  /\ conn' = Nobody /\ list' = Nobody /\ toSave' = {}
  /\ UNCHANGED <<saved, up, atStop, again, acceptor, runs, errors>>

\* handle.await: the background task is gone, and the PeerManager is asked
\* for its peers.
ListConnected ==
  /\ node = "stopping"
  /\ node' = "saving"
  /\ list' = conn /\ toSave' = Connected
  /\ UNCHANGED <<saved, conn, up, atStop, again, acceptor, runs, errors>>

\* add_peer, over what was stored under the key; an error is logged, and so
\* is a peer without an address.
SavePeer(p) ==
  /\ node = "saving" /\ p \in toSave
  /\ toSave' = toSave \ {p}
  /\ \/ /\ list[p] # "unknown"
        /\ saved' = [saved EXCEPT ![p] = IF list[p] = "outbound"
                                         THEN "listening" ELSE "source"]
        /\ UNCHANGED errors
     \/ list[p] # "unknown" /\ Error /\ UNCHANGED saved
     \/ list[p] = "unknown" /\ UNCHANGED <<saved, errors>>
  /\ UNCHANGED <<conn, up, node, list, atStop, again, acceptor, runs>>

Off ==
  /\ node' = "off" /\ reconnect' = "off" /\ acceptor' = "off"
  /\ conn' = Nobody /\ list' = Nobody
  /\ toSave' = {} /\ left' = {} /\ tried' = {}

\* disconnect_all_peers, and the process ends.
EndOfSave ==
  /\ node = "saving" /\ toSave = {}
  /\ Off
  /\ UNCHANGED <<saved, up, atStop, runs, errors>>

\* A crash saves nobody.  Nor does a stop that finds the background task
\* already dead: sending it the signal, or awaiting it, is unwrapped.
Crash ==
  /\ node # "off"
  /\ Off
  /\ atStop' = {}
  /\ UNCHANGED <<saved, up, runs, errors>>

\* A record is damaged or of a version that cannot be read, or one that
\* another version wrote, with an address of another kind.
Damage(p) ==
  /\ node = "off" /\ saved[p] # "none" /\ Error
  /\ \E r \in {"unreadable", "other"} : saved' = [saved EXCEPT ![p] = r]
  /\ UNCHANGED <<conn, up, node, stop, again, acceptor, runs>>

PeersNext ==
  \/ Start \/ list_peers \/ ReconnectEnds \/ AcceptorDies
  \/ \E p \in Peers : Reconnect(p) \/ connect_to_peer(p) \/ Inbound(p)
  \/ \E p \in Peers : Disconnect(p) \/ UpDown(p) \/ SavePeer(p) \/ Damage(p)
  \/ BeginStop \/ ListConnected \/ EndOfSave \/ Crash

PeersSpec == PeersInit /\ [][PeersNext]_peersVars

\* The reconnecting task runs, and connect() comes to its end: LDK closes a
\* connection that makes no progress.
PeersFairSpec ==
  /\ PeersSpec
  /\ WF_peersVars(\/ list_peers \/ ReconnectEnds
                  \/ \E p \in Peers : Reconnect(p))

-----------------------------------------------------------------------------
(* Properties.                                                             *)

\* Every variable has its type, and only a running node has connections.
PeersTypeOK ==
  /\ saved \in [Peers -> {"none", "listening", "source", "other", "unreadable"}]
  /\ conn \in [Peers -> {"no", "outbound", "inbound", "unknown"}]
  /\ list \in [Peers -> {"no", "outbound", "inbound", "unknown"}]
  /\ up \subseteq Peers
  /\ toSave \subseteq Peers /\ atStop \subseteq Peers
  /\ left \subseteq Peers /\ tried \subseteq Peers
  /\ node \in {"off", "running", "stopping", "saving"}
  /\ reconnect \in {"off", "list", "connecting", "done", "failed"}
  /\ acceptor \in {"off", "listening", "dead"}
  /\ node = "off" => conn = Nobody /\ left = {} /\ toSave = {}
  /\ runs \in 0..MaxRuns /\ errors \in 0..MaxErrors

\* The reconnecting task tries every peer that is stored with an IP address,
\* whichever of them do not answer and whichever others are passed over - if
\* all records can be read.
EveryPeerTried ==
  reconnect = "done" /\ node \in {"running", "stopping"} => tried = HasIp

\* It also comes to its end, although peers go up and down meanwhile.
ReconnectingEnds ==
  reconnect = "list" ~> reconnect \in {"done", "failed", "off"}

\* Who was connected when an orderly stop began, and still was when the
\* background task had ended and the peers were listed, is in the store for
\* the next run, whoever else comes and goes meanwhile.
ConnectedPeersSaved ==
  node = "off" /\ errors = 0 => atStop \subseteq Stored

=============================================================================
