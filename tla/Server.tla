-------------------------------- MODULE Server --------------------------------
(***************************************************************************)
(* lncli processes and the task of UnixSocketServer::start_server.  A      *)
(* client connects, writes one request, reads one answer and ends.  The    *)
(* server takes one connection at a time: it waits for the request, runs   *)
(* it, writes the answer and takes the next connection.  Most of its       *)
(* errors are unwrapped; a panic ends the task, drops the listener and     *)
(* leaves the node running without a server.                               *)
(*                                                                         *)
(* The locks of the node may be poisoned by other tasks (WalletLock): the  *)
(* wallet's when the chain task dies with it, then one of LDK's when a     *)
(* task that holds it asks the wallet for a script.                        *)
(***************************************************************************)
EXTENDS Naturals, Sequences

CONSTANTS Clients,    \* lncli processes
          NoClient,   \* "nobody", for a server between two connections
          MaxKills,   \* bound: clients that are killed
          MaxErrors   \* bound: operations of the node that fail

ASSUME ServerAssumption ==
  /\ NoClient \notin Clients
  /\ MaxKills \in Nat /\ MaxErrors \in Nat

\* The commands of lncli.
Commands == {"node_pubkey", "new_address", "balance", "open_channel",
             "list_channels", "close_channel", "send_payment", "receive",
             "connect"}

\* Commands that pass what the user typed on as it is.
Typed == {"open_channel", "close_channel", "send_payment", "connect"}

\* The errors of the node that the server puts into the answer.
Answers == {"open_channel", "close_channel", "send_payment", "connect"}

\* The poisoned locks a command would meet.  create_channel and
\* close_channel of LDK ask the wallet for scripts.
Locks(cmd) ==
  CASE cmd = "new_address" -> {"wallet"}
    [] cmd \in {"balance", "open_channel", "close_channel"} -> {"wallet", "ldk"}
    [] cmd \in {"list_channels", "send_payment", "receive"} -> {"ldk"}
    [] OTHER -> {}

\* Commands that change something.
Effects == {"new_address", "open_channel", "close_channel", "send_payment",
            "receive", "connect"}

VARIABLES
  client,   \* client[c]: where the process is
  request,  \* request[c]: its command, and whether the server can parse it
  queue,    \* the backlog of the listener
  server,   \* where the server task is, and with which client
  sent,     \* clients whose request is in the socket
  reply,    \* reply[c]: "none", "whole", the text of an error, or "cut" when
            \* it exceeds a buffer
  effects,  \* history: clients whose request changed something
  main,     \* "running", "cancelled" by ctrl_c, "ended"
  poisoned, \* locks of the node that another task panicked with
  kills, errors

vars == <<client, request, queue, server, sent, reply, effects, main, poisoned,
          kills, errors>>

At(pc, c) == [pc |-> pc, c |-> c]

\* A process that is suspended, or is no lncli, may send nothing.
Silence == [cmd |-> "none", parses |-> FALSE]

Requests == {r \in [cmd : Commands, parses : BOOLEAN] :
               r.parses \/ r.cmd \in Typed} \cup {Silence}

Init ==
  /\ client = [c \in Clients |-> "off"]
  /\ request \in [Clients -> Requests]
  /\ queue = <<>>
  /\ server = At("accept", NoClient)
  /\ sent = {} /\ effects = {}
  /\ reply = [c \in Clients |-> "none"]
  /\ main = "running" /\ poisoned = {}
  /\ kills = 0 /\ errors = 0

Listening == server.pc \notin {"dead", "stopped"}

Moves(c, to) == client' = [client EXCEPT ![c] = to]

\* The server's end of the connection of c is open.
Open(c) == Listening /\ (server.c = c \/ \E i \in 1..Len(queue) : queue[i] = c)

-----------------------------------------------------------------------------
(* lncli: every error is unwrapped and ends the process.                   *)

Connect(c) ==
  /\ client[c] = "off"
  /\ IF Listening
     THEN Moves(c, "connected") /\ queue' = Append(queue, c)
     ELSE Moves(c, "failed") /\ UNCHANGED queue
  /\ UNCHANGED <<request, server, sent, reply, effects, main, poisoned, kills,
                 errors>>

WriteRequest(c) ==
  /\ client[c] = "connected" /\ request[c] # Silence
  /\ IF Open(c)
     THEN Moves(c, "waiting") /\ sent' = sent \cup {c}
     ELSE Moves(c, "failed") /\ UNCHANGED sent
  /\ UNCHANGED <<request, queue, server, reply, effects, main, poisoned,
                 kills, errors>>

\* read returns the answer, which may be the text of an error, or nothing when
\* the server closed the stream; a part of an answer is no JSON.
ReadReply(c) ==
  /\ client[c] = "waiting"
  /\ reply[c] # "none" \/ ~Open(c)
  /\ Moves(c, CASE reply[c] = "whole" -> "answered"
                [] reply[c] = "error" -> "refused"
                [] OTHER -> "failed")
  /\ UNCHANGED <<request, queue, server, sent, reply, effects, main, poisoned,
                 kills, errors>>

\* The user gives up.
Kill(c) ==
  /\ client[c] \in {"connected", "waiting"}
  /\ kills < MaxKills
  /\ kills' = kills + 1
  /\ Moves(c, "killed")
  /\ UNCHANGED <<request, queue, server, sent, reply, effects, main, poisoned,
                 errors>>

-----------------------------------------------------------------------------
(* start_server.                                                           *)

Accept ==
  /\ server.pc = "accept" /\ queue # <<>>
  /\ server' = At("read", Head(queue))
  /\ queue' = Tail(queue)
  /\ UNCHANGED <<client, request, sent, reply, effects, main, poisoned, kills,
                 errors>>

\* Mutant: the server waits on although the client is gone.
ReadRequestWaits ==
  /\ server.pc = "read"
  /\ server.c \in sent
  /\ server' = IF request[server.c].parses
               THEN At("handle", server.c) ELSE At("dead", NoClient)
  /\ UNCHANGED <<client, request, queue, sent, reply, effects, main, poisoned,
                 kills, errors>>

\* The stream is readable when the request is there or the client is gone.
\* Without a request there is nothing to parse; what does not parse, and a
\* parameter that is not what it should be, is unwrapped as well.
ReadRequest ==
  /\ server.pc = "read"
  /\ server.c \in sent \/ client[server.c] = "killed"
  /\ server' = IF server.c \in sent /\ request[server.c].parses
               THEN At("handle", server.c) ELSE At("dead", NoClient)
  /\ UNCHANGED <<client, request, queue, sent, reply, effects, main, poisoned,
                 kills, errors>>

\* The node's operation, without an error.  close_channel needs the wallet
\* only if the channel has no script for its shutdown yet.
Handle ==
  LET cmd == request[server.c].cmd IN
  /\ server.pc = "handle"
  /\ Locks(cmd) \cap poisoned
       \subseteq (IF cmd = "close_channel" THEN {"wallet"} ELSE {})
  /\ effects' = IF cmd \in Effects THEN effects \cup {server.c} ELSE effects
  /\ server' = At("write", server.c)
  /\ UNCHANGED <<client, request, queue, sent, reply, main, poisoned, kills,
                 errors>>

\* lock().unwrap() of a poisoned lock, in the node or in LDK.
HandlePoisoned ==
  /\ server.pc = "handle"
  /\ Locks(request[server.c].cmd) \cap poisoned # {}
  /\ server' = At("dead", NoClient)
  /\ UNCHANGED <<client, request, queue, sent, reply, effects, main, poisoned,
                 kills, errors>>

\* Mutant: the errors of open_channel are unwrapped like those of receive.
HandleErrorPanics ==
  /\ server.pc = "handle"
  /\ errors < MaxErrors
  /\ errors' = errors + 1
  /\ request[server.c].cmd \in Answers \cup {"receive"}
  /\ server' = IF request[server.c].cmd \in {"receive", "open_channel"}
               THEN At("dead", NoClient) ELSE At("refuse", server.c)
  /\ UNCHANGED <<client, request, queue, sent, reply, effects, main, poisoned,
                 kills>>

\* Mutant: like send_payment, the others keep a record after LDK did its part,
\* and answer with the error of writing it.
HandleErrorLate ==
  /\ server.pc = "handle"
  /\ errors < MaxErrors
  /\ errors' = errors + 1
  /\ request[server.c].cmd \in Answers
  /\ server' = At("refuse", server.c)
  /\ effects' = effects \cup {server.c}
  /\ UNCHANGED <<client, request, queue, sent, reply, main, poisoned, kills>>

\* With an error of LDK or of the store.  receive's is unwrapped, the others
\* are put into the answer.  The one of send_payment may come after LDK took
\* the payment, when its record cannot be written.
HandleError ==
  /\ server.pc = "handle"
  /\ errors < MaxErrors
  /\ errors' = errors + 1
  /\ \/ /\ request[server.c].cmd = "receive"
        /\ server' = At("dead", NoClient)
        /\ UNCHANGED effects
     \/ /\ request[server.c].cmd \in Answers
        /\ server' = At("refuse", server.c)
        /\ \/ UNCHANGED effects
           \/ /\ request[server.c].cmd = "send_payment"
              /\ Locks("send_payment") \cap poisoned = {}
              /\ effects' = effects \cup {server.c}
  /\ UNCHANGED <<client, request, queue, sent, reply, main, poisoned, kills>>

\* try_write(..).unwrap() fails when the client is gone.  A long list of
\* channels does not fit into the buffer of the client.
WriteReply ==
  /\ server.pc \in {"write", "refuse"}
  /\ IF client[server.c] = "killed"
     THEN server' = At("dead", NoClient) /\ UNCHANGED reply
     ELSE /\ server' = At("accept", NoClient)
          /\ \E r \in {"whole", "cut", "error"} :
               /\ r = "error" <=> server.pc = "refuse"
               /\ r = "cut" => request[server.c].cmd = "list_channels"
               /\ reply' = [reply EXCEPT ![server.c] = r]
  /\ UNCHANGED <<client, request, queue, sent, effects, main, poisoned, kills,
                 errors>>

\* The token is looked at between two connections only.
Cancelled ==
  /\ server.pc = "accept" /\ main # "running"
  /\ server' = At("stopped", NoClient)
  /\ UNCHANGED <<client, request, queue, sent, reply, effects, main, poisoned,
                 kills, errors>>

-----------------------------------------------------------------------------
(* The other tasks and main.                                               *)

\* The chain task panics with the wallet locked.
PoisonWallet ==
  /\ poisoned = {}
  /\ poisoned' = {"wallet"}
  /\ UNCHANGED <<client, request, queue, server, sent, reply, effects, main,
                 kills, errors>>

\* A task asks the poisoned wallet for a script with a lock of LDK.
PoisonLdk ==
  /\ poisoned = {"wallet"}
  /\ poisoned' = {"wallet", "ldk"}
  /\ UNCHANGED <<client, request, queue, server, sent, reply, effects, main,
                 kills, errors>>

CtrlC ==
  /\ main = "running"
  /\ main' = "cancelled"
  /\ UNCHANGED <<client, request, queue, server, sent, reply, effects,
                 poisoned, kills, errors>>

\* The node has stopped; server_handle.abort() ends the server where it
\* awaits something.
Abort ==
  /\ main = "cancelled"
  /\ main' = "ended"
  /\ server' = IF server.pc = "dead" THEN server ELSE At("stopped", NoClient)
  /\ server.pc # "handle"
  /\ UNCHANGED <<client, request, queue, sent, reply, effects, poisoned,
                 kills, errors>>

Next ==
  \/ \E c \in Clients :
       Connect(c) \/ WriteRequest(c) \/ ReadReply(c) \/ Kill(c)
  \/ Accept \/ ReadRequest \/ Handle \/ HandlePoisoned \/ HandleError
  \/ WriteReply \/ Cancelled
  \/ PoisonWallet \/ PoisonLdk \/ CtrlC \/ Abort

Spec == Init /\ [][Next]_vars

\* lncli runs to its end by itself, the runtime runs the server task, and a
\* call of the node returns.  Nobody has to connect, to be killed or to stop
\* the node.
Fairness ==
  /\ \A c \in Clients : WF_vars(WriteRequest(c)) /\ WF_vars(ReadReply(c))
  /\ WF_vars(Accept \/ Cancelled)
  /\ WF_vars(\/ ReadRequest \/ Handle \/ HandlePoisoned \/ HandleError
             \/ WriteReply)

FairSpec == Spec /\ Fairness

-----------------------------------------------------------------------------
(* Properties.                                                             *)

\* Every variable has its type, and the server is with a client exactly while
\* it serves one, which is no longer in the backlog.
TypeOK ==
  /\ client \in [Clients -> {"off", "connected", "waiting", "answered",
                             "refused", "failed", "killed"}]
  /\ request \in [Clients -> Requests]
  /\ server \in [pc : {"accept", "read", "handle", "write", "refuse", "dead",
                       "stopped"},
                 c : Clients \cup {NoClient}]
  /\ server.c \in Clients <=> server.pc \in {"read", "handle", "write",
                                          "refuse"}
  /\ \A i \in 1..Len(queue) : queue[i] \in Clients \ {server.c}
  /\ sent \subseteq Clients /\ effects \subseteq sent
  /\ reply \in [Clients -> {"none", "whole", "error", "cut"}]
  /\ main \in {"running", "cancelled", "ended"}
  /\ poisoned \subseteq {"wallet", "ldk"}
  /\ kills \in 0..MaxKills /\ errors \in 0..MaxErrors

Ended(c) == client[c] \in {"answered", "refused", "failed", "killed"}

\* No lncli hangs: it gets its answer, or it fails because the server died or
\* stopped, wherever it was in the backlog - unless the server waits for a
\* client that is silent, which holds up all others.
ClientsEnd ==
  \A c \in Clients :
    client[c] = "connected" /\ request[c] # Silence
      ~> Ended(c) \/ (server.pc = "read" /\ request[server.c] = Silence)

\* A command that seemed to fail was not carried out and can be given again,
\* with two exceptions.  lncli may end without an answer because the node was
\* being stopped; and of a payment that LDK took the server says that it
\* could not be made, if only its record could not be written.
FailedMeansNotDone ==
  \A c \in effects :
    /\ client[c] = "failed" => main # "running"
    /\ client[c] = "refused" => request[c].cmd = "send_payment"

\* The server dies only of a request it could not parse, of a client that was
\* killed, of an error of receive, or of a lock that another task poisoned:
\* no error of a channel, a payment or a connection ends it.
DiesOnlyOf ==
  server.pc = "dead" =>
    \/ \E c \in Clients : client[c] = "killed"
    \/ \E c \in sent : ~request[c].parses
    \/ errors > 0 /\ \E c \in sent : request[c].cmd = "receive"
    \/ \E c \in sent : Locks(request[c].cmd) \cap poisoned # {}

=============================================================================
