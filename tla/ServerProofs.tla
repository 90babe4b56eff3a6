---------------------------- MODULE ServerProofs ----------------------------
(***************************************************************************)
(* Proofs about Server, for any number of clients, kills and errors.       *)
(***************************************************************************)
EXTENDS Server, TLAPS

\* A client that has connected, or was killed since, and has no answer yet.
Waits(c) ==
  /\ c \in Clients
  /\ client[c] \in {"connected", "waiting", "killed"}
  /\ reply[c] = "none"

\* As long as the server listens, who is in the backlog or with the server
\* waits, and is in one place only.
Places ==
  /\ queue \in Seq(Clients)
  /\ \A i \in 1..Len(queue) :
       queue[i] # server.c /\ (Listening => Waits(queue[i]))
  /\ \A i, j \in 1..Len(queue) : queue[i] = queue[j] => i = j
  /\ server.c \in Clients => Waits(server.c)
  /\ \A c \in Clients : client[c] = "off" => reply[c] = "none"

\* The server carries out what was sent, and answers it.
Served ==
  /\ sent \subseteq Clients /\ effects \subseteq sent
  /\ \A c \in sent : client[c] \notin {"off", "connected"}
  /\ server.pc \in {"handle", "write", "refuse"} => server.c \in sent

\* What took effect is answered, about to be, or nobody wants to know; of
\* payments only the answer may be an error.
Answered ==
  \A c \in effects :
    \/ reply[c] = "whole"
    \/ reply[c] = "error" /\ request[c].cmd = "send_payment"
    \/ server.pc = "write" /\ server.c = c
    \/ /\ server.pc = "refuse" /\ server.c = c
       /\ request[c].cmd = "send_payment"
    \/ client[c] = "killed"
    \/ main # "running"

\* A request is carried out once, and with an error as its answer only if it
\* is a payment.
Once ==
  /\ \A i \in 1..Len(queue) : queue[i] \notin effects
  /\ server.pc \in {"read", "handle"} => server.c \notin effects
  /\ \A c \in effects :
       reply[c] = "error" \/ (server.pc = "refuse" /\ server.c = c)
         => request[c].cmd = "send_payment"

EffectsChange == \A c \in effects : request[c].cmd \in Effects

ServerInv ==
  /\ TypeOK
  /\ Places
  /\ Served
  /\ EffectsChange
  /\ Answered
  /\ Once
  /\ FailedMeansNotDone
  /\ DiesOnlyOf

-----------------------------------------------------------------------------
(* Each part of the invariant is preserved.                                *)

\* Every action preserves the types.
LEMMA NextTypes ==
  TypeOK /\ Places /\ Served /\ [Next]_vars => TypeOK'
<1> SUFFICES ASSUME TypeOK, Places, Served, [Next]_vars PROVE TypeOK'
  OBVIOUS
<1> USE ServerAssumption
    DEF TypeOK, Places, Served, Waits, Listening
<1>1. ASSUME NEW k \in Clients, Connect(k) PROVE TypeOK'
  <2>1. client' \in [Clients -> {"off", "connected", "waiting", "answered",
                                "refused", "failed", "killed"}]
    BY <1>1 DEF Connect, Moves
  <2>2. k # server.c
    BY <1>1 DEF Connect
  <2>3. \A i \in 1..Len(queue') : queue'[i] \in Clients \ {server.c}
    <3>1. CASE UNCHANGED queue
      BY <3>1
    <3>2. CASE queue' = Append(queue, k)
      <4>1. /\ Len(queue) \in Nat /\ Len(queue') = Len(queue) + 1
            /\ \A i \in 1..Len(queue) : queue'[i] = queue[i]
            /\ queue'[Len(queue')] = k
        BY <3>2
      <4>2. \A i \in 1..Len(queue') : i \in 1..Len(queue) \/ i = Len(queue')
        BY <4>1
      <4>3. QED
        BY <2>2, <4>1, <4>2
    <3>3. QED
      BY <1>1, <3>1, <3>2 DEF Connect
  <2>4. QED
    BY <1>1, <2>1, <2>3 DEF Connect
<1>2. ASSUME NEW k \in Clients, WriteRequest(k) PROVE TypeOK'
  <2>1. client' \in [Clients -> {"off", "connected", "waiting", "answered",
                                "refused", "failed", "killed"}]
    BY <1>2 DEF WriteRequest, Moves
  <2>2. sent' \subseteq Clients /\ effects \subseteq sent'
    BY <1>2 DEF WriteRequest
  <2>3. QED
    BY <1>2, <2>1, <2>2 DEF WriteRequest
<1>3. ASSUME NEW k \in Clients, ReadReply(k) PROVE TypeOK'
  BY <1>3 DEF ReadReply, At, Moves, Open
<1>4. ASSUME NEW k \in Clients, Kill(k) PROVE TypeOK'
  BY <1>4 DEF Kill, At, Moves
<1>5. CASE Accept
  BY <1>5 DEF Accept, At
<1>6. CASE ReadRequest
  BY <1>6 DEF ReadRequest, At
<1>7. CASE Handle
  BY <1>7 DEF Handle, At
<1>8. CASE HandleError
  BY <1>8 DEF HandleError, At
<1>9. CASE WriteReply
  BY <1>9 DEF WriteReply, At
<1>10. CASE Cancelled
  BY <1>10 DEF Cancelled, At
<1>11. CASE CtrlC
  BY <1>11 DEF CtrlC, At
<1>12. CASE Abort
  BY <1>12 DEF Abort, At
<1>13. CASE HandlePoisoned
  BY <1>13 DEF HandlePoisoned, At
<1>14. CASE PoisonWallet
  BY <1>14 DEF PoisonWallet
<1>15. CASE PoisonLdk
  BY <1>15 DEF PoisonLdk
<1>16. CASE UNCHANGED vars
  BY <1>16 DEF vars
<1>17. QED
  BY <1>1, <1>2, <1>3, <1>4, <1>5, <1>6, <1>7, <1>8, <1>9, <1>10,
     <1>11, <1>12, <1>13, <1>14, <1>15, <1>16 DEF Next

\* A connection is taken from the backlog once, and answered once.
LEMMA NextPlaces ==
  TypeOK /\ Places /\ [Next]_vars => Places'
<1> SUFFICES ASSUME TypeOK, Places, [Next]_vars PROVE Places'
  OBVIOUS
<1> USE ServerAssumption
    DEF TypeOK, Places, Waits, Listening
<1>1. ASSUME NEW k \in Clients, Connect(k) PROVE Places'
  <2>1. /\ client[k] = "off" /\ UNCHANGED <<server, reply>>
        /\ k # server.c /\ reply[k] = "none"
        /\ Listening => \A i \in 1..Len(queue) : queue[i] # k
        /\ \A c \in Clients : Waits(c) => Waits(c)'
    BY <1>1 DEF Connect, Moves
  <2>2. CASE UNCHANGED queue
    BY <1>1, <2>1, <2>2 DEF Connect, Moves
  <2>3. CASE Listening /\ queue' = Append(queue, k) /\ Moves(k, "connected")
    <3>1. /\ queue' \in Seq(Clients)
          /\ Len(queue) \in Nat /\ Len(queue') = Len(queue) + 1
          /\ \A i \in 1..Len(queue) : queue'[i] = queue[i]
          /\ queue'[Len(queue')] = k
      BY <2>3
    <3>2. \A i \in 1..Len(queue') : i \in 1..Len(queue) \/ i = Len(queue')
      BY <3>1
    <3>3. Waits(k)'
      BY <2>1, <2>3 DEF Moves
    <3>4. \A i \in 1..Len(queue') : Waits(queue[i])' /\ queue'[i] # server'.c
      BY <2>1, <2>3, <3>1, <3>2, <3>3
    <3>5. ASSUME NEW i \in 1..Len(queue'), NEW j \in 1..Len(queue'),
                 queue'[i] = queue'[j]
          PROVE  i = j
      <4>1. CASE i \in 1..Len(queue) /\ j \in 1..Len(queue)
        BY <3>1, <3>5, <4>1
      <4>2. CASE i = Len(queue') /\ j \in 1..Len(queue)
        BY <2>1, <2>3, <3>1, <3>5, <4>2
      <4>3. CASE i \in 1..Len(queue) /\ j = Len(queue')
        BY <2>1, <2>3, <3>1, <3>5, <4>3
      <4>4. QED
        BY <3>2, <4>1, <4>2, <4>3
    <3>6. \A c \in Clients : client'[c] = "off" => reply'[c] = "none"
      BY <2>1, <2>3 DEF Moves
    <3>7. QED
      BY <2>1, <3>1, <3>4, <3>5, <3>6
  <2>4. QED
    BY <1>1, <2>2, <2>3 DEF Connect
<1>2. ASSUME NEW k \in Clients, WriteRequest(k) PROVE Places'
  BY <1>2 DEF WriteRequest, At, Moves, Open
<1>3. ASSUME NEW k \in Clients, ReadReply(k) PROVE Places'
  BY <1>3 DEF ReadReply, At, Moves, Open
<1>4. ASSUME NEW k \in Clients, Kill(k) PROVE Places'
  BY <1>4 DEF Kill, At, Moves
<1>5. CASE Accept
  BY <1>5 DEF Accept, At
<1>6. CASE ReadRequest
  BY <1>6 DEF ReadRequest, At
<1>7. CASE Handle
  BY <1>7 DEF Handle, At
<1>8. CASE HandleError
  BY <1>8 DEF HandleError, At
<1>9. CASE WriteReply
  BY <1>9 DEF WriteReply, At
<1>10. CASE Cancelled
  BY <1>10 DEF Cancelled, At
<1>11. CASE CtrlC
  BY <1>11 DEF CtrlC, At
<1>12. CASE Abort
  BY <1>12 DEF Abort, At
<1>13. CASE HandlePoisoned
  BY <1>13 DEF HandlePoisoned, At
<1>14. CASE PoisonWallet
  BY <1>14 DEF PoisonWallet
<1>15. CASE PoisonLdk
  BY <1>15 DEF PoisonLdk
<1>16. CASE UNCHANGED vars
  BY <1>16 DEF vars
<1>17. QED
  BY <1>1, <1>2, <1>3, <1>4, <1>5, <1>6, <1>7, <1>8, <1>9, <1>10,
     <1>11, <1>12, <1>13, <1>14, <1>15, <1>16 DEF Next

\* Only a request that was written is carried out.
LEMMA NextServed ==
  TypeOK /\ Served /\ [Next]_vars => Served'
<1> SUFFICES ASSUME TypeOK, Served, [Next]_vars PROVE Served'
  OBVIOUS
<1> USE ServerAssumption
    DEF TypeOK, Served
<1>1. ASSUME NEW k \in Clients, Connect(k) PROVE Served'
  BY <1>1 DEF Connect, At, Moves
<1>2. ASSUME NEW k \in Clients, WriteRequest(k) PROVE Served'
  BY <1>2 DEF WriteRequest, At, Moves, Open
<1>3. ASSUME NEW k \in Clients, ReadReply(k) PROVE Served'
  BY <1>3 DEF ReadReply, At, Moves, Open
<1>4. ASSUME NEW k \in Clients, Kill(k) PROVE Served'
  BY <1>4 DEF Kill, At, Moves
<1>5. CASE Accept
  BY <1>5 DEF Accept, At
<1>6. CASE ReadRequest
  BY <1>6 DEF ReadRequest, At
<1>7. CASE Handle
  BY <1>7 DEF Handle, At
<1>8. CASE HandleError
  BY <1>8 DEF HandleError, At
<1>9. CASE WriteReply
  BY <1>9 DEF WriteReply, At
<1>10. CASE Cancelled
  BY <1>10 DEF Cancelled, At
<1>11. CASE CtrlC
  BY <1>11 DEF CtrlC, At
<1>12. CASE Abort
  BY <1>12 DEF Abort, At
<1>13. CASE HandlePoisoned
  BY <1>13 DEF HandlePoisoned, At
<1>14. CASE PoisonWallet
  BY <1>14 DEF PoisonWallet
<1>15. CASE PoisonLdk
  BY <1>15 DEF PoisonLdk
<1>16. CASE UNCHANGED vars
  BY <1>16 DEF vars
<1>17. QED
  BY <1>1, <1>2, <1>3, <1>4, <1>5, <1>6, <1>7, <1>8, <1>9, <1>10,
     <1>11, <1>12, <1>13, <1>14, <1>15, <1>16 DEF Next

\* A command that only reads has no effect.
LEMMA NextEffectsChange ==
  TypeOK /\ EffectsChange /\ [Next]_vars => EffectsChange'
<1> SUFFICES ASSUME TypeOK, EffectsChange, [Next]_vars PROVE EffectsChange'
  OBVIOUS
<1> USE ServerAssumption
    DEF TypeOK, EffectsChange, Effects
<1>1. ASSUME NEW k \in Clients, Connect(k) PROVE EffectsChange'
  BY <1>1 DEF Connect, At, Moves
<1>2. ASSUME NEW k \in Clients, WriteRequest(k) PROVE EffectsChange'
  BY <1>2 DEF WriteRequest, At, Moves, Open
<1>3. ASSUME NEW k \in Clients, ReadReply(k) PROVE EffectsChange'
  BY <1>3 DEF ReadReply, At, Moves, Open
<1>4. ASSUME NEW k \in Clients, Kill(k) PROVE EffectsChange'
  BY <1>4 DEF Kill, At, Moves
<1>5. CASE Accept
  BY <1>5 DEF Accept, At
<1>6. CASE ReadRequest
  BY <1>6 DEF ReadRequest, At
<1>7. CASE Handle
  BY <1>7 DEF Handle, At
<1>8. CASE HandleError
  BY <1>8 DEF HandleError, At
<1>9. CASE WriteReply
  BY <1>9 DEF WriteReply, At
<1>10. CASE Cancelled
  BY <1>10 DEF Cancelled, At
<1>11. CASE CtrlC
  BY <1>11 DEF CtrlC, At
<1>12. CASE Abort
  BY <1>12 DEF Abort, At
<1>13. CASE HandlePoisoned
  BY <1>13 DEF HandlePoisoned, At
<1>14. CASE PoisonWallet
  BY <1>14 DEF PoisonWallet
<1>15. CASE PoisonLdk
  BY <1>15 DEF PoisonLdk
<1>16. CASE UNCHANGED vars
  BY <1>16 DEF vars
<1>17. QED
  BY <1>1, <1>2, <1>3, <1>4, <1>5, <1>6, <1>7, <1>8, <1>9, <1>10,
     <1>11, <1>12, <1>13, <1>14, <1>15, <1>16 DEF Next

\* The answer of a command that changes something fits into the buffer.
LEMMA NextAnswered ==
  TypeOK /\ Places /\ EffectsChange /\ Answered /\ [Next]_vars => Answered'
<1> SUFFICES ASSUME TypeOK, Places, EffectsChange, Answered, [Next]_vars
             PROVE  Answered'
  OBVIOUS
<1> USE ServerAssumption
    DEF TypeOK, EffectsChange, Effects, Answered
<1>1. ASSUME NEW k \in Clients, Connect(k) PROVE Answered'
  BY <1>1 DEF Connect, At, Moves
<1>2. ASSUME NEW k \in Clients, WriteRequest(k) PROVE Answered'
  BY <1>2 DEF WriteRequest, At, Moves, Open
<1>3. ASSUME NEW k \in Clients, ReadReply(k) PROVE Answered'
  BY <1>3 DEF ReadReply, At, Moves, Open
<1>4. ASSUME NEW k \in Clients, Kill(k) PROVE Answered'
  BY <1>4 DEF Kill, At, Moves
<1>5. CASE Accept
  BY <1>5 DEF Accept, At
<1>6. CASE ReadRequest
  BY <1>6 DEF ReadRequest, At
<1>7. CASE Handle
  BY <1>7 DEF Handle, At
<1>8. CASE HandleError
  BY <1>8 DEF HandleError, At
<1>9. CASE WriteReply
  <2>1. server.c \in Clients /\ reply[server.c] = "none"
    BY <1>9 DEF WriteReply, Places, Waits
  <2>2. /\ UNCHANGED <<client, request, effects, main>>
        /\ server'.pc \in {"dead", "accept"}
        /\ \/ client[server.c] = "killed" /\ UNCHANGED reply
           \/ \E r \in {"whole", "cut", "error"} :
                /\ r = "error" <=> server.pc = "refuse"
                /\ r = "cut" => request[server.c].cmd = "list_channels"
                /\ reply' = [reply EXCEPT ![server.c] = r]
    BY <1>9 DEF WriteReply, At
  <2>3. \A c \in effects : c \in Clients
    BY DEF TypeOK
  <2>4. SUFFICES ASSUME NEW c \in effects
                 PROVE  \/ reply'[c] = "whole"
                        \/ /\ reply'[c] = "error"
                           /\ request[c].cmd = "send_payment"
                        \/ client[c] = "killed"
                        \/ main # "running"
    BY <2>2
  <2>5. CASE c # server.c
    BY <2>2, <2>3, <2>5
  <2>6. CASE c = server.c
    BY <2>1, <2>2, <2>3, <2>6
  <2>7. QED
    BY <2>5, <2>6
<1>10. CASE Cancelled
  BY <1>10 DEF Cancelled, At
<1>11. CASE CtrlC
  BY <1>11 DEF CtrlC, At
<1>12. CASE Abort
  BY <1>12 DEF Abort, At
<1>13. CASE HandlePoisoned
  BY <1>13 DEF HandlePoisoned, At
<1>14. CASE PoisonWallet
  BY <1>14 DEF PoisonWallet
<1>15. CASE PoisonLdk
  BY <1>15 DEF PoisonLdk
<1>16. CASE UNCHANGED vars
  BY <1>16 DEF vars
<1>17. QED
  BY <1>1, <1>2, <1>3, <1>4, <1>5, <1>6, <1>7, <1>8, <1>9, <1>10,
     <1>11, <1>12, <1>13, <1>14, <1>15, <1>16 DEF Next

\* A connection leaves the backlog once, so its request is carried out once.
LEMMA NextOnce ==
  TypeOK /\ Places /\ Served /\ Once /\ [Next]_vars => Once'
<1> SUFFICES ASSUME TypeOK, Places, Served, Once, [Next]_vars PROVE Once'
  OBVIOUS
<1> USE ServerAssumption
    DEF TypeOK, Places, Served, Once, Waits, Listening
<1>1. ASSUME NEW k \in Clients, Connect(k) PROVE Once'
  <2>1. k \notin effects /\ UNCHANGED <<request, server, reply, effects>>
    BY <1>1 DEF Connect
  <2>2. CASE UNCHANGED queue
    BY <2>1, <2>2
  <2>3. CASE queue' = Append(queue, k)
    <3>1. /\ Len(queue) \in Nat /\ Len(queue') = Len(queue) + 1
          /\ \A i \in 1..Len(queue) : queue'[i] = queue[i]
          /\ queue'[Len(queue')] = k
      BY <2>3
    <3>2. \A i \in 1..Len(queue') : i \in 1..Len(queue) \/ i = Len(queue')
      BY <3>1
    <3>3. QED
      BY <2>1, <3>1, <3>2
  <2>4. QED
    BY <1>1, <2>2, <2>3 DEF Connect
<1>2. ASSUME NEW k \in Clients, WriteRequest(k) PROVE Once'
  BY <1>2 DEF WriteRequest
<1>3. ASSUME NEW k \in Clients, ReadReply(k) PROVE Once'
  BY <1>3 DEF ReadReply
<1>4. ASSUME NEW k \in Clients, Kill(k) PROVE Once'
  BY <1>4 DEF Kill
<1>5. CASE Accept
  BY <1>5 DEF Accept, At
<1>6. CASE ReadRequest
  BY <1>6 DEF ReadRequest, At
<1>7. CASE Handle
  BY <1>7 DEF Handle, At
<1>8. CASE HandleError
  BY <1>8 DEF HandleError, At
<1>9. CASE WriteReply
  BY <1>9 DEF WriteReply, At
<1>10. CASE Cancelled
  BY <1>10 DEF Cancelled, At
<1>11. CASE CtrlC
  BY <1>11 DEF CtrlC
<1>12. CASE Abort
  BY <1>12 DEF Abort, At
<1>13. CASE HandlePoisoned
  BY <1>13 DEF HandlePoisoned, At
<1>14. CASE PoisonWallet
  BY <1>14 DEF PoisonWallet
<1>15. CASE PoisonLdk
  BY <1>15 DEF PoisonLdk
<1>16. CASE UNCHANGED vars
  BY <1>16 DEF vars
<1>17. QED
  BY <1>1, <1>2, <1>3, <1>4, <1>5, <1>6, <1>7, <1>8, <1>9, <1>10,
     <1>11, <1>12, <1>13, <1>14, <1>15, <1>16 DEF Next

\* lncli fails where there is no answer, and is refused where it is an error;
\* then nothing was done, or a payment.
LEMMA NextFailed ==
  ServerInv /\ [Next]_vars => FailedMeansNotDone'
<1> SUFFICES ASSUME ServerInv, [Next]_vars PROVE FailedMeansNotDone'
  OBVIOUS
<1> USE ServerAssumption
    DEF ServerInv, TypeOK, Places, Served, EffectsChange, Effects, Answered,
        FailedMeansNotDone, Waits, Listening
<1>1. ASSUME NEW k \in Clients, Connect(k) PROVE FailedMeansNotDone'
  BY <1>1 DEF Connect, At, Moves
<1>2. ASSUME NEW k \in Clients, WriteRequest(k) PROVE FailedMeansNotDone'
  BY <1>2 DEF WriteRequest, At, Moves, Open
<1>3. ASSUME NEW k \in Clients, ReadReply(k) PROVE FailedMeansNotDone'
  <2>1. /\ UNCHANGED <<request, effects, main>>
        /\ client[k] = "waiting"
        /\ reply[k] # "none" \/ ~Open(k)
        /\ \A c \in Clients \ {k} : client'[c] = client[c]
        /\ \/ reply[k] = "whole" /\ client'[k] = "answered"
           \/ reply[k] = "error" /\ client'[k] = "refused"
           \/ reply[k] \in {"none", "cut"} /\ client'[k] = "failed"
    BY <1>3 DEF ReadReply, Moves
  <2>2. \A c \in effects : c \in Clients
    OBVIOUS
  <2>3. ASSUME k \in effects, reply[k] \in {"none", "cut"}
        PROVE  main # "running"
    <3>1. server.c = k => Open(k) /\ reply[k] = "none"
      BY <2>3 DEF Open
    <3>2. QED
      BY <2>1, <2>3, <3>1
  <2>4. ASSUME k \in effects, reply[k] = "error"
        PROVE  request[k].cmd = "send_payment"
    BY <2>4 DEF Once
  <2>5. QED
    BY <2>1, <2>2, <2>3, <2>4
<1>4. ASSUME NEW k \in Clients, Kill(k) PROVE FailedMeansNotDone'
  BY <1>4 DEF Kill, At, Moves
<1>5. CASE Accept
  BY <1>5 DEF Accept, At
<1>6. CASE ReadRequest
  BY <1>6 DEF ReadRequest, At
<1>7. CASE Handle
  BY <1>7 DEF Handle, At
<1>8. CASE HandleError
  BY <1>8 DEF HandleError, At
<1>9. CASE WriteReply
  BY <1>9 DEF WriteReply, At
<1>10. CASE Cancelled
  BY <1>10 DEF Cancelled, At
<1>11. CASE CtrlC
  BY <1>11 DEF CtrlC, At
<1>12. CASE Abort
  BY <1>12 DEF Abort, At
<1>13. CASE HandlePoisoned
  BY <1>13 DEF HandlePoisoned, At
<1>14. CASE PoisonWallet
  BY <1>14 DEF PoisonWallet
<1>15. CASE PoisonLdk
  BY <1>15 DEF PoisonLdk
<1>16. CASE UNCHANGED vars
  BY <1>16 DEF vars
<1>17. QED
  BY <1>1, <1>2, <1>3, <1>4, <1>5, <1>6, <1>7, <1>8, <1>9, <1>10,
     <1>11, <1>12, <1>13, <1>14, <1>15, <1>16 DEF Next

\* The unwraps of start_server, one by one.
LEMMA NextDies ==
  TypeOK /\ Served /\ DiesOnlyOf /\ [Next]_vars => DiesOnlyOf'
<1> SUFFICES ASSUME TypeOK, Served, DiesOnlyOf, [Next]_vars PROVE DiesOnlyOf'
  OBVIOUS
<1> USE ServerAssumption
    DEF TypeOK, Served, DiesOnlyOf, Requests, Silence
<1>1. ASSUME NEW k \in Clients, Connect(k) PROVE DiesOnlyOf'
  BY <1>1 DEF Connect, At, Moves
<1>2. ASSUME NEW k \in Clients, WriteRequest(k) PROVE DiesOnlyOf'
  BY <1>2 DEF WriteRequest, At, Moves, Open
<1>3. ASSUME NEW k \in Clients, ReadReply(k) PROVE DiesOnlyOf'
  BY <1>3 DEF ReadReply, At, Moves, Open
<1>4. ASSUME NEW k \in Clients, Kill(k) PROVE DiesOnlyOf'
  BY <1>4 DEF Kill, At, Moves
<1>5. CASE Accept
  BY <1>5 DEF Accept, At
<1>6. CASE ReadRequest
  BY <1>6 DEF ReadRequest, At
<1>7. CASE Handle
  BY <1>7 DEF Handle, At
<1>8. CASE HandleError
  BY <1>8 DEF HandleError, At
<1>9. CASE WriteReply
  BY <1>9 DEF WriteReply, At
<1>10. CASE Cancelled
  BY <1>10 DEF Cancelled, At
<1>11. CASE CtrlC
  BY <1>11 DEF CtrlC, At
<1>12. CASE Abort
  BY <1>12 DEF Abort, At
<1>13. CASE HandlePoisoned
  BY <1>13 DEF HandlePoisoned, At
<1>14. CASE PoisonWallet
  BY <1>14 DEF PoisonWallet
<1>15. CASE PoisonLdk
  BY <1>15 DEF PoisonLdk
<1>16. CASE UNCHANGED vars
  BY <1>16 DEF vars
<1>17. QED
  BY <1>1, <1>2, <1>3, <1>4, <1>5, <1>6, <1>7, <1>8, <1>9, <1>10,
     <1>11, <1>12, <1>13, <1>14, <1>15, <1>16 DEF Next

-----------------------------------------------------------------------------
(* The theorems.                                                           *)

\* The inductive invariant holds in every reachable state.
THEOREM ServerInvariance == Spec => []ServerInv
<1>1. Init => ServerInv
  <2> SUFFICES ASSUME Init PROVE ServerInv
    OBVIOUS
  <2>1. TypeOK /\ Places
    BY ServerAssumption DEF Init, TypeOK, Places, At
  <2>2. /\ Served /\ EffectsChange /\ Answered /\ Once
        /\ FailedMeansNotDone /\ DiesOnlyOf
    BY DEF Init, At, Served, EffectsChange, Answered, Once,
           FailedMeansNotDone, DiesOnlyOf
  <2>3. QED
    BY <2>1, <2>2 DEF ServerInv
<1>2. ServerInv /\ [Next]_vars => ServerInv'
  BY NextTypes, NextPlaces, NextServed, NextEffectsChange, NextAnswered,
     NextOnce, NextFailed, NextDies
     DEF ServerInv
<1>3. QED
  BY <1>1, <1>2, PTL DEF Spec

\* Type correctness of clients and server, for any number of clients.
THEOREM ServerTypes == Spec => []TypeOK
<1>1. ServerInv => TypeOK
  BY DEF ServerInv
<1>2. QED
  BY <1>1, ServerInvariance, PTL

\* A command that seemed to fail, because lncli panicked or the answer was an
\* error, did nothing to the node, whatever the server died of, unless the
\* node was being stopped or the command was a payment whose record could not
\* be written.
THEOREM RetryIsSafe == Spec => []FailedMeansNotDone
<1>1. ServerInv => FailedMeansNotDone
  BY DEF ServerInv
<1>2. QED
  BY <1>1, ServerInvariance, PTL

\* The unwraps that can end the server task are those DiesOnlyOf names.
THEOREM DeathsExplained == Spec => []DiesOnlyOf
<1>1. ServerInv => DiesOnlyOf
  BY DEF ServerInv
<1>2. QED
  BY <1>1, ServerInvariance, PTL

=============================================================================
