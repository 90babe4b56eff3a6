-------------------------- MODULE PaymentsProofs ---------------------------
(***************************************************************************)
(* Proofs about OutboundPayments and, at the end, about InboundPayments,   *)
(* for any set of payment hashes and any bounds on attempts, file errors   *)
(* and crashes.                                                            *)
(***************************************************************************)
EXTENDS OutboundLedger, InboundPayments, TLAPS

\* ChannelManager's image on disk is a past state of the one in memory.
SavedIsPast ==
  \A h \in Hashes : /\ savedHandled[h] <= savedAttempts[h]
                    /\ savedHandled[h] <= handled[h]
                    /\ savedAttempts[h] <= attempts[h]
                    /\ handled[h] <= attempts[h]

\* An event is handled only once there is an outcome to report.
HandledIsResolved ==
  \A h \in Hashes : \A n \in 1..handled[h] :
    result[h][n] \in {"sent", "purged", "failed"}

\* The event the handler is working on is still there when it writes, and the
\* copy it holds is that of a record.
HandlerHasEvent ==
  handler.pc = "update" => HasEvent(handler.id) /\ handler.copy \in Payment

\* The handler writes where it read: no file of the store is ever removed.
RecordIsThere ==
  handler.pc = "update" => store[handler.id].status # "Absent"

\* A handler that read a success read one that happened.
CopyIsProven ==
  handler.pc = "update" =>
    /\ handler.copy.status = "Succeeded" => handler.copy.preimage
    /\ handler.copy.preimage => SentOnce(handler.id)

\* While the server has yet to store the record of an accepted payment, that
\* payment's outcome is either still to come or already counted as lost.
WindowIsLost ==
  server.pc = "add_payment" =>
    \/ handled[server.id] < attempts[server.id]
    \/ server.id \in lost

IndInv ==
  /\ TypeOK
  /\ SavedIsPast
  /\ HandledIsResolved
  /\ HandlerHasEvent
  /\ CopyIsProven
  /\ WindowIsLost
  /\ SuccessIsProven
  /\ OutcomeRecorded

-----------------------------------------------------------------------------
(* Lemmas on the operators of the model.                                   *)

\* The records the program writes are Payments, and their fields are as set.
LEMMA NewPaymentType ==
  /\ NewPayment("Outbound") \in StoredPayment
  /\ NewPayment("Outbound").status = "Pending"
  /\ NewPayment("Outbound").preimage = FALSE
BY DEF NewPayment, StoredPayment, Payment, PaymentDirection, PaymentStatus

\* handle_event changes status and preimage of the record it read and leaves
\* the rest: what it writes is a Payment if what it read was one.
LEMMA OutcomeType ==
  ASSUME NEW kind \in {"sent", "failed"}, NEW payment \in Payment
  PROVE  /\ Outcome(kind, payment) \in StoredPayment
         /\ Outcome(kind, payment).status = StatusOf(kind)
         /\ Outcome(kind, payment).preimage
              <=> (kind = "sent" \/ payment.preimage)
BY DEF Outcome, StoredPayment, Payment, PaymentDirection, PaymentStatus,
       NoPayment, StatusOf

\* An empty store is well typed and claims no success.
LEMMA EmptyStoreType ==
  /\ EmptyStore(Hashes) \in [Hashes -> StoredPayment]
  /\ \A h \in Hashes : /\ EmptyStore(Hashes)[h].status = "Absent"
                       /\ EmptyStore(Hashes)[h].preimage = FALSE
BY DEF EmptyStore, StoredPayment, NoPayment

-----------------------------------------------------------------------------
(* Type correctness.                                                       *)

\* Init establishes the types.
LEMMA InitTypeOK == Init => TypeOK
BY EmptyStoreType, TaskAssumption, BoundAssumption
   DEF Init, TypeOK, ServerIdle, HandlerIdle, ServerState, HandlerState,
       StoredPayment, Results, Attempts

\* Every action preserves the types, given that the handler has an event
\* whenever it writes.
LEMMA NextTypeOK ==
  TypeOK /\ HandlerHasEvent /\ [Next]_vars => TypeOK'
<1> SUFFICES ASSUME TypeOK, HandlerHasEvent, [Next]_vars PROVE TypeOK'
  OBVIOUS
<1> USE TaskAssumption, BoundAssumption
<1>1. ASSUME NEW h \in Hashes, PayRejected(h) PROVE TypeOK'
  BY <1>1 DEF TypeOK, PayRejected, ServerIdle, ServerState, ldkVars, diskVars
<1>2. ASSUME NEW h \in Hashes, PayAccepted(h) PROVE TypeOK'
  BY <1>2 DEF TypeOK, PayAccepted, ServerState, diskVars, Attempts, Results
<1>3. CASE AddPayment
  BY <1>3, NewPaymentType
     DEF TypeOK, AddPayment, add_payment, ServerIdle, ServerState, ldkVars,
         diskVars
<1>4. CASE AddPaymentFails
  BY <1>4 DEF TypeOK, AddPaymentFails, ServerIdle, ServerState, ldkVars,
              diskVars
<1>5. ASSUME NEW h \in Hashes, Settle(h) \/ Fail(h) \/ Purge(h) PROVE TypeOK'
  <2>1. PICK r \in Results : result' = [result EXCEPT ![h][attempts[h]] = r]
    BY <1>5 DEF Settle, Fail, Resolve, Purge, Results
  <2>2. result' \in [Hashes -> [Attempts -> Results]]
    BY <2>1 DEF TypeOK
  <2>3. QED
    BY <1>5, <2>2 DEF TypeOK, Settle, Fail, Resolve, Purge, diskVars
<1>6. CASE PersistManager
  BY <1>6 DEF TypeOK, PersistManager, ldkVars
<1>7. ASSUME NEW h \in Hashes, HandlerGet(h) PROVE TypeOK'
  BY <1>7
     DEF TypeOK, HandlerGet, get_payment, HandlerState, ldkVars, diskVars
<1>8. ASSUME NEW h \in Hashes, HandlerNotFound(h) PROVE TypeOK'
  BY <1>8 DEF TypeOK, HandlerNotFound, EventDone, HasEvent, HandlerIdle,
              HandlerState, StoredPayment, ldkVars, diskVars
<1>9. CASE HandlerUpdate
  BY <1>9, OutcomeType
     DEF TypeOK, HandlerUpdate, update_payment, add_payment, EventDone,
         HandlerHasEvent, HasEvent, NextOutcome, HandlerIdle, HandlerState,
         StoredPayment, ldkVars, diskVars
<1>10. CASE HandlerUpdateFails
  BY <1>10 DEF TypeOK, HandlerUpdateFails, EventDone, HandlerHasEvent,
     HasEvent,
               HandlerIdle, HandlerState, StoredPayment, ldkVars, diskVars
<1>11. CASE CrashRestart
  BY <1>11 DEF TypeOK, CrashRestart, ServerIdle, ServerState, HandlerIdle,
               HandlerState, StoredPayment, Attempts, Results
<1>12. CASE UNCHANGED vars
  BY <1>12 DEF TypeOK, vars
<1>13. QED
  BY <1>1, <1>2, <1>3, <1>4, <1>5, <1>6, <1>7, <1>8, <1>9, <1>10, <1>11,
     <1>12 DEF Next


-----------------------------------------------------------------------------
(* The conjuncts of the inductive invariant.                               *)

\* Persisting copies the present, a crash returns to what was persisted.
LEMMA NextSavedIsPast ==
  IndInv /\ [Next]_vars => SavedIsPast'
<1> SUFFICES ASSUME IndInv, [Next]_vars PROVE SavedIsPast'
  OBVIOUS
<1> USE TaskAssumption, BoundAssumption DEF IndInv, TypeOK, SavedIsPast,
   HandlerHasEvent, HasEvent
<1>1. ASSUME NEW h \in Hashes, PayRejected(h) PROVE SavedIsPast'
  BY <1>1 DEF PayRejected, ServerIdle, ldkVars, diskVars
<1>2. ASSUME NEW h \in Hashes, PayAccepted(h) PROVE SavedIsPast'
  BY <1>2 DEF PayAccepted, IsDuplicate, LastResult, diskVars, Attempts
<1>3. CASE AddPayment
  BY <1>3 DEF AddPayment, ServerIdle, ldkVars, diskVars
<1>4. CASE AddPaymentFails
  BY <1>4 DEF AddPaymentFails, ServerIdle, ldkVars, diskVars
<1>5. ASSUME NEW h \in Hashes, Settle(h) PROVE SavedIsPast'
  BY <1>5 DEF Settle, Resolve, LastResult, diskVars
<1>6. ASSUME NEW h \in Hashes, Fail(h) PROVE SavedIsPast'
  BY <1>6 DEF Fail, Resolve, LastResult, diskVars
<1>7. ASSUME NEW h \in Hashes, Purge(h) PROVE SavedIsPast'
  BY <1>7 DEF Purge, LastResult, diskVars
<1>8. CASE PersistManager
  BY <1>8 DEF PersistManager, ldkVars
<1>9. ASSUME NEW h \in Hashes, HandlerGet(h) PROVE SavedIsPast'
  BY <1>9 DEF HandlerGet, ldkVars, diskVars
<1>10. ASSUME NEW h \in Hashes, HandlerNotFound(h) PROVE SavedIsPast'
  BY <1>10 DEF HandlerNotFound, EventDone, HandlerIdle, HasEvent, ldkVars,
     diskVars
<1>11. CASE HandlerUpdate
  BY <1>11 DEF HandlerUpdate, EventDone, HandlerIdle, ldkVars, diskVars
<1>12. CASE HandlerUpdateFails
  BY <1>12 DEF HandlerUpdateFails, EventDone, HandlerIdle, ldkVars, diskVars
<1>13. CASE CrashRestart
  BY <1>13 DEF CrashRestart, Recovered, ServerIdle, HandlerIdle
<1>14. CASE UNCHANGED vars
  BY <1>14 DEF vars
<1>15. QED
  BY <1>1, <1>2, <1>3, <1>4, <1>5, <1>6, <1>7, <1>8, <1>9, <1>10, <1>11,
     <1>12, <1>13, <1>14 DEF Next

\* No action of server or LDK takes away the event that is being handled.
LEMMA NextHandlerHasEvent ==
  IndInv /\ [Next]_vars => HandlerHasEvent'
<1> SUFFICES ASSUME IndInv, [Next]_vars PROVE HandlerHasEvent'
  OBVIOUS
<1> USE TaskAssumption, BoundAssumption DEF IndInv, TypeOK, SavedIsPast,
   HandlerHasEvent, HasEvent, NextOutcome
<1>1. ASSUME NEW h \in Hashes, PayRejected(h) PROVE HandlerHasEvent'
  BY <1>1 DEF PayRejected, ServerIdle, ldkVars, diskVars, get_payment,
     StoredPayment, NoPayment
<1>2. ASSUME NEW h \in Hashes, PayAccepted(h) PROVE HandlerHasEvent'
  BY <1>2 DEF PayAccepted, IsDuplicate, LastResult, diskVars, Attempts,
     get_payment, StoredPayment, NoPayment
<1>3. CASE AddPayment
  BY <1>3 DEF AddPayment, ServerIdle, ldkVars, diskVars, get_payment,
     StoredPayment, NoPayment
<1>4. CASE AddPaymentFails
  BY <1>4 DEF AddPaymentFails, ServerIdle, ldkVars, diskVars, get_payment,
     StoredPayment, NoPayment
<1>5. ASSUME NEW h \in Hashes, Settle(h) PROVE HandlerHasEvent'
  BY <1>5 DEF Settle, Resolve, LastResult, diskVars, get_payment,
     StoredPayment, NoPayment
<1>6. ASSUME NEW h \in Hashes, Fail(h) PROVE HandlerHasEvent'
  BY <1>6
     DEF Fail, Resolve, LastResult, diskVars, get_payment, StoredPayment,
         NoPayment
<1>7. ASSUME NEW h \in Hashes, Purge(h) PROVE HandlerHasEvent'
  BY <1>7 DEF Purge, LastResult, diskVars, get_payment, StoredPayment,
     NoPayment
<1>8. CASE PersistManager
  BY <1>8 DEF PersistManager, ldkVars, get_payment, StoredPayment, NoPayment
<1>9. ASSUME NEW h \in Hashes, HandlerGet(h) PROVE HandlerHasEvent'
  BY <1>9 DEF HandlerGet, ldkVars, diskVars, get_payment, StoredPayment,
     NoPayment
<1>10. ASSUME NEW h \in Hashes, HandlerNotFound(h) PROVE HandlerHasEvent'
  BY <1>10 DEF HandlerNotFound, EventDone, HandlerIdle, HasEvent, ldkVars,
     diskVars, get_payment, StoredPayment, NoPayment
<1>11. CASE HandlerUpdate
  BY <1>11 DEF HandlerUpdate, EventDone, HandlerIdle, ldkVars, diskVars,
     get_payment, StoredPayment, NoPayment
<1>12. CASE HandlerUpdateFails
  BY <1>12 DEF HandlerUpdateFails, EventDone, HandlerIdle, ldkVars, diskVars,
     get_payment, StoredPayment, NoPayment
<1>13. CASE CrashRestart
  BY <1>13 DEF CrashRestart, Recovered, ServerIdle, HandlerIdle, get_payment,
     StoredPayment, NoPayment
<1>14. CASE UNCHANGED vars
  BY <1>14 DEF vars, get_payment, StoredPayment, NoPayment
<1>15. QED
  BY <1>1, <1>2, <1>3, <1>4, <1>5, <1>6, <1>7, <1>8, <1>9, <1>10, <1>11,
     <1>12, <1>13, <1>14 DEF Next

\* That an invoice was paid is never taken back, a crash included.
LEMMA SentIsStable ==
  IndInv /\ [Next]_vars => \A i \in Hashes : SentOnce(i) => SentOnce(i)'
<1> SUFFICES ASSUME IndInv, [Next]_vars
             PROVE  \A i \in Hashes : SentOnce(i) => SentOnce(i)'
  OBVIOUS
<1> USE TaskAssumption, BoundAssumption
       DEF IndInv, TypeOK, SavedIsPast, SentOnce
<1>1. ASSUME NEW h \in Hashes, PayRejected(h)
      PROVE  \A i \in Hashes : SentOnce(i) => SentOnce(i)'
  BY <1>1 DEF PayRejected, ServerIdle, ldkVars, diskVars
<1>2. ASSUME NEW h \in Hashes, PayAccepted(h)
      PROVE  \A i \in Hashes : SentOnce(i) => SentOnce(i)'
  BY <1>2 DEF PayAccepted, IsDuplicate, LastResult, Attempts, diskVars
<1>3. CASE AddPayment
  BY <1>3 DEF AddPayment, ServerIdle, add_payment, ldkVars, diskVars
<1>4. CASE AddPaymentFails
  BY <1>4 DEF AddPaymentFails, ServerIdle, ldkVars, diskVars
<1>5. ASSUME NEW h \in Hashes, Settle(h)
      PROVE  \A i \in Hashes : SentOnce(i) => SentOnce(i)'
  BY <1>5 DEF Settle, Resolve, LastResult, diskVars
<1>6. ASSUME NEW h \in Hashes, Fail(h)
      PROVE  \A i \in Hashes : SentOnce(i) => SentOnce(i)'
  BY <1>6 DEF Fail, Resolve, LastResult, diskVars
<1>7. ASSUME NEW h \in Hashes, Purge(h)
      PROVE  \A i \in Hashes : SentOnce(i) => SentOnce(i)'
  BY <1>7 DEF Purge, LastResult, diskVars
<1>8. CASE PersistManager
  BY <1>8 DEF PersistManager, ldkVars
<1>9. ASSUME NEW h \in Hashes, HandlerGet(h)
      PROVE  \A i \in Hashes : SentOnce(i) => SentOnce(i)'
  BY <1>9 DEF HandlerGet, get_payment, ldkVars, diskVars
<1>10. ASSUME NEW h \in Hashes, HandlerNotFound(h)
      PROVE  \A i \in Hashes : SentOnce(i) => SentOnce(i)'
  BY <1>10 DEF HandlerNotFound, EventDone, ldkVars
<1>11. CASE HandlerUpdate
  BY <1>11 DEF HandlerUpdate, EventDone, HandlerIdle, update_payment,
     add_payment, ldkVars, diskVars
<1>12. CASE HandlerUpdateFails
  BY <1>12 DEF HandlerUpdateFails, EventDone, HandlerIdle, ldkVars, diskVars
<1>13. CASE CrashRestart
  <2> SUFFICES ASSUME NEW i \in Hashes, SentOnce(i) PROVE SentOnce(i)'
    OBVIOUS
  <2>1. PICK n \in 1..attempts[i] : result[i][n] \in {"sent", "purged"}
    OBVIOUS
  <2>2. n <= attempts'[i] /\ attempts'[i] \in Nat
    BY <1>13, <2>1 DEF CrashRestart, Recovered
  <2>3. result'[i][n] = result[i][n]
    BY <1>13, <2>1, <2>2 DEF CrashRestart, Attempts
  <2>4. QED
    BY <2>1, <2>2, <2>3
<1>14. CASE UNCHANGED vars
  BY <1>14 DEF vars
<1>15. QED
  BY <1>1, <1>2, <1>3, <1>4, <1>5, <1>6, <1>7, <1>8, <1>9, <1>10, <1>11,
     <1>12, <1>13, <1>14 DEF Next

\* A copy is read from a proven record, and stays proven.
LEMMA NextCopyIsProven ==
  IndInv /\ [Next]_vars => CopyIsProven'
<1> SUFFICES ASSUME IndInv, [Next]_vars PROVE CopyIsProven'
  OBVIOUS
<1> USE TaskAssumption, BoundAssumption
       DEF IndInv, TypeOK, CopyIsProven, SuccessIsProven
<1>1. ASSUME NEW h \in Hashes, PayRejected(h) PROVE CopyIsProven'
  BY <1>1, SentIsStable DEF PayRejected, ServerIdle, ldkVars, diskVars
<1>2. ASSUME NEW h \in Hashes, PayAccepted(h) PROVE CopyIsProven'
  BY <1>2, SentIsStable DEF PayAccepted, IsDuplicate, LastResult, Attempts,
     diskVars
<1>3. CASE AddPayment
  BY <1>3, SentIsStable DEF AddPayment, ServerIdle, add_payment, ldkVars,
     diskVars
<1>4. CASE AddPaymentFails
  BY <1>4, SentIsStable DEF AddPaymentFails, ServerIdle, ldkVars, diskVars
<1>5. ASSUME NEW h \in Hashes, Settle(h) PROVE CopyIsProven'
  BY <1>5, SentIsStable DEF Settle, Resolve, LastResult, diskVars
<1>6. ASSUME NEW h \in Hashes, Fail(h) PROVE CopyIsProven'
  BY <1>6, SentIsStable DEF Fail, Resolve, LastResult, diskVars
<1>7. ASSUME NEW h \in Hashes, Purge(h) PROVE CopyIsProven'
  BY <1>7, SentIsStable DEF Purge, LastResult, diskVars
<1>8. CASE PersistManager
  BY <1>8, SentIsStable DEF PersistManager, ldkVars
<1>9. ASSUME NEW h \in Hashes, HandlerGet(h) PROVE CopyIsProven'
  BY <1>9, SentIsStable DEF HandlerGet, get_payment, ldkVars, diskVars
<1>10. ASSUME NEW h \in Hashes, HandlerNotFound(h) PROVE CopyIsProven'
  BY <1>10, SentIsStable DEF HandlerNotFound, EventDone, HandlerIdle,
     HasEvent, ldkVars, diskVars
<1>11. CASE HandlerUpdate
  BY <1>11, SentIsStable DEF HandlerUpdate, EventDone, HandlerIdle,
     update_payment, add_payment, ldkVars, diskVars
<1>12. CASE HandlerUpdateFails
  BY <1>12, SentIsStable DEF HandlerUpdateFails, EventDone, HandlerIdle,
     ldkVars, diskVars
<1>13. CASE CrashRestart
  BY <1>13, SentIsStable DEF CrashRestart, Recovered, ServerIdle, HandlerIdle
<1>14. CASE UNCHANGED vars
  BY <1>14, SentIsStable DEF vars
<1>15. QED
  BY <1>1, <1>2, <1>3, <1>4, <1>5, <1>6, <1>7, <1>8, <1>9, <1>10, <1>11,
     <1>12, <1>13, <1>14 DEF Next

\* The record of an accepted attempt is stored before its outcome, or the
\* outcome is lost.
LEMMA NextWindowIsLost ==
  IndInv /\ [Next]_vars => WindowIsLost'
<1> SUFFICES ASSUME IndInv, [Next]_vars PROVE WindowIsLost'
  OBVIOUS
<1> USE TaskAssumption, BoundAssumption
       DEF IndInv, TypeOK, SavedIsPast, WindowIsLost, HandlerHasEvent, HasEvent
<1>1. ASSUME NEW h \in Hashes, PayRejected(h) PROVE WindowIsLost'
  BY <1>1 DEF PayRejected, ServerIdle, ldkVars, diskVars
<1>2. ASSUME NEW h \in Hashes, PayAccepted(h) PROVE WindowIsLost'
  BY <1>2 DEF PayAccepted, IsDuplicate, LastResult, Attempts, diskVars
<1>3. CASE AddPayment
  BY <1>3 DEF AddPayment, ServerIdle, add_payment, ldkVars, diskVars
<1>4. CASE AddPaymentFails
  BY <1>4 DEF AddPaymentFails, ServerIdle, ldkVars, diskVars
<1>5. ASSUME NEW h \in Hashes, Settle(h) PROVE WindowIsLost'
  BY <1>5 DEF Settle, Resolve, LastResult, diskVars
<1>6. ASSUME NEW h \in Hashes, Fail(h) PROVE WindowIsLost'
  BY <1>6 DEF Fail, Resolve, LastResult, diskVars
<1>7. ASSUME NEW h \in Hashes, Purge(h) PROVE WindowIsLost'
  BY <1>7 DEF Purge, LastResult, diskVars
<1>8. CASE PersistManager
  BY <1>8 DEF PersistManager, ldkVars
<1>9. ASSUME NEW h \in Hashes, HandlerGet(h) PROVE WindowIsLost'
  BY <1>9 DEF HandlerGet, get_payment, ldkVars, diskVars
<1>10. ASSUME NEW h \in Hashes, HandlerNotFound(h) PROVE WindowIsLost'
  <2>1. handled' = [handled EXCEPT ![h] = @ + 1] /\ UNCHANGED server
    BY <1>10 DEF HandlerNotFound, EventDone
  <2>2. attempts' = attempts /\ handled[h] < attempts[h]
    BY <1>10 DEF HandlerNotFound, ldkVars
  <2>3. h \in lost' \/ handled'[h] < attempts'[h]
    BY <1>10, <2>1, <2>2 DEF HandlerNotFound, EventDone
  <2>4. lost \subseteq lost'
    BY <1>10 DEF HandlerNotFound, EventDone
  <2>5. QED
    BY <2>1, <2>2, <2>3, <2>4
<1>11. CASE HandlerUpdate
  BY <1>11 DEF HandlerUpdate, EventDone, HandlerIdle, update_payment,
     add_payment, ldkVars, diskVars
<1>12. CASE HandlerUpdateFails
  BY <1>12 DEF HandlerUpdateFails, EventDone, HandlerIdle, ldkVars, diskVars
<1>13. CASE CrashRestart
  BY <1>13 DEF CrashRestart, Recovered, ServerIdle, HandlerIdle
<1>14. CASE UNCHANGED vars
  BY <1>14 DEF vars
<1>15. QED
  BY <1>1, <1>2, <1>3, <1>4, <1>5, <1>6, <1>7, <1>8, <1>9, <1>10, <1>11,
     <1>12, <1>13, <1>14 DEF Next

\* Writing Pending claims nothing; writing an outcome claims what LDK reported
\* or what the handler's copy already claimed.
LEMMA NextSuccessIsProven ==
  IndInv /\ [Next]_vars => SuccessIsProven'
<1> SUFFICES ASSUME IndInv, [Next]_vars PROVE SuccessIsProven'
  OBVIOUS
<1> USE TaskAssumption, BoundAssumption
       DEF IndInv, TypeOK, SuccessIsProven
<1>1. ASSUME NEW h \in Hashes, PayRejected(h) PROVE SuccessIsProven'
  BY <1>1, SentIsStable DEF PayRejected, ServerIdle, ldkVars, diskVars
<1>2. ASSUME NEW h \in Hashes, PayAccepted(h) PROVE SuccessIsProven'
  BY <1>2, SentIsStable DEF PayAccepted, IsDuplicate, LastResult, Attempts,
     diskVars
<1>3. CASE AddPayment
  BY <1>3, SentIsStable, NewPaymentType DEF AddPayment, ServerIdle,
     add_payment, ldkVars, diskVars
<1>4. CASE AddPaymentFails
  BY <1>4, SentIsStable DEF AddPaymentFails, ServerIdle, ldkVars, diskVars
<1>5. ASSUME NEW h \in Hashes, Settle(h) PROVE SuccessIsProven'
  BY <1>5, SentIsStable DEF Settle, Resolve, LastResult, diskVars
<1>6. ASSUME NEW h \in Hashes, Fail(h) PROVE SuccessIsProven'
  BY <1>6, SentIsStable DEF Fail, Resolve, LastResult, diskVars
<1>7. ASSUME NEW h \in Hashes, Purge(h) PROVE SuccessIsProven'
  BY <1>7, SentIsStable DEF Purge, LastResult, diskVars
<1>8. CASE PersistManager
  BY <1>8, SentIsStable DEF PersistManager, ldkVars
<1>9. ASSUME NEW h \in Hashes, HandlerGet(h) PROVE SuccessIsProven'
  BY <1>9, SentIsStable DEF HandlerGet, get_payment, ldkVars, diskVars
<1>10. ASSUME NEW h \in Hashes, HandlerNotFound(h) PROVE SuccessIsProven'
  BY <1>10, SentIsStable DEF HandlerNotFound, EventDone, HandlerIdle,
     HasEvent, ldkVars, diskVars
<1>11. CASE HandlerUpdate
  <2> DEFINE g == handler.id
  <2>1. /\ g \in Hashes
        /\ HasEvent(g)
        /\ NextOutcome(g) \in {"sent", "failed"}
        /\ handler.copy \in Payment
    BY <1>11 DEF HandlerUpdate, HandlerHasEvent, HasEvent
  <2>2. store' = [store EXCEPT ![g] = Outcome(NextOutcome(g), handler.copy)]
    BY <1>11 DEF HandlerUpdate, update_payment, add_payment
  <2>3. NextOutcome(g) = "sent" => SentOnce(g)
    <3>1. handled[g] + 1 \in 1..attempts[g]
      BY <2>1 DEF HasEvent
    <3>2. QED
      BY <3>1 DEF NextOutcome, SentOnce
  <2>4. /\ store'[g].status = "Succeeded" => store'[g].preimage
        /\ store'[g].preimage => SentOnce(g)
    BY <1>11, <2>1, <2>2, <2>3, OutcomeType
       DEF CopyIsProven, HandlerUpdate, StatusOf
  <2>5. ASSUME NEW i \in Hashes, i # g PROVE store'[i] = store[i]
    BY <2>2, <2>5
  <2>6. QED
    BY <2>1, <2>4, <2>5, SentIsStable
<1>12. CASE HandlerUpdateFails
  BY <1>12, SentIsStable DEF HandlerUpdateFails, EventDone, HandlerIdle,
     ldkVars, diskVars
<1>13. CASE CrashRestart
  BY <1>13, SentIsStable DEF CrashRestart, Recovered, ServerIdle, HandlerIdle
<1>14. CASE UNCHANGED vars
  BY <1>14, SentIsStable DEF vars
<1>15. QED
  BY <1>1, <1>2, <1>3, <1>4, <1>5, <1>6, <1>7, <1>8, <1>9, <1>10, <1>11,
     <1>12, <1>13, <1>14 DEF Next

\* An outcome once reported stays an outcome.
LEMMA NextHandledIsResolved ==
  IndInv /\ [Next]_vars => HandledIsResolved'
<1> SUFFICES ASSUME IndInv, [Next]_vars PROVE HandledIsResolved'
  OBVIOUS
<1> USE TaskAssumption, BoundAssumption
       DEF IndInv, TypeOK, SavedIsPast, HandledIsResolved,
           HandlerHasEvent, HasEvent, NextOutcome
<1>1. ASSUME NEW h \in Hashes, PayRejected(h) PROVE HandledIsResolved'
  BY <1>1 DEF PayRejected, ServerIdle, ldkVars, diskVars
<1>2. ASSUME NEW h \in Hashes, PayAccepted(h) PROVE HandledIsResolved'
  BY <1>2 DEF PayAccepted, IsDuplicate, LastResult, Attempts, diskVars
<1>3. CASE AddPayment
  BY <1>3 DEF AddPayment, ServerIdle, add_payment, ldkVars, diskVars
<1>4. CASE AddPaymentFails
  BY <1>4 DEF AddPaymentFails, ServerIdle, ldkVars, diskVars
<1>5. ASSUME NEW h \in Hashes, Settle(h) PROVE HandledIsResolved'
  BY <1>5 DEF Settle, Resolve, LastResult, diskVars
<1>6. ASSUME NEW h \in Hashes, Fail(h) PROVE HandledIsResolved'
  BY <1>6 DEF Fail, Resolve, LastResult, diskVars
<1>7. ASSUME NEW h \in Hashes, Purge(h) PROVE HandledIsResolved'
  BY <1>7 DEF Purge, LastResult, diskVars
<1>8. CASE PersistManager
  BY <1>8 DEF PersistManager, ldkVars
<1>9. ASSUME NEW h \in Hashes, HandlerGet(h) PROVE HandledIsResolved'
  BY <1>9 DEF HandlerGet, get_payment, ldkVars, diskVars
<1>10. ASSUME NEW h \in Hashes, HandlerNotFound(h) PROVE HandledIsResolved'
  BY <1>10 DEF HandlerNotFound, EventDone, HandlerIdle, HasEvent, ldkVars,
     diskVars
<1>11. CASE HandlerUpdate
  BY <1>11 DEF HandlerUpdate, EventDone, HandlerIdle, update_payment,
     add_payment, ldkVars, diskVars
<1>12. CASE HandlerUpdateFails
  BY <1>12 DEF HandlerUpdateFails, EventDone, HandlerIdle, ldkVars, diskVars
<1>13. CASE CrashRestart
  <2> SUFFICES ASSUME NEW i \in Hashes, NEW n \in 1..handled'[i]
               PROVE  result'[i][n] \in {"sent", "purged", "failed"}
    OBVIOUS
  <2>1. n \in 1..handled[i] /\ n <= savedHandled[i]
    BY <1>13 DEF CrashRestart
  <2>2. n <= attempts'[i] /\ n \in Attempts
    BY <1>13, <2>1 DEF CrashRestart, Recovered, Attempts
  <2>3. result'[i][n] = result[i][n]
    BY <1>13, <2>2 DEF CrashRestart, Attempts
  <2>4. QED
    BY <2>1, <2>3
<1>14. CASE UNCHANGED vars
  BY <1>14 DEF vars
<1>15. QED
  BY <1>1, <1>2, <1>3, <1>4, <1>5, <1>6, <1>7, <1>8, <1>9, <1>10, <1>11,
     <1>12, <1>13, <1>14 DEF Next

\* Only the handler brings a payment to rest, and then its record shows what
\* the handler wrote.
LEMMA NextOutcomeRecorded ==
  IndInv /\ [Next]_vars => OutcomeRecorded'
<1> SUFFICES ASSUME IndInv, [Next]_vars PROVE OutcomeRecorded'
  OBVIOUS
<1> USE TaskAssumption, BoundAssumption
       DEF IndInv, TypeOK, OutcomeRecorded, Quiescent, SavedIsPast,
           LastResult, StatusOf
<1>1. ASSUME NEW h \in Hashes, PayRejected(h) PROVE OutcomeRecorded'
  BY <1>1 DEF PayRejected, ServerIdle, ldkVars, diskVars
<1>2. ASSUME NEW h \in Hashes, PayAccepted(h) PROVE OutcomeRecorded'
  BY <1>2 DEF PayAccepted, IsDuplicate, LastResult, Attempts, diskVars
<1>3. CASE AddPayment
  <2> SUFFICES ASSUME NEW i \in Hashes, Quiescent(i)', i \notin lost'
               PROVE  (store[i].status = StatusOf(LastResult(i)))'
    BY DEF OutcomeRecorded
  <2>1. i # server.id
    BY <1>3 DEF AddPayment, WindowIsLost, ldkVars
  <2>2. store'[i] = store[i] /\ Quiescent(i)
    BY <1>3, <2>1 DEF AddPayment, add_payment, ServerIdle, ldkVars
  <2>3. QED
    BY <1>3, <2>2 DEF AddPayment, ldkVars
<1>4. CASE AddPaymentFails
  <2> SUFFICES ASSUME NEW i \in Hashes, Quiescent(i)', i \notin lost'
               PROVE  (store[i].status = StatusOf(LastResult(i)))'
    BY DEF OutcomeRecorded
  <2>1. i # server.id
    BY <1>4 DEF AddPaymentFails, WindowIsLost, ldkVars
  <2>2. QED
    BY <1>4, <2>1 DEF AddPaymentFails, ServerIdle, ldkVars
<1>5. ASSUME NEW h \in Hashes, Settle(h) PROVE OutcomeRecorded'
  BY <1>5 DEF Settle, Resolve, LastResult, diskVars
<1>6. ASSUME NEW h \in Hashes, Fail(h) PROVE OutcomeRecorded'
  <2>1. handled[h] # attempts[h]
    BY <1>6 DEF Fail, Resolve, HandledIsResolved
  <2>2. QED
    BY <1>6, <2>1 DEF Fail, Resolve, diskVars
<1>7. ASSUME NEW h \in Hashes, Purge(h) PROVE OutcomeRecorded'
  BY <1>7 DEF Purge, LastResult, diskVars
<1>8. CASE PersistManager
  BY <1>8 DEF PersistManager, ldkVars
<1>9. ASSUME NEW h \in Hashes, HandlerGet(h) PROVE OutcomeRecorded'
  BY <1>9 DEF HandlerGet, get_payment, ldkVars, diskVars
<1>10. ASSUME NEW h \in Hashes, HandlerNotFound(h) PROVE OutcomeRecorded'
  BY <1>10 DEF HandlerNotFound, EventDone, HandlerIdle, HasEvent, ldkVars,
     diskVars
<1>11. CASE HandlerUpdate
  <2>1. PICK g \in Hashes :
          /\ g = handler.id
          /\ HasEvent(g)
          /\ NextOutcome(g) \in {"sent", "failed"}
          /\ handler.copy \in Payment
    BY <1>11 DEF HandlerUpdate, HandlerHasEvent, HasEvent
  <2>2. store' = [store EXCEPT ![g] = Outcome(NextOutcome(g), handler.copy)]
    BY <1>11, <2>1 DEF HandlerUpdate, update_payment, add_payment
  <2>3. /\ handled' = [handled EXCEPT ![g] = @ + 1]
        /\ lost \subseteq lost'
        /\ UNCHANGED <<attempts, result, server>>
    BY <1>11, <2>1 DEF HandlerUpdate, EventDone, ldkVars
  <2>4. store'[g].status = StatusOf(NextOutcome(g))
    BY <2>1, <2>2, OutcomeType
  <2>5. Quiescent(g)' => LastResult(g)' = NextOutcome(g)
    <3>1. handled'[g] = handled[g] + 1 /\ attempts'[g] = attempts[g]
      BY <2>1, <2>3
    <3>2. QED
      BY <2>3, <3>1 DEF NextOutcome
  <2>6. ASSUME NEW i \in Hashes, i # g, Quiescent(i)', i \notin lost'
        PROVE  (store[i].status = StatusOf(LastResult(i)))'
    <3>1. store'[i] = store[i] /\ handled'[i] = handled[i]
      BY <2>2, <2>3, <2>6
    <3>2. QED
      BY <2>3, <2>6, <3>1
  <2>7. ASSUME Quiescent(g)'
        PROVE  (store[g].status = StatusOf(LastResult(g)))'
    BY <2>4, <2>5, <2>7
  <2>8. QED
    BY <2>6, <2>7
<1>12. CASE HandlerUpdateFails
  BY <1>12 DEF HandlerUpdateFails, EventDone, HandlerIdle, ldkVars, diskVars
<1>13. CASE CrashRestart
  <2> SUFFICES ASSUME NEW i \in Hashes, Quiescent(i)', i \notin lost'
               PROVE  (store[i].status = StatusOf(LastResult(i)))'
    BY DEF OutcomeRecorded
  <2>1. PICK k \in [Hashes -> 0..MaxAttempts] :
          /\ \A h \in Hashes : Recovered(h, k[h])
          /\ attempts' = k
          /\ result' = [h \in Hashes |-> [n \in Attempts |->
                          IF n <= k[h] THEN result[h][n] ELSE "unused"]]
          /\ lost' = lost \cup {h \in Hashes : k[h] < attempts[h]}
    BY <1>13 DEF CrashRestart
  <2>2. k[i] = attempts[i] /\ i \notin lost
    <3>1. savedAttempts[i] <= k[i] /\ k[i] <= attempts[i]
      BY <2>1 DEF Recovered
    <3>2. ~(k[i] < attempts[i]) /\ i \notin lost
      BY <2>1
    <3>3. k[i] \in Nat /\ attempts[i] \in Nat
      BY <2>1
    <3> HIDE DEF IndInv, Quiescent
    <3>4. QED
      BY <3>1, <3>2, <3>3
  <2>3. handled[i] = attempts[i]
    <3>1. savedHandled[i] = attempts[i]
      BY <1>13, <2>1, <2>2 DEF CrashRestart
    <3>2. savedHandled[i] <= handled[i] /\ handled[i] <= attempts[i]
      OBVIOUS
    <3>3. handled[i] \in Nat /\ attempts[i] \in Nat
      OBVIOUS
    <3> HIDE DEF IndInv, Quiescent
    <3>4. QED
      BY <3>1, <3>2, <3>3
  <2>4. Quiescent(i)
    BY <2>1, <2>2, <2>3 DEF WindowIsLost
  <2>5. LastResult(i)' = LastResult(i)
    BY <2>1, <2>2, <2>4 DEF Attempts
  <2>6. QED
    BY <1>13, <2>2, <2>4, <2>5 DEF CrashRestart
<1>14. CASE UNCHANGED vars
  BY <1>14 DEF vars
<1>15. QED
  BY <1>1, <1>2, <1>3, <1>4, <1>5, <1>6, <1>7, <1>8, <1>9, <1>10, <1>11,
     <1>12, <1>13, <1>14 DEF Next

-----------------------------------------------------------------------------
(* The theorems.                                                           *)

\* The initial state satisfies the inductive invariant.
LEMMA InitIndInv == Init => IndInv
<1> SUFFICES ASSUME Init PROVE IndInv
  OBVIOUS
<1>1. TypeOK
  BY InitTypeOK
<1>2. handler.pc = "idle" /\ server.pc = "idle"
  BY DEF Init, HandlerIdle, ServerIdle
<1>3. SavedIsPast /\ HandledIsResolved
  BY DEF Init, SavedIsPast, HandledIsResolved
<1>4. HandlerHasEvent /\ CopyIsProven /\ WindowIsLost
  BY <1>2 DEF HandlerHasEvent, CopyIsProven, WindowIsLost
<1>5. SuccessIsProven
  BY EmptyStoreType DEF Init, SuccessIsProven
<1>6. OutcomeRecorded
  BY DEF Init, OutcomeRecorded, Quiescent
<1>7. QED
  BY <1>1, <1>3, <1>4, <1>5, <1>6 DEF IndInv

\* The inductive invariant holds in every reachable state.
THEOREM Invariance == Spec => []IndInv
<1>1. Init => IndInv
  BY InitIndInv
<1>2. IndInv /\ [Next]_vars => IndInv'
  <2> SUFFICES ASSUME IndInv, [Next]_vars PROVE IndInv'
    OBVIOUS
  <2>1. TypeOK'
    BY NextTypeOK DEF IndInv
  <2>2. QED
    BY <2>1, NextSavedIsPast, NextHandledIsResolved, NextHandlerHasEvent,
       NextCopyIsProven, NextWindowIsLost, NextSuccessIsProven,
       NextOutcomeRecorded
       DEF IndInv
<1>3. QED
  BY <1>1, <1>2, PTL DEF Spec

\* Type correctness of pay_bolt11_invoice, the event handler and the store
\* between them, for any number of payments, attempts, file errors, crashes.
THEOREM TypeCorrect == Spec => []TypeOK
<1>1. IndInv => TypeOK
  BY DEF IndInv
<1>2. QED
  BY <1>1, Invariance, PTL

\* The store never shows a success, or a preimage, that LDK did not report:
\* not after a stale read-modify-write of the handler, not after a replay.
THEOREM NoFalseSuccess == Spec => []SuccessIsProven
<1>1. IndInv => SuccessIsProven
  BY DEF IndInv
<1>2. QED
  BY <1>1, Invariance, PTL

\* The record of a payment that came to rest shows the outcome of the last
\* attempt, except in the cases counted in lost: those are all there are.
THEOREM OutcomeIsRecorded == Spec => []OutcomeRecorded
<1>1. IndInv => OutcomeRecorded
  BY DEF IndInv
<1>2. QED
  BY <1>1, Invariance, PTL

\* The proof of payment is overwritten only where a second payment of the
\* same invoice was accepted.
THEOREM SuccessIsKept == Spec => SuccessLostOnlyByRepay
<1> DEFINE Step ==
      \A h \in Hashes :
        store[h].status = "Succeeded" /\ store'[h].status # "Succeeded"
          => \/ attempts[h] > 1
             \/ server.pc = "add_payment" /\ server.id = h
<1>1. IndInv /\ [Next]_vars => [Step]_vars
  <2> SUFFICES ASSUME IndInv, [Next]_vars,
                      NEW h \in Hashes,
                      store[h].status = "Succeeded",
                      store'[h].status # "Succeeded"
               PROVE  \/ attempts[h] > 1
                      \/ server.pc = "add_payment" /\ server.id = h
    OBVIOUS
  <2>1. CASE AddPayment
    BY <2>1 DEF AddPayment, add_payment, IndInv, TypeOK
  <2>2. CASE HandlerUpdate
    <3>1. handler.id \in Hashes /\ HasEvent(handler.id)
          /\ handler.copy \in Payment
      BY <2>2 DEF HandlerUpdate, IndInv, TypeOK, HandlerHasEvent
    <3>2. store' = [store EXCEPT ![handler.id] =
                      Outcome(NextOutcome(handler.id), handler.copy)]
      BY <2>2 DEF HandlerUpdate, update_payment, add_payment
    <3>3. handler.id = h
      BY <3>1, <3>2 DEF IndInv, TypeOK
    <3>4. NextOutcome(h) = "failed"
      BY <3>1, <3>2, <3>3, OutcomeType
         DEF HasEvent, StatusOf, IndInv, TypeOK
    <3>5. SentOnce(h)
      BY DEF IndInv, SuccessIsProven
    <3>6. attempts[h] \in Nat /\ handled[h] \in Nat /\ handled[h] < attempts[h]
      BY <3>1, <3>3, BoundAssumption DEF HasEvent, IndInv, TypeOK
    <3>7. PICK n \in 1..attempts[h] : result[h][n] \in {"sent", "purged"}
      BY <3>5 DEF SentOnce
    <3>8. n # handled[h] + 1
      BY <3>4, <3>7 DEF NextOutcome
    <3>9. QED
      BY <3>6, <3>7, <3>8
  <2>3. CASE UNCHANGED store
    BY <2>3
  <2>4. QED
    BY <2>1, <2>2, <2>3
       DEF Next, vars, PayRejected, PayAccepted, AddPaymentFails, Settle,
           Fail, Resolve, Purge, PersistManager, HandlerGet, HandlerNotFound,
           HandlerUpdateFails, CrashRestart
<1>2. QED
  BY <1>1, Invariance, PTL DEF Spec, SuccessLostOnlyByRepay

-----------------------------------------------------------------------------
(* An invoice is paid twice only after LDK has dropped its entry.          *)

\* An accepted attempt is in one of LDK's states, and LDK drops its entry
\* only for a PaymentSent that was handled and persisted.
PurgedIsSaved ==
  \A h \in Hashes : \A n \in 1..attempts[h] :
    /\ result[h][n] # "unused"
    /\ result[h][n] = "purged" => n <= savedHandled[h]

PurgeInv == PurgedIsSaved /\ PaidTwiceOnlyAfterPurge

\* Every step keeps both: a new attempt waits for the one before, a crash
\* takes back attempts and never an event that was persisted as handled.
LEMMA NextPurgeInv ==
  IndInv /\ PurgeInv /\ [Next]_vars => PurgeInv'
<1> SUFFICES ASSUME IndInv, PurgeInv, [Next]_vars PROVE PurgeInv'
  OBVIOUS
<1>a. /\ MaxAttempts \in Nat
      /\ attempts \in [Hashes -> 0..MaxAttempts]
      /\ result \in [Hashes -> [Attempts -> Results]]
      /\ handled \in [Hashes -> 0..MaxAttempts]
      /\ savedHandled \in [Hashes -> 0..MaxAttempts]
      /\ \A h \in Hashes : savedHandled[h] <= handled[h]
  BY BoundAssumption DEF IndInv, TypeOK, SavedIsPast
<1> USE <1>a DEF Attempts
<1>1. ASSUME NEW h \in Hashes, PayAccepted(h) PROVE PurgeInv'
  <2>1. /\ attempts[h] \in 0..MaxAttempts
        /\ attempts[h] + 1 \in Attempts
        /\ attempts' = [attempts EXCEPT ![h] = @ + 1]
        /\ result' = [result EXCEPT ![h][attempts[h] + 1] = "inflight"]
        /\ savedHandled' = savedHandled
    BY <1>1 DEF PayAccepted, diskVars
  <2>2. attempts[h] > 0 => result[h][attempts[h]] \in {"purged", "failed"}
    BY <1>1, <2>1
       DEF PayAccepted, IsDuplicate, LastResult, Results, PurgeInv,
          PurgedIsSaved
  <2>3. \A g \in Hashes : \A n \in 1..attempts'[g] :
          \/ n \in 1..attempts[g] /\ result'[g][n] = result[g][n]
          \/ /\ g = h /\ n = attempts[h] + 1
             /\ result'[g][n] = "inflight"
    BY <2>1
  <2>4. QED
    BY <2>1, <2>2, <2>3
       DEF PurgeInv, PurgedIsSaved, PaidTwiceOnlyAfterPurge
<1>2. ASSUME NEW h \in Hashes, Settle(h) \/ Fail(h) PROVE PurgeInv'
  <2>1. PICK outcome \in {"sent", "failed"} :
          /\ attempts[h] \in 1..MaxAttempts
          /\ result[h][attempts[h]] = "inflight"
          /\ result' = [result EXCEPT ![h][attempts[h]] = outcome]
          /\ UNCHANGED <<attempts, savedHandled>>
    BY <1>2 DEF Settle, Fail, Resolve, LastResult, diskVars
  <2>2. \A g \in Hashes : \A n \in 1..attempts[g] :
          \/ result'[g][n] = result[g][n]
          \/ g = h /\ n = attempts[h] /\ result'[g][n] = outcome
    BY <2>1
  <2>3. QED
    BY <2>1, <2>2 DEF PurgeInv, PurgedIsSaved, PaidTwiceOnlyAfterPurge
<1>3. ASSUME NEW h \in Hashes, Purge(h) PROVE PurgeInv'
  <2>1. /\ attempts[h] \in 1..MaxAttempts
        /\ savedHandled[h] = attempts[h]
        /\ result' = [result EXCEPT ![h][attempts[h]] = "purged"]
        /\ UNCHANGED <<attempts, savedHandled>>
    BY <1>3 DEF Purge, LastResult, diskVars
  <2>2. \A g \in Hashes : \A n \in 1..attempts[g] :
          \/ result'[g][n] = result[g][n]
          \/ g = h /\ n = attempts[h] /\ result'[g][n] = "purged"
    BY <2>1
  <2>3. QED
    BY <2>1, <2>2 DEF PurgeInv, PurgedIsSaved, PaidTwiceOnlyAfterPurge
<1>4. CASE PersistManager
  BY <1>4 DEF PersistManager, ldkVars, PurgeInv, PurgedIsSaved,
     PaidTwiceOnlyAfterPurge
<1>5. CASE CrashRestart
  <2>1. PICK k \in [Hashes -> 0..MaxAttempts] :
          /\ \A g \in Hashes : k[g] <= attempts[g]
          /\ attempts' = k
          /\ result' = [g \in Hashes |-> [n \in Attempts |->
                          IF n <= k[g] THEN result[g][n] ELSE "unused"]]
          /\ savedHandled' = savedHandled
    BY <1>5 DEF CrashRestart, Recovered
  <2>2. ASSUME NEW g \in Hashes, NEW n \in 1..attempts'[g]
        PROVE  /\ n \in 1..attempts[g] /\ result'[g][n] = result[g][n]
               /\ n < attempts'[g] => n < attempts[g]
    BY <2>1
  <2>3. QED
    BY <2>1, <2>2 DEF PurgeInv, PurgedIsSaved, PaidTwiceOnlyAfterPurge
<1>6. CASE UNCHANGED <<attempts, result, savedHandled>>
  BY <1>6 DEF PurgeInv, PurgedIsSaved, PaidTwiceOnlyAfterPurge
<1>7. QED
  BY <1>1, <1>2, <1>3, <1>4, <1>5, <1>6
     DEF Next, vars, ldkVars, diskVars, PayRejected, AddPayment,
         AddPaymentFails, HandlerGet, HandlerNotFound, HandlerUpdate,
         HandlerUpdateFails

\* Whatever is repeated - requests after errors, events after crashes - an
\* invoice is not paid a second time while LDK remembers the first, and the
\* first is then on record as handled.
THEOREM RepeatIsSafe == Spec => []PaidTwiceOnlyAfterPurge
<1>1. Init => PurgeInv
  BY DEF Init, PurgeInv, PurgedIsSaved, PaidTwiceOnlyAfterPurge
<1>2. PurgeInv => PaidTwiceOnlyAfterPurge
  BY DEF PurgeInv
<1>3. QED
  BY <1>1, <1>2, NextPurgeInv, Invariance, PTL DEF Spec

-----------------------------------------------------------------------------
(* OutboundPayments implements PaymentLedger.                              *)

\* A record that was read is still there when the handler writes it back.
THEOREM RecordStaysThere == Spec => []RecordIsThere
<1>1. Init => RecordIsThere
  BY DEF Init, HandlerIdle, RecordIsThere
<1>2. IndInv /\ RecordIsThere /\ [Next]_vars => RecordIsThere'
  <2> SUFFICES ASSUME IndInv, RecordIsThere, [Next]_vars PROVE RecordIsThere'
    OBVIOUS
  <2>1. CASE AddPayment
    BY <2>1, NewPaymentType
       DEF AddPayment, add_payment, RecordIsThere, IndInv, TypeOK
  <2>2. ASSUME NEW h \in Hashes, HandlerGet(h) PROVE RecordIsThere'
    BY <2>2
       DEF HandlerGet, get_payment, RecordIsThere, IndInv, TypeOK,
           StoredPayment, Payment, PaymentStatus, NoPayment
  <2>3. CASE handler' = HandlerIdle
    BY <2>3 DEF HandlerIdle, RecordIsThere
  <2>4. CASE UNCHANGED <<store, handler>>
    BY <2>4 DEF RecordIsThere
  <2>5. QED
    BY <2>1, <2>2, <2>3, <2>4
       DEF Next, vars, PayRejected, PayAccepted, AddPaymentFails, Settle,
           Fail, Resolve, Purge, PersistManager, HandlerNotFound,
           HandlerUpdate, HandlerUpdateFails, EventDone, CrashRestart
<1>3. QED
  BY <1>1, <1>2, Invariance, PTL DEF Spec

\* Whether an invoice was paid does not change in a restart: LDK learns of
\* every preimage from the monitors, and of nothing that did not happen.
LEMMA CrashKeepsPaid ==
  ASSUME IndInv, CrashRestart, NEW h \in Hashes
  PROVE  SentOnce(h)' <=> SentOnce(h)
<1>1. SentOnce(h) => SentOnce(h)'
  BY SentIsStable DEF Next
<1>2. ASSUME SentOnce(h)' PROVE SentOnce(h)
  <2>1. PICK n \in 1..attempts'[h] : result'[h][n] \in {"sent", "purged"}
    BY <1>2 DEF SentOnce
  <2>2. /\ attempts'[h] \in 0..MaxAttempts
        /\ attempts'[h] <= attempts[h]
        /\ attempts[h] \in 0..MaxAttempts
    BY DEF CrashRestart, Recovered, IndInv, TypeOK
  <2>3. n \in Attempts /\ n \in 1..attempts[h]
    BY <2>2, BoundAssumption DEF Attempts
  <2>4. result'[h][n] = result[h][n]
    BY <2>1, <2>3 DEF CrashRestart, Attempts
  <2>5. QED
    BY <2>1, <2>3, <2>4 DEF SentOnce
<1>3. QED
  BY <1>1, <1>2

\* Steps that leave the store, the attempts and what is paid alone are no
\* steps of the ledger.
LEMMA LedgerStutters ==
  ASSUME UNCHANGED <<store, attempts>>,
         \A h \in Hashes : SentOnce(h)' <=> SentOnce(h)
  PROVE  UNCHANGED Ledger!vars
<1>1. [h \in Hashes |-> store'[h].status] = [h \in Hashes |-> store[h].status]
  OBVIOUS
<1>2. {h \in Hashes : SentOnce(h)'} = {h \in Hashes : SentOnce(h)}
  OBVIOUS
<1>3. QED
  BY <1>1, <1>2 DEF Ledger!vars

\* Every step of the server, the handler and LDK is one step of the ledger
\* or none.
LEMMA LedgerStep ==
  IndInv /\ RecordIsThere /\ [Next]_vars => [Ledger!Next]_(Ledger!vars)
<1> SUFFICES ASSUME IndInv, RecordIsThere, [Next]_vars
             PROVE  Ledger!Next \/ UNCHANGED Ledger!vars
  OBVIOUS
<1> USE TaskAssumption, BoundAssumption
<1>1. CASE UNCHANGED <<store, attempts, result>>
  <2>1. \A h \in Hashes : SentOnce(h)' <=> SentOnce(h)
    BY <1>1 DEF SentOnce
  <2>2. QED
    BY <1>1, <2>1, LedgerStutters
<1>2. ASSUME NEW h \in Hashes, PayAccepted(h) PROVE Ledger!Next
  <2>1. ASSUME NEW i \in Hashes PROVE SentOnce(i)' <=> SentOnce(i)
    <3>1. /\ attempts[i] \in 0..MaxAttempts
          /\ attempts'[i] = IF i = h THEN attempts[i] + 1 ELSE attempts[i]
      BY <1>2 DEF PayAccepted, IndInv, TypeOK
    <3>2. ASSUME NEW n \in 1..attempts'[i]
          PROVE  \/ n \in 1..attempts[i] /\ result'[i][n] = result[i][n]
                 \/ n \notin 1..attempts[i] /\ result'[i][n] = "inflight"
      BY <1>2, <3>1 DEF PayAccepted, Attempts, IndInv, TypeOK
    <3>3. 1..attempts[i] \subseteq 1..attempts'[i]
      BY <3>1
    <3>4. QED
      BY <3>2, <3>3 DEF SentOnce
  <2>2. {i \in Hashes : SentOnce(i)'} = {i \in Hashes : SentOnce(i)}
    BY <2>1
  <2>3. attempts' = [attempts EXCEPT ![h] = @ + 1] /\ store' = store
    BY <1>2 DEF PayAccepted
  <2>4. Ledger!Try(h)
    BY <2>2, <2>3 DEF Ledger!Try
  <2>5. QED
    BY <2>4 DEF Ledger!Next
<1>3. CASE AddPayment
  <2>1. PICK g \in Hashes :
          /\ store' = [store EXCEPT ![g] = NewPayment("Outbound")]
          /\ UNCHANGED <<attempts, result>>
    BY <1>3 DEF AddPayment, add_payment, ldkVars, IndInv, TypeOK
  <2>2. [i \in Hashes |-> store'[i].status]
          = [[i \in Hashes |-> store[i].status]
               EXCEPT ![g] = "Pending"]
    BY <2>1, NewPaymentType DEF IndInv, TypeOK
  <2>3. {i \in Hashes : SentOnce(i)'} = {i \in Hashes : SentOnce(i)}
    BY <2>1 DEF SentOnce
  <2>4. Ledger!Open(g)
    BY <2>1, <2>2, <2>3 DEF Ledger!Open, Ledger!Set
  <2>5. QED
    BY <2>1, <2>4 DEF Ledger!Next
<1>4. ASSUME NEW h \in Hashes, Settle(h) PROVE Ledger!Next
  <2>1. /\ attempts[h] \in 1..MaxAttempts
        /\ result' = [result EXCEPT ![h][attempts[h]] = "sent"]
        /\ UNCHANGED <<store, attempts>>
    BY <1>4 DEF Settle, Resolve, LastResult, IndInv, TypeOK
  <2>2. SentOnce(h)'
    <3>1. result'[h][attempts[h]] = "sent"
      BY <2>1 DEF IndInv, TypeOK, Attempts
    <3>2. QED
      BY <2>1, <3>1 DEF SentOnce
  <2>3. ASSUME NEW i \in Hashes, i # h PROVE SentOnce(i)' <=> SentOnce(i)
    <3>1. result'[i] = result[i] /\ attempts'[i] = attempts[i]
      BY <2>1, <2>3 DEF IndInv, TypeOK
    <3>2. QED
      BY <3>1 DEF SentOnce
  <2>4. {i \in Hashes : SentOnce(i)'} = {i \in Hashes : SentOnce(i)} \cup {h}
    BY <2>2, <2>3
  <2>5. attempts[h] > 0
    BY <2>1
  <2>6. Ledger!Pay(h)
    BY <2>1, <2>4, <2>5 DEF Ledger!Pay
  <2>7. QED
    BY <2>6 DEF Ledger!Next
<1>5. ASSUME NEW h \in Hashes, Fail(h) \/ Purge(h)
      PROVE  UNCHANGED Ledger!vars
  <2>1. /\ attempts[h] \in 1..MaxAttempts
        /\ UNCHANGED <<store, attempts>>
        /\ \/ /\ result[h][attempts[h]] = "inflight"
              /\ result' = [result EXCEPT ![h][attempts[h]] = "failed"]
           \/ /\ result[h][attempts[h]] = "sent"
              /\ result' = [result EXCEPT ![h][attempts[h]] = "purged"]
    BY <1>5 DEF Fail, Resolve, Purge, LastResult, IndInv, TypeOK
  <2>2. \A i \in Hashes : \A n \in Attempts :
          result'[i][n] \in {"sent", "purged"}
            <=> result[i][n] \in {"sent", "purged"}
    <3>1. attempts[h] \in Attempts
          /\ result \in [Hashes -> [Attempts -> Results]]
      BY <2>1 DEF IndInv, TypeOK, Attempts
    <3>2. QED
      BY <2>1, <3>1
  <2>3. \A i \in Hashes : 1..attempts[i] \subseteq Attempts
    BY DEF IndInv, TypeOK, Attempts
  <2>4. \A i \in Hashes : SentOnce(i)' <=> SentOnce(i)
    BY <2>1, <2>2, <2>3 DEF SentOnce
  <2>5. QED
    BY <2>1, <2>4, LedgerStutters
<1>6. CASE HandlerUpdate
  <2>1. PICK g \in Hashes :
          /\ g = handler.id
          /\ HasEvent(g)
          /\ NextOutcome(g) \in {"sent", "failed"}
          /\ handler.copy \in Payment
          /\ store[g].status # "Absent"
    BY <1>6 DEF HandlerUpdate, HandlerHasEvent, HasEvent, IndInv, TypeOK,
                RecordIsThere
  <2>2. /\ store' = [store EXCEPT ![g] =
                      Outcome(NextOutcome(g), handler.copy)]
        /\ UNCHANGED <<attempts, result>>
    BY <1>6, <2>1 DEF HandlerUpdate, update_payment, add_payment, ldkVars
  <2>3. [i \in Hashes |-> store'[i].status]
          = [[i \in Hashes |-> store[i].status]
               EXCEPT ![g] = StatusOf(NextOutcome(g))]
    BY <2>1, <2>2, OutcomeType DEF IndInv, TypeOK
  <2>4. {i \in Hashes : SentOnce(i)'} = {i \in Hashes : SentOnce(i)}
    BY <2>2 DEF SentOnce
  <2>5. /\ attempts[g] \in Nat /\ handled[g] \in Nat
        /\ handled[g] + 1 \in 1..attempts[g]
    BY <2>1 DEF HasEvent, IndInv, TypeOK
  <2>6. CASE NextOutcome(g) = "sent"
    <3>1. SentOnce(g)
      BY <2>5, <2>6 DEF NextOutcome, SentOnce
    <3>2. Ledger!Succeed(g)
      BY <2>1, <2>2, <2>3, <2>4, <2>6, <3>1
         DEF Ledger!Succeed, Ledger!Set, StatusOf
    <3>3. QED
      BY <3>2 DEF Ledger!Next
  <2>7. CASE NextOutcome(g) = "failed"
    <3>1. ASSUME store[g].status = "Succeeded" PROVE attempts[g] > 1
      <4>1. PICK n \in 1..attempts[g] : result[g][n] \in {"sent", "purged"}
        BY <3>1 DEF IndInv, SuccessIsProven, SentOnce
      <4>2. n # handled[g] + 1
        BY <2>7, <4>1 DEF NextOutcome
      <4>3. QED
        BY <2>5, <4>1, <4>2
    <3>2. Ledger!Fail(g)
      BY <2>1, <2>2, <2>3, <2>4, <2>7, <3>1
         DEF Ledger!Fail, Ledger!Set, StatusOf
    <3>3. QED
      BY <3>2 DEF Ledger!Next
  <2>8. QED
    BY <2>1, <2>6, <2>7
<1>7. CASE CrashRestart
  <2>1. /\ attempts' \in [Hashes -> 0..MaxAttempts]
        /\ \A i \in Hashes : Recovered(i, attempts'[i])
        /\ store' = store
    BY <1>7 DEF CrashRestart
  <2>2. {i \in Hashes : SentOnce(i)'} = {i \in Hashes : SentOnce(i)}
    BY <1>7, CrashKeepsPaid
  <2>3. ASSUME NEW i \in Hashes
        PROVE  attempts'[i] <= attempts[i] /\ (SentOnce(i) => attempts'[i] > 0)
    <3>1. attempts[i] \in Nat /\ attempts'[i] \in Nat
      BY <2>1 DEF IndInv, TypeOK
    <3>2. attempts'[i] <= attempts[i]
      BY <2>1 DEF Recovered
    <3>3. ASSUME SentOnce(i) PROVE attempts'[i] > 0
      <4>1. PICK n \in 1..attempts[i] : result[i][n] \in {"sent", "purged"}
        BY <3>3 DEF SentOnce
      <4>2. n <= attempts'[i]
        BY <2>1, <4>1 DEF Recovered
      <4>3. QED
        BY <3>1, <4>1, <4>2
    <3>4. QED
      BY <3>2, <3>3
  <2>4. Ledger!Forget
    BY <2>1, <2>2, <2>3 DEF Ledger!Forget
  <2>5. QED
    BY <2>4 DEF Ledger!Next
<1>8. QED
  BY <1>1, <1>2, <1>3, <1>4, <1>5, <1>6, <1>7
     DEF Next, vars, ldkVars, PayRejected, AddPaymentFails, PersistManager,
         HandlerGet, HandlerNotFound, HandlerUpdateFails

\* The server, the event handler, LDK, file errors and crashes together
\* implement the ledger, for any number of payments and attempts: whoever
\* reads the store sees only what PaymentLedger allows.
THEOREM LedgerImplemented == Spec => ImplementsLedger
<1>1. Init => Ledger!Init
  <2> SUFFICES ASSUME Init PROVE Ledger!Init
    OBVIOUS
  <2>1. [h \in Hashes |-> store[h].status] = [h \in Hashes |-> "Absent"]
    BY EmptyStoreType DEF Init
  <2>2. {h \in Hashes : SentOnce(h)} = {}
    BY DEF Init, SentOnce
  <2>3. QED
    BY <2>1, <2>2 DEF Init, Ledger!Init
<1>2. IndInv /\ RecordIsThere /\ [Next]_vars => [Ledger!Next]_(Ledger!vars)
  BY LedgerStep
<1>3. QED
  BY <1>1, <1>2, Invariance, RecordStaysThere, PTL
     DEF Spec, ImplementsLedger, Ledger!Spec

-----------------------------------------------------------------------------
(* Receiving a payment: the module InboundPayments, on the same store, for *)
(* every set of payment hashes and any number of errors, crashes and       *)
(* payments.  What is claimed has a record and an invoice.                 *)

\* The order in create_bolt11_invoice and the server: an invoice that was
\* given out, or is being written to the client, has its record.
RecordFirst ==
  /\ \A h \in invoices : store[h] = NewPayment("Inbound")
  /\ server.pc = "answer" => store[server.id] = NewPayment("Inbound")
  /\ server.pc \in {"add_payment", "answer"} => server.id \in created

\* An HTLC that is treated as the payment of an invoice pays one given out.
PaidIsInvoice ==
  \A h \in Hashes :
    htlc[h] \in {"bolt11", "claiming", "claimed"} => h \in invoices

InboundInv ==
  InboundTypeOK /\ RecordFirst /\ PaidIsInvoice /\ OnlyInvoicesClaimed

-----------------------------------------------------------------------------
\* The empty store satisfies the invariant.
LEMMA InitInboundInv == InboundInit => InboundInv
  BY InboundAssumption, TaskAssumption
     DEF InboundInit, InboundInv, InboundTypeOK, RecordFirst, PaidIsInvoice,
         OnlyInvoicesClaimed, EmptyStore, StoredPayment, Server, HtlcStates

\* The record the server stores is a Payment.
LEMMA NewIsPayment == NewPayment("Inbound") \in StoredPayment
  BY DEF NewPayment, StoredPayment, Payment, PaymentDirection,
     PaymentStatus

\* Every step keeps the types.
LEMMA InboundTypeStep ==
  ASSUME InboundInv, [InboundNext]_inboundVars
  PROVE  InboundTypeOK'
<1>1. ASSUME NEW h \in Hashes, CreateInvoice(h)
      PROVE  InboundTypeOK'
  BY <1>1, InboundAssumption, TaskAssumption
     DEF InboundInv, InboundTypeOK, CreateInvoice, Server
<1>2. CASE AddInvoicePayment
  BY <1>2, NewIsPayment
     DEF InboundInv, InboundTypeOK, AddInvoicePayment, Server, RecordFirst,
         add_payment
<1>3. CASE Answer
  BY <1>3, InboundAssumption, TaskAssumption
     DEF InboundInv, InboundTypeOK, Answer, Server, RecordFirst
<1>4. CASE ReceiveFails
  BY <1>4, InboundAssumption, TaskAssumption
     DEF InboundInv, InboundTypeOK, ReceiveFails, Server
<1>5. ASSUME NEW h \in Hashes, PayInvoice(h)
      PROVE  InboundTypeOK'
  BY <1>5, InboundAssumption, TaskAssumption
     DEF InboundInv, InboundTypeOK, PayInvoice, Incoming, HtlcStates
<1>6. ASSUME NEW h \in Hashes, PaySpontaneously(h)
      PROVE  InboundTypeOK'
  BY <1>6, InboundAssumption, TaskAssumption
     DEF InboundInv, InboundTypeOK, PaySpontaneously, Incoming, HtlcStates
<1>7. ASSUME NEW h \in Hashes, TimeOut(h)
      PROVE  InboundTypeOK'
  BY <1>7 DEF InboundInv, InboundTypeOK, TimeOut, HtlcStates
<1>8. ASSUME NEW h \in Hashes, PaymentClaimable(h)
      PROVE  InboundTypeOK'
  BY <1>8 DEF InboundInv, InboundTypeOK, PaymentClaimable, HtlcStates
<1>9. ASSUME NEW h \in Hashes, PaymentClaimed(h)
      PROVE  InboundTypeOK'
  BY <1>9 DEF InboundInv, InboundTypeOK, PaymentClaimed, HtlcStates
<1>10. CASE CrashReclaim
  BY <1>10, InboundAssumption, TaskAssumption
     DEF InboundInv, InboundTypeOK, CrashReclaim, Server, HtlcStates
<1>11. CASE UNCHANGED inboundVars
  BY <1>11 DEF InboundInv, InboundTypeOK, inboundVars
<1>12. QED
  BY <1>1, <1>2, <1>3, <1>4, <1>5, <1>6,
     <1>7, <1>8, <1>9, <1>10, <1>11 DEF InboundNext

\* Every step keeps the order of record and invoice.
LEMMA RecordStep ==
  ASSUME InboundInv, [InboundNext]_inboundVars
  PROVE  RecordFirst'
<1>1. ASSUME NEW h \in Hashes, CreateInvoice(h)
      PROVE  RecordFirst'
  BY <1>1 DEF InboundInv, InboundTypeOK, RecordFirst, CreateInvoice, Server
<1>2. CASE AddInvoicePayment
  BY <1>2
     DEF InboundInv, InboundTypeOK, RecordFirst, AddInvoicePayment, Server,
         add_payment
<1>3. CASE Answer
  BY <1>3 DEF InboundInv, InboundTypeOK, RecordFirst, Answer, Server
<1>4. CASE ReceiveFails
  BY <1>4 DEF InboundInv, InboundTypeOK, RecordFirst, ReceiveFails, Server
<1>5. ASSUME NEW h \in Hashes, PayInvoice(h)
      PROVE  RecordFirst'
  BY <1>5 DEF InboundInv, InboundTypeOK, RecordFirst, PayInvoice, Incoming
<1>6. ASSUME NEW h \in Hashes, PaySpontaneously(h)
      PROVE  RecordFirst'
  BY <1>6 DEF InboundInv, InboundTypeOK, RecordFirst, PaySpontaneously,
     Incoming
<1>7. ASSUME NEW h \in Hashes, TimeOut(h)
      PROVE  RecordFirst'
  BY <1>7 DEF InboundInv, InboundTypeOK, RecordFirst, TimeOut
<1>8. ASSUME NEW h \in Hashes, PaymentClaimable(h)
      PROVE  RecordFirst'
  BY <1>8 DEF InboundInv, InboundTypeOK, RecordFirst, PaymentClaimable
<1>9. ASSUME NEW h \in Hashes, PaymentClaimed(h)
      PROVE  RecordFirst'
  BY <1>9 DEF InboundInv, InboundTypeOK, RecordFirst, PaymentClaimed
<1>10. CASE CrashReclaim
  BY <1>10 DEF InboundInv, InboundTypeOK, RecordFirst, CrashReclaim, Server
<1>11. CASE UNCHANGED inboundVars
  BY <1>11 DEF InboundInv, InboundTypeOK, RecordFirst, inboundVars
<1>12. QED
  BY <1>1, <1>2, <1>3, <1>4, <1>5, <1>6,
     <1>7, <1>8, <1>9, <1>10, <1>11 DEF InboundNext

\* Every step keeps what is claimed, or about to be, to invoices given out.
LEMMA InvoiceStep ==
  ASSUME InboundInv, [InboundNext]_inboundVars
  PROVE  PaidIsInvoice' /\ OnlyInvoicesClaimed'
<1>1. ASSUME NEW h \in Hashes, CreateInvoice(h)
      PROVE  PaidIsInvoice' /\ OnlyInvoicesClaimed'
  BY <1>1 DEF InboundInv, InboundTypeOK, PaidIsInvoice, OnlyInvoicesClaimed,
     CreateInvoice
<1>2. CASE AddInvoicePayment
  BY <1>2 DEF InboundInv, InboundTypeOK, PaidIsInvoice, OnlyInvoicesClaimed,
     AddInvoicePayment
<1>3. CASE Answer
  BY <1>3 DEF InboundInv, InboundTypeOK, PaidIsInvoice, OnlyInvoicesClaimed,
     Answer
<1>4. CASE ReceiveFails
  BY <1>4 DEF InboundInv, InboundTypeOK, PaidIsInvoice, OnlyInvoicesClaimed,
     ReceiveFails
<1>5. ASSUME NEW h \in Hashes, PayInvoice(h)
      PROVE  PaidIsInvoice' /\ OnlyInvoicesClaimed'
  BY <1>5 DEF InboundInv, InboundTypeOK, PaidIsInvoice, OnlyInvoicesClaimed,
     PayInvoice, Incoming
<1>6. ASSUME NEW h \in Hashes, PaySpontaneously(h)
      PROVE  PaidIsInvoice' /\ OnlyInvoicesClaimed'
  BY <1>6 DEF InboundInv, InboundTypeOK, PaidIsInvoice, OnlyInvoicesClaimed,
       PaySpontaneously, Incoming
<1>7. ASSUME NEW h \in Hashes, TimeOut(h)
      PROVE  PaidIsInvoice' /\ OnlyInvoicesClaimed'
  BY <1>7 DEF InboundInv, InboundTypeOK, PaidIsInvoice, OnlyInvoicesClaimed,
     TimeOut
<1>8. ASSUME NEW h \in Hashes, PaymentClaimable(h)
      PROVE  PaidIsInvoice' /\ OnlyInvoicesClaimed'
  BY <1>8 DEF InboundInv, InboundTypeOK, PaidIsInvoice, OnlyInvoicesClaimed,
       PaymentClaimable
<1>9. ASSUME NEW h \in Hashes, PaymentClaimed(h)
      PROVE  PaidIsInvoice' /\ OnlyInvoicesClaimed'
  BY <1>9 DEF InboundInv, InboundTypeOK, PaidIsInvoice, OnlyInvoicesClaimed,
       PaymentClaimed
<1>10. CASE CrashReclaim
  BY <1>10 DEF InboundInv, InboundTypeOK, PaidIsInvoice, OnlyInvoicesClaimed,
     CrashReclaim
<1>11. CASE UNCHANGED inboundVars
  BY <1>11 DEF InboundInv, InboundTypeOK, PaidIsInvoice, OnlyInvoicesClaimed,
     inboundVars
<1>12. QED
  BY <1>1, <1>2, <1>3, <1>4, <1>5, <1>6,
     <1>7, <1>8, <1>9, <1>10, <1>11 DEF InboundNext

-----------------------------------------------------------------------------
\* The invariant holds in every reachable state.
THEOREM InboundInvariance == InboundSpec => []InboundInv
<1>1. InboundInv /\ [InboundNext]_inboundVars => InboundInv'
  BY InboundTypeStep, RecordStep, InvoiceStep DEF InboundInv
<1>2. QED
  BY InitInboundInv, <1>1, PTL DEF InboundSpec

\* Type correctness, for any number of invoices, failures and crashes.
THEOREM InboundTypes == InboundSpec => []InboundTypeOK
<1>1. InboundInv => InboundTypeOK
  BY DEF InboundInv
<1>2. QED
  BY InboundInvariance, <1>1, PTL

\* Money that was claimed, or is about to be, belongs to an Inbound record,
\* although the PaymentClaimable handler does not look at the store.
THEOREM ClaimsHaveRecords == InboundSpec => []ClaimedHasRecord
<1>1. InboundInv => ClaimedHasRecord
  BY DEF InboundInv, InboundTypeOK, RecordFirst, PaidIsInvoice,
     OnlyInvoicesClaimed, ClaimedHasRecord
<1>2. QED
  BY InboundInvariance, <1>1, PTL

\* A payment that came without an invoice is never kept.
THEOREM ClaimsHaveInvoices == InboundSpec => []OnlyInvoicesClaimed
<1>1. InboundInv => OnlyInvoicesClaimed
  BY DEF InboundInv
<1>2. QED
  BY InboundInvariance, <1>1, PTL

=============================================================================
