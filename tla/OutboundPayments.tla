------------------------- MODULE OutboundPayments --------------------------
(***************************************************************************)
(* Sending a payment.  Three actors share the payment store:               *)
(*                                                                         *)
(*  - the server task (server.rs "send_payment", Node::pay_bolt11_invoice) *)
(*    hands the invoice to LDK and, in a second step, stores a Pending     *)
(*    record.  It serves one request at a time;                            *)
(*  - LDK's ChannelManager (external) sends, retries, and reports one      *)
(*    outcome per accepted attempt as an event;                            *)
(*  - the background task runs LdkEventHandler::handle_event, which reads  *)
(*    the record (get_payment) and in a second step writes it back changed *)
(*    (update_payment).                                                    *)
(*                                                                         *)
(* The PaymentId is the invoice's payment hash, so a second attempt at the *)
(* same invoice uses the same LDK entry and the same store file.           *)
(*                                                                         *)
(* LDK keeps its events in a queue until handle_event returned Ok and the  *)
(* ChannelManager was persisted afterwards.  The handler keeps nothing     *)
(* from one event to the next, so the model keeps the queue per payment:   *)
(* the pending events of h are the outcomes of its attempts handled[h] + 1 *)
(* onwards.                                                                *)
(***************************************************************************)
EXTENDS PaymentTasks

CONSTANTS MaxAttempts,  \* bound: attempts LDK accepts per hash
          MaxIoErrors   \* bound: file operations that fail

ASSUME BoundAssumption == MaxAttempts \in Nat /\ MaxIoErrors \in Nat

VARIABLES
  attempts,       \* attempts[h]: how many LDK accepted
  result,         \* result[h][n]: what became of attempt n
  handled,        \* handled[h]: attempts whose event the handler finished
  savedAttempts,  \* attempts as the ChannelManager on disk knows them
  savedHandled,   \* handled as the ChannelManager on disk knows it
  handler,        \* the background task, inside handle_event
  lost,           \* history: the last outcome was reported and not stored
  ioErrors

ldkVars  == <<attempts, result>>
diskVars == <<savedAttempts, savedHandled>>
vars == <<store, attempts, result, handled, savedAttempts, savedHandled,
          server, handler, lost, ioErrors, crashes>>

Attempts == 1..MaxAttempts

\* "purged": sent, and LDK has dropped its idempotency entry since.
Results == {"unused", "inflight", "sent", "purged", "failed"}

ServerIdle(id, reply) == [pc |-> "idle", id |-> id, reply |-> reply]

HandlerIdle == [pc |-> "idle", id |-> NoHash, copy |-> NoPayment]

Init ==
  /\ store = EmptyStore(Hashes)
  /\ attempts = [h \in Hashes |-> 0]
  /\ result = [h \in Hashes |-> [n \in Attempts |-> "unused"]]
  /\ handled = [h \in Hashes |-> 0]
  /\ savedAttempts = [h \in Hashes |-> 0]
  /\ savedHandled = [h \in Hashes |-> 0]
  /\ server = ServerIdle(NoHash, "none")
  /\ handler = HandlerIdle
  /\ lost = {}
  /\ ioErrors = 0
  /\ crashes = 0

-----------------------------------------------------------------------------
(* LDK's side, external.                                                   *)

LastResult(h) == IF attempts[h] = 0 THEN "unused" ELSE result[h][attempts[h]]

\* ChannelManager answers DuplicatePayment while the payment id is known.
IsDuplicate(h) == LastResult(h) \in {"inflight", "sent"}

Resolve(h, outcome) ==
  /\ LastResult(h) = "inflight"
  /\ result' = [result EXCEPT ![h][attempts[h]] = outcome]
  /\ UNCHANGED <<store, attempts, handled, diskVars, server, handler, lost,
                 ioErrors, crashes>>

\* The recipient released the preimage: LDK queues PaymentSent.
Settle(h) == Resolve(h, "sent")

\* Retries ran out (Retry::Timeout(15 s)): LDK queues PaymentFailed and
\* forgets the payment id, also from within the sending call.
Fail(h) == Resolve(h, "failed")

\* Some minutes after the PaymentSent event was handled and persisted LDK
\* drops the idempotency entry: the invoice can be paid again.
Purge(h) ==
  /\ LastResult(h) = "sent"
  /\ savedHandled[h] = attempts[h]
  /\ result' = [result EXCEPT ![h][attempts[h]] = "purged"]
  /\ UNCHANGED <<store, attempts, handled, diskVars, server, handler, lost,
                 ioErrors, crashes>>

\* The background task persists the ChannelManager between two rounds of
\* event handling: attempts and unhandled events as they are now.
PersistManager ==
  /\ handler.pc = "idle"
  /\ savedAttempts' = attempts
  /\ savedHandled' = handled
  /\ UNCHANGED <<store, ldkVars, handled, server, handler, lost, ioErrors,
                 crashes>>

-----------------------------------------------------------------------------
(* The server task: "send_payment".                                        *)

\* Mutant: the record is stored before LDK was asked.
PayRejectedStored(h) ==
  /\ server.pc = "idle"
  /\ store' = add_payment(store, h, NewPayment("Outbound"))
  /\ server' = ServerIdle(h, "error")
  /\ UNCHANGED <<ldkVars, handled, diskVars, handler, lost, ioErrors, crashes>>

\* No amount, a duplicate payment id, no route: the request ends with the
\* answer "Could not make payment" and nothing is stored.
PayRejected(h) ==
  /\ server.pc = "idle"
  /\ server' = ServerIdle(h, "error")
  /\ UNCHANGED <<store, ldkVars, handled, diskVars, handler, lost, ioErrors,
                 crashes>>

\* Mutant: the payment id is drawn at random for every request.
PayAcceptedRandomId(h) ==
  /\ server.pc = "idle"
  /\ attempts[h] < MaxAttempts
  /\ attempts' = [attempts EXCEPT ![h] = @ + 1]
  /\ result' = [result EXCEPT ![h][attempts[h] + 1] = "inflight"]
  /\ server' = [pc |-> "add_payment", id |-> h, reply |-> "none"]
  /\ lost' = lost \ {h}
  /\ UNCHANGED <<store, handled, diskVars, handler, ioErrors, crashes>>

\* pay_for_bolt11_invoice returned Ok: the payment is on its way, and the
\* record is not there yet.
PayAccepted(h) ==
  /\ server.pc = "idle"
  /\ ~IsDuplicate(h)
  /\ attempts[h] < MaxAttempts
  /\ attempts' = [attempts EXCEPT ![h] = @ + 1]
  /\ result' = [result EXCEPT ![h][attempts[h] + 1] = "inflight"]
  /\ server' = [pc |-> "add_payment", id |-> h, reply |-> "none"]
  /\ lost' = lost \ {h}
  /\ UNCHANGED <<store, handled, diskVars, handler, ioErrors, crashes>>

\* node_store.add_payment: whatever the file held is replaced by Pending.
AddPayment ==
  /\ server.pc = "add_payment"
  /\ store' = add_payment(store, server.id, NewPayment("Outbound"))
  /\ server' = ServerIdle(server.id, "payment_id")
  /\ UNCHANGED <<ldkVars, handled, diskVars, handler, lost, ioErrors, crashes>>

\* add_payment(..)? fails: the caller is told the payment was not made.
AddPaymentFails ==
  /\ server.pc = "add_payment"
  /\ ioErrors < MaxIoErrors
  /\ ioErrors' = ioErrors + 1
  /\ server' = ServerIdle(server.id, "error")
  /\ UNCHANGED <<store, ldkVars, handled, diskVars, handler, lost, crashes>>

-----------------------------------------------------------------------------
(* The background task: PaymentSent and PaymentFailed in handle_event.     *)

NextOutcome(h) == result[h][handled[h] + 1]

HasEvent(h) ==
  /\ handled[h] < attempts[h]
  /\ NextOutcome(h) \in {"sent", "failed"}

\* handle_event returned Ok, which it always does: LDK drops the event.
\* If it was the last one for h and the store will not show it, h is lost.
EventDone(h, unrecorded) ==
  /\ handled' = [handled EXCEPT ![h] = @ + 1]
  /\ handler' = HandlerIdle
  /\ lost' = IF unrecorded /\ handled[h] + 1 = attempts[h]
             THEN lost \cup {h} ELSE lost

\* node_store.get_payment found the record; the handler holds a copy of it.
HandlerGet(h) ==
  /\ handler.pc = "idle"
  /\ HasEvent(h)
  /\ get_payment(store, h) # NoPayment
  /\ handler' = [pc |-> "update", id |-> h, copy |-> get_payment(store, h)]
  /\ UNCHANGED <<store, ldkVars, handled, diskVars, server, lost, ioErrors,
                 crashes>>

\* get_payment returned an error - there is no record yet, or the file could
\* not be read: the handler logs it and the event is gone.
HandlerNotFound(h) ==
  /\ handler.pc = "idle"
  /\ HasEvent(h)
  /\ \/ get_payment(store, h) = NoPayment /\ UNCHANGED ioErrors
     \/ /\ get_payment(store, h) # NoPayment
        /\ ioErrors < MaxIoErrors
        /\ ioErrors' = ioErrors + 1
  /\ EventDone(h, TRUE)
  /\ UNCHANGED <<store, ldkVars, diskVars, server, crashes>>

\* Mutant: PaymentFailed leaves the status alone.
OutcomeForgetsFailure(kind, payment) ==
  [direction |-> payment.direction,
   status    |-> IF kind = "sent" THEN "Succeeded" ELSE payment.status,
   preimage  |-> kind = "sent" \/ payment.preimage]

\* Mutant: both events end in Succeeded.
OutcomeAlwaysSucceeds(kind, payment) ==
  [direction |-> payment.direction,
   status    |-> "Succeeded",
   preimage  |-> kind = "sent" \/ payment.preimage]

\* PaymentSent stores status and preimage, PaymentFailed the status alone.
Outcome(kind, payment) ==
  [direction |-> payment.direction,
   status    |-> IF kind = "sent" THEN "Succeeded" ELSE "Failed",
   preimage  |-> kind = "sent" \/ payment.preimage]

\* node_store.update_payment(copy).  If the server has yet to store the
\* Pending record of this attempt, that record will bury the outcome.
HandlerUpdate ==
  LET h == handler.id IN
  /\ handler.pc = "update"
  /\ store' = update_payment(store, h, Outcome(NextOutcome(h), handler.copy))
  /\ EventDone(h, server.pc = "add_payment" /\ server.id = h)
  /\ UNCHANGED <<ldkVars, diskVars, server, ioErrors, crashes>>

\* update_payment fails: logged for PaymentSent, ignored for PaymentFailed.
HandlerUpdateFails ==
  /\ handler.pc = "update"
  /\ ioErrors < MaxIoErrors
  /\ ioErrors' = ioErrors + 1
  /\ EventDone(handler.id, TRUE)
  /\ UNCHANGED <<store, ldkVars, diskVars, server, crashes>>

-----------------------------------------------------------------------------
(* The process dies and is started again.                                  *)

\* What the restarted ChannelManager may know of the attempts at h: those of
\* its last image on disk, and those the channel monitors, persisted on
\* their own, have seen since.  A preimage is in the monitors at once, so an
\* attempt that was sent is never forgotten.
Recovered(h, k) ==
  /\ savedAttempts[h] <= k
  /\ k <= attempts[h]
  /\ \A n \in 1..attempts[h] : result[h][n] \in {"sent", "purged"} => n <= k

\* Server and handler are gone; events not persisted as handled come again.
CrashRestart ==
  /\ crashes < MaxCrashes
  /\ crashes' = crashes + 1
  /\ \E k \in [Hashes -> 0..MaxAttempts] :
       /\ \A h \in Hashes : Recovered(h, k[h])
       /\ attempts' = k
       /\ savedAttempts' = k
       /\ result' = [h \in Hashes |-> [n \in Attempts |->
                       IF n <= k[h] THEN result[h][n] ELSE "unused"]]
       /\ lost' = lost \cup {h \in Hashes : k[h] < attempts[h]}
  /\ handled' = savedHandled
  /\ server' = ServerIdle(NoHash, "none")
  /\ handler' = HandlerIdle
  /\ UNCHANGED <<store, savedHandled, ioErrors>>

-----------------------------------------------------------------------------
Next ==
  \/ \E h \in Hashes : PayRejected(h) \/ PayAccepted(h)
  \/ AddPayment \/ AddPaymentFails
  \/ \E h \in Hashes : Settle(h) \/ Fail(h) \/ Purge(h)
  \/ PersistManager
  \/ \E h \in Hashes : HandlerGet(h) \/ HandlerNotFound(h)
  \/ HandlerUpdate \/ HandlerUpdateFails
  \/ CrashRestart

Spec == Init /\ [][Next]_vars

\* The runtime keeps running the server and the background task, and LDK
\* ends every attempt: its retries are bounded by Retry::Timeout and an HTLC
\* by its expiry.  Nobody has to send a request, persist, or crash.
Fairness ==
  /\ WF_vars(AddPayment)
  /\ WF_vars(HandlerUpdate)
  /\ \A h \in Hashes : WF_vars(HandlerGet(h)) /\ WF_vars(HandlerNotFound(h))
  /\ \A h \in Hashes : WF_vars(Settle(h) \/ Fail(h))

FairSpec == Spec /\ Fairness

-----------------------------------------------------------------------------
(* Properties.                                                             *)

ServerState == [pc : {"idle", "add_payment"}, id : Hashes \cup {NoHash},
                reply : {"none", "payment_id", "error"}]

HandlerState == [pc : {"idle", "update"}, id : Hashes \cup {NoHash},
                 copy : StoredPayment]

\* The variables have their types; the handler is at a payment exactly while
\* it updates one, and the server while it adds one.
TypeOK ==
  /\ store \in [Hashes -> StoredPayment]
  /\ attempts \in [Hashes -> 0..MaxAttempts]
  /\ result \in [Hashes -> [Attempts -> Results]]
  /\ handled \in [Hashes -> 0..MaxAttempts]
  /\ savedAttempts \in [Hashes -> 0..MaxAttempts]
  /\ savedHandled \in [Hashes -> 0..MaxAttempts]
  /\ server \in ServerState
  /\ handler \in HandlerState
  /\ lost \subseteq Hashes
  /\ ioErrors \in 0..MaxIoErrors
  /\ crashes \in 0..MaxCrashes
  /\ server.pc = "add_payment" => server.id \in Hashes
  /\ handler.pc = "update" <=> handler.id \in Hashes

SentOnce(h) ==
  \E n \in 1..attempts[h] : result[h][n] \in {"sent", "purged"}

\* A record that says Succeeded, or that carries a preimage, belongs to a
\* payment the recipient really was paid - whatever attempts, event replays
\* and stale copies in the event handler came in between.
SuccessIsProven ==
  \A h \in Hashes :
    /\ store[h].status = "Succeeded" => store[h].preimage
    /\ store[h].preimage => SentOnce(h)

\* A client that sends a request again - after an error, a reply that never
\* came or a restart - does not pay the invoice twice.  An earlier attempt has
\* failed, or it was paid, its PaymentSent was handled and persisted so that
\* no crash replays it onto the record of the later attempt, and LDK has
\* dropped its idempotency entry since.  The payment id is the payment hash.
PaidTwiceOnlyAfterPurge ==
  \A h \in Hashes : \A n \in 1..attempts[h] :
    n < attempts[h] =>
      \/ result[h][n] = "failed"
      \/ result[h][n] = "purged" /\ n <= savedHandled[h]

StatusOf(outcome) == IF outcome = "failed" THEN "Failed" ELSE "Succeeded"

\* All of LDK's events for h are handled and no request for h is running.
Quiescent(h) ==
  /\ attempts[h] > 0
  /\ handled[h] = attempts[h]
  /\ ~(server.pc = "add_payment" /\ server.id = h)

\* Once everything about a payment has come to rest, its record shows the
\* outcome of the last attempt LDK accepted.  The exceptions are those of
\* lost: an event that found no record or met a file error, an event handled
\* between pay_for_bolt11_invoice and add_payment, and an attempt that a
\* crash erased from LDK.
OutcomeRecorded ==
  \A h \in Hashes :
    Quiescent(h) /\ h \notin lost => store[h].status = StatusOf(LastResult(h))

\* A Succeeded record is overwritten with anything else only by a request LDK
\* accepted (which stores Pending) or after a second attempt at the invoice:
\* a rejected request, a replayed event or a restart alone never takes the
\* proof of payment away.
SuccessLostOnlyByRepay ==
  [][\A h \in Hashes :
       store[h].status = "Succeeded" /\ store'[h].status # "Succeeded"
         => \/ attempts[h] > 1
            \/ server.pc = "add_payment" /\ server.id = h]_vars

\* A payment that is recorded as Pending does not stay so, unless its outcome
\* was lost - while the background task lives, which its fairness assumes (it
\* can die of a poisoned mutex: see module WalletLock).
PendingResolves ==
  \A h \in Hashes :
    store[h].status = "Pending" ~> (store[h].status # "Pending" \/ h \in lost)

\* What the log message of the PaymentSent handler takes for granted ("Could
\* not retrieve payment from store [...] Something really wrong..."): as long
\* as no file operation fails and the process lives, there is a record for
\* every payment LDK reports as sent.
SentPaymentIsStored ==
  [][\A h \in Hashes :
       HandlerNotFound(h) => NextOutcome(h) # "sent"]_vars

=============================================================================
