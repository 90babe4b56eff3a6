--------------------------- MODULE OutboundLedger ---------------------------
(***************************************************************************)
(* OutboundPayments implements PaymentLedger: the ledger's record is the   *)
(* status in the store, a payment is paid when LDK has reported one try of *)
(* it as sent, and the tries are LDK's attempts.  The handler's copies,    *)
(* the queue of events and the images on disk are hidden.                  *)
(***************************************************************************)
EXTENDS OutboundPayments

Ledger == INSTANCE PaymentLedger
            WITH MaxTries <- MaxAttempts,
                 record   <- [h \in Hashes |-> store[h].status],
                 paid     <- {h \in Hashes : SentOnce(h)},
                 tries    <- attempts

\* Everything the server, the event handler, file errors and crashes do to
\* the store is something the ledger allows: no interleaving of them shows a
\* success that did not happen, takes one back after a single try, or
\* records an outcome of a payment that has no record.
ImplementsLedger == Ledger!Spec

=============================================================================
