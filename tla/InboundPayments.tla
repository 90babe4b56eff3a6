-------------------------- MODULE InboundPayments --------------------------
(***************************************************************************)
(* Receiving a payment.  The server task answers "receive": it has LDK     *)
(* make an invoice, stores a Pending record and writes the invoice to the  *)
(* client, who gives it to a payer.  The payer's HTLC reaches LDK, which   *)
(* reports PaymentClaimable; the event handler claims it, and LDK reports  *)
(* PaymentClaimed, which is only logged: the record stays as it is.        *)
(*                                                                         *)
(* LDK derives the preimage of its own invoices from the invoice itself,   *)
(* and this program asks it for no other kind, so a PaymentClaimable for   *)
(* an invoice always carries the preimage; the branch of the handler that  *)
(* ignores one without is never taken.  An HTLC that pays no invoice of    *)
(* ours is a spontaneous payment.                                          *)
(***************************************************************************)
EXTENDS PaymentTasks

CONSTANTS MaxErrors,  \* bound: steps of "receive" that fail
          MaxPays     \* bound: HTLCs that payers send

ASSUME InboundAssumption == MaxErrors \in Nat /\ MaxPays \in Nat

VARIABLES
  created,   \* hashes LDK made an invoice for
  invoices,  \* hashes of the invoices a client was given
  htlc,      \* htlc[h]: LDK's state of the incoming HTLC
  claimed,   \* history: hashes this node took the money of
  errors, pays

inboundVars == <<store, created, invoices, server, htlc, claimed, errors,
                 crashes, pays>>

HtlcStates == {"none", "bolt11", "spontaneous", "claiming", "claimed"}

Server(pc, id) == [pc |-> pc, id |-> id]

InboundInit ==
  /\ store = EmptyStore(Hashes)
  /\ created = {}
  /\ invoices = {}
  /\ server = Server("idle", NoHash)
  /\ htlc = [h \in Hashes |-> "none"]
  /\ claimed = {}
  /\ errors = 0 /\ crashes = 0 /\ pays = 0

-----------------------------------------------------------------------------
(* The server task: "receive", Node::create_bolt11_invoice.                *)

\* Mutant: the invoice goes to the client before a record is stored.
CreateInvoiceUnstored(h) ==
  /\ server.pc = "idle"
  /\ h \notin created
  /\ htlc[h] = "none"
  /\ created' = created \cup {h}
  /\ server' = Server("answer", h)
  /\ UNCHANGED <<store, invoices, htlc, claimed, errors, crashes, pays>>

\* LDK made an invoice; its payment hash is new.
CreateInvoice(h) ==
  /\ server.pc = "idle"
  /\ h \notin created
  /\ htlc[h] = "none"
  /\ created' = created \cup {h}
  /\ server' = Server("add_payment", h)
  /\ UNCHANGED <<store, invoices, htlc, claimed, errors, crashes, pays>>

\* The key is the payment hash, and outbound payments have the same key space.
\* One with the hash of an own invoice is not modelled: LDK finds no route to
\* the node itself, and refuses before anything is stored, so it would take a
\* foreign invoice with that hash.
AddInvoicePayment ==
  /\ server.pc = "add_payment"
  /\ store' = add_payment(store, server.id, NewPayment("Inbound"))
  /\ server' = Server("answer", server.id)
  /\ UNCHANGED <<created, invoices, htlc, claimed, errors, crashes, pays>>

\* The invoice is written to the client.
Answer ==
  /\ server.pc = "answer"
  /\ invoices' = invoices \cup {server.id}
  /\ server' = Server("idle", NoHash)
  /\ UNCHANGED <<store, created, htlc, claimed, errors, crashes, pays>>

\* LDK makes no invoice, the record cannot be stored, or the client is gone:
\* each error is unwrapped, which ends the server task.  The node lives on
\* and answers no request any more.
ReceiveFails ==
  /\ server.pc \in {"idle", "add_payment", "answer"}
  /\ errors < MaxErrors
  /\ errors' = errors + 1
  /\ server' = Server("dead", NoHash)
  /\ UNCHANGED <<store, created, invoices, htlc, claimed, crashes, pays>>

-----------------------------------------------------------------------------
(* Payers and LDK, external.                                               *)

Incoming(h, purpose) ==
  /\ htlc[h] \in {"none", "claimed"}
  /\ pays < MaxPays
  /\ pays' = pays + 1
  /\ htlc' = [htlc EXCEPT ![h] = purpose]
  /\ UNCHANGED <<store, created, invoices, server, claimed, errors, crashes>>

\* A payer who has the invoice pays it, once or again.
PayInvoice(h) == h \in invoices /\ Incoming(h, "bolt11")

\* An HTLC that brings a preimage of the payer's choice.
PaySpontaneously(h) == h \notin created /\ Incoming(h, "spontaneous")

\* LDK fails an HTLC back that was not claimed before it gets too old.
TimeOut(h) ==
  /\ htlc[h] \in {"bolt11", "spontaneous"}
  /\ htlc' = [htlc EXCEPT ![h] = "none"]
  /\ UNCHANGED <<store, created, invoices, server, claimed, errors, crashes,
                 pays>>

\* LDK fulfilled the HTLC with the preimage; PaymentClaimed is logged.
PaymentClaimed(h) ==
  /\ htlc[h] = "claiming"
  /\ htlc' = [htlc EXCEPT ![h] = "claimed"]
  /\ claimed' = claimed \cup {h}
  /\ UNCHANGED <<store, created, invoices, server, errors, crashes, pays>>

-----------------------------------------------------------------------------
(* The background task: PaymentClaimable in handle_event.                  *)

\* Mutant: the purpose is not looked at.
ClaimAll(h) ==
  /\ htlc[h] \in {"bolt11", "spontaneous"}
  /\ htlc' = [htlc EXCEPT ![h] = "claiming"]
  /\ UNCHANGED <<store, created, invoices, server, claimed, errors, crashes,
                 pays>>

\* Mutant: an HTLC that cannot be claimed is ignored, not failed back.
IgnoreOthers(h) ==
  /\ htlc[h] = "bolt11"
  /\ htlc' = [htlc EXCEPT ![h] = "claiming"]
  /\ UNCHANGED <<store, created, invoices, server, claimed, errors, crashes,
                 pays>>

\* An invoice's HTLC is claimed, any other is failed back.  The store is not
\* asked ("TODO: check if payment is stored in db").  LDK knows the preimage
\* of every invoice this node makes, so the branch that ignores an invoice's
\* HTLC without one is never taken.
PaymentClaimable(h) ==
  /\ htlc[h] \in {"bolt11", "spontaneous"}
  /\ htlc' = [htlc EXCEPT ![h] = IF @ = "bolt11" THEN "claiming" ELSE "none"]
  /\ UNCHANGED <<store, created, invoices, server, claimed, errors, crashes,
                 pays>>

-----------------------------------------------------------------------------
\* The process dies and is started again.  LDK and its peers keep the HTLCs,
\* and a claim the ChannelManager on disk does not know of is made again: its
\* events come twice.
CrashReclaim ==
  /\ crashes < MaxCrashes
  /\ crashes' = crashes + 1
  /\ server' = Server("idle", NoHash)
  /\ \E again \in SUBSET {h \in Hashes : htlc[h] = "claimed"} :
       htlc' = [h \in Hashes |-> IF h \in again THEN "claiming" ELSE htlc[h]]
  /\ UNCHANGED <<store, created, invoices, claimed, errors, pays>>

InboundNext ==
  \/ \E h \in Hashes : CreateInvoice(h)
  \/ AddInvoicePayment \/ Answer \/ ReceiveFails
  \/ \E h \in Hashes : PayInvoice(h) \/ PaySpontaneously(h) \/ TimeOut(h)
  \/ \E h \in Hashes : PaymentClaimable(h) \/ PaymentClaimed(h)
  \/ CrashReclaim

InboundSpec == InboundInit /\ [][InboundNext]_inboundVars

\* The background task handles events and LDK completes what it started.
InboundFairness ==
  \A h \in Hashes : /\ WF_inboundVars(PaymentClaimable(h))
                     /\ WF_inboundVars(PaymentClaimed(h))

InboundFairSpec == InboundSpec /\ InboundFairness

-----------------------------------------------------------------------------
(* Properties.                                                             *)

\* Every variable has its type, and a request is at a hash while it runs.
InboundTypeOK ==
  /\ store \in [Hashes -> StoredPayment]
  /\ created \subseteq Hashes
  /\ invoices \subseteq created
  /\ claimed \subseteq Hashes
  /\ server \in [pc : {"idle", "add_payment", "answer", "dead"},
                 id : Hashes \cup {NoHash}]
  /\ server.pc \in {"add_payment", "answer"} <=> server.id \in Hashes
  /\ htlc \in [Hashes -> HtlcStates]
  /\ errors \in 0..MaxErrors
  /\ crashes \in 0..MaxCrashes
  /\ pays \in 0..MaxPays

\* The answer to the handler's TODO: money that was claimed, or is about to
\* be, belongs to an Inbound record in the store, although the handler does
\* not look - whatever failed or crashed while the invoice was made.
ClaimedHasRecord ==
  \A h \in Hashes :
    h \in claimed \/ htlc[h] \in {"bolt11", "claiming"}
      => store[h] = NewPayment("Inbound")

\* A payment that came without an invoice is never kept.
OnlyInvoicesClaimed == claimed \subseteq invoices

\* No HTLC is left hanging until it is old: each one is claimed or failed.
HtlcResolved ==
  \A h \in Hashes : htlc[h] \in {"bolt11", "spontaneous", "claiming"}
                      ~> htlc[h] \in {"none", "claimed"}

=============================================================================
