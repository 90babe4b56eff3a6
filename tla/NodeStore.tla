----------------------------- MODULE NodeStore -----------------------------
(***************************************************************************)
(* The "payments" namespace of NodeStore (storage.rs): one file per        *)
(* payment id, holding the encoded Payment.  Every NodeStore call takes    *)
(* the RwLock for exactly one file operation, so each operator below is    *)
(* one atomic step of its caller; nothing is held between two calls.       *)
(*                                                                         *)
(* A Payment is kept to what the program tells apart: its direction, its   *)
(* status and whether the preimage (the proof of payment, written in the   *)
(* same statement as fee_paid_msat) is there.  The TLV encoding stores     *)
(* all fields as required and reads back what was written.                 *)
(***************************************************************************)

PaymentDirection == {"Inbound", "Outbound"}

PaymentStatus == {"Pending", "Succeeded", "Failed"}

Payment == [direction : PaymentDirection,
            status    : PaymentStatus,
            preimage  : BOOLEAN]

\* What get_payment's Err(NotFound) stands for: there is no file.
NoPayment == [direction |-> "None", status |-> "Absent", preimage |-> FALSE]

StoredPayment == Payment \cup {NoPayment}

EmptyStore(ids) == [id \in ids |-> NoPayment]

\* FilesystemStore::write replaces the file whole: the last writer wins, and
\* nothing compares the old content with the new.
add_payment(store, id, payment) == [store EXCEPT ![id] = payment]

update_payment(store, id, payment) == add_payment(store, id, payment)

get_payment(store, id) == store[id]

\* The record that pay_bolt11_invoice and create_bolt11_invoice store.
NewPayment(direction) ==
  [direction |-> direction, status |-> "Pending", preimage |-> FALSE]

=============================================================================
