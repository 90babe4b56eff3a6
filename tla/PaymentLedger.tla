---------------------------- MODULE PaymentLedger ----------------------------
(***************************************************************************)
(* What the payment store promises to whoever reads it with get_payment,   *)
(* without tasks, events, copies or files: a record appears as Pending,    *)
(* says Succeeded only of a payment that was made, says Failed again after *)
(* that only if the invoice was tried more than once, and never goes away. *)
(* How often an invoice was tried is what LDK remembers: a crash can make  *)
(* it forget tries, but never a payment that was made.                     *)
(***************************************************************************)
EXTENDS Naturals

CONSTANTS Hashes,   \* payment hashes of the invoices we may pay
          MaxTries  \* bound: tries of an invoice

VARIABLES record,   \* record[h]: the status get_payment shows, or "Absent"
          paid,     \* the recipient has the money
          tries     \* tries[h]: how often LDK tried h, as far as it knows

vars == <<record, paid, tries>>

Init ==
  /\ record = [h \in Hashes |-> "Absent"]
  /\ paid = {}
  /\ tries = [h \in Hashes |-> 0]

Set(h, status) == record' = [record EXCEPT ![h] = status]

Try(h) ==
  /\ tries' = [tries EXCEPT ![h] = @ + 1]
  /\ UNCHANGED <<record, paid>>

Pay(h) ==
  /\ tries[h] > 0
  /\ paid' = paid \cup {h}
  /\ UNCHANGED <<record, tries>>

Open(h) ==
  /\ Set(h, "Pending")
  /\ UNCHANGED <<paid, tries>>

Succeed(h) ==
  /\ record[h] # "Absent" /\ h \in paid
  /\ Set(h, "Succeeded")
  /\ UNCHANGED <<paid, tries>>

Fail(h) ==
  /\ record[h] # "Absent"
  /\ record[h] = "Succeeded" => tries[h] > 1
  /\ Set(h, "Failed")
  /\ UNCHANGED <<paid, tries>>

Forget ==
  /\ \E k \in [Hashes -> 0..MaxTries] :
       /\ \A h \in Hashes : k[h] <= tries[h] /\ (h \in paid => k[h] > 0)
       /\ tries' = k
  /\ UNCHANGED <<record, paid>>

Next ==
  \/ \E h \in Hashes : Try(h) \/ Pay(h) \/ Open(h) \/ Succeed(h) \/ Fail(h)
  \/ Forget

Spec == Init /\ [][Next]_vars

=============================================================================
