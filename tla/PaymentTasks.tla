---------------------------- MODULE PaymentTasks ----------------------------
(***************************************************************************)
(* What sending and receiving payments share: the records, the one server  *)
(* task that serves requests of both kinds, one at a time, and that the    *)
(* process may die.                                                        *)
(***************************************************************************)
EXTENDS Naturals, NodeStore

CONSTANTS Hashes,     \* payment hashes
          NoHash,     \* "no payment", for an idle task
          MaxCrashes  \* bound: times the process dies

ASSUME TaskAssumption == NoHash \notin Hashes /\ MaxCrashes \in Nat

VARIABLES
  store,   \* NodeStore, on disk
  server,  \* what the server task is doing, and for which hash
  crashes

=============================================================================
