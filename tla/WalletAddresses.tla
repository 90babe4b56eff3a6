--------------------------- MODULE WalletAddresses ---------------------------
(***************************************************************************)
(* The addresses of one keychain of the bdk wallet, over several runs of   *)
(* the node: of the external one, to which others pay, or of the internal  *)
(* one, to which the wallet's own transactions pay their change.  The      *)
(* behaviours of the external one are those in which no transaction is     *)
(* built.  The program never persists the wallet ("TODO: persist wallet    *)
(* here"): each run starts from the empty wallet of the day it was         *)
(* created, and the chain task gives it every block again.  The wallet     *)
(* recognises a payment only up to Lookahead indices past the last one it  *)
(* revealed, so what matters is how far apart the addresses lie that were  *)
(* given out in all earlier runs.                                          *)
(***************************************************************************)
EXTENDS Naturals, Sequences, FiniteSets

CONSTANTS Lookahead,   \* scripts the wallet watches past the last revealed
          MaxBlocks,   \* bound: blocks with payments to us
          MaxBuilds,   \* bound: transactions built in all runs
          MaxRuns      \* bound: starts of the process

ASSUME AddressAssumption ==
  /\ Lookahead \in Nat \ {0}
  /\ MaxBlocks \in Nat /\ MaxBuilds \in Nat /\ MaxRuns \in Nat \ {0}

VARIABLES
  chain,     \* chain[h]: the indices that block h pays to
  phase,     \* the chain task: "start", "syncing" with the lock, "synced"
  synced,    \* blocks the wallet has seen
  revealed,  \* indices the wallet has revealed: 0 .. revealed - 1
  used,      \* indices the wallet takes for used
  given,     \* history: indices given out, in any run
  change,    \* history: indices a built transaction has its change at
  reused,    \* history: given out although a block had paid them
  widest,    \* history: the most of these that were unpaid at a time
  missed,    \* payments to us in blocks the wallet saw and did not recognise
  builds, runs

wallet  == <<phase, synced, revealed, used, missed>>
history == <<given, change, reused, widest>>
vars    == <<chain, wallet, history, builds, runs>>

Paid(n) == UNION {chain[h] : h \in 1..n}

Init ==
  /\ chain = <<>>
  /\ phase = "start"
  /\ synced = 0 /\ revealed = 0 /\ used = {} /\ missed = {}
  /\ given = {} /\ change = {} /\ reused = {} /\ widest = 0
  /\ builds = 0 /\ runs = 1

-----------------------------------------------------------------------------
(* Users of the wallet's lock.                                             *)

\* Mutant: reveal_next_address instead of next_unused_address.
RevealNext(i) ==
  /\ phase # "syncing"
  /\ i = revealed
  /\ revealed' = revealed + 1

\* next_unused_address: the first revealed index that is not used, or else
\* the next one is revealed.
NextUnused(i) ==
  /\ phase # "syncing"
  /\ i \notin used
  /\ \A j \in 0..i-1 : j \in used
  /\ revealed' = IF i = revealed THEN revealed + 1 ELSE revealed

Give(i) ==
  /\ given' = given \cup {i}
  /\ reused' = reused \cup ({i} \cap Paid(Len(chain)))

\* next_address, get_destination_script and get_shutdown_scriptpubkey on the
\* external keychain, get_change_script and get_change_destination_script on
\* the internal one: none of them marks the address as used.
GiveAddress ==
  /\ \E i \in 0..revealed : NextUnused(i) /\ Give(i)
  /\ UNCHANGED <<chain, phase, synced, used, change, widest, missed, builds,
                 runs>>

\* build_transaction, on the internal keychain: the change goes to an unused
\* address that finish marks used at once - for a transaction that may never
\* reach a block.  A wallet that has seen no coin is left before that.
BuildTransaction ==
  /\ builds < MaxBuilds
  /\ phase = "synced"
  /\ builds' = builds + 1
  /\ \E i \in 0..revealed :
       /\ NextUnused(i)
       /\ used' = used \cup {i}
       /\ Give(i)
       /\ change' = change \cup {i}
  /\ LET unpaid == Cardinality(change' \ Paid(Len(chain)))
     IN  widest' = IF unpaid > widest THEN unpaid ELSE widest
  /\ UNCHANGED <<chain, phase, synced, missed, runs>>

-----------------------------------------------------------------------------
(* The chain, external: a block pays to addresses that were given out.     *)

Mine(pays) ==
  /\ Len(chain) < MaxBlocks
  /\ chain' = Append(chain, pays)
  /\ UNCHANGED <<wallet, history, builds, runs>>

-----------------------------------------------------------------------------
(* The chain task.                                                         *)

\* The task takes the lock, before which the wallet can be used unsynced.
StartSync ==
  /\ phase = "start"
  /\ phase' = "syncing"
  /\ UNCHANGED <<chain, synced, revealed, used, missed, history, builds, runs>>

\* Mutant: a payment past the last revealed index does not move the window.
ApplyBlockInPlace ==
  /\ phase # "start" /\ synced < Len(chain)
  /\ synced' = synced + 1
  /\ LET found == {i \in chain[synced + 1] : i < revealed + Lookahead}
     IN  /\ used' = used \cup found
         /\ missed' = missed \cup (chain[synced + 1] \ found)
  /\ UNCHANGED <<chain, phase, revealed, history, builds, runs>>

\* Mutant: a payment is recorded but its address stays unused.
ApplyBlockUnused ==
  /\ phase # "start" /\ synced < Len(chain)
  /\ synced' = synced + 1
  /\ UNCHANGED <<chain, phase, revealed, used, missed, history, builds, runs>>

\* apply_block_connected_to in the initial synchronization, apply_block of
\* the ChainListener later on.  The window is the one before the block, as
\* if its transactions came in the least favourable order.
ApplyBlock ==
  /\ phase # "start" /\ synced < Len(chain)
  /\ synced' = synced + 1
  /\ LET found == {i \in chain[synced + 1] : i < revealed + Lookahead}
         ends  == {revealed} \cup {i + 1 : i \in found}
     IN  /\ used' = used \cup found
         /\ missed' = missed \cup (chain[synced + 1] \ found)
         /\ \E r \in ends : /\ \A e \in ends : e <= r
                            /\ revealed' = r
  /\ UNCHANGED <<chain, phase, history, builds, runs>>

EndSync ==
  /\ phase = "syncing" /\ synced = Len(chain)
  /\ phase' = "synced"
  /\ UNCHANGED <<chain, synced, revealed, used, missed, history, builds, runs>>

\* The process ends, in order or not, and starts with the wallet on disk,
\* which is as it was created.
Restart ==
  /\ runs < MaxRuns
  /\ runs' = runs + 1
  /\ phase' = "start"
  /\ synced' = 0 /\ revealed' = 0 /\ used' = {} /\ missed' = {}
  /\ UNCHANGED <<chain, history, builds>>

Next ==
  \/ GiveAddress \/ BuildTransaction
  \/ \E pays \in (SUBSET given) \ {{}} : Mine(pays)
  \/ StartSync \/ ApplyBlock \/ EndSync
  \/ Restart

Spec == Init /\ [][Next]_vars

-----------------------------------------------------------------------------
(* Properties.                                                             *)

\* Every variable has its type, and a wallet at the tip has seen all blocks.
TypeOK ==
  /\ chain \in Seq(SUBSET Nat) /\ Len(chain) <= MaxBlocks
  /\ phase \in {"start", "syncing", "synced"}
  /\ synced \in 0..Len(chain)
  /\ revealed \in Nat
  /\ used \subseteq 0..revealed-1
  /\ given \subseteq Nat /\ missed \subseteq given
  /\ change \subseteq given /\ reused \subseteq given
  /\ widest \in 0..MaxBuilds
  /\ builds \in 0..MaxBuilds /\ runs \in 1..MaxRuns

\* Although no revealed index is ever saved, a wallet that starts over finds
\* every payment to an address any earlier run gave out - deposits, channel
\* closings - however many addresses were asked for and however few were
\* paid: next_unused_address never runs ahead of what the chain shows.  Only
\* build_transaction does.
RescanFindsDeposits == change = {} => missed = {}

\* Change is found too as long as fewer than Lookahead transactions were
\* built and unconfirmed at a time: finish marks their addresses used, so
\* unlike deposits they do run ahead.
RescanFindsChange == widest < Lookahead => missed = {}

\* An address that a block already paid is given out again only by a wallet
\* that is behind the chain - before the first synchronization of a run, where
\* index 0 is given out anew, or while a block is on its way - or that has
\* missed change.
ReuseOnlyBehind ==
  [][reused' # reused
       => phase = "start" \/ synced < Len(chain) \/ missed # {}]_vars

=============================================================================
