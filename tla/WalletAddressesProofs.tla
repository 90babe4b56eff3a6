------------------------ MODULE WalletAddressesProofs ------------------------
(***************************************************************************)
(* Proofs about WalletAddresses, for any number of runs, blocks, addresses *)
(* and transactions, and any lookahead of at least one.                    *)
(*                                                                         *)
(* An index is given out only when the wallet takes every smaller one for  *)
(* used, because a block paid it or because a transaction has its change   *)
(* there (UsedExplained).  The smaller ones that no block pays are then    *)
(* change (GivenWindow), of which there are at most widest (WidestBound).  *)
(* So a block that pays an index leaves fewer than Lookahead smaller ones  *)
(* unpaid by the blocks before it (PaidWindow), if widest is below the     *)
(* lookahead - and a wallet that has found what those blocks pay (SeenAll) *)
(* has the index in its window, in whichever run it gets there.            *)
(***************************************************************************)
EXTENDS WalletAddresses, FiniteSetTheorems, TLAPS

\* The indices below i that the first n blocks do not pay.
UnpaidBelow(n, i) == {j \in 0..i-1 : j \notin Paid(n)}

Types ==
  /\ TypeOK
  /\ \A h \in 1..Len(chain) : chain[h] \subseteq given
  /\ IsFiniteSet(change) /\ Cardinality(change) <= builds

SeenAll == Paid(synced) \subseteq used \cup missed

UsedExplained == used \subseteq Paid(synced) \cup change

GivenWindow ==
  \A i \in given : UnpaidBelow(Len(chain), i) \subseteq change

WidestBound ==
  /\ Cardinality(change \ Paid(Len(chain))) <= widest
  /\ change = {} => widest = 0

PaidWindow ==
  widest < Lookahead =>
    \A h \in 1..Len(chain) : \A i \in chain[h] :
      Cardinality(UnpaidBelow(h - 1, i)) < Lookahead

WalletInv ==
  /\ Types
  /\ SeenAll
  /\ UsedExplained
  /\ GivenWindow
  /\ WidestBound
  /\ PaidWindow
  /\ RescanFindsChange

-----------------------------------------------------------------------------
(* Lemmas on blocks and counts.                                            *)

\* What the first n blocks pay, element by element.
LEMMA PaidDef ==
  ASSUME NEW n, NEW i
  PROVE  i \in Paid(n) <=> \E h \in 1..n : i \in chain[h]
BY DEF Paid

\* More blocks pay more.
LEMMA PaidMonotone ==
  ASSUME NEW m \in Nat, NEW n \in Nat, m <= n
  PROVE  Paid(m) \subseteq Paid(n)
BY PaidDef

\* One more block pays what it pays.
LEMMA PaidNext ==
  ASSUME NEW n \in Nat
  PROVE  Paid(n + 1) = Paid(n) \cup chain[n + 1]
BY PaidDef

\* A new block changes nothing about those before it.
LEMMA PaidAppend ==
  ASSUME Types, NEW pays \in SUBSET Nat, chain' = Append(chain, pays),
         NEW n \in 0..Len(chain)
  PROVE  Paid(n)' = Paid(n)
<1>1. \A h \in 1..n : chain'[h] = chain[h]
  BY DEF Types, TypeOK
<1>2. QED
  BY <1>1 DEF Paid

\* A set within a finite one is no larger.
LEMMA CountSubset ==
  ASSUME NEW S, NEW T, IsFiniteSet(T), S \subseteq T
  PROVE  /\ IsFiniteSet(S)
         /\ Cardinality(S) \in Nat /\ Cardinality(T) \in Nat
         /\ Cardinality(S) <= Cardinality(T)
BY FS_Subset, FS_CardinalityType

\* The count of an interval that is not empty.
LEMMA IntervalCount ==
  ASSUME NEW a \in Nat, NEW b \in Nat, a < b
  PROVE  Cardinality(a..b-1) = b - a
<1>1. Cardinality(a..b-1) = IF a > b - 1 THEN 0 ELSE (b - 1) - a + 1
  BY FS_Interval
<1>2. QED
  BY <1>1

\* Those below an index are finitely many.
LEMMA UnpaidIsFinite ==
  ASSUME NEW n, NEW i \in Nat
  PROVE  IsFiniteSet(UnpaidBelow(n, i))
         /\ Cardinality(UnpaidBelow(n, i)) \in Nat
<1>1. IsFiniteSet(0..i-1)
  BY FS_Interval
<1>2. QED
  BY <1>1, CountSubset DEF UnpaidBelow

\* The window of ApplyBlock covers the whole next block, unless as many
\* transactions as the lookahead were open at a time.
LEMMA NextBlockInWindow ==
  ASSUME WalletInv, widest < Lookahead, synced < Len(chain),
         NEW i \in chain[synced + 1]
  PROVE  i < revealed + Lookahead
<1> USE AddressAssumption DEF WalletInv, Types, TypeOK
<1>1. synced + 1 \in 1..Len(chain) /\ synced + 1 - 1 = synced
  OBVIOUS
<1>2. i \in Nat
  <2>1. chain[synced + 1] \in SUBSET Nat
    BY <1>1
  <2>2. QED
    BY <2>1
<1>3. Cardinality(UnpaidBelow(synced, i)) < Lookahead
  BY <1>1 DEF PaidWindow
<1>4. SUFFICES ASSUME revealed + Lookahead <= i PROVE FALSE
  BY <1>2
<1>5. revealed..i-1 \subseteq UnpaidBelow(synced, i)
  <2>1. SUFFICES ASSUME NEW j \in revealed..i-1
                 PROVE  j \in 0..i-1 /\ j \notin Paid(synced)
    BY DEF UnpaidBelow
  <2>2. j \in 0..i-1 /\ j \notin 0..revealed-1
    BY <1>2, <2>1
  <2>3. missed = {}
    BY DEF RescanFindsChange
  <2>4. QED
    BY <2>2, <2>3 DEF SeenAll
<1>6. Cardinality(revealed..i-1) = i - revealed
  BY <1>2, <1>4, IntervalCount
<1>7. Cardinality(revealed..i-1) <= Cardinality(UnpaidBelow(synced, i))
  BY <1>2, <1>5, UnpaidIsFinite, CountSubset
<1>8. QED
  BY <1>2, <1>3, <1>4, <1>6, <1>7, UnpaidIsFinite

-----------------------------------------------------------------------------
(* The invariant, one lemma per action.                                    *)

LEMMA InitWalletInv == ASSUME Init PROVE WalletInv
<1> USE AddressAssumption DEF Init
<1>1. Types
  BY FS_EmptySet DEF Types, TypeOK
<1>2. Paid(0) = {}
  BY PaidDef
<1>3. WidestBound
  BY FS_EmptySet, FS_Subset DEF WidestBound
<1>4. QED
  BY <1>1, <1>2, <1>3
     DEF WalletInv, SeenAll, UsedExplained, GivenWindow, PaidWindow,
         RescanFindsChange

\* What both uses of next_unused_address find below the index they return.
LEMMA NextUnusedWindow ==
  ASSUME WalletInv, NEW i \in 0..revealed, NextUnused(i)
  PROVE  /\ i \in Nat
         /\ UnpaidBelow(Len(chain), i) \subseteq change
         /\ revealed' \in Nat /\ used \cup {i} \subseteq 0..revealed'-1
<1> USE DEF WalletInv, Types, TypeOK, NextUnused
<1>1. i \in Nat /\ 0..i-1 \subseteq used
  OBVIOUS
<1>2. Paid(synced) \subseteq Paid(Len(chain))
  BY PaidMonotone
<1>3. UnpaidBelow(Len(chain), i) \subseteq change
  BY <1>1, <1>2 DEF UnpaidBelow, UsedExplained
<1>4. revealed' \in Nat /\ revealed <= revealed' /\ i < revealed'
  OBVIOUS
<1>5. used \subseteq 0..revealed'-1 /\ i \in 0..revealed'-1
  BY <1>1, <1>4
<1>6. QED
  BY <1>1, <1>3, <1>4, <1>5

\* A step that leaves chain, change and widest alone.
LEMMA SameHistory ==
  ASSUME WalletInv, UNCHANGED <<chain, change, widest>>
  PROVE  /\ \A n : Paid(n)' = Paid(n)
         /\ \A n, i : UnpaidBelow(n, i)' = UnpaidBelow(n, i)
         /\ WidestBound' /\ PaidWindow'
<1>1. \A n : Paid(n)' = Paid(n)
  BY DEF Paid
<1>2. \A n, i : UnpaidBelow(n, i)' = UnpaidBelow(n, i)
  BY <1>1 DEF UnpaidBelow
<1>3. QED
  BY <1>1, <1>2 DEF WalletInv, WidestBound, PaidWindow

LEMMA GiveAddressStep == ASSUME WalletInv, GiveAddress PROVE WalletInv'
<1>1. PICK i \in 0..revealed : NextUnused(i) /\ Give(i)
  BY DEF GiveAddress
<1>2. /\ UNCHANGED <<chain, phase, synced, used, change, widest, missed,
                     builds, runs>>
      /\ given' = given \cup {i} /\ reused' \subseteq reused \cup {i}
  BY <1>1 DEF GiveAddress, Give
<1>3. Types'
  BY <1>1, <1>2, NextUnusedWindow DEF WalletInv, Types, TypeOK
<1>4. GivenWindow'
  BY <1>1, <1>2, NextUnusedWindow, SameHistory DEF WalletInv, GivenWindow
<1>5. SeenAll' /\ UsedExplained'
  BY <1>2, SameHistory DEF WalletInv, SeenAll, UsedExplained
<1>6. RescanFindsChange'
  BY <1>2 DEF WalletInv, RescanFindsChange
<1>7. QED
  BY <1>2, <1>3, <1>4, <1>5, <1>6, SameHistory DEF WalletInv

LEMMA BuildTransactionStep ==
  ASSUME WalletInv, BuildTransaction PROVE WalletInv'
<1> DEFINE unpaid == Cardinality(change' \ Paid(Len(chain)))
<1>1. PICK i \in 0..revealed : /\ NextUnused(i) /\ Give(i)
                               /\ used' = used \cup {i}
                               /\ change' = change \cup {i}
  BY DEF BuildTransaction
<1>2. /\ UNCHANGED <<chain, phase, synced, missed, runs>>
      /\ builds < MaxBuilds /\ builds' = builds + 1
      /\ given' = given \cup {i} /\ reused' \subseteq reused \cup {i}
      /\ widest' = IF unpaid > widest THEN unpaid ELSE widest
  BY <1>1 DEF BuildTransaction, Give
<1>3. /\ IsFiniteSet(change') /\ Cardinality(change') \in Nat
      /\ Cardinality(change') <= builds + 1
  <2>1. IsFiniteSet(change) /\ Cardinality(change) \in Nat /\ builds \in Nat
        /\ Cardinality(change) <= builds
    BY FS_CardinalityType DEF WalletInv, Types, TypeOK
  <2>2. QED
    BY <1>1, <2>1, FS_AddElement
<1>4. unpaid \in Nat /\ unpaid <= builds + 1
  <2>1. change' \ Paid(Len(chain)) \subseteq change'
    OBVIOUS
  <2>2. unpaid \in Nat /\ unpaid <= Cardinality(change')
    BY <1>3, <2>1, CountSubset
  <2>3. builds \in Nat
    BY DEF WalletInv, Types, TypeOK
  <2>4. QED
    BY <1>3, <2>2, <2>3
<1> HIDE DEF unpaid
<1>5. widest' \in 0..MaxBuilds /\ widest <= widest' /\ unpaid <= widest'
  <2>1. widest \in 0..MaxBuilds /\ builds \in Nat /\ MaxBuilds \in Nat
    BY AddressAssumption DEF WalletInv, Types, TypeOK
  <2>2. QED
    BY <1>2, <1>4, <2>1
<1>6. \A n : Paid(n)' = Paid(n)
  BY <1>2 DEF Paid
<1>7. \A n, j : UnpaidBelow(n, j)' = UnpaidBelow(n, j)
  BY <1>6 DEF UnpaidBelow
<1>8. Types'
  <2>1. TypeOK
    BY DEF WalletInv, Types
  <2>2. i \in Nat /\ revealed' \in Nat /\ used' \subseteq 0..revealed' - 1
    BY <1>1, <2>1, NextUnusedWindow DEF TypeOK
  <2>3. /\ given' \subseteq Nat /\ missed' \subseteq given'
        /\ change' \subseteq given' /\ reused' \subseteq given'
    BY <1>1, <1>2, <2>1, <2>2 DEF TypeOK
  <2>4. builds' \in 0..MaxBuilds
    BY <1>2, <2>1, AddressAssumption DEF TypeOK
  <2>5. TypeOK'
    BY <1>2, <1>5, <2>1, <2>2, <2>3, <2>4 DEF TypeOK
  <2>6. QED
    BY <1>2, <1>3, <2>5 DEF WalletInv, Types
<1>9. SeenAll' /\ UsedExplained'
  BY <1>1, <1>2, <1>6 DEF WalletInv, SeenAll, UsedExplained
<1>10. GivenWindow'
  <2>1. \A j \in given' : UnpaidBelow(Len(chain), j) \subseteq change'
    BY <1>1, <1>2, NextUnusedWindow DEF WalletInv, GivenWindow
  <2>2. QED
    BY <1>2, <1>7, <2>1 DEF GivenWindow
<1>11. WidestBound'
  <2>1. Cardinality(change \ Paid(Len(chain)))' = unpaid
    BY <1>2, <1>6 DEF unpaid
  <2>2. change' # {}
    BY <1>1
  <2>3. QED
    BY <1>5, <2>1, <2>2 DEF WidestBound
<1>12. widest' < Lookahead => widest < Lookahead
  BY <1>5, AddressAssumption DEF WalletInv, Types, TypeOK
<1>13. PaidWindow'
  BY <1>2, <1>7, <1>12 DEF WalletInv, PaidWindow
<1>14. RescanFindsChange'
  BY <1>2, <1>12 DEF WalletInv, RescanFindsChange
<1>15. QED
  BY <1>8, <1>9, <1>10, <1>11, <1>13, <1>14 DEF WalletInv

LEMMA MineStep ==
  ASSUME WalletInv, NEW pays \in SUBSET given, Mine(pays)
  PROVE  WalletInv'
<1> DEFINE n == Len(chain)
<1>1. /\ n < MaxBlocks /\ chain' = Append(chain, pays)
      /\ UNCHANGED <<phase, synced, revealed, used, missed, given, change,
                     reused, widest, builds, runs>>
  BY DEF Mine, wallet, history
<1>2. /\ chain \in Seq(SUBSET Nat) /\ n \in Nat /\ synced \in 0..n
      /\ pays \in SUBSET Nat /\ given \subseteq Nat
  BY DEF WalletInv, Types, TypeOK
<1>3. /\ chain' \in Seq(SUBSET Nat) /\ Len(chain') = n + 1
      /\ \A h \in 1..n : chain'[h] = chain[h]
      /\ chain'[n + 1] = pays
  BY <1>1, <1>2
<1>4. \A m \in 0..n : Paid(m)' = Paid(m)
  BY <1>1, <1>2, PaidAppend DEF WalletInv
<1>5. Paid(n) \subseteq Paid(Len(chain))'
  BY <1>2, <1>3 DEF Paid
<1> HIDE DEF n
<1>6. Types'
  <2>1. TypeOK'
    BY <1>1, <1>2, <1>3, AddressAssumption DEF WalletInv, Types, TypeOK
  <2>2. \A h \in 1..Len(chain)' : chain'[h] \subseteq given
    BY <1>2, <1>3 DEF WalletInv, Types, n
  <2>3. QED
    BY <1>1, <2>1, <2>2 DEF WalletInv, Types
<1>7. SeenAll' /\ UsedExplained'
  <2>1. Paid(synced)' = Paid(synced)
    BY <1>1, <1>2, <1>4
  <2>2. QED
    BY <1>1, <2>1 DEF WalletInv, SeenAll, UsedExplained
<1>8. GivenWindow'
  BY <1>1, <1>5 DEF WalletInv, GivenWindow, UnpaidBelow, n
<1>9. /\ IsFiniteSet(change \ Paid(n))
      /\ Cardinality(change \ Paid(n)) \in Nat
      /\ Cardinality(change \ Paid(n)) <= widest
  BY CountSubset DEF WalletInv, Types, WidestBound, n
<1>10. WidestBound'
  <2>1. (change \ Paid(Len(chain)))' \subseteq change \ Paid(n)
    BY <1>1, <1>5
  <2>2. /\ Cardinality((change \ Paid(Len(chain)))') \in Nat
        /\ Cardinality((change \ Paid(Len(chain)))')
              <= Cardinality(change \ Paid(n))
    BY <1>9, <2>1, CountSubset
  <2>3. widest \in Nat
    BY DEF WalletInv, Types, TypeOK
  <2>4. QED
    BY <1>1, <1>9, <2>2, <2>3 DEF WalletInv, WidestBound
<1>11. PaidWindow'
  <2>1. SUFFICES ASSUME widest < Lookahead,
                        NEW h \in 1..n+1, NEW i \in chain'[h]
                 PROVE  Cardinality(UnpaidBelow(h - 1, i)') < Lookahead
    BY <1>1, <1>3 DEF PaidWindow
  <2>2. h - 1 \in 0..n
    BY <1>2
  <2>3. UnpaidBelow(h - 1, i)' = UnpaidBelow(h - 1, i)
    BY <1>4, <2>2 DEF UnpaidBelow
  <2>4. CASE h \in 1..n
    <3>1. i \in chain[h]
      BY <1>3, <2>4
    <3>2. QED
      BY <2>1, <2>3, <2>4, <3>1 DEF WalletInv, PaidWindow, n
  <2>5. CASE h = n + 1
    <3>1. i \in given /\ h - 1 = n
      BY <1>2, <1>3, <2>5
    <3>2. UnpaidBelow(n, i) \subseteq change \ Paid(n)
      BY <3>1 DEF WalletInv, GivenWindow, UnpaidBelow, n
    <3>3. /\ Cardinality(UnpaidBelow(n, i)) \in Nat
          /\ Cardinality(UnpaidBelow(n, i)) <= Cardinality(change \ Paid(n))
      BY <1>9, <3>2, CountSubset
    <3>4. widest \in Nat /\ Lookahead \in Nat
      BY AddressAssumption DEF WalletInv, Types, TypeOK
    <3>5. QED
      BY <1>9, <2>1, <2>3, <3>1, <3>3, <3>4
  <2>6. QED
    BY <1>2, <2>4, <2>5
<1>12. RescanFindsChange'
  BY <1>1 DEF WalletInv, RescanFindsChange
<1>13. QED
  BY <1>6, <1>7, <1>8, <1>10, <1>11, <1>12 DEF WalletInv

LEMMA ApplyBlockStep == ASSUME WalletInv, ApplyBlock PROVE WalletInv'
<1> DEFINE block == chain[synced + 1]
           found == {i \in block : i < revealed + Lookahead}
           ends  == {revealed} \cup {i + 1 : i \in found}
<1>1. /\ synced < Len(chain) /\ synced' = synced + 1
      /\ used' = used \cup found
      /\ missed' = missed \cup (block \ found)
      /\ UNCHANGED <<chain, phase, given, change, reused, widest, builds,
                     runs>>
  BY DEF ApplyBlock, history
<1>2. PICK r \in ends : (\A e \in ends : e <= r) /\ revealed' = r
  BY DEF ApplyBlock
<1>3. /\ synced \in Nat /\ synced + 1 \in 1..Len(chain)
      /\ revealed \in Nat /\ used \subseteq 0..revealed-1
      /\ block \subseteq given /\ given \subseteq Nat /\ found \subseteq block
  BY <1>1 DEF WalletInv, Types, TypeOK
<1>4. r \in Nat /\ revealed <= r /\ \A i \in found : i < r
  <2>1. r \in Nat /\ revealed <= r
    BY <1>2, <1>3
  <2>2. ASSUME NEW i \in found PROVE i < r
    <3>1. i + 1 \in ends /\ i \in Nat
      BY <1>3
    <3>2. i + 1 <= r
      BY <1>2, <3>1
    <3>3. QED
      BY <2>1, <3>1, <3>2
  <2>3. QED
    BY <2>1, <2>2
<1> HIDE DEF ends, found, block
<1>5. used' \subseteq 0..revealed'-1
  BY <1>1, <1>2, <1>3, <1>4
<1>6. Types'
  BY <1>1, <1>2, <1>3, <1>4, <1>5 DEF WalletInv, Types, TypeOK
<1>7. Paid(synced)' = Paid(synced) \cup block
  <2>1. Paid(synced)' = Paid(synced + 1)
    BY <1>1 DEF Paid
  <2>2. QED
    BY <1>3, <2>1, PaidNext DEF block
<1>8. SeenAll' /\ UsedExplained'
  BY <1>1, <1>3, <1>7 DEF WalletInv, SeenAll, UsedExplained
<1>9. GivenWindow' /\ WidestBound' /\ PaidWindow'
  BY <1>1, SameHistory DEF WalletInv, GivenWindow
<1>10. RescanFindsChange'
  <2>1. SUFFICES ASSUME widest < Lookahead PROVE missed' = {}
    BY <1>1 DEF RescanFindsChange
  <2>2. block \subseteq found
    BY <1>1, <2>1, NextBlockInWindow DEF block, found
  <2>3. QED
    BY <1>1, <2>1, <2>2 DEF WalletInv, RescanFindsChange
<1>11. QED
  BY <1>6, <1>8, <1>9, <1>10 DEF WalletInv

\* StartSync and EndSync only move the chain task on.
LEMMA PhaseStep ==
  ASSUME WalletInv, StartSync \/ EndSync \/ UNCHANGED vars
  PROVE  WalletInv'
<1>1. /\ UNCHANGED <<chain, synced, revealed, used, missed, given, change,
                     reused, widest, builds, runs>>
      /\ phase' \in {"start", "syncing", "synced"}
  BY DEF StartSync, EndSync, vars, wallet, history, WalletInv, Types, TypeOK
<1>2. Types'
  BY <1>1 DEF WalletInv, Types, TypeOK
<1>3. /\ SeenAll' /\ UsedExplained' /\ GivenWindow' /\ WidestBound'
      /\ PaidWindow'
  BY <1>1, SameHistory DEF WalletInv, SeenAll, UsedExplained, GivenWindow
<1>4. QED
  BY <1>1, <1>2, <1>3 DEF WalletInv, RescanFindsChange

LEMMA RestartStep == ASSUME WalletInv, Restart PROVE WalletInv'
<1>1. /\ synced' = 0 /\ revealed' = 0 /\ used' = {} /\ missed' = {}
      /\ runs < MaxRuns /\ runs' = runs + 1 /\ phase' = "start"
      /\ UNCHANGED <<chain, given, change, reused, widest, builds>>
  BY DEF Restart, history
<1>2. Types'
  BY <1>1, AddressAssumption DEF WalletInv, Types, TypeOK
<1>3. Paid(synced)' = {}
  BY <1>1 DEF Paid
<1>4. SeenAll' /\ UsedExplained' /\ RescanFindsChange'
  BY <1>1, <1>3 DEF SeenAll, UsedExplained, RescanFindsChange
<1>5. GivenWindow' /\ WidestBound' /\ PaidWindow'
  BY <1>1, SameHistory DEF WalletInv, GivenWindow
<1>6. QED
  BY <1>2, <1>4, <1>5 DEF WalletInv

-----------------------------------------------------------------------------
(* The theorems.                                                           *)

\* The window argument holds throughout, over any number of runs.
THEOREM WalletInvariance == Spec => []WalletInv
<1>1. ASSUME WalletInv, [Next]_vars PROVE WalletInv'
  BY <1>1, GiveAddressStep, BuildTransactionStep, MineStep, ApplyBlockStep,
     PhaseStep, RestartStep DEF Next
<1>2. QED
  BY <1>1, InitWalletInv, PTL DEF Spec

\* Every variable of the wallet, of the chain and of the histories keeps its
\* type; in particular at most MaxBuilds change addresses were ever open.
THEOREM WalletTypes == Spec => []TypeOK
<1>1. WalletInv => TypeOK
  BY DEF WalletInv, Types
<1>2. QED
  BY <1>1, WalletInvariance, PTL

\* A wallet that was never saved finds its change again in every run, as
\* long as fewer than Lookahead built transactions were unconfirmed at once.
THEOREM RescanFindsChangeHolds == Spec => []RescanFindsChange
<1>1. WalletInv => RescanFindsChange
  BY DEF WalletInv
<1>2. QED
  BY <1>1, WalletInvariance, PTL

\* next_unused_address never runs ahead of the chain, so a wallet that was
\* never saved finds every deposit again, in every run and whatever was
\* asked for and paid before.
THEOREM RescanFindsDepositsHolds == Spec => []RescanFindsDeposits
<1>1. WalletInv => RescanFindsDeposits
  BY AddressAssumption
     DEF WalletInv, WidestBound, RescanFindsChange, RescanFindsDeposits
<1>2. QED
  BY <1>1, WalletInvariance, PTL

\* A synchronized wallet that missed nothing never gives out an address that
\* a block has paid.
THEOREM ReuseOnlyBehindHolds == Spec => ReuseOnlyBehind
<1> DEFINE Behind == phase = "start" \/ synced < Len(chain) \/ missed # {}
<1>1. ASSUME WalletInv, [Next]_vars, reused' # reused PROVE Behind
  <2>1. SUFFICES ASSUME ~Behind PROVE FALSE
    OBVIOUS
  <2>2. synced = Len(chain) /\ missed = {}
    BY <1>1, <2>1 DEF WalletInv, Types, TypeOK
  <2>3. Paid(Len(chain)) \subseteq used
    BY <1>1, <2>2 DEF WalletInv, SeenAll
  <2>4. \A i : NextUnused(i) /\ Give(i) => reused' = reused
    BY <2>3 DEF NextUnused, Give
  <2>5. QED
    BY <1>1, <2>4 DEF Next, vars, wallet, history, GiveAddress,
       BuildTransaction, Mine, StartSync, ApplyBlock, EndSync, Restart
<1>2. WalletInv /\ [Next]_vars => [reused' # reused => Behind]_vars
  BY <1>1
<1>3. QED
  BY <1>2, WalletInvariance, PTL DEF Spec, ReuseOnlyBehind

=============================================================================
