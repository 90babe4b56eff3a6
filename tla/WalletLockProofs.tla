-------------------------- MODULE WalletLockProofs --------------------------
(***************************************************************************)
(* Proofs about WalletLock, for any number of worker threads and           *)
(* operations.                                                             *)
(*                                                                         *)
(* The operations of the tasks keep to a discipline (MayStep): locks are   *)
(* taken in the order ldk, wallet, fees, only what is held is given back,  *)
(* nothing is held over an await and nothing but ldk over block_in_place,  *)
(* and besides the chain task only the server unwraps a call that can      *)
(* fail, without a lock.  A segment is a list of steps that keeps to it    *)
(* and goes from the locks held before to the locks held after; the        *)
(* discipline of an operation follows from that of its parts.  What is     *)
(* left of a task's operation is then a segment from the locks it owns to  *)
(* none at all (Disciplined), and the owner of the highest lock waits for  *)
(* no other lock: it can go on, or it is in block_in_place with ldk.       *)
(***************************************************************************)
EXTENDS WalletLock, FiniteSetTheorems, TLAPS

-----------------------------------------------------------------------------
(* Segments.                                                               *)

LockOrder == {<<"ldk", "wallet">>, <<"ldk", "fees">>, <<"wallet", "fees">>}

\* Task t may do step x with the locks in H, which leaves it those in K.
MayStep(t, x, H, K) ==
  \/ \E l \in Locks : /\ x = Lock(l)
                      /\ l \notin H /\ K = H \cup {l}
                      /\ \A m \in H : <<m, l>> \in LockOrder
  \/ \E l \in Locks : x = Unlock(l) /\ l \in H /\ K = H \ {l}
  \/ x = Fail /\ K = H /\ (t = "chain" \/ (t = "server" /\ H = {}))
  \/ x = Await /\ H = {} /\ K = {}
  \/ x = Block /\ H \subseteq {"ldk"} /\ K = H

\* h[i]: the locks held before step i of s.
Witness(t, s, h) ==
  /\ h \in [1..Len(s)+1 -> SUBSET Locks]
  /\ \A i \in 1..Len(s) : MayStep(t, s[i], h[i], h[i + 1])

Segment(t, s, H, K) ==
  /\ \E S : s \in Seq(S)
  /\ \E h : Witness(t, s, h) /\ h[1] = H /\ h[Len(s) + 1] = K

\* A segment without steps leaves everything as it is.
LEMMA EmptySegment ==
  ASSUME NEW t, NEW H \in SUBSET Locks, NEW K
  PROVE  Segment(t, <<>>, H, K) <=> H = K
<1>1. ASSUME Segment(t, <<>>, H, K) PROVE H = K
  BY <1>1 DEF Segment
<1>2. ASSUME H = K PROVE Segment(t, <<>>, H, K)
  <2> DEFINE h == [i \in 1..1 |-> H]
  <2>1. Witness(t, <<>>, h) /\ h[1] = H /\ h[Len(<<>>) + 1] = K
    BY <1>2 DEF Witness
  <2>2. <<>> \in Seq({})
    OBVIOUS
  <2>3. QED
    BY <2>1, <2>2 DEF Segment
<1>3. QED
  BY <1>1, <1>2

\* A segment of one step.
LEMMA OneStep ==
  ASSUME NEW t, NEW x, NEW H \in SUBSET Locks, NEW K \in SUBSET Locks,
         MayStep(t, x, H, K)
  PROVE  Segment(t, <<x>>, H, K)
<1> DEFINE s == <<x>>
           h == [i \in 1..2 |-> IF i = 1 THEN H ELSE K]
<1>1. s \in Seq({x}) /\ Len(s) = 1 /\ s[1] = x
  OBVIOUS
<1>2. h \in [1..2 -> SUBSET Locks] /\ h[1] = H /\ h[2] = K
  OBVIOUS
<1> HIDE DEF s, h
<1>3. Witness(t, s, h)
  BY <1>1, <1>2 DEF Witness
<1>4. Segment(t, s, H, K)
  BY <1>1, <1>2, <1>3 DEF Segment
<1>5. QED
  BY <1>4 DEF s

\* One segment after the other.
LEMMA Concatenate ==
  ASSUME NEW t, NEW a, NEW b, NEW H, NEW K, NEW M,
         Segment(t, a, H, K), Segment(t, b, K, M)
  PROVE  Segment(t, a \o b, H, M)
<1>1. PICK A, B : a \in Seq(A) /\ b \in Seq(B)
  BY DEF Segment
<1>2. PICK f : Witness(t, a, f) /\ f[1] = H /\ f[Len(a) + 1] = K
  BY DEF Segment
<1>3. PICK g : Witness(t, b, g) /\ g[1] = K /\ g[Len(b) + 1] = M
  BY DEF Segment
<1> DEFINE n == Len(a)
           s == a \o b
           h == [i \in 1..Len(s)+1 |-> IF i <= n + 1 THEN f[i] ELSE g[i - n]]
<1>4. a \in Seq(A \cup B) /\ b \in Seq(A \cup B)
  BY <1>1
<1>5. /\ s \in Seq(A \cup B) /\ n \in Nat /\ Len(b) \in Nat
      /\ Len(s) = n + Len(b)
      /\ \A i \in 1..n : s[i] = a[i]
      /\ \A i \in n+1..Len(s) : i - n \in 1..Len(b) /\ s[i] = b[i - n]
  BY <1>4
<1> HIDE DEF n, s
<1>6. /\ f \in [1..n+1 -> SUBSET Locks]
      /\ \A i \in 1..n : MayStep(t, a[i], f[i], f[i + 1])
  BY <1>2 DEF Witness, n
<1>7. /\ g \in [1..Len(b)+1 -> SUBSET Locks]
      /\ \A i \in 1..Len(b) : MayStep(t, b[i], g[i], g[i + 1])
  BY <1>3 DEF Witness
<1>8. f[n + 1] = g[1]
  BY <1>2, <1>3 DEF n
<1>9. /\ \A i \in 1..n+1 : h[i] = f[i]
      /\ \A i \in n+1..Len(s)+1 : h[i] = g[i - n] /\ i - n \in 1..Len(b)+1
  BY <1>5, <1>8
<1>10. h \in [1..Len(s)+1 -> SUBSET Locks]
  BY <1>5, <1>6, <1>7
<1> HIDE DEF h
<1>11. ASSUME NEW i \in 1..Len(s) PROVE MayStep(t, s[i], h[i], h[i + 1])
  <2>1. CASE i \in 1..n
    <3>1. i + 1 \in 1..n+1 /\ i \in 1..n+1
      BY <1>5, <2>1
    <3>2. h[i] = f[i] /\ h[i + 1] = f[i + 1] /\ s[i] = a[i]
      BY <1>5, <1>9, <2>1, <3>1
    <3>3. QED
      BY <1>6, <2>1, <3>2
  <2>2. CASE i \in n+1..Len(s)
    <3>1. /\ i + 1 \in n+1..Len(s)+1 /\ i \in n+1..Len(s)+1
          /\ (i + 1) - n = (i - n) + 1 /\ i - n \in 1..Len(b)
      BY <1>5, <2>2
    <3>2. h[i] = g[i - n] /\ h[i + 1] = g[(i - n) + 1] /\ s[i] = b[i - n]
      BY <1>5, <1>9, <2>2, <3>1
    <3>3. QED
      BY <1>7, <3>1, <3>2
  <2>3. QED
    BY <1>5, <2>1, <2>2
<1>12. h[1] = H /\ h[Len(s) + 1] = M
  <2>1. 1 \in 1..n+1 /\ Len(s) + 1 \in n+1..Len(s)+1
        /\ (Len(s) + 1) - n = Len(b) + 1
    BY <1>5
  <2>2. QED
    BY <1>2, <1>3, <1>9, <2>1
<1>13. Segment(t, s, H, M)
  BY <1>5, <1>10, <1>11, <1>12 DEF Segment, Witness
<1>14. QED
  BY <1>13 DEF s

\* A segment begins with a step and goes on with a segment.
LEMMA FirstStep ==
  ASSUME NEW t, NEW s, NEW H, NEW K, Segment(t, s, H, K), s # <<>>
  PROVE  \E M \in SUBSET Locks :
           MayStep(t, Head(s), H, M) /\ Segment(t, Tail(s), M, K)
<1>1. PICK S : s \in Seq(S)
  BY DEF Segment
<1>2. PICK h : Witness(t, s, h) /\ h[1] = H /\ h[Len(s) + 1] = K
  BY DEF Segment
<1> DEFINE r == Tail(s)
           g == [i \in 1..Len(r)+1 |-> h[i + 1]]
<1>3. /\ Len(s) \in Nat \ {0} /\ Head(s) = s[1]
      /\ r \in Seq(S) /\ Len(r) = Len(s) - 1
      /\ \A i \in 1..Len(r) : r[i] = s[i + 1]
  BY <1>1
<1> HIDE DEF r
<1>4. /\ h \in [1..Len(s)+1 -> SUBSET Locks]
      /\ \A i \in 1..Len(s) : MayStep(t, s[i], h[i], h[i + 1])
  BY <1>2 DEF Witness
<1>5. /\ \A i \in 1..Len(r)+1 : i + 1 \in 1..Len(s)+1 /\ g[i] = h[i + 1]
      /\ \A i \in 1..Len(r) : i + 1 \in 1..Len(s)
  BY <1>3
<1>6. g \in [1..Len(r)+1 -> SUBSET Locks]
  BY <1>4, <1>5
<1> HIDE DEF g
<1>7. ASSUME NEW i \in 1..Len(r) PROVE MayStep(t, r[i], g[i], g[i + 1])
  <2>1. /\ i \in 1..Len(r)+1 /\ i + 1 \in 1..Len(r)+1 /\ i + 1 \in 1..Len(s)
    BY <1>3, <1>5
  <2>2. g[i] = h[i + 1] /\ g[i + 1] = h[(i + 1) + 1] /\ r[i] = s[i + 1]
    BY <1>3, <1>5, <2>1
  <2>3. QED
    BY <1>4, <2>1, <2>2
<1>8. g[1] = h[2] /\ g[Len(r) + 1] = K /\ h[2] \in SUBSET Locks
  <2>1. /\ 1 \in 1..Len(r)+1 /\ Len(r) + 1 \in 1..Len(r)+1
        /\ 1 + 1 = 2 /\ (Len(r) + 1) + 1 = Len(s) + 1 /\ 2 \in 1..Len(s)+1
    BY <1>3
  <2>2. QED
    BY <1>2, <1>4, <1>5, <2>1
<1>9. Segment(t, r, h[2], K)
  BY <1>3, <1>6, <1>7, <1>8 DEF Segment, Witness
<1>10. MayStep(t, Head(s), H, h[2])
  <2>1. 1 \in 1..Len(s) /\ 1 + 1 = 2
    BY <1>3
  <2>2. QED
    BY <1>2, <1>3, <1>4, <2>1
<1>11. QED
  BY <1>8, <1>9, <1>10 DEF r

\* A lock, a body, the lock given back.
LEMMA WithLock ==
  ASSUME NEW t, NEW l \in Locks, NEW H \in SUBSET Locks, NEW body,
         l \notin H, \A m \in H : <<m, l>> \in LockOrder,
         Segment(t, body, H \cup {l}, H \cup {l})
  PROVE  Segment(t, With(l, body), H, H)
<1>1. MayStep(t, Lock(l), H, H \cup {l})
  BY DEF MayStep
<1>2. MayStep(t, Unlock(l), H \cup {l}, H)
  <2>1. H = (H \cup {l}) \ {l}
    OBVIOUS
  <2>2. QED
    BY <2>1 DEF MayStep
<1>3. /\ Segment(t, <<Lock(l)>>, H, H \cup {l})
      /\ Segment(t, <<Unlock(l)>>, H \cup {l}, H)
  BY <1>1, <1>2, OneStep
<1>4. Segment(t, <<Lock(l)>> \o body, H, H \cup {l})
  BY <1>3, Concatenate
<1>5. QED
  BY <1>3, <1>4, Concatenate DEF With

-----------------------------------------------------------------------------
(* The operations of the tasks keep to the discipline.                     *)

Good(t, op) == Segment(t, op, {}, {})

\* One operation after the other.
LEMMA GoodTwice ==
  ASSUME NEW t, NEW a, NEW b, Good(t, a), Good(t, b)
  PROVE  Good(t, a \o b)
BY Concatenate DEF Good

\* A guard around nothing, under the locks in H.
LEMMA EmptyGuard ==
  ASSUME NEW t, NEW l \in Locks, NEW H \in SUBSET Locks, l \notin H,
         \A m \in H : <<m, l>> \in LockOrder
  PROVE  Segment(t, With(l, <<>>), H, H)
<1>1. H \cup {l} \in SUBSET Locks
  OBVIOUS
<1>2. Segment(t, <<>>, H \cup {l}, H \cup {l})
  BY <1>1, EmptySegment
<1>3. QED
  BY <1>2, WithLock

\* What is done under LDK's lock.
LEMMA UnderLdk ==
  ASSUME NEW t, NEW body, Segment(t, body, {"ldk"}, {"ldk"})
  PROVE  Good(t, With("ldk", body))
<1>1. "ldk" \in Locks /\ {} \cup {"ldk"} = {"ldk"}
  BY DEF Locks
<1>2. Segment(t, With("ldk", body), {}, {})
  BY <1>1, WithLock
<1>3. QED
  BY <1>2 DEF Good

\* The guards of which the operations are made.
LEMMA Guards ==
  ASSUME NEW t
  PROVE  /\ \A l \in Locks : Good(t, With(l, <<>>))
         /\ Good(t, With("ldk", With("wallet", <<>>)))
         /\ Good(t, With("wallet", With("fees", <<>>)))
         /\ Good(t, <<Await>>)
         /\ t \in {"chain", "server"} => Good(t, <<Fail>>)
         /\ t = "chain" => Good(t, With("wallet", <<Fail>>))
<1>3. \A l \in Locks : Good(t, With(l, <<>>))
  BY EmptyGuard DEF Good
<1>4. Good(t, With("ldk", With("wallet", <<>>)))
  <2>1. /\ "wallet" \in Locks /\ {"ldk"} \in SUBSET Locks
        /\ "wallet" \notin {"ldk"} /\ <<"ldk", "wallet">> \in LockOrder
    BY DEF Locks, LockOrder
  <2>2. QED
    BY <2>1, EmptyGuard, UnderLdk
<1>5. Good(t, With("wallet", With("fees", <<>>)))
  <2>1. /\ "fees" \in Locks /\ "wallet" \in Locks
        /\ {} \cup {"wallet"} = {"wallet"} /\ {"wallet"} \in SUBSET Locks
        /\ "fees" \notin {"wallet"} /\ <<"wallet", "fees">> \in LockOrder
    BY DEF Locks, LockOrder
  <2>2. Segment(t, With("fees", <<>>), {"wallet"}, {"wallet"})
    BY <2>1, EmptyGuard
  <2>3. Segment(t, With("wallet", With("fees", <<>>)), {}, {})
    BY <2>1, <2>2, WithLock
  <2>4. QED
    BY <2>3 DEF Good
<1>6. Good(t, <<Await>>)
  <2>1. MayStep(t, Await, {}, {})
    BY DEF MayStep
  <2>2. QED
    BY <2>1, OneStep DEF Good
<1>7. ASSUME t = "chain" PROVE Good(t, With("wallet", <<Fail>>))
  <2>1. "wallet" \in Locks /\ {} \cup {"wallet"} = {"wallet"}
    BY DEF Locks
  <2>2. MayStep(t, Fail, {"wallet"}, {"wallet"})
    BY <1>7 DEF MayStep
  <2>3. Segment(t, <<Fail>>, {"wallet"}, {"wallet"})
    BY <2>1, <2>2, OneStep
  <2>4. Segment(t, With("wallet", <<Fail>>), {}, {})
    BY <2>1, <2>3, WithLock
  <2>5. QED
    BY <2>4 DEF Good
<1>8. ASSUME t \in {"chain", "server"} PROVE Good(t, <<Fail>>)
  <2>1. MayStep(t, Fail, {}, {})
    BY <1>8 DEF MayStep
  <2>2. QED
    BY <2>1, OneStep DEF Good
<1>9. QED
  BY <1>3, <1>4, <1>5, <1>6, <1>7, <1>8

\* block_in_place, alone and in what LDK does under its lock.
LEMMA Blocks ==
  ASSUME NEW t
  PROVE  /\ Good(t, <<Block>>)
         /\ \A b \in broadcast_transactions :
              /\ Good(t, With("ldk", b))
              /\ Good(t, With("ldk", With("fees", <<>>) \o b))
         /\ Good(t, With("ldk", With("fees", <<>>) \o With("wallet", <<>>)))
<1>1. /\ {"ldk"} \in SUBSET Locks /\ "fees" \in Locks /\ "wallet" \in Locks
      /\ "fees" \notin {"ldk"} /\ "wallet" \notin {"ldk"}
      /\ <<"ldk", "fees">> \in LockOrder /\ <<"ldk", "wallet">> \in LockOrder
  BY DEF Locks, LockOrder
<1>2. /\ Segment(t, With("fees", <<>>), {"ldk"}, {"ldk"})
      /\ Segment(t, With("wallet", <<>>), {"ldk"}, {"ldk"})
  BY <1>1, EmptyGuard
<1>3. ASSUME NEW H \in SUBSET Locks, H \subseteq {"ldk"}
      PROVE  Segment(t, <<Block>>, H, H)
  <2>1. MayStep(t, Block, H, H)
    BY <1>3 DEF MayStep
  <2>2. QED
    BY <2>1, OneStep
<1>4. \A b \in broadcast_transactions : Segment(t, b, {"ldk"}, {"ldk"})
  BY <1>1, <1>3, EmptySegment DEF broadcast_transactions
<1>5. \A b \in broadcast_transactions :
        Segment(t, With("fees", <<>>) \o b, {"ldk"}, {"ldk"})
  BY <1>2, <1>4, Concatenate
<1>6. Segment(t, With("fees", <<>>) \o With("wallet", <<>>), {"ldk"}, {"ldk"})
  BY <1>2, Concatenate
<1>7. Good(t, <<Block>>)
  BY <1>3 DEF Good
<1>8. QED
  BY <1>4, <1>5, <1>6, <1>7, UnderLdk

\* No task has an operation that breaks the discipline.
LEMMA OperationsAreGood ==
  ASSUME NEW t \in Tasks, NEW op \in Operations(t)
  PROVE  Good(t, op)
<1> DEFINE W == With("wallet", <<>>)
           L == With("ldk", <<>>)
           F == With("fees", <<>>)
           LW == With("ldk", With("wallet", <<>>))
           LFW == With("ldk", With("fees", <<>>) \o With("wallet", <<>>))
           WF == With("wallet", With("fees", <<>>))
           X == With("wallet", <<Fail>>)
           LB(b) == With("ldk", b)
           LFB(b) == With("ldk", With("fees", <<>>) \o b)
<1>1. /\ Good(t, W) /\ Good(t, L) /\ Good(t, F) /\ Good(t, LW)
      /\ Good(t, LFW) /\ Good(t, WF) /\ Good(t, <<Await>>)
      /\ Good(t, <<Block>>)
      /\ \A b \in broadcast_transactions : Good(t, LB(b)) /\ Good(t, LFB(b))
      /\ t = "chain" => Good(t, X)
      /\ t \in {"chain", "server"} => Good(t, <<Fail>>)
  BY Guards, Blocks DEF Locks
<1>2. CASE t = "server"
  <2>1. PICK body \in {next_address, balance, list_channels, open_channel,
                       close_channel, connect} :
          op = (<<Fail>> \o body) \o <<Await, Fail>>
    BY <1>2 DEF Operations, Request
  <2>2. \/ body = W \/ body = W \o L \/ body = L \/ body = LFW
        \/ body = L \o LW \/ body = <<Block>> \o L
    BY <2>1 DEF next_address, balance, list_channels, open_channel,
       close_channel, connect
  <2>3. <<Await, Fail>> = <<Await>> \o <<Fail>>
    OBVIOUS
  <2> HIDE DEF W, L, LW, LFW
  <2>4. Good(t, body)
    BY <1>1, <2>2, GoodTwice
  <2>5. Good(t, <<Fail>> \o body) /\ Good(t, <<Await>> \o <<Fail>>)
    BY <1>1, <1>2, <2>4, GoodTwice
  <2>6. Good(t, (<<Fail>> \o body) \o (<<Await>> \o <<Fail>>))
    BY <2>5, GoodTwice
  <2>7. QED
    BY <2>1, <2>3, <2>6
<1>3. CASE t = "background"
  <2>1. \/ op \in {FundingGenerationReady, OpenChannelRequest, BumpTransaction}
        \/ \E b \in broadcast_transactions : op = LB(b)
    BY <1>3 DEF Operations, RebroadcastClaims
  <2>2. \/ op = WF \o L \/ op = (W \o L) \o LW
        \/ op = ((W \o W) \o W) \o <<Block>>
        \/ \E b \in broadcast_transactions : op = LB(b)
    BY <2>1
       DEF FundingGenerationReady, build_transaction, OpenChannelRequest,
           BumpTransaction
  <2> HIDE DEF W, L, LW, WF, LB
  <2>3. Good(t, W \o L) /\ Good(t, W \o W)
    BY <1>1, GoodTwice
  <2>4. Good(t, (W \o W) \o W)
    BY <1>1, <2>3, GoodTwice
  <2>5. QED
    BY <1>1, <2>2, <2>3, <2>4, GoodTwice
<1>4. CASE t = "chain"
  <2>1. \/ op = X
        \/ \E b \in broadcast_transactions :
             op = (<<Await, Fail>> \o LFB(b)) \o X
    BY <1>4 DEF Operations, InitialSync, filtered_block_connected
  <2>2. <<Await, Fail>> = <<Await>> \o <<Fail>>
    OBVIOUS
  <2> HIDE DEF X, LFB
  <2>3. Good(t, <<Await>> \o <<Fail>>)
    BY <1>1, <1>4, GoodTwice
  <2>4. \A b \in broadcast_transactions :
          Good(t, (<<Await>> \o <<Fail>>) \o LFB(b))
    BY <1>1, <2>3, GoodTwice
  <2>5. \A b \in broadcast_transactions :
          Good(t, ((<<Await>> \o <<Fail>>) \o LFB(b)) \o X)
    BY <1>1, <1>4, <2>4, GoodTwice
  <2>6. QED
    BY <1>1, <1>4, <2>1, <2>2, <2>5
<1>5. CASE t = "peer"
  <2>1. op = LW \/ op = LB(<<Block>>)
    BY <1>5 DEF Operations, PeerMessage, funding_signed
  <2>2. <<Block>> \in broadcast_transactions
    BY DEF broadcast_transactions
  <2>3. QED
    BY <1>1, <2>1, <2>2
<1>6. CASE t = "fees"
  <2>1. op = <<Await>> \o F
    BY <1>6 DEF Operations, update_fee_estimates
  <2> HIDE DEF F
  <2>2. QED
    BY <1>1, <2>1, GoodTwice
<1>7. QED
  BY <1>2, <1>3, <1>4, <1>5, <1>6 DEF Tasks

-----------------------------------------------------------------------------
(* The inductive invariant.                                                *)

Held(t) == {l \in Locks : owner[l] = t}

Types ==
  /\ todo = [t \in Tasks |-> todo[t]]
  /\ running \subseteq Tasks
  /\ IsFiniteSet(running) /\ Cardinality(running) <= Workers
  /\ detached \subseteq Tasks \ running
  /\ owner \in [Locks -> Tasks \cup {NoTask}]
  /\ poisoned \subseteq Locks /\ dead \subseteq Tasks
  /\ synced \in BOOLEAN /\ started \in 0..MaxOps

\* What is left to do begins with the locks the task owns and gives back all.
Disciplined == \A t \in Tasks : Segment(t, todo[t], Held(t), {})

\* Nobody leaves its thread with a lock, nor keeps it when there is nothing
\* left to do.
HoldersRun ==
  /\ \A t \in Tasks : Held(t) # {} => OnThread(t)
  /\ \A t \in Tasks : OnThread(t) => todo[t] # <<>>

LockInv == Types /\ Disciplined /\ HoldersRun /\ PanicsContained

-----------------------------------------------------------------------------
(* The steps.                                                              *)

\* Nothing is locked and nobody runs when the process starts.
LEMMA InitLockInv == ASSUME Init PROVE LockInv
<1>1. \A t \in Tasks : Held(t) = {}
  BY DEF Init, Held, NoTask, Tasks
<1>2. Types
  <2>1. IsFiniteSet(running) /\ Cardinality(running) <= Workers
    BY FS_EmptySet, WorkersAssumption DEF Init
  <2>2. synced \in BOOLEAN
    BY Zenon DEF Init
  <2>3. todo = [t \in Tasks |-> todo[t]]
    BY DEF Init
  <2>4. QED
    BY <2>1, <2>2, <2>3, WorkersAssumption DEF Init, Types
<1>3. Disciplined
  <2>1. SUFFICES ASSUME NEW t \in Tasks
                 PROVE  Segment(t, todo[t], Held(t), {})
    BY DEF Disciplined
  <2>2. todo[t] = <<>> /\ Held(t) = {}
    BY <1>1 DEF Init
  <2>3. Segment(t, <<>>, {}, {})
    BY EmptySegment
  <2>4. QED
    BY <2>2, <2>3
<1>4. QED
  BY <1>1, <1>2, <1>3
     DEF LockInv, HoldersRun, OnThread, PanicsContained, Init

\* An idle task owns nothing.
LEMMA IdleHoldsNothing ==
  ASSUME LockInv, NEW t \in Tasks, todo[t] = <<>>
  PROVE  Held(t) = {}
<1>1. Segment(t, <<>>, Held(t), {}) /\ Held(t) \in SUBSET Locks
  BY DEF LockInv, Disciplined, Held
<1>2. QED
  BY <1>1, EmptySegment

\* A lock has one owner.
LEMMA NoTaskIsNone == NoTask \notin Tasks
BY DEF NoTask, Tasks

\* An operation that begins keeps to the discipline.
LEMMA BeginStep ==
  ASSUME LockInv, NEW t \in Tasks, Begin(t)
  PROVE  LockInv'
<1>1. PICK op \in Operations(t) : todo' = [todo EXCEPT ![t] = op]
  BY DEF Begin
<1>2. /\ todo[t] = <<>> /\ started < MaxOps /\ started' = started + 1
      /\ synced' = (synced \/ t = "chain")
      /\ UNCHANGED <<running, detached, owner, poisoned, dead>>
  BY DEF Begin
<1>3. \A u : Held(u)' = Held(u)
  BY <1>2 DEF Held
<1>4. Types'
  <2>1. synced' \in BOOLEAN
    BY <1>2, Zenon
  <2>2. started' \in 0..MaxOps
    BY <1>2, WorkersAssumption DEF LockInv, Types
  <2>3. todo' = [u \in Tasks |-> todo'[u]]
    BY <1>1 DEF LockInv, Types
  <2>4. QED
    BY <1>2, <2>1, <2>2, <2>3 DEF LockInv, Types
<1>5. Disciplined'
  <2>1. SUFFICES ASSUME NEW u \in Tasks
                 PROVE  Segment(u, todo'[u], Held(u), {})
    BY <1>3 DEF Disciplined
  <2>2. CASE u = t
    <3>1. todo'[u] = op /\ Held(u) = {}
      BY <1>1, <1>2, <2>2, IdleHoldsNothing DEF LockInv, Types
    <3>2. Segment(u, op, {}, {})
      BY <2>2, OperationsAreGood DEF Good
    <3>3. QED
      BY <3>1, <3>2
  <2>3. CASE u # t
    BY <1>1, <2>3 DEF LockInv, Types, Disciplined
  <2>4. QED
    BY <2>2, <2>3
<1>6. HoldersRun' /\ PanicsContained'
  <2>1. ~OnThread(t) /\ \A u \in Tasks \ {t} : todo'[u] = todo[u]
    BY <1>1, <1>2 DEF LockInv, Types, HoldersRun
  <2>2. QED
    BY <1>2, <1>3, <2>1 DEF LockInv, HoldersRun, OnThread, PanicsContained
<1>7. QED
  BY <1>4, <1>5, <1>6 DEF LockInv

\* A worker taken changes no lock.
LEMMA ScheduleStep ==
  ASSUME LockInv, NEW t \in Tasks, Schedule(t)
  PROVE  LockInv'
<1>1. /\ t \notin running /\ t \notin detached
      /\ Cardinality(running) < Workers /\ todo[t] # <<>>
      /\ running' = running \cup {t}
      /\ UNCHANGED <<todo, detached, owner, poisoned, dead, synced, started>>
  BY DEF Schedule, FreeWorker, OnThread
<1>2. IsFiniteSet(running') /\ Cardinality(running') <= Workers
  <2>1. IsFiniteSet(running) /\ Cardinality(running) \in Nat
    BY FS_CardinalityType DEF LockInv, Types
  <2>2. /\ IsFiniteSet(running')
        /\ Cardinality(running') = Cardinality(running) + 1
    BY <1>1, <2>1, FS_AddElement
  <2>3. QED
    BY <1>1, <2>1, <2>2, WorkersAssumption
<1>3. Types'
  BY <1>1, <1>2 DEF LockInv, Types
<1>4. \A u : Held(u)' = Held(u)
  BY <1>1 DEF Held
<1>5. QED
  BY <1>1, <1>3, <1>4
     DEF LockInv, Disciplined, HoldersRun, OnThread, PanicsContained

\* A task does its next step, owns the locks in M afterwards and keeps its
\* thread, unless it is done or awaits something.
LEMMA GoesOn ==
  ASSUME LockInv, NEW t \in Tasks, OnThread(t), NEW M,
         todo' = [todo EXCEPT ![t] = Tail(todo[t])],
         MayStep(t, Head(todo[t]), Held(t), M),
         Segment(t, Tail(todo[t]), M, {}), M \in SUBSET Locks,
         Held(t)' = M, \A u \in Tasks \ {t} : Held(u)' = Held(u),
         \A u \in Tasks \ {t} : OnThread(u)' <=> OnThread(u),
         Tail(todo[t]) # <<>> /\ Head(todo[t]) # Await => OnThread(t)',
         Tail(todo[t]) = <<>> => ~OnThread(t)',
         IsFiniteSet(running'), Cardinality(running') <= Workers,
         running' \subseteq Tasks, detached' \subseteq Tasks \ running',
         owner' \in [Locks -> Tasks \cup {NoTask}],
         UNCHANGED <<poisoned, dead, synced, started>>
  PROVE  LockInv'
<1>1. Types'
  <2>1. todo' = [u \in Tasks |-> todo'[u]]
    BY DEF LockInv, Types
  <2>2. QED
    BY <2>1 DEF LockInv, Types
<1>2. todo'[t] = Tail(todo[t]) /\ \A u \in Tasks \ {t} : todo'[u] = todo[u]
  BY DEF LockInv, Types
<1>3. Disciplined'
  BY <1>2 DEF LockInv, Disciplined
<1>4. HoldersRun'
  <2>1. ASSUME Tail(todo[t]) = <<>> PROVE M = {}
    <3>1. Segment(t, <<>>, M, {})
      BY <2>1
    <3>2. QED
      BY <3>1, EmptySegment
  <2>2. ASSUME Head(todo[t]) = Await PROVE M = {}
    BY <2>2 DEF MayStep, Lock, Unlock, Await, Fail, Block
  <2>3. M # {} => OnThread(t)'
    BY <2>1, <2>2
  <2>4. \A u \in Tasks : Held(u)' # {} => OnThread(u)'
    BY <2>3 DEF LockInv, HoldersRun
  <2>5. \A u \in Tasks : OnThread(u)' => todo'[u] # <<>>
    BY <1>2 DEF LockInv, HoldersRun
  <2>6. QED
    BY <2>4, <2>5 DEF HoldersRun
<1>5. PanicsContained'
  BY DEF LockInv, PanicsContained
<1>6. QED
  BY <1>1, <1>3, <1>4, <1>5 DEF LockInv

\* Fewer tasks on workers are still at most so many.
LEMMA FewerRun ==
  ASSUME LockInv, NEW R, R \subseteq running
  PROVE  IsFiniteSet(R) /\ Cardinality(R) <= Workers
<1>1. /\ IsFiniteSet(running) /\ Cardinality(running) \in Nat
      /\ Cardinality(running) <= Workers
  BY FS_CardinalityType DEF LockInv, Types
<1>2. /\ IsFiniteSet(R) /\ Cardinality(R) \in Nat
      /\ Cardinality(R) <= Cardinality(running)
  BY <1>1, FS_Subset, FS_CardinalityType
<1>3. QED
  BY <1>1, <1>2, WorkersAssumption

\* The same for the steps that do not move a task between threads.
LEMMA AdvanceStep ==
  ASSUME LockInv, NEW t \in Tasks, OnThread(t), Advance(t), NEW M,
         MayStep(t, Head(todo[t]), Held(t), M),
         Segment(t, Tail(todo[t]), M, {}), M \in SUBSET Locks,
         Held(t)' = M, \A u \in Tasks \ {t} : Held(u)' = Held(u),
         owner' \in [Locks -> Tasks \cup {NoTask}],
         UNCHANGED <<poisoned, dead, synced, started>>
  PROVE  LockInv'
<1>1. /\ todo' = [todo EXCEPT ![t] = Tail(todo[t])]
      /\ \/ /\ Tail(todo[t]) = <<>> \/ Head(todo[t]) = Await
            /\ running' = running \ {t} /\ detached' = detached \ {t}
         \/ /\ Tail(todo[t]) # <<>> /\ Head(todo[t]) # Await
            /\ running' = running /\ detached' = detached
  BY DEF Advance, LeavesThread
<1>2. IsFiniteSet(running') /\ Cardinality(running') <= Workers
  <2>1. running' \subseteq running
    BY <1>1
  <2>2. QED
    BY <2>1, FewerRun
<1>3. running' \subseteq Tasks /\ detached' \subseteq Tasks \ running'
  BY <1>1 DEF LockInv, Types
<1>4. /\ \A u \in Tasks \ {t} : OnThread(u)' <=> OnThread(u)
      /\ Tail(todo[t]) # <<>> /\ Head(todo[t]) # Await => OnThread(t)'
      /\ Tail(todo[t]) = <<>> => ~OnThread(t)'
  BY <1>1 DEF OnThread
<1>5. QED
  BY <1>1, <1>2, <1>3, <1>4, GoesOn

\* A task panics: what it owned is poisoned, and if the chain task lives that
\* is nothing.
LEMMA PanicStep ==
  ASSUME LockInv, NEW t \in Tasks, Panic(t),
         t = "chain" \/ poisoned # {} \/ (t = "server" /\ Held(t) = {})
  PROVE  LockInv'
<1>1. /\ dead' = dead \cup {t}
      /\ poisoned' = poisoned \cup Held(t)
      /\ owner' = [l \in Locks |-> IF owner[l] = t THEN NoTask ELSE owner[l]]
      /\ todo' = [todo EXCEPT ![t] = <<>>]
      /\ running' = running \ {t} /\ detached' = detached \ {t}
      /\ UNCHANGED <<synced, started>>
  BY DEF Panic, LeavesThread, Held
<1>2. IsFiniteSet(running') /\ Cardinality(running') <= Workers
  <2>1. running' \subseteq running
    BY <1>1
  <2>2. QED
    BY <2>1, FewerRun
<1>3. Types'
  <2>1. todo' = [u \in Tasks |-> todo'[u]]
    BY <1>1 DEF LockInv, Types
  <2>2. owner' \in [Locks -> Tasks \cup {NoTask}]
    BY <1>1 DEF LockInv, Types
  <2>3. poisoned' \subseteq Locks
    BY <1>1 DEF LockInv, Types, Held
  <2>4. detached' \subseteq Tasks \ running' /\ running' \subseteq Tasks
    BY <1>1 DEF LockInv, Types
  <2>5. QED
    BY <1>1, <1>2, <2>1, <2>2, <2>3, <2>4 DEF LockInv, Types
<1>4. Held(t)' = {} /\ \A u \in Tasks \ {t} : Held(u)' = Held(u)
  BY <1>1, NoTaskIsNone DEF Held
<1>5. todo'[t] = <<>> /\ \A u \in Tasks \ {t} : todo'[u] = todo[u]
  BY <1>1 DEF LockInv, Types
<1>6. Disciplined'
  <2>1. Segment(t, <<>>, {}, {})
    BY EmptySegment
  <2>2. QED
    BY <1>4, <1>5, <2>1 DEF LockInv, Disciplined
<1>7. HoldersRun'
  <2>1. ~OnThread(t)' /\ \A u \in Tasks \ {t} : OnThread(u)' <=> OnThread(u)
    BY <1>1 DEF OnThread
  <2>2. QED
    BY <1>4, <1>5, <2>1 DEF LockInv, HoldersRun
<1>8. PanicsContained'
  <2>1. poisoned # {} => "chain" \in dead'
    BY <1>1 DEF LockInv, PanicsContained
  <2>2. CASE t = "chain" \/ poisoned # {}
    BY <1>1, <2>1, <2>2 DEF PanicsContained
  <2>3. CASE t = "server" /\ Held(t) = {}
    <3>1. poisoned' = poisoned /\ dead' \ {"server"} = dead \ {"server"}
      BY <1>1, <2>3
    <3>2. QED
      BY <1>1, <3>1 DEF LockInv, PanicsContained
  <2>4. QED
    BY <2>2, <2>3
<1>9. QED
  BY <1>3, <1>6, <1>7, <1>8 DEF LockInv

\* What the next step of a task is, and what it leaves.
LEMMA StepInDiscipline ==
  ASSUME LockInv, NEW t \in Tasks, todo[t] # <<>>
  PROVE  \E M \in SUBSET Locks :
           /\ MayStep(t, Head(todo[t]), Held(t), M)
           /\ Segment(t, Tail(todo[t]), M, {})
BY FirstStep DEF LockInv, Disciplined

\* A step that asks for a lock asks for one above those the task owns.
LEMMA LockInOrder ==
  ASSUME NEW t, NEW x, NEW H, NEW K, MayStep(t, x, H, K), x[1] = "lock"
  PROVE  /\ x[2] \in Locks /\ K = H \cup {x[2]}
         /\ \A m \in H : <<m, x[2]>> \in LockOrder
BY DEF MayStep, Lock, Unlock, Fail, Await, Block

\* A step that gives a lock back gives back one the task owns.
LEMMA UnlockOwned ==
  ASSUME NEW t, NEW x, NEW H, NEW K, MayStep(t, x, H, K), x[1] = "unlock"
  PROVE  x[2] \in Locks /\ x[2] \in H /\ K = H \ {x[2]}
BY DEF MayStep, Lock, Unlock, Fail, Await, Block

\* The other steps change no lock; who may fail is the chain task, or the
\* server without a lock, and nothing but ldk is held over block_in_place.
LEMMA CallInDiscipline ==
  ASSUME NEW t, NEW x, NEW H, NEW K, MayStep(t, x, H, K),
         x[1] \in {"fail", "await", "block"}
  PROVE  /\ K = H
         /\ x[1] = "fail" => t = "chain" \/ (t = "server" /\ H = {})
         /\ x[1] = "block" => H \subseteq {"ldk"} /\ x # Await
BY DEF MayStep, Lock, Unlock, Fail, Await, Block

\* A lock is taken in order, or is poisoned and the task dies.
LEMMA AcquireStep ==
  ASSUME LockInv, NEW t \in Tasks, Acquire(t)
  PROVE  LockInv'
<1> DEFINE w == Wanted(t)
<1>1. /\ OnThread(t) /\ todo[t] # <<>> /\ Head(todo[t])[1] = "lock"
      /\ owner[w] = NoTask
      /\ \/ /\ owner' = [owner EXCEPT ![w] = t] /\ Advance(t)
            /\ UNCHANGED <<poisoned, dead, synced, started>>
         \/ w \in poisoned /\ Panic(t)
  BY DEF Acquire, Step
<1>2. PICK M \in SUBSET Locks : /\ MayStep(t, Head(todo[t]), Held(t), M)
                                /\ Segment(t, Tail(todo[t]), M, {})
  BY <1>1, StepInDiscipline
<1>3. w \in Locks /\ M = Held(t) \cup {w}
  BY <1>1, <1>2, LockInOrder DEF Wanted
<1> HIDE DEF w
<1>4. CASE w \in poisoned /\ Panic(t)
  BY <1>4, PanicStep
<1>5. CASE /\ owner' = [owner EXCEPT ![w] = t] /\ Advance(t)
           /\ UNCHANGED <<poisoned, dead, synced, started>>
  <2>1. owner \in [Locks -> Tasks \cup {NoTask}]
    BY DEF LockInv, Types
  <2>2. owner' \in [Locks -> Tasks \cup {NoTask}]
    BY <1>3, <1>5, <2>1
  <2>3. Held(t)' = M
    BY <1>3, <1>5, <2>1 DEF Held
  <2>4. \A u \in Tasks \ {t} : Held(u)' = Held(u)
    BY <1>1, <1>3, <1>5, <2>1, NoTaskIsNone DEF Held
  <2>5. QED
    BY <1>1, <1>2, <1>5, <2>2, <2>3, <2>4, AdvanceStep
<1>6. QED
  BY <1>1, <1>4, <1>5

\* Only what is held is given back.
LEMMA ReleaseStep ==
  ASSUME LockInv, NEW t \in Tasks, Release(t)
  PROVE  LockInv'
<1> DEFINE w == Wanted(t)
<1>1. /\ OnThread(t) /\ todo[t] # <<>> /\ Head(todo[t])[1] = "unlock"
      /\ owner' = [owner EXCEPT ![w] = NoTask] /\ Advance(t)
      /\ UNCHANGED <<poisoned, dead, synced, started>>
  BY DEF Release, Step
<1>2. PICK M \in SUBSET Locks : /\ MayStep(t, Head(todo[t]), Held(t), M)
                                /\ Segment(t, Tail(todo[t]), M, {})
  BY <1>1, StepInDiscipline
<1>3. w \in Locks /\ w \in Held(t) /\ M = Held(t) \ {w}
  BY <1>1, <1>2, UnlockOwned DEF Wanted
<1> HIDE DEF w
<1>4. owner \in [Locks -> Tasks \cup {NoTask}]
  BY DEF LockInv, Types
<1>5. owner' \in [Locks -> Tasks \cup {NoTask}]
  BY <1>1, <1>3, <1>4
<1>6. Held(t)' = M
  BY <1>1, <1>3, <1>4, NoTaskIsNone DEF Held
<1>7. \A u \in Tasks \ {t} : Held(u)' = Held(u)
  BY <1>1, <1>3, <1>4, NoTaskIsNone DEF Held
<1>8. QED
  BY <1>1, <1>2, <1>5, <1>6, <1>7, AdvanceStep

\* An unwrapped call, or an await without a lock.
LEMMA CallStep ==
  ASSUME LockInv, NEW t \in Tasks, Call(t)
  PROVE  LockInv'
<1>1. /\ OnThread(t) /\ todo[t] # <<>>
      /\ Head(todo[t])[1] \in {"fail", "await"}
      /\ \/ Head(todo[t])[1] = "fail" /\ Panic(t)
         \/ Advance(t) /\ UNCHANGED <<owner, poisoned, dead, synced, started>>
  BY DEF Call, Step
<1>2. PICK M \in SUBSET Locks : /\ MayStep(t, Head(todo[t]), Held(t), M)
                                /\ Segment(t, Tail(todo[t]), M, {})
  BY <1>1, StepInDiscipline
<1>3. /\ M = Held(t)
      /\ Head(todo[t])[1] = "fail" =>
           t = "chain" \/ (t = "server" /\ Held(t) = {})
  BY <1>1, <1>2, CallInDiscipline
<1>4. CASE Head(todo[t])[1] = "fail" /\ Panic(t)
  BY <1>3, <1>4, PanicStep
<1>5. CASE Advance(t) /\ UNCHANGED <<owner, poisoned, dead, synced, started>>
  <2>1. \A u : Held(u)' = Held(u)
    BY <1>5 DEF Held
  <2>2. owner' \in [Locks -> Tasks \cup {NoTask}]
    BY <1>5 DEF LockInv, Types
  <2>3. QED
    BY <1>1, <1>2, <1>3, <1>5, <2>1, <2>2, AdvanceStep
<1>6. QED
  BY <1>1, <1>4, <1>5

\* block_in_place changes the thread of a task, and no lock.
LEMMA BlockInPlaceStep ==
  ASSUME LockInv, NEW t \in Tasks, BlockInPlace(t)
  PROVE  LockInv'
<1>1. /\ t \in running
      /\ running' = running \ {t} /\ detached' = detached \cup {t}
      /\ UNCHANGED <<todo, owner, poisoned, dead, synced, started>>
  BY DEF BlockInPlace
<1>2. IsFiniteSet(running') /\ Cardinality(running') <= Workers
  <2>1. running' \subseteq running
    BY <1>1
  <2>2. QED
    BY <2>1, FewerRun
<1>3. Types'
  BY <1>1, <1>2 DEF LockInv, Types
<1>4. \A u : Held(u)' = Held(u) /\ (OnThread(u)' <=> OnThread(u))
  BY <1>1 DEF Held, OnThread
<1>5. QED
  BY <1>1, <1>3, <1>4 DEF LockInv, Disciplined, HoldersRun, PanicsContained

\* The task goes on, with a worker or without.
LEMMA BlockReturnsStep ==
  ASSUME LockInv, NEW t \in Tasks, BlockReturns(t)
  PROVE  LockInv'
<1>1. /\ OnThread(t) /\ todo[t] # <<>> /\ Head(todo[t])[1] = "block"
      /\ t \in detached /\ Cardinality(running) < Workers
      /\ UNCHANGED <<owner, poisoned, dead, synced, started>>
      /\ \/ Advance(t)
         \/ /\ Tail(todo[t]) # <<>>
            /\ todo' = [todo EXCEPT ![t] = Tail(todo[t])]
            /\ running' = running \cup {t} /\ detached' = detached \ {t}
  BY DEF BlockReturns, Step, FreeWorker
<1>2. PICK M \in SUBSET Locks : /\ MayStep(t, Head(todo[t]), Held(t), M)
                                /\ Segment(t, Tail(todo[t]), M, {})
  BY <1>1, StepInDiscipline
<1>3. M = Held(t)
  BY <1>1, <1>2, CallInDiscipline
<1>4. \A u : Held(u)' = Held(u)
  BY <1>1 DEF Held
<1>5. owner' \in [Locks -> Tasks \cup {NoTask}]
  BY <1>1 DEF LockInv, Types
<1>6. CASE Advance(t)
  BY <1>1, <1>2, <1>3, <1>4, <1>5, <1>6, AdvanceStep
<1>7. CASE /\ Tail(todo[t]) # <<>>
           /\ todo' = [todo EXCEPT ![t] = Tail(todo[t])]
           /\ running' = running \cup {t} /\ detached' = detached \ {t}
  <2>1. /\ IsFiniteSet(running) /\ Cardinality(running) \in Nat
        /\ t \notin running
    BY <1>1, FS_CardinalityType DEF LockInv, Types
  <2>2. /\ IsFiniteSet(running')
        /\ Cardinality(running') = Cardinality(running) + 1
    BY <1>7, <2>1, FS_AddElement
  <2>3. Cardinality(running') <= Workers
    BY <1>1, <2>1, <2>2, WorkersAssumption
  <2>4. running' \subseteq Tasks /\ detached' \subseteq Tasks \ running'
    BY <1>7 DEF LockInv, Types
  <2>5. OnThread(t)' /\ \A u \in Tasks \ {t} : OnThread(u)' <=> OnThread(u)
    BY <1>7 DEF OnThread
  <2>6. QED
    BY <1>1, <1>2, <1>3, <1>4, <1>5, <1>7, <2>2, <2>3, <2>4, <2>5, GoesOn
<1>8. QED
  BY <1>1, <1>6, <1>7

-----------------------------------------------------------------------------
(* The theorems.                                                           *)

\* The discipline holds in every interleaving, through every panic.
THEOREM LockInvariance == Spec => []LockInv
<1>1. ASSUME LockInv, UNCHANGED vars PROVE LockInv'
  <2>1. \A u : Held(u)' = Held(u)
    BY <1>1 DEF vars, Held
  <2>2. QED
    BY <1>1, <2>1
       DEF vars, LockInv, Types, Disciplined, HoldersRun, OnThread,
           PanicsContained
<1>2. ASSUME LockInv, [Next]_vars PROVE LockInv'
  BY <1>1, <1>2, BeginStep, ScheduleStep, AcquireStep, ReleaseStep, CallStep,
     BlockInPlaceStep, BlockReturnsStep DEF Next
<1>3. QED
  BY <1>2, InitLockInv, PTL DEF Spec

\* Types; in particular no operation ends with a lock still held.
THEOREM LockTypes == Spec => []TypeOK
<1>1. ASSUME LockInv PROVE TypeOK
  <2>1. ASSUME NEW l \in Locks, owner[l] # NoTask PROVE todo[owner[l]] # <<>>
    <3>1. owner[l] \in Tasks /\ l \in Held(owner[l])
      BY <1>1, <2>1 DEF LockInv, Types, Held
    <3>2. QED
      BY <1>1, <3>1, IdleHoldsNothing
  <2>2. QED
    BY <1>1, <2>1 DEF LockInv, Types, TypeOK
<1>2. QED
  BY <1>1, LockInvariance, PTL

\* The owner of the highest lock has a thread and waits for no lock.
LEMMA HighestOwner ==
  ASSUME LockInv, NEW k \in Locks, owner[k] # NoTask
  PROVE  \E l \in Locks :
           /\ owner[l] \in Tasks /\ l \in Held(owner[l])
           /\ OnThread(owner[l]) /\ todo[owner[l]] # <<>>
           /\ ~Blocked(owner[l])
           /\ \A m \in Locks : <<l, m>> \in LockOrder => owner[m] = NoTask
<1>1. PICK l \in Locks :
        /\ owner[l] # NoTask
        /\ \A m \in Locks : <<l, m>> \in LockOrder => owner[m] = NoTask
  BY DEF Locks, LockOrder
<1>2. owner[l] \in Tasks /\ l \in Held(owner[l])
  BY <1>1 DEF LockInv, Types, Held
<1>3. OnThread(owner[l]) /\ todo[owner[l]] # <<>>
  BY <1>2 DEF LockInv, HoldersRun
<1>4. ASSUME Blocked(owner[l]) PROVE FALSE
  <2>1. /\ Head(todo[owner[l]])[1] = "lock"
        /\ owner[Wanted(owner[l])] # NoTask
    BY <1>4 DEF Blocked, Step
  <2>2. \E M : MayStep(owner[l], Head(todo[owner[l]]), Held(owner[l]), M)
    BY <1>2, <1>3, StepInDiscipline
  <2>3. Wanted(owner[l]) \in Locks /\ <<l, Wanted(owner[l])>> \in LockOrder
    BY <1>2, <2>1, <2>2, LockInOrder DEF Wanted
  <2>4. QED
    BY <1>1, <2>1, <2>3
<1>5. QED
  BY <1>1, <1>2, <1>3, <1>4

\* A task that waits for a lock waits for one that somebody holds.
LEMMA BlockedByOwner ==
  ASSUME LockInv, NEW t \in Tasks, Blocked(t)
  PROVE  Wanted(t) \in Locks /\ owner[Wanted(t)] # NoTask
<1>1. /\ todo[t] # <<>> /\ Head(todo[t])[1] = "lock"
      /\ owner[Wanted(t)] # NoTask
  BY DEF Blocked, Step
<1>2. \E M : MayStep(t, Head(todo[t]), Held(t), M)
  BY <1>1, StepInDiscipline
<1>3. QED
  BY <1>1, <1>2, LockInOrder DEF Wanted

\* Whatever the number of threads: if nobody can go on, every worker waits
\* for LDK's lock, whose owner waits in broadcast_transactions.  There is no
\* deadlock among the locks themselves.
THEOREM NoOtherHang == Spec => []HangsOnlyInBroadcast
<1>1. ASSUME LockInv PROVE HangsOnlyInBroadcast
  <2>1. SUFFICES ASSUME Hung PROVE Starved
    BY DEF HangsOnlyInBroadcast
  <2>2. \A t \in Tasks : todo[t] # <<>> => ~CanGoOn(t)
    BY <2>1 DEF Hung
  <2>3. PICK u \in Tasks : todo[u] # <<>>
    BY <2>1 DEF Hung
  <2>4. \A t \in running : t \in Tasks /\ Blocked(t)
    <3>1. SUFFICES ASSUME NEW t \in running PROVE t \in Tasks /\ Blocked(t)
      OBVIOUS
    <3>2. t \in Tasks /\ OnThread(t) /\ todo[t] # <<>>
      BY <1>1 DEF LockInv, Types, HoldersRun, OnThread
    <3>3. QED
      BY <2>2, <3>2 DEF CanGoOn
  <2>5. \E t \in Tasks : Blocked(t)
    <3>1. CASE FreeWorker
      BY <2>2, <2>3, <3>1 DEF CanGoOn
    <3>2. CASE ~FreeWorker
      <4>1. running # {}
        BY <3>2, FS_EmptySet, WorkersAssumption DEF FreeWorker
      <4>2. QED
        BY <2>4, <4>1
    <3>3. QED
      BY <3>1, <3>2
  <2>6. \E k \in Locks : owner[k] # NoTask
    BY <1>1, <2>5, BlockedByOwner
  <2>7. PICK l \in Locks :
          /\ owner[l] \in Tasks /\ l \in Held(owner[l])
          /\ OnThread(owner[l]) /\ todo[owner[l]] # <<>>
          /\ ~Blocked(owner[l])
          /\ \A m \in Locks : <<l, m>> \in LockOrder => owner[m] = NoTask
    BY <1>1, <2>6, HighestOwner
  <2>8. /\ Step(owner[l], "block") /\ owner[l] \in detached /\ ~FreeWorker
    BY <2>2, <2>7 DEF CanGoOn, OnThread
  <2>9. l = "ldk"
    <3>1. \E M : MayStep(owner[l], Head(todo[owner[l]]), Held(owner[l]), M)
      BY <1>1, <2>7, StepInDiscipline
    <3>2. Held(owner[l]) \subseteq {"ldk"}
      BY <2>8, <3>1, CallInDiscipline DEF Step
    <3>3. QED
      BY <2>7, <3>2
  <2>10. \A t \in running : Wanted(t) = "ldk"
    <3>1. SUFFICES ASSUME NEW t \in running PROVE Wanted(t) = "ldk"
      OBVIOUS
    <3>2. Wanted(t) \in Locks /\ owner[Wanted(t)] # NoTask
      BY <1>1, <2>4, BlockedByOwner
    <3>3. QED
      BY <2>7, <2>9, <3>2 DEF Locks, LockOrder
  <2>11. Cardinality(running) = Workers
    BY <1>1, <2>8, FS_CardinalityType, WorkersAssumption
       DEF LockInv, Types, FreeWorker
  <2>12. QED
    BY <2>4, <2>8, <2>9, <2>10, <2>11 DEF Starved
<1>2. QED
  BY <1>1, LockInvariance, PTL

\* The server's own panics harm nobody else; a poisoned lock, and with it the
\* death of any other task, comes from the chain task only.
THEOREM ServerDiesAlone == Spec => []PanicsContained
<1>1. LockInv => PanicsContained
  BY DEF LockInv
<1>2. QED
  BY <1>1, LockInvariance, PTL

=============================================================================
