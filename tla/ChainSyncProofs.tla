-------------------------- MODULE ChainSyncProofs --------------------------
(***************************************************************************)
(* Proofs about ChainSync, for any branches and chains of any length, and  *)
(* any number of reorganizations, RPC errors and restarts.                 *)
(*                                                                         *)
(* Most of it is about prefixes: what the ChannelManager, the SpvClient    *)
(* and the wallet hold are chains, and each is compared with the others.   *)
(* The wallet is never told of a disconnected block.  What keeps           *)
(* apply_block from failing is that the block at which the ChannelManager  *)
(* takes up the new branch is one of the wallet's (WalletFollows): while   *)
(* bitcoind has not changed branch the wallet has all that the SpvClient   *)
(* has, and after one change at least what both branches share.            *)
(***************************************************************************)
EXTENDS ChainSync, WellFoundedInduction, TLAPS

-----------------------------------------------------------------------------
(* Chains and their prefixes.                                              *)

\* A bounded set of numbers has a largest one.
LEMMA LargestExists ==
  ASSUME NEW S \in SUBSET Nat, NEW n \in Nat, \A s \in S : s <= n, S # {}
  PROVE  \E m \in S : \A s \in S : s <= m
<1> DEFINE T == {k \in Nat : n - k \in S}
<1>1. ASSUME NEW s \in S PROVE n - s \in T
  <2>1. s \in Nat /\ s <= n
    OBVIOUS
  <2>2. n - s \in Nat /\ n - (n - s) = s
    BY <2>1
  <2>3. QED
    BY <2>2
<1>2. T \subseteq Nat /\ T # {}
  BY <1>1
<1>3. \E x \in T : \A y \in T : ~ (<<y, x>> \in OpToRel(<, Nat))
  <2> HIDE DEF T
  <2> QED BY <1>2, NatLessThanWellFounded, WFMin
<1>4. PICK x \in T : \A y \in T : ~ (y < x)
  BY <1>3 DEF OpToRel
<1>5. ASSUME NEW s \in S PROVE s <= n - x
  <2>1. n - s \in T /\ s \in Nat /\ x \in Nat
    BY <1>1
  <2>2. QED
    BY <1>4, <2>1
<1>6. QED
  BY <1>4, <1>5

\* The chains are the sequences of at most MaxHeight blocks.
LEMMA ChainsDef ==
  ASSUME NEW c
  PROVE  c \in Chains <=> c \in Seq(Forks) /\ Len(c) <= MaxHeight
<1>1. ASSUME c \in Chains PROVE c \in Seq(Forks) /\ Len(c) <= MaxHeight
  <2>1. PICK m \in 0..MaxHeight : c \in [1..m -> Forks]
    BY <1>1 DEF Chains, BoundedSeq, SeqOf
  <2>2. QED
    BY <2>1, ChainBounds
<1>2. ASSUME c \in Seq(Forks), Len(c) <= MaxHeight PROVE c \in Chains
  <2>1. Len(c) \in 0..MaxHeight /\ c \in [1..Len(c) -> Forks]
    BY <1>2, ChainBounds
  <2>2. QED
    BY <2>1 DEF Chains, BoundedSeq, SeqOf
<1>3. QED
  BY <1>1, <1>2

\* A prefix, element by element.
LEMMA PrefixDef ==
  ASSUME NEW a \in Chains, NEW b \in Chains
  PROVE  IsPrefix(a, b) <=>
           Len(a) <= Len(b) /\ \A i \in 1..Len(a) : a[i] = b[i]
<1>1. a \in Seq(Forks) /\ b \in Seq(Forks)
  BY ChainsDef
<1>2. QED
  BY <1>1 DEF IsPrefix

\* Chains with the same blocks are the same.
LEMMA SameChain ==
  ASSUME NEW a \in Chains, NEW b \in Chains, IsPrefix(a, b), Len(b) <= Len(a)
  PROVE  a = b
<1>1. a \in Seq(Forks) /\ b \in Seq(Forks)
  BY ChainsDef
<1>2. Len(a) = Len(b) /\ \A i \in 1..Len(a) : a[i] = b[i]
  BY <1>1, PrefixDef
<1>3. QED
  BY <1>1, <1>2

\* The order of the chains: a shorter one may begin a longer one.
LEMMA PrefixOrder ==
  ASSUME NEW a \in Chains, NEW b \in Chains
  PROVE  /\ Len(a) \in Nat
         /\ IsPrefix(a, a)
         /\ IsPrefix(a, b) => Len(a) <= Len(b)
<1>1. a \in Seq(Forks)
  BY ChainsDef
<1>2. QED
  BY <1>1, PrefixDef

\* A prefix of a prefix.
LEMMA PrefixTrans ==
  ASSUME NEW a \in Chains, NEW b \in Chains, NEW c \in Chains,
         IsPrefix(a, b), IsPrefix(b, c)
  PROVE  IsPrefix(a, c)
<1>1. Len(a) \in Nat /\ Len(b) \in Nat /\ Len(c) \in Nat
  BY PrefixOrder
<1>2. QED
  BY <1>1, PrefixDef

\* The empty chain begins every chain.
LEMMA EmptyChain ==
  /\ <<>> \in Chains
  /\ \A a \in Chains : IsPrefix(<<>>, a)
<1>1. <<>> \in Chains
  <2> DEFINE e == <<>>
  <2>1. e \in Seq(Forks) /\ Len(e) <= MaxHeight
    BY ChainBounds
  <2> HIDE DEF e
  <2>2. e \in Chains
    BY <2>1, ChainsDef, Zenon
  <2>3. QED
    BY <2>2 DEF e
<1>2. ASSUME NEW a \in Chains PROVE IsPrefix(<<>>, a)
  <2>1. Len(a) \in Nat
    BY PrefixOrder
  <2>2. QED
    BY <1>1, <2>1, PrefixDef
<1>3. QED
  BY <1>1, <1>2

\* The first blocks of a chain.
LEMMA FirstBlocks ==
  ASSUME NEW t \in Chains, NEW n \in 0..Len(t)
  PROVE  /\ SubSeq(t, 1, n) \in Chains
         /\ Len(SubSeq(t, 1, n)) = n
         /\ IsPrefix(SubSeq(t, 1, n), t)
<1> DEFINE s == SubSeq(t, 1, n)
<1>1. t \in Seq(Forks) /\ Len(t) \in Nat /\ Len(t) <= MaxHeight
  BY ChainsDef
<1>2. s \in Seq(Forks) /\ Len(s) = n /\ \A i \in 1..n : s[i] = t[i]
  BY <1>1
<1> HIDE DEF s
<1>3. s \in Chains
  BY <1>1, <1>2, ChainsDef, ChainBounds
<1>4. IsPrefix(s, t)
  BY <1>1, <1>2, <1>3, PrefixDef
<1>5. QED
  BY <1>2, <1>3, <1>4 DEF s

\* Prefixes of SequencesExt.
LEMMA PrefixesDef ==
  ASSUME NEW t \in Chains, NEW p
  PROVE  p \in Prefixes(t) <=> p \in Chains /\ IsPrefix(p, t)
<1>1. ASSUME p \in Prefixes(t) PROVE p \in Chains /\ IsPrefix(p, t)
  <2>1. PICK n \in 0..Len(t) : p = SubSeq(t, 1, n)
    BY <1>1 DEF Prefixes
  <2>2. QED
    BY <2>1, FirstBlocks
<1>2. ASSUME p \in Chains, IsPrefix(p, t) PROVE p \in Prefixes(t)
  <2>1. Len(p) \in 0..Len(t)
    BY <1>2, PrefixOrder
  <2>2. p \in Seq(Forks) /\ t \in Seq(Forks)
    BY <1>2, ChainsDef
  <2>3. p = SubSeq(t, 1, Len(p))
    BY <1>2, <2>2 DEF IsPrefix
  <2>4. QED
    BY <2>1, <2>3 DEF Prefixes
<1>3. QED
  BY <1>1, <1>2

\* The fork is the last block that two chains share.
LEMMA ForkIsCommon ==
  ASSUME NEW a \in Chains, NEW b \in Chains
  PROVE  /\ Fork(a, b) \in Chains
         /\ IsPrefix(Fork(a, b), a) /\ IsPrefix(Fork(a, b), b)
<1> DEFINE C == CommonPrefixes({a, b})
           L == {Len(c) : c \in C}
<1>1. \A c : c \in C <=> c \in Chains /\ IsPrefix(c, a) /\ IsPrefix(c, b)
  BY PrefixesDef DEF CommonPrefixes
<1>2. C # {} /\ \A c \in C : Len(c) \in Nat /\ Len(c) <= Len(a)
  BY <1>1, EmptyChain, PrefixOrder
<1> HIDE DEF C
<1>3. L \in SUBSET Nat /\ L # {} /\ Len(a) \in Nat /\ \A n \in L : n <= Len(a)
  BY <1>2, PrefixOrder
<1>4. PICK m \in L : \A n \in L : n <= m
  <2> HIDE DEF L
  <2> QED BY <1>3, LargestExists
<1>5. \E c \in C : \A d \in C : Len(d) <= Len(c)
  BY <1>4
<1>6. Fork(a, b) \in C
  BY <1>5 DEF Fork, LongestCommonPrefix, C
<1>7. QED
  BY <1>1, <1>6

\* The next block towards a tip.
LEMMA BlockAfterIsNext ==
  ASSUME NEW c \in Chains, NEW t \in Chains, IsPrefix(c, t), Len(c) < Len(t)
  PROVE  /\ BlockAfter(c, t) \in Chains
         /\ Len(BlockAfter(c, t)) = Len(c) + 1
         /\ IsPrefix(c, BlockAfter(c, t)) /\ IsPrefix(BlockAfter(c, t), t)
<1>1. Len(c) \in Nat /\ Len(t) \in Nat /\ Len(c) + 1 \in 0..Len(t)
  BY PrefixOrder
<1>2. /\ BlockAfter(c, t) \in Chains
      /\ Len(BlockAfter(c, t)) = Len(c) + 1
      /\ IsPrefix(BlockAfter(c, t), t)
  BY <1>1, FirstBlocks DEF BlockAfter
<1>3. IsPrefix(c, BlockAfter(c, t))
  BY <1>1, <1>2, PrefixDef
<1>4. QED
  BY <1>2, <1>3

\* What begins the next block is that block or begins the one before.
LEMMA PrefixOfNext ==
  ASSUME NEW c \in Chains, NEW d \in Chains, NEW p \in Chains,
         IsPrefix(c, d), Len(d) = Len(c) + 1, IsPrefix(p, d)
  PROVE  p = d \/ IsPrefix(p, c)
<1>1. Len(c) \in Nat /\ Len(p) \in Nat /\ Len(p) <= Len(c) + 1
  BY PrefixOrder
<1>2. CASE Len(p) = Len(c) + 1
  BY <1>2, SameChain
<1>3. CASE Len(p) <= Len(c)
  BY <1>1, <1>3, PrefixDef
<1>4. QED
  BY <1>1, <1>2, <1>3

\* A block mined on top of a chain.
LEMMA MinedOnTop ==
  ASSUME NEW a \in Chains, NEW b \in Forks, Len(a) < MaxHeight
  PROVE  /\ Append(a, b) \in Chains
         /\ Len(Append(a, b)) = Len(a) + 1
         /\ IsPrefix(a, Append(a, b))
<1> DEFINE s == Append(a, b)
<1>1. a \in Seq(Forks) /\ Len(a) \in Nat
  BY ChainsDef
<1>2. /\ s \in Seq(Forks) /\ Len(s) = Len(a) + 1
      /\ \A i \in 1..Len(a) : s[i] = a[i]
  BY <1>1
<1> HIDE DEF s
<1>3. s \in Chains
  BY <1>1, <1>2, ChainsDef, ChainBounds
<1>4. IsPrefix(a, s)
  BY <1>1, <1>2, <1>3, PrefixDef
<1>5. QED
  BY <1>2, <1>3, <1>4 DEF s

-----------------------------------------------------------------------------
(* The inductive invariant.                                                *)

\* Nobody is ahead of bitcoind, whose chain never gets shorter.
Heights ==
  /\ Len(spv) <= Len(best) /\ Len(target) <= Len(best)
  /\ Len(wallet) <= Len(best)
  /\ reorgs <= allReorgs

\* From start() to the first block ChannelManager and SpvClient stay at the
\* tip of the start; later the monitor goes with the ChannelManager.
Tips ==
  /\ pc = "wallet" => cm = spv /\ cm = boot
  /\ pc = "poll" => cm = spv
  /\ Following => mon = cm \/ cm = boot

\* What the wallet is sure to have when the next block is connected.
WalletFollows ==
  /\ pc = "wallet" /\ reorgs = 0 => IsPrefix(boot, best)
  /\ pc = "poll" /\ reorgs = 0 => IsPrefix(spv, wallet)
  /\ pc = "poll" /\ reorgs <= 1 =>
       \A c \in Chains : IsPrefix(c, spv) /\ IsPrefix(c, best)
                           => IsPrefix(c, wallet)
  /\ pc = "connecting" /\ reorgs <= 1 => IsPrefix(cm, wallet)
  /\ ApplyNeedsTwoReorgs

ChainInv ==
  /\ TypeOK
  /\ Heights
  /\ Tips
  /\ MissedOnlyAtBoot
  /\ WalletFollows

-----------------------------------------------------------------------------
(* The steps.                                                              *)

\* The types the steps below use.
LEMMA Types ==
  ASSUME ChainInv
  PROVE  /\ best \in Chains /\ cm \in Chains /\ mon \in Chains
         /\ wallet \in Chains /\ spv \in Chains /\ target \in Chains
         /\ boot \in Chains
         /\ Len(best) \in Nat /\ Len(cm) \in Nat /\ Len(wallet) \in Nat
         /\ Len(spv) \in Nat /\ Len(target) \in Nat
         /\ reorgs \in Nat /\ allReorgs \in Nat
<1>1. /\ {best, cm, mon, wallet, spv, target, boot} \subseteq Chains
      /\ reorgs \in Nat /\ allReorgs \in Nat
  BY ChainBounds DEF ChainInv, TypeOK
<1>2. QED
  BY <1>1, PrefixOrder

LEMMA InitChainInv == ASSUME Init PROVE ChainInv
<1>1. TypeOK
  BY EmptyChain, ChainBounds DEF Init, TypeOK
<1>2. Heights /\ Tips /\ MissedOnlyAtBoot /\ WalletFollows
  BY DEF Init, Heights, Tips, MissedOnlyAtBoot, WalletFollows, Following,
         ApplyNeedsTwoReorgs
<1>3. QED
  BY <1>1, <1>2 DEF ChainInv

\* A step that tells nobody of a block: it writes to disk, or ends a task
\* with an error, or leaves all as it is.
LEMMA QuietStep ==
  ASSUME ChainInv,
         UNCHANGED <<best, cm, mon, seen, wallet, spv, target, boot, reorgs,
                     allReorgs>>,
         pc' = pc \/ pc' \in {"start_failed", "wallet_panic", "poll_panic"},
         saved' \in [cm : Chains, mon : Chains, seen : SUBSET Chains],
         rpcErrors' \in 0..MaxRpcErrors, restarts' \in 0..MaxRestarts
  PROVE  ChainInv'
<1>1. TypeOK'
  BY DEF ChainInv, TypeOK, Dead
<1>2. Heights' /\ Tips' /\ MissedOnlyAtBoot'
  BY DEF ChainInv, Heights, Tips, MissedOnlyAtBoot, Following
<1>3. WalletFollows'
  BY DEF ChainInv, WalletFollows, ApplyNeedsTwoReorgs
<1>4. QED
  BY <1>1, <1>2, <1>3 DEF ChainInv

\* The calls to bitcoind that fail before a block is fetched.
LEMMA ErrorStep ==
  ASSUME ChainInv, StartFails \/ WalletRpcFails \/ PollFails \/ FindForkFails
  PROVE  ChainInv'
<1>1. /\ UNCHANGED <<best, cm, mon, seen, wallet, spv, target, boot, reorgs,
                     allReorgs, saved, restarts>>
      /\ pc' = pc \/ pc' \in {"start_failed", "wallet_panic", "poll_panic"}
      /\ rpcErrors < MaxRpcErrors /\ rpcErrors' = rpcErrors + 1
  BY DEF StartFails, WalletRpcFails, PollFails, FindForkFails, RpcError
<1>2. /\ saved' \in [cm : Chains, mon : Chains, seen : SUBSET Chains]
      /\ rpcErrors' \in 0..MaxRpcErrors /\ restarts' \in 0..MaxRestarts
  BY <1>1, ChainBounds DEF ChainInv, TypeOK
<1>3. QED
  BY <1>1, <1>2, QuietStep

LEMMA PersistStep ==
  ASSUME ChainInv, Persist \/ UNCHANGED vars
  PROVE  ChainInv'
<1>1. /\ UNCHANGED <<best, cm, mon, seen, wallet, spv, target, boot, reorgs,
                     allReorgs, rpcErrors, restarts, pc>>
      /\ \/ saved' = [saved EXCEPT !.cm = cm]
         \/ saved' = [saved EXCEPT !.mon = mon, !.seen = seen]
         \/ saved' = saved
  BY DEF Persist, vars, bounds
<1>2. saved' \in [cm : Chains, mon : Chains, seen : SUBSET Chains]
  BY <1>1 DEF ChainInv, TypeOK
<1>3. rpcErrors' \in 0..MaxRpcErrors /\ restarts' \in 0..MaxRestarts
  BY <1>1 DEF ChainInv, TypeOK
<1>4. QED
  BY <1>1, <1>2, <1>3, QuietStep

\* bitcoind's chain grows: what two chains shared they still share, and
\* nothing more, because nobody is ahead of it.
LEMMA MineBlockStep ==
  ASSUME ChainInv, NEW b \in Forks, MineBlock(b)
  PROVE  ChainInv'
<1>1. /\ Len(best) < MaxHeight /\ best' = Append(best, b)
      /\ UNCHANGED <<cm, mon, seen, wallet, spv, target, pc, saved, boot,
                     reorgs, allReorgs, rpcErrors, restarts>>
  BY DEF MineBlock, bounds
<1>2. /\ best' \in Chains /\ Len(best') = Len(best) + 1
      /\ IsPrefix(best, best')
  BY <1>1, Types, MinedOnTop
<1>3. TypeOK'
  BY <1>1, <1>2 DEF ChainInv, TypeOK, Dead
<1>4. Heights'
  BY <1>1, <1>2, Types DEF ChainInv, Heights
<1>5. Tips' /\ MissedOnlyAtBoot'
  BY <1>1 DEF ChainInv, Tips, MissedOnlyAtBoot, Following
<1>6. ASSUME NEW c \in Chains, IsPrefix(c, spv), IsPrefix(c, best')
      PROVE  IsPrefix(c, best)
  <2>1. Len(c) \in Nat /\ Len(c) <= Len(best)
    BY <1>6, Types, PrefixOrder DEF ChainInv, Heights
  <2>2. c # best'
    BY <1>2, <2>1, Types
  <2>3. QED
    BY <1>2, <1>6, <2>2, Types, PrefixOfNext
<1>7. IsPrefix(boot, best) => IsPrefix(boot, best')
  BY <1>2, Types, PrefixTrans
<1>8. WalletFollows'
  BY <1>1, <1>6, <1>7 DEF ChainInv, WalletFollows, ApplyNeedsTwoReorgs
<1>9. QED
  BY <1>3, <1>4, <1>5, <1>8 DEF ChainInv

\* A change of branch: after the first one the wallet still has all that the
\* SpvClient has, and so what that shares with the new branch.
LEMMA ReorgStep ==
  ASSUME ChainInv, NEW chain \in Chains, Reorg(chain)
  PROVE  ChainInv'
<1>1. /\ allReorgs < MaxReorgs /\ Len(chain) = Len(best) + 1
      /\ best' = chain
      /\ reorgs' = reorgs + 1 /\ allReorgs' = allReorgs + 1
      /\ UNCHANGED <<cm, mon, seen, wallet, spv, target, pc, saved, boot,
                     rpcErrors, restarts>>
  BY DEF Reorg
<1>2. reorgs' \in 0..MaxReorgs /\ allReorgs' \in 0..MaxReorgs
  BY <1>1, ChainBounds DEF ChainInv, Heights, TypeOK
<1>3. TypeOK'
  BY <1>1, <1>2 DEF ChainInv, TypeOK, Dead
<1>4. Heights'
  BY <1>1, Types DEF ChainInv, Heights
<1>5. Tips' /\ MissedOnlyAtBoot'
  BY <1>1 DEF ChainInv, Tips, MissedOnlyAtBoot, Following
<1>6. reorgs \in Nat /\ (reorgs' <= 1 => reorgs = 0) /\ reorgs' # 0
  BY <1>1, Types
<1>7. ASSUME pc = "poll", reorgs = 0, NEW c \in Chains, IsPrefix(c, spv)
      PROVE  IsPrefix(c, wallet)
  BY <1>7, Types, PrefixTrans DEF ChainInv, WalletFollows
<1>8. WalletFollows'
  <2>1. ApplyNeedsTwoReorgs'
    BY <1>1, <1>6, Types DEF ChainInv, WalletFollows, ApplyNeedsTwoReorgs
  <2>2. pc = "connecting" /\ reorgs' <= 1 => IsPrefix(cm, wallet)
    BY <1>6 DEF ChainInv, WalletFollows
  <2>3. QED
    BY <1>1, <1>6, <1>7, <2>1, <2>2 DEF WalletFollows
<1>9. QED
  BY <1>3, <1>4, <1>5, <1>8 DEF ChainInv

LEMMA SynchronizeStep ==
  ASSUME ChainInv, SynchronizeListeners
  PROVE  ChainInv'
<1>1. /\ cm' = best /\ boot' = best /\ spv' = best /\ reorgs' = 0
      /\ pc' = "wallet"
      /\ UNCHANGED <<best, mon, seen, wallet, target, saved, allReorgs,
                     rpcErrors, restarts>>
  BY DEF SynchronizeListeners, bounds
<1>2. TypeOK'
  BY <1>1, ChainBounds DEF ChainInv, TypeOK, Dead
<1>3. Heights'
  BY <1>1, Types DEF ChainInv, Heights
<1>4. IsPrefix(best, best)
  BY Types, PrefixOrder
<1>5. Tips' /\ MissedOnlyAtBoot' /\ WalletFollows'
  BY <1>1, <1>4 DEF Tips, MissedOnlyAtBoot, Following, WalletFollows,
     ApplyNeedsTwoReorgs
<1>6. QED
  BY <1>2, <1>3, <1>5 DEF ChainInv

\* The Emitter's next block is one of bitcoind's chain.
LEMMA WalletBlockStep ==
  ASSUME ChainInv, WalletBlock
  PROVE  ChainInv'
<1> DEFINE fork == Fork(wallet, best)
           block == BlockAfter(fork, best)
<1>1. /\ pc = "wallet" /\ wallet # best /\ wallet' = block
      /\ UNCHANGED <<best, cm, mon, seen, spv, target, pc, saved, boot, reorgs,
                     allReorgs, rpcErrors, restarts>>
  BY DEF WalletBlock, bounds
<1>2. fork \in Chains /\ IsPrefix(fork, wallet) /\ IsPrefix(fork, best)
  BY Types, ForkIsCommon
<1> HIDE DEF fork
<1>3. Len(fork) < Len(best)
  <2>1. SUFFICES ASSUME Len(best) <= Len(fork) PROVE FALSE
    BY <1>2, Types, PrefixOrder
  <2>2. fork = best
    BY <1>2, <2>1, Types, SameChain
  <2>3. Len(wallet) <= Len(fork)
    BY <2>2 DEF ChainInv, Heights
  <2>4. fork = wallet
    BY <1>2, <2>3, Types, SameChain
  <2>5. QED
    BY <1>1, <2>2, <2>4
<1>4. block \in Chains /\ IsPrefix(block, best)
  BY <1>2, <1>3, Types, BlockAfterIsNext
<1> HIDE DEF block
<1>5. Len(block) <= Len(best)
  BY <1>4, Types, PrefixOrder
<1>6. TypeOK'
  BY <1>1, <1>4 DEF ChainInv, TypeOK, Dead
<1>7. Heights'
  BY <1>1, <1>5 DEF ChainInv, Heights
<1>8. Tips' /\ MissedOnlyAtBoot' /\ WalletFollows'
  BY <1>1 DEF ChainInv, Tips, MissedOnlyAtBoot, Following, WalletFollows,
     ApplyNeedsTwoReorgs
<1>9. QED
  BY <1>6, <1>7, <1>8 DEF ChainInv

\* The wallet is where bitcoind is, the ChannelManager where bitcoind was at
\* the start.
LEMMA WalletDoneStep ==
  ASSUME ChainInv, WalletDone
  PROVE  ChainInv'
<1>1. /\ pc = "wallet" /\ wallet = best /\ pc' = "poll"
      /\ UNCHANGED <<best, cm, mon, seen, wallet, spv, target, saved, boot,
                     reorgs, allReorgs, rpcErrors, restarts>>
  BY DEF WalletDone, bounds
<1>2. cm = spv /\ cm = boot
  BY <1>1 DEF ChainInv, Tips
<1>3. TypeOK' /\ Heights' /\ Tips'
  BY <1>1, <1>2 DEF ChainInv, TypeOK, Dead, Heights, Tips, Following
<1>4. MissedOnlyAtBoot'
  <2>1. \A b \in Prefixes(cm) : IsPrefix(b, boot)
    BY <1>2, Types, PrefixesDef
  <2>2. QED
    BY <1>1, <2>1 DEF MissedOnlyAtBoot
<1>5. WalletFollows'
  BY <1>1, <1>2 DEF ChainInv, WalletFollows, ApplyNeedsTwoReorgs
<1>6. QED
  BY <1>3, <1>4, <1>5 DEF ChainInv

\* A better tip: the ChannelManager goes back to the fork, if there is one.
LEMMA PollBetterStep ==
  ASSUME ChainInv, PollBetter
  PROVE  ChainInv'
<1>1. /\ pc = "poll" /\ Len(best) > Len(spv) /\ target' = best
      /\ pc' = "connecting"
      /\ UNCHANGED <<best, spv, wallet, saved, boot, reorgs, allReorgs,
                     rpcErrors, restarts>>
  BY DEF PollBetter, blocks_disconnected, bounds
<1>2. cm = spv
  BY <1>1 DEF ChainInv, Tips
<1>3. CASE IsPrefix(spv, best)
  <2>1. UNCHANGED <<cm, mon, seen>>
    BY <1>3 DEF PollBetter
  <2>2. IsStrictPrefix(cm, best)
    BY <1>1, <1>2, <1>3, Types DEF IsStrictPrefix
  <2>3. TypeOK'
    BY <1>1, <2>1, <2>2 DEF ChainInv, TypeOK, Dead
  <2>4. Heights' /\ Tips' /\ MissedOnlyAtBoot'
    BY <1>1, <2>1, Types
       DEF ChainInv, Heights, Tips, MissedOnlyAtBoot, Following
  <2>5. WalletFollows'
    <3>1. IsPrefix(spv, spv)
      BY Types, PrefixOrder
    <3>2. reorgs <= 1 => IsPrefix(spv, wallet)
      BY <1>1, <1>3, <3>1, Types DEF ChainInv, WalletFollows
    <3>3. QED
      BY <1>1, <1>2, <2>1, <3>2 DEF WalletFollows, ApplyNeedsTwoReorgs
  <2>6. QED
    BY <2>3, <2>4, <2>5 DEF ChainInv
<1>4. CASE ~IsPrefix(spv, best)
  <2> DEFINE fork == Fork(spv, best)
  <2>1. /\ cm' = fork /\ mon' = fork
        /\ seen' = {b \in seen : Len(b) <= Len(fork)}
    BY <1>4 DEF PollBetter, blocks_disconnected
  <2>2. fork \in Chains /\ IsPrefix(fork, spv) /\ IsPrefix(fork, best)
    BY Types, ForkIsCommon
  <2> HIDE DEF fork
  <2>3. Len(fork) \in Nat /\ Len(fork) <= Len(spv)
    BY <2>2, Types, PrefixOrder
  <2>4. IsStrictPrefix(fork, best)
    BY <1>1, <2>2, <2>3, Types DEF IsStrictPrefix
  <2>5. TypeOK'
    BY <1>1, <2>1, <2>2, <2>4 DEF ChainInv, TypeOK, Dead
  <2>6. Heights' /\ Tips'
    BY <1>1, <2>1, Types DEF ChainInv, Heights, Tips, Following
  <2>7. MissedOnlyAtBoot'
    <3>1. SUFFICES ASSUME NEW b \in Prefixes(fork) \ {<<>>}
                   PROVE  b \in seen' \/ IsPrefix(b, boot)
      BY <1>1, <2>1 DEF MissedOnlyAtBoot
    <3>2. b \in Chains /\ IsPrefix(b, fork) /\ Len(b) <= Len(fork)
      BY <2>2, PrefixesDef, PrefixOrder
    <3>3. b \in Prefixes(cm) \ {<<>>}
      BY <1>2, <2>2, <3>2, Types, PrefixTrans, PrefixesDef
    <3>4. b \in seen \/ IsPrefix(b, boot)
      BY <1>1, <3>3 DEF ChainInv, MissedOnlyAtBoot, Following
    <3>5. QED
      BY <2>1, <3>2, <3>4
  <2>8. WalletFollows'
    <3>1. reorgs <= 1 => IsPrefix(fork, wallet)
      BY <1>1, <2>2 DEF ChainInv, WalletFollows
    <3>2. QED
      BY <1>1, <2>1, <3>1 DEF WalletFollows, ApplyNeedsTwoReorgs
  <2>9. QED
    BY <2>5, <2>6, <2>7, <2>8 DEF ChainInv
<1>5. QED
  BY <1>3, <1>4

\* The next block on the way to the target.
LEMMA NextOnTheWay ==
  ASSUME ChainInv, pc = "connecting"
  PROVE  /\ BlockAfter(cm, target) \in Chains
         /\ Len(BlockAfter(cm, target)) = Len(cm) + 1
         /\ IsPrefix(cm, BlockAfter(cm, target))
         /\ IsPrefix(BlockAfter(cm, target), target)
<1>1. IsPrefix(cm, target) /\ cm # target
  BY DEF ChainInv, TypeOK, IsStrictPrefix
<1>2. Len(cm) < Len(target)
  BY <1>1, Types, PrefixOrder, SameChain
<1>3. QED
  BY <1>1, <1>2, Types, BlockAfterIsNext

\* A block is connected, and the wallet takes it or its task dies - which it
\* does not before the second change of branch.
LEMMA ConnectBlockStep ==
  ASSUME ChainInv, ConnectBlock
  PROVE  ChainInv'
<1> DEFINE block == BlockAfter(cm, target)
<1>1. /\ pc = "connecting"
      /\ cm' = block /\ mon' = block /\ seen' = seen \cup {block}
      /\ UNCHANGED <<best, target, saved, boot, reorgs, allReorgs, rpcErrors,
                     restarts>>
  BY DEF ConnectBlock, TellLdk, bounds
<1>2. \/ /\ IsPrefix(cm, wallet)
         /\ wallet' = IF IsPrefix(block, wallet) THEN wallet ELSE block
         /\ \/ block # target /\ pc' = "connecting" /\ spv' = spv
            \/ block = target /\ pc' = "poll" /\ spv' = target
      \/ /\ ~IsPrefix(cm, wallet)
         /\ pc' = "apply_panic" /\ UNCHANGED <<wallet, spv>>
  BY DEF ConnectBlock, apply_block
<1>3. /\ block \in Chains /\ Len(block) = Len(cm) + 1
      /\ IsPrefix(cm, block) /\ IsPrefix(block, target)
  BY <1>1, NextOnTheWay
<1> HIDE DEF block
<1>4. Len(block) \in Nat /\ Len(block) <= Len(best) /\ IsPrefix(block, block)
  BY <1>3, Types, PrefixOrder DEF ChainInv, Heights
<1>5. wallet' \in Chains /\ spv' \in Chains
      /\ (pc' # "apply_panic" => IsPrefix(block, wallet'))
      /\ Len(wallet') <= Len(best) /\ Len(spv') <= Len(best)
  BY <1>2, <1>3, <1>4, Types DEF ChainInv, Heights
<1>6. TypeOK'
  <2>1. pc' = "connecting" => IsStrictPrefix(block, target)
    BY <1>2, <1>3 DEF IsStrictPrefix
  <2>2. pc' \in {"connecting", "poll", "apply_panic"}
    BY <1>2
  <2>3. QED
    BY <1>1, <1>3, <1>5, <2>1, <2>2 DEF ChainInv, TypeOK, Dead
<1>7. Heights'
  BY <1>1, <1>5 DEF ChainInv, Heights
<1>8. Tips'
  BY <1>1, <1>2 DEF Tips, Following
<1>9. MissedOnlyAtBoot'
  <2>1. SUFFICES ASSUME NEW b \in Prefixes(block) \ {<<>>}
                 PROVE  b \in seen' \/ IsPrefix(b, boot)
    BY <1>1 DEF MissedOnlyAtBoot
  <2>2. b = block \/ IsPrefix(b, cm)
    BY <1>3, Types, PrefixesDef, PrefixOfNext
  <2>3. CASE b \in Prefixes(cm) \ {<<>>}
    BY <1>1, <2>3 DEF ChainInv, MissedOnlyAtBoot, Following
  <2>4. QED
    BY <1>1, <1>3, <2>2, <2>3, Types, PrefixesDef
<1>10. WalletFollows'
  <2>1. pc' = "poll" => spv' = block
    BY <1>2
  <2>2. pc' \in {"connecting", "poll", "apply_panic"}
    BY <1>2
  <2>3. ASSUME IsPrefix(block, wallet'), NEW c \in Chains, IsPrefix(c, block)
        PROVE  IsPrefix(c, wallet')
    BY <1>3, <1>5, <2>3, PrefixTrans
  <2>4. pc' = "apply_panic" => reorgs >= 2
    BY <1>1, <1>2, Types DEF ChainInv, WalletFollows
  <2>5. QED
    BY <1>1, <1>5, <2>1, <2>2, <2>3, <2>4
       DEF WalletFollows, ApplyNeedsTwoReorgs
<1>11. QED
  BY <1>6, <1>7, <1>8, <1>9, <1>10 DEF ChainInv

\* The SpvClient stays at the last block that was connected.
LEMMA FetchFailsStep ==
  ASSUME ChainInv, FetchFails
  PROVE  ChainInv'
<1>1. /\ pc = "connecting" /\ pc' = "poll" /\ spv' = cm
      /\ rpcErrors < MaxRpcErrors /\ rpcErrors' = rpcErrors + 1
      /\ UNCHANGED <<best, cm, mon, seen, wallet, target, saved, boot, reorgs,
                     allReorgs, restarts>>
  BY DEF FetchFails, RpcError
<1>2. Len(cm) <= Len(best)
  <2>1. IsPrefix(cm, target)
    BY <1>1 DEF ChainInv, TypeOK, IsStrictPrefix
  <2>2. QED
    BY <2>1, Types, PrefixOrder DEF ChainInv, Heights
<1>3. TypeOK'
  BY <1>1, ChainBounds DEF ChainInv, TypeOK, Dead
<1>4. Heights' /\ Tips' /\ MissedOnlyAtBoot'
  BY <1>1, <1>2 DEF ChainInv, Heights, Tips, MissedOnlyAtBoot, Following
<1>5. WalletFollows'
  <2>1. ASSUME IsPrefix(cm, wallet), NEW c \in Chains, IsPrefix(c, cm)
        PROVE  IsPrefix(c, wallet)
    BY <2>1, Types, PrefixTrans
  <2>2. QED
    BY <1>1, <2>1 DEF ChainInv, WalletFollows, ApplyNeedsTwoReorgs
<1>6. QED
  BY <1>3, <1>4, <1>5 DEF ChainInv

LEMMA RestartStep ==
  ASSUME ChainInv, Restart
  PROVE  ChainInv'
<1>1. /\ restarts < MaxRestarts /\ restarts' = restarts + 1
      /\ cm' = saved.cm /\ mon' = saved.mon /\ seen' = saved.seen
      /\ wallet' = <<>> /\ pc' = "start"
      /\ UNCHANGED <<best, spv, target, saved, boot, reorgs, allReorgs,
                     rpcErrors>>
  BY DEF Restart
<1>2. /\ saved.cm \in Chains /\ saved.mon \in Chains
      /\ saved.seen \subseteq Chains
  BY DEF ChainInv, TypeOK
<1>3. restarts' \in 0..MaxRestarts
  BY <1>1, ChainBounds DEF ChainInv, TypeOK
<1>4. TypeOK'
  BY <1>1, <1>2, <1>3, EmptyChain DEF ChainInv, TypeOK, Dead
<1>5. Heights'
  BY <1>1, Types DEF ChainInv, Heights
<1>6. Tips' /\ MissedOnlyAtBoot' /\ WalletFollows'
  BY <1>1 DEF Tips, MissedOnlyAtBoot, Following, WalletFollows,
     ApplyNeedsTwoReorgs
<1>7. QED
  BY <1>4, <1>5, <1>6 DEF ChainInv

-----------------------------------------------------------------------------
(* The theorems.                                                           *)

\* The invariant holds through every reorganization, error and restart.
THEOREM ChainInvariance == Spec => []ChainInv
<1>1. ASSUME ChainInv, [Next]_vars PROVE ChainInv'
  BY <1>1, MineBlockStep, ReorgStep, SynchronizeStep, WalletBlockStep,
     WalletDoneStep, PollBetterStep, ConnectBlockStep, FetchFailsStep,
     ErrorStep, PersistStep, RestartStep DEF Next
<1>2. QED
  BY <1>1, InitChainInv, PTL DEF Spec

\* Types; in particular blocks are connected only on the way to the target,
\* so BlockAfter in ConnectBlock and WalletBlock always exists.
THEOREM ChainTypes == Spec => []TypeOK
<1>1. ChainInv => TypeOK
  BY DEF ChainInv
<1>2. QED
  BY <1>1, ChainInvariance, PTL

\* Between two polls SpvClient, ChannelManager and monitor agree.
THEOREM TipsAlwaysAgree == Spec => []TipsAgree
<1>1. ChainInv => TipsAgree
  BY DEF ChainInv, Tips, TipsAgree, Following
<1>2. QED
  BY <1>1, ChainInvariance, PTL

\* The monitor is given every block but those the node had at its start.
THEOREM NothingMissedLater == Spec => []MissedOnlyAtBoot
<1>1. ChainInv => MissedOnlyAtBoot
  BY DEF ChainInv
<1>2. QED
  BY <1>1, ChainInvariance, PTL

\* apply_block(..).unwrap() survives one change of branch in a run.
THEOREM OneReorgIsSafe == Spec => []ApplyNeedsTwoReorgs
<1>1. ChainInv => ApplyNeedsTwoReorgs
  BY DEF ChainInv, WalletFollows
<1>2. QED
  BY <1>1, ChainInvariance, PTL

\* The ChannelManager gets its blocks in the order of the chain.
THEOREM BlocksInOrder == Spec => ChainOrder
<1> DEFINE InOrder == \/ IsStrictPrefix(cm', cm)
                      \/ IsPrefix(cm, cm') /\ Len(cm') = Len(cm) + 1
<1>1. ASSUME ChainInv, [Next]_vars, Following, cm' # cm, restarts' = restarts
      PROVE  InOrder
  <2>1. CASE PollBetter
    <3>1. cm' = Fork(spv, best) /\ cm = spv
      BY <1>1, <2>1 DEF PollBetter, blocks_disconnected, ChainInv, Tips
    <3>2. IsPrefix(cm', cm)
      BY <1>1, <3>1, Types, ForkIsCommon
    <3>3. QED
      BY <1>1, <3>2 DEF IsStrictPrefix
  <2>2. CASE ConnectBlock
    <3>1. pc = "connecting" /\ cm' = BlockAfter(cm, target)
      BY <2>2 DEF ConnectBlock, TellLdk
    <3>2. QED
      BY <1>1, <3>1, NextOnTheWay
  <2>3. CASE Restart
    <3>1. restarts' = restarts + 1 /\ restarts \in Nat
      BY <1>1, <2>3, ChainBounds DEF Restart, ChainInv, TypeOK
    <3>2. QED
      BY <1>1, <3>1
  <2>4. CASE SynchronizeListeners
    BY <1>1, <2>4 DEF SynchronizeListeners, Following
  <2>5. QED
    BY <1>1, <2>1, <2>2, <2>3, <2>4 DEF Next, vars, MineBlock, Reorg,
       StartFails, WalletBlock, WalletDone, WalletRpcFails, PollFails,
       FindForkFails, FetchFails, Persist
<1>2. ChainInv /\ [Next]_vars =>
        [Following /\ cm' # cm /\ restarts' = restarts => InOrder]_vars
  BY <1>1
<1>3. QED
  BY <1>2, ChainInvariance, PTL DEF Spec, ChainOrder

=============================================================================
