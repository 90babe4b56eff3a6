------------------------ MODULE ChannelFundingProofs ------------------------
(***************************************************************************)
(* Proofs about ChannelFunding, for any channels, coins and values.  That  *)
(* a transaction pays is used as a fact about its set of coins; only the   *)
(* types need to know what Sats, a sum over a set, computes.               *)
(***************************************************************************)
EXTENDS ChannelFunding, FiniteSetTheorems, WellFoundedInduction, TLAPS

Types ==
  /\ chan \in [Channels -> States]
  /\ tx = [c \in Channels |-> tx[c]]
  /\ errors \in Nat

\* Only channels that we opened ever wait for a transaction of ours.
WaitingIsOutbound ==
  \A c \in Channels :
    chan[c] \in {"opening", "awaiting_tx", "signing", "pending"}
      => c \in Outbound

ChannelInv == Types /\ WaitingIsOutbound /\ NeverPaysDropped

\* A coin that was ours is on the chain or was spent by a funding
\* transaction in a block: the wallet may not know which.
Known(k) == k \in coins \/ \E d \in confirmed : k \in tx[d]

CoinInv ==
  /\ \A k \in wallet : Known(k)
  /\ \A c \in Channels : \A k \in tx[c] : Known(k)
  /\ \A c \in Channels : chan[c] = "signing" => Pays(tx[c])
  /\ LostOnlyByConflict

\* A request LDK still waits for an answer to, or has given up.
Unanswered(c) == c \in Inbound /\ chan[c] \in {"requested", "dropped"}

RequestAt(i) == events[i][1] = "OpenChannelRequest"

\* LDK asks about a channel once, and until the handler has dealt with the
\* request nothing but a drop happens to the channel.
RequestInv ==
  /\ events \in Seq({"FundingGenerationReady", "OpenChannelRequest"}
                      \X Channels)
  /\ \A i \in 1..Len(events) : RequestAt(i) => Unanswered(events[i][2])
  /\ \A i, j \in 1..Len(events) :
       RequestAt(i) /\ RequestAt(j) /\ events[i][2] = events[j][2] => i = j
  /\ handler.pc # "idle" =>
       /\ Unanswered(handler.c)
       /\ \A i \in 1..Len(events) : RequestAt(i) => events[i][2] # handler.c
  /\ RejectedStaysClosed
  /\ rejected \subseteq Channels

-----------------------------------------------------------------------------
(* What is broadcast.                                                      *)

\* A transaction is broadcast only for a channel LDK still has, and from then
\* on the channel can only go on to be closed.
LEMMA NextChannelInv ==
  ChannelInv /\ [Next]_vars => ChannelInv'
<1> SUFFICES ASSUME ChannelInv, [Next]_vars PROVE ChannelInv'
  OBVIOUS
<1> USE FundingAssumption
    DEF ChannelInv, Types, WaitingIsOutbound, NeverPaysDropped, Broadcast,
        States, Channels
<1>1. ASSUME NEW k \in Channels, open_channel(k) PROVE ChannelInv'
  BY <1>1 DEF open_channel, Set, ldk, onchain
<1>2. ASSUME NEW k \in Channels, close_channel(k) PROVE ChannelInv'
  BY <1>2 DEF close_channel, Set, ldk, onchain
<1>3. ASSUME NEW k \in Channels, PeerAccepts(k) PROVE ChannelInv'
  BY <1>3 DEF PeerAccepts, Set, ldk, onchain
<1>4. ASSUME NEW k \in Channels, PeerOpens(k) PROVE ChannelInv'
  BY <1>4 DEF PeerOpens, Set, ldk, onchain
<1>5. ASSUME NEW k \in Channels, LdkDrops(k) PROVE ChannelInv'
  BY <1>5 DEF LdkDrops, Set, ldk, onchain
<1>6. ASSUME NEW k \in Channels, PeerFunds(k) PROVE ChannelInv'
  BY <1>6 DEF PeerFunds, Set, ldk, onchain
<1>7. ASSUME NEW k \in Channels, broadcast_transactions(k) PROVE ChannelInv'
  BY <1>7 DEF broadcast_transactions, Set, ldk, onchain
<1>8. ASSUME NEW k \in Channels, Confirm(k) PROVE ChannelInv'
  BY <1>8 DEF Confirm, Set, ldk, onchain
<1>9. ASSUME NEW k \in Channels, LdkSees(k) PROVE ChannelInv'
  BY <1>9 DEF LdkSees, Set, ldk, onchain
<1>10. ASSUME NEW k \in Channels, CloseConfirms(k) PROVE ChannelInv'
  BY <1>10 DEF CloseConfirms, Set, ldk, onchain
<1>11. ASSUME NEW k \in Channels, ForceCloseConfirms(k) PROVE ChannelInv'
  BY <1>11 DEF ForceCloseConfirms, Set, ldk, onchain
<1>12. CASE WalletSees
  BY <1>12 DEF WalletSees, Set, ldk, onchain
<1>13. ASSUME NEW k \in Channels, FundingGenerationReady(k) PROVE ChannelInv'
  BY <1>13 DEF FundingGenerationReady, Handles, Set, ldk, onchain
<1>14. ASSUME NEW k \in Channels, OpenChannelRequest(k) PROVE ChannelInv'
  BY <1>14 DEF OpenChannelRequest, Handler, Handles, Set, ldk, onchain
<1>15. CASE ForceClose
  BY <1>15 DEF ForceClose, Handler, Set, ldk, onchain
<1>16. CASE AcceptInbound
  BY <1>16 DEF AcceptInbound, Handler, Set, ldk, onchain
<1>17. CASE UNCHANGED vars
  BY <1>17 DEF vars, ldk, onchain
<1>18. QED
  BY <1>1, <1>2, <1>3, <1>4, <1>5, <1>6, <1>7, <1>8, <1>9, <1>10,
     <1>11, <1>12, <1>13, <1>14, <1>15, <1>16, <1>17 DEF Next

-----------------------------------------------------------------------------
(* The coins.                                                              *)

\* A step that spends no coin, builds no transaction and broadcasts none.
LEMMA Quiet ==
  ASSUME CoinInv, UNCHANGED <<onchain, wallet, errors>>,
         \A c \in Channels :
           /\ chan'[c] = "signing" => chan[c] = "signing"
           /\ chan'[c] = "pending" => chan[c] = "pending",
         Broadcast \subseteq Broadcast'
  PROVE  CoinInv'
<1>1. \A k : Known(k)' <=> Known(k)
  BY DEF Known, onchain
<1>2. \A c \in Channels : Conflicts(c)' = Conflicts(c)
  BY DEF Conflicts, onchain
<1>3. LostOnlyByConflict'
  BY <1>2 DEF CoinInv, LostOnlyByConflict, onchain, Channels
<1>4. QED
  BY <1>1, <1>3 DEF CoinInv, onchain

\* A transaction that LDK waits for is kept out of the chain by nothing but an
\* RPC error or a transaction with a coin in common.
LEMMA NextCoinInv ==
  ChannelInv /\ CoinInv /\ [Next]_vars => CoinInv'
<1> SUFFICES ASSUME ChannelInv, CoinInv, [Next]_vars PROVE CoinInv'
  OBVIOUS
<1> USE FundingAssumption
<1> DEFINE Still == \A c \in Channels :
             /\ chan'[c] = "signing" => chan[c] = "signing"
             /\ chan'[c] = "pending" => chan[c] = "pending"
<1>1. ASSUME NEW k \in Channels, open_channel(k) PROVE CoinInv'
  <2>1. Still /\ Broadcast \subseteq Broadcast'
    BY <1>1 DEF open_channel, Set, Broadcast, ChannelInv, Types, Channels
  <2>2. UNCHANGED <<onchain, wallet, errors>>
    BY <1>1 DEF open_channel, onchain
  <2>3. QED
    BY <2>1, <2>2, Quiet
<1>2. ASSUME NEW k \in Channels, close_channel(k) PROVE CoinInv'
  <2>1. Still /\ Broadcast \subseteq Broadcast'
    BY <1>2 DEF close_channel, Set, Broadcast, ChannelInv, Types, Channels
  <2>2. UNCHANGED <<onchain, wallet, errors>>
    BY <1>2 DEF close_channel, onchain
  <2>3. QED
    BY <2>1, <2>2, Quiet
<1>3. ASSUME NEW k \in Channels, PeerAccepts(k) PROVE CoinInv'
  <2>1. Still /\ Broadcast \subseteq Broadcast'
    BY <1>3 DEF PeerAccepts, Set, Broadcast, ChannelInv, Types, Channels
  <2>2. UNCHANGED <<onchain, wallet, errors>>
    BY <1>3 DEF PeerAccepts, onchain
  <2>3. QED
    BY <2>1, <2>2, Quiet
<1>4. ASSUME NEW k \in Channels, PeerOpens(k) PROVE CoinInv'
  <2>1. Still /\ Broadcast \subseteq Broadcast'
    BY <1>4 DEF PeerOpens, Set, Broadcast, ChannelInv, Types, Channels
  <2>2. UNCHANGED <<onchain, wallet, errors>>
    BY <1>4 DEF PeerOpens, onchain
  <2>3. QED
    BY <2>1, <2>2, Quiet
<1>5. ASSUME NEW k \in Channels, LdkDrops(k) PROVE CoinInv'
  <2>1. Still /\ Broadcast \subseteq Broadcast'
    BY <1>5 DEF LdkDrops, Set, Broadcast, ChannelInv, Types, Channels
  <2>2. UNCHANGED <<onchain, wallet, errors>>
    BY <1>5 DEF LdkDrops, onchain
  <2>3. QED
    BY <2>1, <2>2, Quiet
<1>6. ASSUME NEW k \in Channels, PeerFunds(k) PROVE CoinInv'
  <2>1. Still /\ Broadcast \subseteq Broadcast'
    BY <1>6 DEF PeerFunds, Set, Broadcast, ChannelInv, Types, Channels
  <2>2. UNCHANGED <<onchain, wallet, errors>>
    BY <1>6 DEF PeerFunds, onchain
  <2>3. QED
    BY <2>1, <2>2, Quiet
<1>7. ASSUME NEW k \in Channels, LdkSees(k) PROVE CoinInv'
  <2>1. Still /\ Broadcast \subseteq Broadcast'
    BY <1>7 DEF LdkSees, Set, Broadcast, ChannelInv, Types, Channels
  <2>2. UNCHANGED <<onchain, wallet, errors>>
    BY <1>7 DEF LdkSees, onchain
  <2>3. QED
    BY <2>1, <2>2, Quiet
<1>8. ASSUME NEW k \in Channels, ForceCloseConfirms(k) PROVE CoinInv'
  <2>1. Still /\ Broadcast \subseteq Broadcast'
    BY <1>8
       DEF ForceCloseConfirms, Set, Broadcast, ChannelInv, Types, Channels
  <2>2. UNCHANGED <<onchain, wallet, errors>>
    BY <1>8 DEF ForceCloseConfirms, onchain
  <2>3. QED
    BY <2>1, <2>2, Quiet
<1>9. ASSUME NEW k \in Channels, OpenChannelRequest(k) PROVE CoinInv'
  <2>1. Still /\ Broadcast \subseteq Broadcast'
    BY <1>9 DEF OpenChannelRequest, Set, Handles, Broadcast, ChannelInv,
                Types, Channels
  <2>2. UNCHANGED <<onchain, wallet, errors>>
    BY <1>9 DEF OpenChannelRequest, onchain
  <2>3. QED
    BY <2>1, <2>2, Quiet
<1>10. CASE ForceClose
  <2>1. Still /\ Broadcast \subseteq Broadcast'
    BY <1>10 DEF ForceClose, Set, Broadcast, ChannelInv, Types, Channels
  <2>2. UNCHANGED <<onchain, wallet, errors>>
    BY <1>10 DEF ForceClose, onchain
  <2>3. QED
    BY <2>1, <2>2, Quiet
<1>11. CASE AcceptInbound
  <2>1. Still /\ Broadcast \subseteq Broadcast'
    BY <1>11 DEF AcceptInbound, Set, Broadcast, ChannelInv, Types, Channels
  <2>2. UNCHANGED <<onchain, wallet, errors>>
    BY <1>11 DEF AcceptInbound, onchain
  <2>3. QED
    BY <2>1, <2>2, Quiet
<1>12. CASE WalletSees
  BY <1>12 DEF WalletSees, CoinInv, Known, LostOnlyByConflict, Conflicts,
               Broadcast, ldk, onchain
<1>13. ASSUME NEW k \in Channels, CloseConfirms(k) PROVE CoinInv'
  <2>1. Still /\ Broadcast \subseteq Broadcast'
    BY <1>13 DEF CloseConfirms, Set, Broadcast, ChannelInv, Types, Channels
  <2>2. \A c \in Channels : Conflicts(c)' = Conflicts(c)
    BY <1>13 DEF CloseConfirms, Conflicts
  <2>3. LostOnlyByConflict'
    BY <1>13, <2>1, <2>2
       DEF CloseConfirms, CoinInv, LostOnlyByConflict, Channels
  <2>4. \A x : Known(x) => Known(x)'
    BY <1>13 DEF CloseConfirms, Known
  <2>5. QED
    BY <1>13, <2>1, <2>3, <2>4 DEF CloseConfirms, CoinInv
<1>14. ASSUME NEW k \in Channels, Confirm(k) PROVE CoinInv'
  <2>1. \A x : Known(x) => Known(x)'
    BY <1>14 DEF Confirm, Known
  <2>2. k \in Broadcast /\ k \in Outbound /\ Broadcast' = Broadcast
    BY <1>14 DEF Confirm, ldk, ChannelInv, NeverPaysDropped, Broadcast
  <2>3. \A c \in Channels : Conflicts(c)' = Conflicts(c)
    BY <1>14 DEF Confirm, Conflicts
  <2>4. ASSUME NEW c \in Outbound, chan'[c] = "pending",
               c \notin mempool' \cup confirmed'
        PROVE  errors' > 0 \/ Conflicts(c)' \cap Broadcast' # {}
    <3>1. c \in Channels /\ c # k /\ chan[c] = "pending"
      BY <1>14, <2>4 DEF Confirm, ldk, Channels
    <3>2. CASE c \in mempool
      <4>1. c \in Conflicts(k)
        BY <1>14, <2>4, <3>1, <3>2 DEF Confirm
      <4>2. k \in Conflicts(c)
        BY <3>1, <4>1 DEF Conflicts
      <4>3. QED
        BY <2>2, <2>3, <3>1, <4>2
    <3>3. CASE c \notin mempool
      <4>1. c \notin mempool \cup confirmed
        BY <1>14, <2>4, <3>3 DEF Confirm
      <4>2. errors > 0 \/ Conflicts(c) \cap Broadcast # {}
        BY <3>1, <4>1 DEF CoinInv, LostOnlyByConflict
      <4>3. QED
        BY <1>14, <2>2, <2>3, <3>1, <4>2 DEF Confirm
    <3>4. QED
      BY <3>2, <3>3
  <2>5. LostOnlyByConflict'
    BY <2>4 DEF LostOnlyByConflict
  <2>6. QED
    BY <1>14, <2>1, <2>5 DEF Confirm, ldk, CoinInv
<1>15. ASSUME NEW k \in Channels, FundingGenerationReady(k) PROVE CoinInv'
  <2>1. CASE UNCHANGED <<chan, tx>>
    <3>1. Still /\ Broadcast \subseteq Broadcast'
      BY <2>1 DEF Broadcast
    <3>2. UNCHANGED <<onchain, wallet, errors>>
      BY <1>15, <2>1 DEF FundingGenerationReady, onchain
    <3>3. QED
      BY <3>1, <3>2, Quiet
  <2>2. ASSUME NEW S \in SUBSET wallet, Selects(S), chan[k] = "awaiting_tx",
               Set(k, "signing"), tx' = [tx EXCEPT ![k] = S]
        PROVE  CoinInv'
    <3>1. UNCHANGED <<mempool, confirmed, coins, wallet, errors>>
      BY <1>15 DEF FundingGenerationReady
    <3>2. /\ chan' = [chan EXCEPT ![k] = "signing"]
          /\ chan \in [Channels -> States]
          /\ tx = [c \in Channels |-> tx[c]]
      BY <2>2 DEF Set, ChannelInv, Types
    <3>3. k \notin confirmed /\ k \notin Broadcast
      BY <2>2 DEF ChannelInv, NeverPaysDropped, Broadcast
    <3>4. \A d \in Channels \ {k} : tx'[d] = tx[d] /\ chan'[d] = chan[d]
      BY <2>2, <3>2
    <3>5. tx'[k] = S /\ chan'[k] = "signing"
      BY <2>2, <3>2
    <3>6. confirmed \subseteq Channels \ {k}
      BY <3>3 DEF ChannelInv, NeverPaysDropped, Broadcast, Channels
    <3>7. \A x : Known(x) => Known(x)'
      BY <3>1, <3>4, <3>6 DEF Known
    <3>8. Broadcast' = Broadcast
      BY <3>3, <3>4, <3>5 DEF Broadcast, Channels
    <3>9. \A c \in Channels : \A x \in tx'[c] : Known(x)'
      BY <2>2, <3>4, <3>5, <3>7 DEF CoinInv
    <3>10. ASSUME NEW c \in Channels, chan'[c] = "signing" PROVE Pays(tx[c])'
      <4>1. CASE c = k
        BY <2>2, <3>5, <4>1 DEF Selects, Pays
      <4>2. CASE c # k
        BY <3>4, <3>10, <4>2 DEF CoinInv, Pays
      <4>3. QED
        BY <4>1, <4>2
    <3>11. ASSUME NEW c \in Outbound, chan'[c] = "pending",
                  c \notin mempool' \cup confirmed'
           PROVE  errors' > 0 \/ Conflicts(c)' \cap Broadcast' # {}
      <4>1. c \in Channels /\ c # k /\ chan[c] = "pending"
        BY <3>4, <3>5, <3>11 DEF Channels
      <4>2. errors > 0 \/ Conflicts(c) \cap Broadcast # {}
        BY <3>1, <3>11, <4>1 DEF CoinInv, LostOnlyByConflict
      <4>3. \A d \in Conflicts(c) \cap Broadcast : d \in Conflicts(c)'
        BY <3>3, <3>4, <4>1 DEF Conflicts
      <4>4. QED
        BY <3>1, <3>8, <4>2, <4>3
    <3>12. LostOnlyByConflict'
      BY <3>11 DEF LostOnlyByConflict
    <3>13. QED
      BY <3>1, <3>7, <3>9, <3>10, <3>12 DEF CoinInv
  <2>3. QED
    BY <1>15, <2>1, <2>2 DEF FundingGenerationReady
<1>16. ASSUME NEW k \in Channels, broadcast_transactions(k) PROVE CoinInv'
  <2>1. /\ chan[k] = "signing"
        /\ chan' = [chan EXCEPT ![k] = "pending"]
        /\ chan \in [Channels -> States]
        /\ k \in Outbound
        /\ UNCHANGED <<tx, confirmed, coins, wallet>>
    BY <1>16 DEF broadcast_transactions, Set, ChannelInv, Types,
                 WaitingIsOutbound
  <2>2. /\ chan'[k] = "pending"
        /\ \A d \in Channels \ {k} : chan'[d] = chan[d]
    BY <2>1
  <2>3. Broadcast' = Broadcast \cup {k}
    BY <2>1, <2>2 DEF Broadcast, Channels
  <2>4. \A x : Known(x)' <=> Known(x)
    BY <2>1 DEF Known
  <2>5. \A c \in Channels : Conflicts(c)' = Conflicts(c)
    BY <2>1 DEF Conflicts
  <2>6. \A c \in Channels : chan'[c] = "signing" => Pays(tx[c])'
    BY <2>1, <2>2 DEF CoinInv, Pays
  <2>7. k \notin confirmed
    BY <2>1 DEF ChannelInv, NeverPaysDropped, Broadcast
  <2>8. errors \in Nat /\ errors' \in Nat /\ (errors > 0 => errors' > 0)
    BY <1>16 DEF broadcast_transactions, ChannelInv, Types
  <2>9. ASSUME k \notin mempool'
        PROVE  errors' > 0 \/ Conflicts(k) \cap Broadcast # {}
    <3>1. CASE errors' = errors + 1
      BY <2>8, <3>1
    <3>2. CASE ~Pays(tx[k])
      BY <2>1, <3>2 DEF CoinInv
    <3>3. CASE Conflicts(k) \cap mempool # {}
      BY <3>3 DEF ChannelInv, NeverPaysDropped
    <3>4. CASE ~(tx[k] \subseteq coins)
      <4>1. PICK x \in tx[k] : x \notin coins
        BY <3>4
      <4>2. PICK d \in confirmed : x \in tx[d]
        BY <4>1 DEF CoinInv, Known
      <4>3. d \in Broadcast /\ d \in Channels /\ d # k
        BY <2>7 DEF ChannelInv, NeverPaysDropped, Broadcast, Channels
      <4>4. d \in Conflicts(k)
        BY <4>1, <4>2, <4>3 DEF Conflicts
      <4>5. QED
        BY <4>3, <4>4
    <3>5. QED
      BY <1>16, <2>9, <3>1, <3>2, <3>3, <3>4 DEF broadcast_transactions
  <2>10. ASSUME NEW c \in Outbound, c # k, chan'[c] = "pending",
                c \notin mempool' \cup confirmed'
         PROVE  errors' > 0 \/ Conflicts(c) \cap Broadcast' # {}
    <3>1. c \in Channels /\ chan[c] = "pending"
      BY <2>2, <2>10 DEF Channels
    <3>2. CASE c \in mempool
      <4>1. c \in Conflicts(k)
        BY <1>16, <2>10, <3>2 DEF broadcast_transactions
      <4>2. k \in Conflicts(c)
        BY <2>10, <4>1 DEF Conflicts
      <4>3. QED
        BY <2>3, <4>2
    <3>3. CASE c \notin mempool
      <4>1. errors > 0 \/ Conflicts(c) \cap Broadcast # {}
        BY <2>1, <2>10, <3>1, <3>3 DEF CoinInv, LostOnlyByConflict
      <4>2. QED
        BY <2>3, <2>8, <4>1
    <3>4. QED
      BY <3>2, <3>3
  <2>11. LostOnlyByConflict'
    BY <2>1, <2>3, <2>5, <2>9, <2>10 DEF LostOnlyByConflict, Channels
  <2>12. QED
    BY <2>1, <2>4, <2>6, <2>11 DEF CoinInv
<1>17. CASE UNCHANGED vars
  BY <1>17, Quiet DEF vars, ldk, Broadcast
<1>18. QED
  BY <1>1, <1>2, <1>3, <1>4, <1>5, <1>6, <1>7, <1>8, <1>9, <1>10, <1>11,
     <1>12, <1>13, <1>14, <1>15, <1>16, <1>17 DEF Next

-----------------------------------------------------------------------------
(* The requests of peers.                                                  *)

\* A request is handled once, on the channel it was made for.
LEMMA NextRequestInv ==
  ChannelInv /\ RequestInv /\ [Next]_vars => RequestInv'
<1> SUFFICES ASSUME ChannelInv, RequestInv, [Next]_vars PROVE RequestInv'
  OBVIOUS
<1> USE FundingAssumption
    DEF ChannelInv, Types, Channels, RequestInv, Unanswered, RequestAt,
        RejectedStaysClosed, States
<1>1. ASSUME NEW k \in Channels, open_channel(k) PROVE RequestInv'
  BY <1>1 DEF open_channel, Set, ldk, onchain
<1>2. ASSUME NEW k \in Channels, close_channel(k) PROVE RequestInv'
  BY <1>2 DEF close_channel, Set, ldk, onchain
<1>3. ASSUME NEW k \in Channels, PeerAccepts(k) PROVE RequestInv'
  BY <1>3 DEF PeerAccepts, Set, ldk, onchain
<1>4. ASSUME NEW k \in Channels, PeerOpens(k) PROVE RequestInv'
  <2>1. /\ k \in Inbound /\ chan[k] = "none"
        /\ chan' = [chan EXCEPT ![k] = "requested"]
        /\ events' = Append(events, <<"OpenChannelRequest", k>>)
        /\ UNCHANGED <<handler, rejected>>
    BY <1>4 DEF PeerOpens, Set
  <2>2. /\ events' \in Seq({"FundingGenerationReady", "OpenChannelRequest"}
                             \X Channels)
        /\ Len(events) \in Nat
        /\ Len(events') = Len(events) + 1
        /\ \A i \in 1..Len(events) : events'[i] = events[i]
        /\ events'[Len(events')] = <<"OpenChannelRequest", k>>
    BY <2>1 DEF RequestInv
  <2>3. \A i \in 1..Len(events') : i \in 1..Len(events) \/ i = Len(events')
    BY <2>2
  <2>4. /\ \A c \in Channels : chan[c] = "dropped" => chan'[c] = "dropped"
        /\ \A c \in Channels : Unanswered(c) => c # k /\ Unanswered(c)'
        /\ Unanswered(k)'
    BY <2>1
  <2>5. \A i \in 1..Len(events) : RequestAt(i) => events[i][2] # k
    BY <2>1
  <2>6. \A i \in 1..Len(events') : RequestAt(i)' => Unanswered(events[i][2])'
    BY <2>2, <2>3, <2>4
  <2>7. \A i, j \in 1..Len(events') :
          RequestAt(i)' /\ RequestAt(j)' /\ events'[i][2] = events'[j][2]
            => i = j
    <3> SUFFICES ASSUME NEW i \in 1..Len(events'), NEW j \in 1..Len(events'),
                        RequestAt(i)', RequestAt(j)',
                        events'[i][2] = events'[j][2]
                 PROVE  i = j
      OBVIOUS
    <3>1. CASE i \in 1..Len(events) /\ j \in 1..Len(events)
      BY <2>2, <3>1
    <3>2. CASE i = Len(events') /\ j \in 1..Len(events)
      BY <2>2, <2>5, <3>2
    <3>3. CASE i \in 1..Len(events) /\ j = Len(events')
      BY <2>2, <2>5, <3>3
    <3>4. QED
      BY <2>3, <3>1, <3>2, <3>3
  <2>8. handler'.pc # "idle" =>
          /\ Unanswered(handler.c)'
          /\ \A i \in 1..Len(events') :
               RequestAt(i)' => events'[i][2] # handler'.c
    BY <2>1, <2>2, <2>3, <2>4
  <2>9. QED
    BY <2>1, <2>2, <2>4, <2>6, <2>7, <2>8
<1>5. ASSUME NEW k \in Channels, LdkDrops(k) PROVE RequestInv'
  BY <1>5 DEF LdkDrops, Set, ldk, onchain
<1>6. ASSUME NEW k \in Channels, PeerFunds(k) PROVE RequestInv'
  BY <1>6 DEF PeerFunds, Set, ldk, onchain
<1>7. ASSUME NEW k \in Channels, broadcast_transactions(k) PROVE RequestInv'
  BY <1>7 DEF broadcast_transactions, Set, ldk, onchain
<1>8. ASSUME NEW k \in Channels, Confirm(k) PROVE RequestInv'
  BY <1>8 DEF Confirm, Set, ldk, onchain
<1>9. ASSUME NEW k \in Channels, LdkSees(k) PROVE RequestInv'
  BY <1>9 DEF LdkSees, Set, ldk, onchain
<1>10. ASSUME NEW k \in Channels, CloseConfirms(k) PROVE RequestInv'
  BY <1>10 DEF CloseConfirms, Set, ldk, onchain
<1>11. ASSUME NEW k \in Channels, ForceCloseConfirms(k) PROVE RequestInv'
  BY <1>11 DEF ForceCloseConfirms, Set, ldk, onchain
<1>12. CASE WalletSees
  BY <1>12 DEF WalletSees, Set, ldk, onchain
<1>13. ASSUME NEW k \in Channels, FundingGenerationReady(k) PROVE RequestInv'
  <2>1. /\ events # <<>> /\ events' = Tail(events)
        /\ Head(events) = <<"FundingGenerationReady", k>>
    BY <1>13 DEF FundingGenerationReady, Handles
  <2>2. /\ events' \in Seq({"FundingGenerationReady", "OpenChannelRequest"}
                             \X Channels)
        /\ Len(events') = Len(events) - 1
        /\ \A i \in 1..Len(events') : events'[i] = events[i + 1]
        /\ events[1] = <<"FundingGenerationReady", k>>
        /\ Len(events) \in Nat \ {0}
    BY <2>1 DEF RequestInv
  <2>3. \A i \in 1..Len(events') : i + 1 \in 1..Len(events)
    BY <2>2
  <2>4. /\ UNCHANGED <<handler, rejected>>
        /\ \A c \in Inbound : chan'[c] = "dropped" <=> chan[c] = "dropped"
        /\ \A c \in Inbound : Unanswered(c)' <=> Unanswered(c)
        /\ \A c \in Channels : chan[c] = "dropped" => chan'[c] = "dropped"
    BY <1>13 DEF FundingGenerationReady, Set
  <2>5. \A i \in 1..Len(events') : RequestAt(i)' => Unanswered(events[i][2])'
    BY <2>2, <2>3, <2>4
  <2>6. \A i, j \in 1..Len(events') :
          RequestAt(i)' /\ RequestAt(j)' /\ events'[i][2] = events'[j][2]
            => i = j
    <3> SUFFICES ASSUME NEW i \in 1..Len(events'), NEW j \in 1..Len(events'),
                        RequestAt(i)', RequestAt(j)',
                        events'[i][2] = events'[j][2]
                 PROVE  i = j
      OBVIOUS
    <3>1. /\ i + 1 \in 1..Len(events) /\ events'[i] = events[i + 1]
          /\ j + 1 \in 1..Len(events) /\ events'[j] = events[j + 1]
      BY <2>2, <2>3
    <3>2. i + 1 = j + 1
      BY <3>1
    <3>3. QED
      BY <3>2
  <2>7. handler'.pc # "idle" =>
          \A i \in 1..Len(events') :
            RequestAt(i)' => events'[i][2] # handler'.c
    BY <2>2, <2>3, <2>4
  <2>8. handler'.pc # "idle" => Unanswered(handler.c)'
    BY <2>4
  <2>9. QED
    BY <2>2, <2>4, <2>5, <2>6, <2>7, <2>8
<1>14. ASSUME NEW k \in Channels, OpenChannelRequest(k) PROVE RequestInv'
  <2>1. /\ events # <<>> /\ events' = Tail(events)
        /\ Head(events) = <<"OpenChannelRequest", k>>
    BY <1>14 DEF OpenChannelRequest, Handles
  <2>2. /\ events' \in Seq({"FundingGenerationReady", "OpenChannelRequest"}
                             \X Channels)
        /\ Len(events') = Len(events) - 1
        /\ \A i \in 1..Len(events') : events'[i] = events[i + 1]
        /\ events[1] = <<"OpenChannelRequest", k>>
        /\ Len(events) \in Nat \ {0}
    BY <2>1 DEF RequestInv
  <2>3. \A i \in 1..Len(events') : i + 1 \in 1..Len(events)
    BY <2>2
  <2>4. /\ UNCHANGED <<chan, rejected>>
        /\ handler'.c = k
    BY <1>14 DEF OpenChannelRequest, Handler
  <2>5. \A i \in 1..Len(events') : RequestAt(i)' => Unanswered(events[i][2])'
    BY <2>2, <2>3, <2>4
  <2>6. \A i, j \in 1..Len(events') :
          RequestAt(i)' /\ RequestAt(j)' /\ events'[i][2] = events'[j][2]
            => i = j
    <3> SUFFICES ASSUME NEW i \in 1..Len(events'), NEW j \in 1..Len(events'),
                        RequestAt(i)', RequestAt(j)',
                        events'[i][2] = events'[j][2]
                 PROVE  i = j
      OBVIOUS
    <3>1. /\ i + 1 \in 1..Len(events) /\ events'[i] = events[i + 1]
          /\ j + 1 \in 1..Len(events) /\ events'[j] = events[j + 1]
      BY <2>2, <2>3
    <3>2. i + 1 = j + 1
      BY <3>1
    <3>3. QED
      BY <3>2
  <2>7. \A i \in 1..Len(events') : RequestAt(i)' => events'[i][2] # k
    <3> SUFFICES ASSUME NEW i \in 1..Len(events'), RequestAt(i)',
                        events'[i][2] = k
                 PROVE  FALSE
      OBVIOUS
    <3>1. i + 1 \in 1..Len(events) /\ 1 \in 1..Len(events) /\ i + 1 # 1
      BY <2>2, <2>3
    <3>2. RequestAt(1) /\ RequestAt(i + 1) /\ events[1][2] = events[i + 1][2]
      BY <2>2
    <3>3. QED
      BY <3>1, <3>2
  <2>8. Unanswered(k)'
    <3>1. 1 \in 1..Len(events) /\ RequestAt(1) /\ events[1][2] = k
      BY <2>2
    <3>2. QED
      BY <2>4, <3>1
  <2>9. QED
    BY <2>2, <2>4, <2>5, <2>6, <2>7, <2>8
<1>15. CASE ForceClose
  BY <1>15 DEF ForceClose, Handler, Set, ldk, onchain
<1>16. CASE AcceptInbound
  BY <1>16 DEF AcceptInbound, Handler, Set, ldk, onchain
<1>17. CASE UNCHANGED vars
  BY <1>17 DEF vars, ldk, onchain
<1>18. QED
  BY <1>1, <1>2, <1>3, <1>4, <1>5, <1>6, <1>7, <1>8, <1>9, <1>10,
     <1>11, <1>12, <1>13, <1>14, <1>15, <1>16, <1>17 DEF Next

-----------------------------------------------------------------------------
(* The value of coins.                                                     *)

Coins == [kind : {"deposit", "change", "close"},
          from : Deposits \cup Channels, sats : Nat]

\* The coin that the sum over s takes first.
First(s) == CHOOSE k \in s : TRUE

\* g sums up the coins of each set in D, one coin after the other.
SumsUp(D, g) ==
  g = [s \in D |-> IF s = {} THEN 0
                   ELSE First(s).sats + g[s \ {First(s)}]]

\* A set of numbers has a smallest one.
LEMMA SmallestExists ==
  ASSUME NEW T \in SUBSET Nat, T # {}
  PROVE  \E m \in T : \A n \in T : m <= n
<1>1. \E m \in T : \A n \in T : ~ (<<n, m>> \in OpToRel(<, Nat))
  BY NatLessThanWellFounded, WFMin
<1>2. PICK m \in T : \A n \in T : ~ (n < m)
  BY <1>1 DEF OpToRel
<1>3. QED
  BY <1>2

\* Sats is such a sum, if there is one.
LEMMA SatsDef ==
  ASSUME NEW S
  PROVE  Sats(S) = (CHOOSE g : SumsUp(SUBSET S, g))[S]
  BY DEF Sats, MapThenSumSet, MapThenFoldSet, SumsUp, First

\* What is left when the first coin is taken.
LEMMA TakeFirst ==
  ASSUME NEW s \in SUBSET Coins, IsFiniteSet(s), s # {}
  PROVE  /\ First(s) \in s /\ First(s).sats \in Nat
         /\ IsFiniteSet(s \ {First(s)})
         /\ Cardinality(s) \in Nat /\ Cardinality(s \ {First(s)}) \in Nat
         /\ Cardinality(s \ {First(s)}) = Cardinality(s) - 1
<1>1. First(s) \in s
  BY DEF First
<1>2. First(s).sats \in Nat
  BY <1>1 DEF Coins
<1>3. QED
  BY <1>1, <1>2, FS_RemoveElement, FS_CardinalityType

\* The sums exist: those of sets with at most n coins come first.
LEMMA SumsExist ==
  ASSUME NEW S \in SUBSET Coins, IsFiniteSet(S)
  PROVE  \E g : SumsUp(SUBSET S, g)
<1> DEFINE Upto(n) == {s \in SUBSET S : Cardinality(s) <= n}
           Bad == {n \in Nat : ~ \E g : SumsUp(Upto(n), g)}
<1>0. ASSUME NEW s \in SUBSET S
      PROVE  IsFiniteSet(s) /\ Cardinality(s) \in Nat
                /\ Cardinality(s) <= Cardinality(S)
  BY FS_Subset, FS_CardinalityType
<1>1. Bad = {}
  <2> SUFFICES ASSUME Bad # {} PROVE FALSE
    OBVIOUS
  <2>1. PICK m \in Bad : \A n \in Bad : m <= n
    <3>1. Bad \in SUBSET Nat
      OBVIOUS
    <3> HIDE DEF Bad
    <3>2. QED
      BY <3>1, SmallestExists
  <2>2. CASE m = 0
    <3> DEFINE g == [s \in Upto(0) |-> 0]
    <3>1. \A s \in Upto(0) : s = {}
      BY <1>0, FS_EmptySet
    <3>2. SumsUp(Upto(0), g)
      BY <3>1 DEF SumsUp
    <3>3. QED
      BY <2>2, <3>2
  <2>3. CASE m # 0
    <3>1. m \in Nat /\ m - 1 \in Nat
      BY <2>3
    <3>2. PICK f : SumsUp(Upto(m - 1), f)
      <4>1. m - 1 \notin Bad
        <5> HIDE DEF Bad
        <5> QED BY <2>1, <3>1
      <4>2. QED
        BY <3>1, <4>1, Zenon
    <3> DEFINE g == [s \in Upto(m) |-> IF s = {} THEN 0
                                       ELSE First(s).sats + f[s \ {First(s)}]]
    <3>3. ASSUME NEW s \in Upto(m), s # {}
          PROVE  s \ {First(s)} \in Upto(m - 1)
      BY <1>0, <3>1, <3>3, TakeFirst
    <3>4. Upto(m - 1) \subseteq Upto(m)
      BY <1>0, <3>1
    <3>5. ASSUME NEW s \in Upto(m - 1) PROVE g[s] = f[s]
      <4>1. f[s] = IF s = {} THEN 0 ELSE First(s).sats + f[s \ {First(s)}]
        <5> HIDE DEF Upto
        <5> QED BY <3>2 DEF SumsUp
      <4>2. QED
        BY <3>4, <4>1
    <3>6. SumsUp(Upto(m), g)
      <4>1. ASSUME NEW s \in Upto(m)
            PROVE  g[s] = IF s = {} THEN 0
                          ELSE First(s).sats + g[s \ {First(s)}]
        <5> HIDE DEF Upto
        <5> QED BY <3>3, <3>5
      <4> HIDE DEF Upto
      <4>2. QED
        BY <4>1 DEF SumsUp
    <3>7. QED
      BY <3>6
  <2>4. QED
    BY <2>2, <2>3
<1>2. Upto(Cardinality(S)) = SUBSET S
  BY <1>0
<1>3. Cardinality(S) \in Nat
  BY FS_CardinalityType
<1>4. QED
  BY <1>1, <1>2, <1>3

\* The value of finitely many coins is a number, and no coins are worth none.
LEMMA SatsType ==
  ASSUME NEW S \in SUBSET Coins, IsFiniteSet(S)
  PROVE  Sats(S) \in Nat /\ (S = {} => Sats(S) = 0)
<1> DEFINE g == CHOOSE h : SumsUp(SUBSET S, h)
           Bad == {n \in Nat : \E s \in SUBSET S : Cardinality(s) = n
                                                     /\ g[s] \notin Nat}
<1>1. SumsUp(SUBSET S, g)
  BY SumsExist
<1>2. \A s \in SUBSET S : g[s] = IF s = {} THEN 0
                                 ELSE First(s).sats + g[s \ {First(s)}]
  <2> HIDE DEF g
  <2> QED BY <1>1 DEF SumsUp
<1> HIDE DEF g
<1>3. Bad = {}
  <2> SUFFICES ASSUME Bad # {} PROVE FALSE
    OBVIOUS
  <2>1. PICK m \in Bad : \A n \in Bad : m <= n
    <3>1. Bad \in SUBSET Nat
      OBVIOUS
    <3> HIDE DEF Bad
    <3>2. QED
      BY <3>1, SmallestExists
  <2>2. PICK s \in SUBSET S : Cardinality(s) = m /\ g[s] \notin Nat
    BY <2>1
  <2>3. s # {} /\ IsFiniteSet(s)
    <3>1. s # {}
      BY <1>2, <2>2
    <3>2. QED
      BY <3>1, FS_Subset
  <2>4. /\ First(s).sats \in Nat /\ First(s) \in s
        /\ Cardinality(s) \in Nat /\ Cardinality(s \ {First(s)}) \in Nat
        /\ Cardinality(s \ {First(s)}) = Cardinality(s) - 1
    BY <2>3, TakeFirst
  <2>5. g[s \ {First(s)}] \in Nat
    BY <2>1, <2>2, <2>4
  <2>6. QED
    BY <1>2, <2>2, <2>3, <2>4, <2>5
<1>4. Cardinality(S) \in Nat
  BY FS_CardinalityType
<1>5. g[S] \in Nat
  BY <1>3, <1>4
<1>6. Sats(S) = g[S]
  BY SatsDef DEF g
<1>7. QED
  BY <1>2, <1>5, <1>6

-----------------------------------------------------------------------------
(* The types.                                                              *)

\* Finitely many coins, each worth a number, and a peer's states only for the
\* channels of peers.
CoinTypes ==
  /\ coins \subseteq Coins /\ IsFiniteSet(coins)
  /\ wallet \subseteq Coins /\ IsFiniteSet(wallet)
  /\ \A c \in Channels : IsFiniteSet(tx[c])
  /\ \A c \in Outbound : chan[c] \notin {"requested", "accepted"}

TypeInv == TypeOK /\ CoinTypes

\* A step that changes neither coins nor transactions, and makes no channel
\* wait for a transaction it does not have.
LEMMA QuietTypes ==
  ASSUME TypeInv, UNCHANGED <<onchain, errors>>, wallet' \in {wallet, coins},
         chan' \in [Channels -> States],
         handler' \in [pc : {"idle", "force_close", "accept"},
                       c : Channels \cup {NoChannel}],
         handler'.pc = "idle" <=> handler'.c = NoChannel,
         rejected' \subseteq Inbound,
         \A c \in Outbound :
           /\ chan'[c] \notin {"requested", "accepted"}
           /\ chan'[c] \in {"signing", "pending", "ready"}
                => chan[c] \in {"signing", "pending", "ready"}
  PROVE  TypeInv'
<1>1. TypeOK'
  BY DEF TypeInv, TypeOK, onchain
<1>2. CoinTypes'
  BY DEF TypeInv, CoinTypes, onchain, Coins, Channels
<1>3. QED
  BY <1>1, <1>2 DEF TypeInv

\* Every action keeps the types.  A block turns coins into change, whose value
\* is a number; the handler is at a channel of a peer.
LEMMA NextTypeInv ==
  TypeInv /\ ChannelInv /\ RequestInv /\ [Next]_vars => TypeInv'
<1> SUFFICES ASSUME TypeInv, ChannelInv, RequestInv, [Next]_vars
             PROVE  TypeInv'
  OBVIOUS
<1> USE DEF States
<1>a. /\ TypeOK /\ CoinTypes /\ WaitingIsOutbound
      /\ mempool \cup confirmed \subseteq Broadcast
      /\ chan \in [Channels -> States] /\ tx = [c \in Channels |-> tx[c]]
      /\ Outbound \subseteq Channels /\ Inbound \subseteq Channels
      /\ Outbound \cap Inbound = {}
  BY FundingAssumption
     DEF TypeInv, ChannelInv, Types, NeverPaysDropped, Channels
<1>b. /\ handler.pc # "idle" => handler.c \in Inbound
      /\ handler \in [pc : {"idle", "force_close", "accept"},
                       c : Channels \cup {NoChannel}]
      /\ handler.pc = "idle" <=> handler.c = NoChannel
      /\ rejected \subseteq Inbound
      /\ \A c \in Outbound : chan[c] \notin {"requested", "accepted"}
  BY DEF RequestInv, Unanswered, TypeInv, TypeOK, CoinTypes
<1>1. ASSUME NEW k \in Channels, open_channel(k) PROVE TypeInv'
  BY <1>a, <1>b, <1>1, QuietTypes DEF open_channel, Set
<1>2. ASSUME NEW k \in Channels, close_channel(k) PROVE TypeInv'
  BY <1>a, <1>b, <1>2, QuietTypes DEF close_channel, Set
<1>3. ASSUME NEW k \in Channels, PeerAccepts(k) PROVE TypeInv'
  BY <1>a, <1>b, <1>3, QuietTypes DEF PeerAccepts, Set
<1>4. ASSUME NEW k \in Channels, PeerOpens(k) PROVE TypeInv'
  BY <1>a, <1>b, <1>4, QuietTypes DEF PeerOpens, Set
<1>5. ASSUME NEW k \in Channels, LdkDrops(k) PROVE TypeInv'
  BY <1>a, <1>b, <1>5, QuietTypes DEF LdkDrops, Set
<1>6. ASSUME NEW k \in Channels, PeerFunds(k) PROVE TypeInv'
  BY <1>a, <1>b, <1>6, QuietTypes DEF PeerFunds, Set
<1>7. ASSUME NEW k \in Channels, LdkSees(k) PROVE TypeInv'
  BY <1>a, <1>b, <1>7, QuietTypes DEF LdkSees, Set
<1>8. ASSUME NEW k \in Channels, ForceCloseConfirms(k) PROVE TypeInv'
  BY <1>a, <1>b, <1>8, QuietTypes DEF ForceCloseConfirms, Set
<1>9. CASE WalletSees
  BY <1>a, <1>b, <1>9, QuietTypes DEF WalletSees, ldk
<1>10. ASSUME NEW k \in Channels, OpenChannelRequest(k) PROVE TypeInv'
  BY <1>a, <1>b, <1>10, QuietTypes, FundingAssumption
     DEF OpenChannelRequest, Handler
<1>11. CASE ForceClose
  BY <1>a, <1>b, <1>11, QuietTypes, FundingAssumption
     DEF ForceClose, Handler, Set
<1>12. CASE AcceptInbound
  BY <1>a, <1>b, <1>12, QuietTypes DEF AcceptInbound, Handler, Set
<1>13. ASSUME NEW k \in Channels, broadcast_transactions(k) PROVE TypeInv'
  <2>1. /\ chan[k] = "signing" /\ chan' = [chan EXCEPT ![k] = "pending"]
        /\ mempool' \subseteq mempool \cup {k}
        /\ errors' = errors \/ (errors < MaxErrors /\ errors' = errors + 1)
        /\ UNCHANGED <<handler, tx, confirmed, coins, wallet, rejected>>
    BY <1>13 DEF broadcast_transactions, Set
  <2>2. k \in Outbound /\ k \notin confirmed
    BY <1>a, <2>1 DEF WaitingIsOutbound, Broadcast
  <2>3. errors' \in 0..MaxErrors
    BY <1>a, <2>1, FundingAssumption DEF TypeOK
  <2>4. TypeOK'
    BY <1>a, <2>1, <2>2, <2>3 DEF TypeOK
  <2>5. CoinTypes'
    BY <1>a, <2>1, <2>2 DEF CoinTypes, Coins, Channels
  <2>6. QED
    BY <2>4, <2>5 DEF TypeInv
<1>14. ASSUME NEW k \in Channels, Confirm(k) PROVE TypeInv'
  <2> DEFINE rest == Sats(tx[k]) - (ChannelSats + Fee)
             new == IF rest > 0 THEN {Coin("change", k, rest)} ELSE {}
  <2>1. /\ k \in mempool /\ mempool' \subseteq mempool \ {k}
        /\ confirmed' = confirmed \cup {k}
        /\ coins' = (coins \ tx[k]) \cup new
        /\ UNCHANGED <<chan, handler, tx, wallet, rejected, errors>>
    BY <1>14 DEF Confirm, ldk
  <2>2. tx[k] \in SUBSET Coins /\ IsFiniteSet(tx[k])
    BY <1>a DEF TypeOK, CoinTypes, Coins
  <2>3. Sats(tx[k]) \in Nat
    BY <2>2, SatsType
  <2>4. rest > 0 => rest \in Nat
    BY <2>3, FundingAssumption
  <2>5. new \subseteq Coins
    <3> HIDE DEF rest
    <3> QED BY <2>4 DEF Coins, Coin
  <2>6. IsFiniteSet(new)
    BY FS_EmptySet, FS_Singleton
  <2> HIDE DEF new
  <2>7. coins' \subseteq Coins /\ IsFiniteSet(coins')
    <3>1. IsFiniteSet(coins \ tx[k])
      BY <1>a, FS_Difference DEF CoinTypes
    <3>2. QED
      BY <1>a, <2>1, <2>5, <2>6, <3>1, FS_Union DEF CoinTypes
  <2>8. TypeOK'
    BY <1>a, <2>1 DEF TypeOK
  <2>9. CoinTypes'
    BY <1>a, <2>1, <2>7 DEF CoinTypes, Coins, Channels
  <2>10. QED
    BY <2>8, <2>9 DEF TypeInv
<1>15. ASSUME NEW k \in Channels, CloseConfirms(k) PROVE TypeInv'
  <2>1. /\ chan' = [chan EXCEPT ![k] = "closed"]
        /\ coins' = coins \cup {Coin("close", k, ChannelSats)}
        /\ UNCHANGED <<handler, tx, mempool, confirmed, wallet, rejected,
                       errors>>
    BY <1>15 DEF CloseConfirms, Set
  <2>2. Coin("close", k, ChannelSats) \in Coins
    BY FundingAssumption DEF Coin, Coins
  <2>3. coins' \subseteq Coins /\ IsFiniteSet(coins')
    BY <1>a, <2>1, <2>2, FS_AddElement DEF CoinTypes
  <2>4. TypeOK'
    BY <1>a, <2>1 DEF TypeOK
  <2>5. CoinTypes'
    BY <1>a, <2>1, <2>3 DEF CoinTypes, Coins, Channels
  <2>6. QED
    BY <2>4, <2>5 DEF TypeInv
<1>16. ASSUME NEW k \in Channels, FundingGenerationReady(k) PROVE TypeInv'
  <2>1. CASE UNCHANGED <<chan, tx>>
    BY <1>a, <1>b, <1>16, <2>1, QuietTypes
       DEF FundingGenerationReady, onchain
  <2>2. CASE ~ UNCHANGED <<chan, tx>>
    <3>1. PICK S \in SUBSET wallet :
            /\ Pays(S) /\ chan[k] = "awaiting_tx"
            /\ chan' = [chan EXCEPT ![k] = "signing"]
            /\ tx' = [tx EXCEPT ![k] = S]
      BY <1>16, <2>2 DEF FundingGenerationReady, Selects, Set
    <3>2. UNCHANGED <<handler, mempool, confirmed, coins, wallet, rejected,
                      errors>>
      BY <1>16 DEF FundingGenerationReady
    <3>3. S \in SUBSET Coins /\ IsFiniteSet(S)
      BY <1>a, FS_Subset DEF CoinTypes
    <3>4. S # {}
      BY <3>1, <3>3, SatsType, FundingAssumption DEF Pays
    <3>5. TypeOK'
      BY <1>a, <3>1, <3>2, <3>3, <3>4 DEF TypeOK, Coins
    <3>6. CoinTypes'
      BY <1>a, <3>1, <3>2, <3>3 DEF CoinTypes, Coins, Channels
    <3>7. QED
      BY <3>5, <3>6 DEF TypeInv
  <2>3. QED
    BY <2>1, <2>2
<1>17. CASE UNCHANGED vars
  BY <1>a, <1>b, <1>17, QuietTypes DEF vars, ldk
<1>18. QED
  BY <1>1, <1>2, <1>3, <1>4, <1>5, <1>6, <1>7, <1>8, <1>9, <1>10,
     <1>11, <1>12, <1>13, <1>14, <1>15, <1>16, <1>17 DEF Next

-----------------------------------------------------------------------------
(* The theorems.                                                           *)

\* LDK's view of the channels and what bitcoind holds stay consistent.
THEOREM ChannelInvariance == Spec => []ChannelInv
<1>1. Init => ChannelInv
  BY FundingAssumption
     DEF Init, ChannelInv, Types, States, WaitingIsOutbound, NeverPaysDropped
<1>2. QED
  BY <1>1, NextChannelInv, PTL DEF Spec

\* However late FundingGenerationReady is handled, and whatever LDK dropped in
\* the meantime, the wallet's money goes only to a channel LDK has.
THEOREM MoneyGoesToChannels == Spec => []NeverPaysDropped
<1>1. ChannelInv => NeverPaysDropped
  BY DEF ChannelInv
<1>2. QED
  BY <1>1, ChannelInvariance, PTL

\* A funding transaction is lost only to an RPC error or to another funding
\* transaction with a coin in common, for any coins and coin selection.
THEOREM LossesExplained == Spec => []LostOnlyByConflict
<1>1. Init => CoinInv
  BY DEF Init, CoinInv, Known, LostOnlyByConflict, Channels
<1>2. Spec => []CoinInv
  BY <1>1, NextCoinInv, ChannelInvariance, PTL DEF Spec
<1>3. CoinInv => LostOnlyByConflict
  BY DEF CoinInv
<1>4. QED
  BY <1>2, <1>3, PTL

\* LDK asks about each channel of a peer once.
THEOREM RequestInvariance == Spec => []RequestInv
<1>1. Init => RequestInv
  BY DEF Init, RequestInv, Handler, RejectedStaysClosed
<1>2. QED
  BY <1>1, NextRequestInv, ChannelInvariance, PTL DEF Spec

\* accept_inbound_channel after a rejection never opens the channel.
THEOREM RejectionHolds == Spec => []RejectedStaysClosed
<1>1. RequestInv => RejectedStaysClosed
  BY DEF RequestInv
<1>2. QED
  BY <1>1, RequestInvariance, PTL

\* Type correctness: in particular a channel that waits for its transaction
\* has one, bitcoind holds transactions only of channels this node opened,
\* and no transaction is in the mempool once it is in a block.
THEOREM FundingTypes == Spec => []TypeOK
<1>1. Init => TypeInv
  <2> SUFFICES ASSUME Init PROVE TypeInv
    OBVIOUS
  <2>1. coins \subseteq Coins
    BY FundingAssumption DEF Init, Coins, Coin
  <2>2. IsFiniteSet(coins)
    <3> DEFINE f == [d \in Deposits |-> Coin("deposit", d, DepositSats)]
    <3>1. f \in Surjection(Deposits, coins)
      BY DEF Init, Surjection
    <3> HIDE DEF f
    <3>2. QED
      BY <3>1, FundingAssumption, FS_Surjection
  <2>3. /\ handler.pc = "idle" /\ handler.c = NoChannel
        /\ handler \in [pc : {"idle", "force_close", "accept"},
                         c : Channels \cup {NoChannel}]
    BY DEF Init, Handler
  <2>4. TypeOK
    BY <2>3, FundingAssumption DEF Init, TypeOK, States, Channels
  <2>5. QED
    BY <2>1, <2>2, <2>4, FS_EmptySet DEF Init, TypeInv, CoinTypes, Channels
<1>2. Spec => []TypeInv
  BY <1>1, NextTypeInv, ChannelInvariance, RequestInvariance, PTL DEF Spec
<1>3. TypeInv => TypeOK
  BY DEF TypeInv
<1>4. QED
  BY <1>2, <1>3, PTL

=============================================================================
