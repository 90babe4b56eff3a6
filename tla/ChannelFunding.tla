--------------------------- MODULE ChannelFunding ---------------------------
(***************************************************************************)
(* Channels from the request to the block that holds their funding         *)
(* transaction, and the coins that pay for them.  open_channel starts a    *)
(* channel; LDK asks for a funding transaction with an event, which the    *)
(* event handler builds from the wallet's coins; LDK has it broadcast when *)
(* the peer has signed.  A peer's request is checked against the wallet's  *)
(* balance and accepted.  The wallet knows what it has seen in blocks and  *)
(* nothing else: not what build_transaction gave away, not the mempool.    *)
(***************************************************************************)
EXTENDS Naturals, Sequences, FiniteSets, FiniteSetsExt

CONSTANTS Outbound, Inbound,  \* channels by who opens them
          Anchors,            \* the inbound ones that are anchor channels
          Deposits,           \* coins the wallet received
          DepositSats,        \* the value of each
          ChannelSats, Fee,   \* what a channel and its transaction cost
          Reserve,            \* the 10,000 sats of the event handler
          NoChannel,
          MaxErrors           \* bound: RPC calls that fail

Channels == Outbound \cup Inbound

ASSUME FundingAssumption ==
  /\ Outbound \cap Inbound = {} /\ Anchors \subseteq Inbound
  /\ NoChannel \notin Channels
  /\ Deposits \cap Channels = {}
  /\ {DepositSats, ChannelSats, Fee, Reserve, MaxErrors} \subseteq Nat
  /\ ChannelSats + Fee > 0
  /\ IsFiniteSet(Channels) /\ IsFiniteSet(Deposits)

VARIABLES
  chan,       \* LDK's state of each channel
  events,     \* LDK's queue of events: <<kind, channel>>
  handler,    \* what handle_event is doing between two calls of LDK
  tx,         \* tx[c]: the coins that the funding transaction of c spends
  mempool,    \* channels whose funding transaction bitcoind holds
  confirmed,  \* channels whose funding transaction is in a block
  coins,      \* our unspent coins on the chain
  wallet,     \* our unspent coins as the bdk wallet knows them
  rejected,   \* history: channels the handler rejected
  errors

ldk  == <<chan, events>>
onchain == <<tx, mempool, confirmed, coins>>
vars == <<ldk, handler, onchain, wallet, rejected, errors>>

Coin(kind, from, sats) == [kind |-> kind, from |-> from, sats |-> sats]

Sats(S) == MapThenSumSet(LAMBDA coin : coin.sats, S)

\* The coins S cover a channel and the fee of its transaction.
Pays(S) == Sats(S) >= ChannelSats + Fee

Handler(pc, c) == [pc |-> pc, c |-> c]

Init ==
  /\ chan = [c \in Channels |-> "none"]
  /\ events = <<>>
  /\ handler = Handler("idle", NoChannel)
  /\ tx = [c \in Channels |-> {}]
  /\ mempool = {} /\ confirmed = {}
  /\ coins = {Coin("deposit", d, DepositSats) : d \in Deposits}
  /\ wallet = coins
  /\ rejected = {}
  /\ errors = 0

Set(c, state) == chan' = [chan EXCEPT ![c] = state]

Conflicts(c) == {d \in Channels \ {c} : tx[d] \cap tx[c] # {}}

-----------------------------------------------------------------------------
(* The server task.                                                        *)

\* create_channel, for a peer that is connected; the wallet is not asked
\* ("TODO: Verify we have enough onchain funds for channel").
open_channel(c) ==
  /\ c \in Outbound /\ chan[c] = "none"
  /\ Set(c, "opening")
  /\ UNCHANGED <<events, handler, onchain, wallet, rejected, errors>>

\* LDK drops a channel without funding and begins to close any other.
close_channel(c) ==
  /\ chan[c] \in {"opening", "awaiting_tx", "signing", "accepted", "pending",
                  "ready"}
  /\ Set(c, IF chan[c] \in {"pending", "ready"} THEN "closing" ELSE "dropped")
  /\ UNCHANGED <<events, handler, onchain, wallet, rejected, errors>>

-----------------------------------------------------------------------------
(* LDK and the peers, external.                                            *)

\* The peer accepts: Event::FundingGenerationReady.
PeerAccepts(c) ==
  /\ chan[c] = "opening"
  /\ Set(c, "awaiting_tx")
  /\ events' = Append(events, <<"FundingGenerationReady", c>>)
  /\ UNCHANGED <<handler, onchain, wallet, rejected, errors>>

\* A peer asks for a channel: Event::OpenChannelRequest.
PeerOpens(c) ==
  /\ c \in Inbound /\ chan[c] = "none"
  /\ Set(c, "requested")
  /\ events' = Append(events, <<"OpenChannelRequest", c>>)
  /\ UNCHANGED <<handler, onchain, wallet, rejected, errors>>

\* The peer is gone, or the channel is not funded in time.  That LDK
\* closes a channel whose transaction waits for its block, on an error of the
\* peer, is left out.
LdkDrops(c) ==
  /\ chan[c] \in {"opening", "awaiting_tx", "signing", "requested", "accepted"}
  /\ Set(c, "dropped")
  /\ UNCHANGED <<events, handler, onchain, wallet, rejected, errors>>

\* The peer funds the channel it opened.
PeerFunds(c) ==
  /\ chan[c] = "accepted"
  /\ Set(c, "ready")
  /\ UNCHANGED <<events, handler, onchain, wallet, rejected, errors>>

\* The peer signed; LDK calls broadcast_transactions.  An error, be it of
\* the call or bitcoind's refusal, is logged and the transaction forgotten.
\* Of two transactions that spend a coin bitcoind keeps one.
broadcast_transactions(c) ==
  /\ chan[c] = "signing"
  /\ Set(c, "pending")
  /\ \/ /\ tx[c] \subseteq coins /\ Pays(tx[c])
        /\ mempool' = (mempool \ Conflicts(c)) \cup {c}
        /\ UNCHANGED errors
     \/ /\ ~(tx[c] \subseteq coins) \/ ~Pays(tx[c])
             \/ Conflicts(c) \cap mempool # {}
        /\ UNCHANGED <<mempool, errors>>
     \/ /\ errors < MaxErrors
        /\ errors' = errors + 1
        /\ UNCHANGED mempool
  /\ UNCHANGED <<events, handler, tx, confirmed, coins, wallet, rejected>>

\* A block holds the funding transaction; its change is a coin of ours.
Confirm(c) ==
  /\ c \in mempool
  /\ mempool' = mempool \ ({c} \cup Conflicts(c))
  /\ confirmed' = confirmed \cup {c}
  /\ LET rest == Sats(tx[c]) - (ChannelSats + Fee)
     IN  coins' = (coins \ tx[c])
                    \cup (IF rest > 0 THEN {Coin("change", c, rest)} ELSE {})
  /\ UNCHANGED <<ldk, handler, tx, wallet, rejected, errors>>

\* The closing transaction of a channel both sides close pays to an address
\* of the wallet (get_shutdown_scriptpubkey).
CloseConfirms(c) ==
  /\ chan[c] = "closing" /\ c \in confirmed
  /\ Set(c, "closed")
  /\ coins' = coins \cup {Coin("close", c, ChannelSats)}
  /\ UNCHANGED <<events, handler, tx, mempool, confirmed, wallet, rejected,
                 errors>>

\* A commitment transaction is mined instead.  Its outputs come with
\* Event::SpendableOutputs, which is ignored: no coin of the wallet.
ForceCloseConfirms(c) ==
  /\ chan[c] \in {"ready", "closing"} /\ c \in confirmed
  /\ Set(c, "closed")
  /\ UNCHANGED <<events, handler, onchain, wallet, rejected, errors>>

\* The chain task gives the block to LDK, and then to the wallet.
LdkSees(c) ==
  /\ c \in confirmed /\ chan[c] = "pending"
  /\ Set(c, "ready")
  /\ UNCHANGED <<events, handler, onchain, wallet, rejected, errors>>

\* There are no reorgs here: blocks that bitcoind abandons, and of which the
\* wallet is never told, are in module ChainSync.
WalletSees ==
  /\ wallet # coins
  /\ \A c \in confirmed : chan[c] # "pending"
  /\ wallet' = coins
  /\ UNCHANGED <<ldk, handler, onchain, rejected, errors>>

-----------------------------------------------------------------------------
(* The background task: handle_event.                                      *)

Handles(kind, c) ==
  /\ handler.pc = "idle"
  /\ events # <<>> /\ Head(events) = <<kind, c>>
  /\ events' = Tail(events)

\* Mutant: the fee is not counted.
SelectsShort(S) == S \subseteq wallet /\ Sats(S) >= ChannelSats

\* build_transaction: any coins the wallet knows that cover value and fee.
\* The comparison of the balance with the value alone adds nothing.
Selects(S) == S \subseteq wallet /\ Pays(S)

\* Mutant: the transaction is broadcast as soon as it is built.
FundingBroadcastAtOnce(c) ==
  /\ Handles("FundingGenerationReady", c)
  /\ \/ /\ \A S \in SUBSET wallet : ~Selects(S)
        /\ UNCHANGED <<chan, tx, mempool>>
     \/ \E S \in SUBSET wallet :
          /\ Selects(S)
          /\ tx' = [tx EXCEPT ![c] = S]
          /\ mempool' = mempool \cup {c}
          /\ IF chan[c] = "awaiting_tx" THEN Set(c, "signing")
                                        ELSE UNCHANGED chan
  /\ UNCHANGED <<handler, confirmed, coins, wallet, rejected, errors>>

\* The transaction is built and handed to LDK, which may have dropped the
\* channel: the error is logged.  When it cannot be built LDK is not told.
FundingGenerationReady(c) ==
  /\ Handles("FundingGenerationReady", c)
  /\ \/ /\ \A S \in SUBSET wallet : ~Selects(S)
        /\ UNCHANGED <<chan, tx>>
     \/ \E S \in SUBSET wallet :
          /\ Selects(S)
          /\ IF chan[c] = "awaiting_tx"
             THEN Set(c, "signing") /\ tx' = [tx EXCEPT ![c] = S]
             ELSE UNCHANGED <<chan, tx>>
  /\ UNCHANGED <<handler, mempool, confirmed, coins, wallet, rejected, errors>>

\* The reserve is compared for an anchor channel; the comparison of the
\* value with min_channel_value_sat has an empty body.
OpenChannelRequest(c) ==
  /\ Handles("OpenChannelRequest", c)
  /\ handler' = Handler(IF c \in Anchors /\ Sats(wallet) < Reserve
                        THEN "force_close" ELSE "accept", c)
  /\ UNCHANGED <<chan, onchain, wallet, rejected, errors>>

\* Mutant: the rejection is only logged.
RejectLogged ==
  /\ handler.pc = "force_close"
  /\ rejected' = rejected \cup {handler.c}
  /\ handler' = Handler("accept", handler.c)
  /\ UNCHANGED <<ldk, onchain, wallet, errors>>

\* force_close_broadcasting_latest_txn.  There is no return: the handler goes
\* on to accept the channel.
ForceClose ==
  /\ handler.pc = "force_close"
  /\ rejected' = rejected \cup {handler.c}
  /\ handler' = Handler("accept", handler.c)
  /\ IF chan[handler.c] = "requested"
     THEN Set(handler.c, "dropped") ELSE UNCHANGED chan
  /\ UNCHANGED <<events, onchain, wallet, errors>>

\* Mutant: the handler does not forget the channel.
AcceptKeepsChannel ==
  /\ handler.pc = "accept"
  /\ handler' = Handler("idle", handler.c)
  /\ IF chan[handler.c] = "requested"
     THEN Set(handler.c, "accepted") ELSE UNCHANGED chan
  /\ UNCHANGED <<events, onchain, wallet, rejected, errors>>

\* accept_inbound_channel fails for a channel LDK no longer has.
AcceptInbound ==
  /\ handler.pc = "accept"
  /\ handler' = Handler("idle", NoChannel)
  /\ IF chan[handler.c] = "requested"
     THEN Set(handler.c, "accepted") ELSE UNCHANGED chan
  /\ UNCHANGED <<events, onchain, wallet, rejected, errors>>

Next ==
  \/ \E c \in Channels : open_channel(c) \/ close_channel(c)
  \/ \E c \in Channels :
       \/ PeerAccepts(c) \/ PeerOpens(c) \/ LdkDrops(c) \/ PeerFunds(c)
       \/ broadcast_transactions(c) \/ Confirm(c) \/ LdkSees(c)
       \/ CloseConfirms(c) \/ ForceCloseConfirms(c)
  \/ WalletSees
  \/ \E c \in Channels : FundingGenerationReady(c) \/ OpenChannelRequest(c)
  \/ ForceClose \/ AcceptInbound

Spec == Init /\ [][Next]_vars

-----------------------------------------------------------------------------
(* Properties.                                                             *)

States == {"none", "opening", "awaiting_tx", "signing", "pending", "ready",
           "closing", "closed", "requested", "accepted", "dropped"}

\* Every variable has its type; only a channel whose transaction LDK took has
\* one, and a block holds it for good.
TypeOK ==
  /\ chan \in [Channels -> States]
  /\ handler \in [pc : {"idle", "force_close", "accept"},
                  c : Channels \cup {NoChannel}]
  /\ handler.pc = "idle" <=> handler.c = NoChannel
  /\ \A c \in Channels : tx[c] \subseteq
       [kind : {"deposit", "change", "close"},
        from : Deposits \cup Channels, sats : Nat]
  /\ mempool \cap confirmed = {} /\ mempool \cup confirmed \subseteq Outbound
  /\ \A c \in Outbound : chan[c] \in {"signing", "pending", "ready"}
                           => tx[c] # {}
  /\ rejected \subseteq Inbound
  /\ errors \in 0..MaxErrors

\* Channels whose funding transaction LDK had broadcast.
Broadcast == {c \in Outbound : chan[c] \in {"pending", "ready", "closing",
                                            "closed"}}

\* A transaction is built for a request that may be out of date: LDK drops
\* channels on its own.  No money ever goes to a channel LDK gave up: what is
\* broadcast or mined belongs to a channel LDK still has.
NeverPaysDropped ==
  mempool \cup confirmed \subseteq Broadcast

\* The funding transaction of a channel that waits for it is lost only if an
\* RPC call failed, or if the wallet spent the same coin for another channel:
\* the wallet does not know what it spent before a block shows it.  (A coin
\* of a block that bitcoind abandoned would be a third cause.)
LostOnlyByConflict ==
  \A c \in Outbound :
    chan[c] = "pending" /\ c \notin mempool \cup confirmed
      => errors > 0 \/ Conflicts(c) \cap Broadcast # {}

\* A rejected channel is never opened, although the handler goes on to accept
\* it in the next statement.  (That the peer asks again with the same
\* temporary id between the two statements is left out.)
RejectedStaysClosed ==
  \A c \in rejected : chan[c] = "dropped"

=============================================================================
