------------------------- MODULE SpawnedTasksProofs -------------------------
(***************************************************************************)
(* Two of the tasks that Node::start spawns.  FeeEstimates for every set   *)
(* of answers bitcoind may give and every width of the integers: types,    *)
(* the relay floor and the order of the rates.  Then Peers, of which the   *)
(* reconnecting task is a part.                                            *)
(***************************************************************************)
EXTENDS FeeEstimates, Peers, TLAPS

\* There are eight targets, and CONF_TARGETS lists targets only.
LEMMA TargetsListed ==
  /\ Len(CONF_TARGETS) = 8
  /\ \A i \in 1..8 : CONF_TARGETS[i] \in Targets
  BY DEF CONF_TARGETS, Targets

\* The fallback fees are within u32 and above the floor.
LEMMA FallbackFees ==
  /\ get_fallback_fee \in [Targets -> 0..U32Max]
  /\ \A t \in Targets : get_fallback_fee[t] >= 253
  /\ get_fallback_fee["MaximumFeeEstimate"] = 10000
  BY FeeAssumption DEF get_fallback_fee, Targets

\* Every target has a number of blocks.
LEMMA BlocksOfTarget ==
  \A t \in Targets : confirmation_target_to_blocks[t] \in Blocks
  BY DEF confirmation_target_to_blocks, Targets, Blocks

\* The cast, the floor and the addition stay within u32 and above the floor.
LEMMA RateBounds ==
  ASSUME NEW t, NEW answer \in Nat
  PROVE  /\ CachedRate(t, answer) \in 253..U32Max
         /\ t = "MaximumFeeEstimate" => CachedRate(t, answer) >= 253 + 2500
<1>1. Saturate(answer) \in 0..U32Max
  BY FeeAssumption DEF Saturate
<1>2. FetchedRate(answer) \in 253..U32Max
  BY <1>1, FeeAssumption DEF FetchedRate
<1>3. Saturate(FetchedRate(answer) + 2500) \in 2753..U32Max
  BY <1>2, FeeAssumption DEF Saturate
<1>4. QED
  BY <1>2, <1>3, FeeAssumption DEF CachedRate

\* Both parts of the invariant hold at the start.
LEMMA InitInv == Init => TypeOK /\ FeeFloor
<1> SUFFICES ASSUME Init PROVE TypeOK /\ FeeFloor
  OBVIOUS
<1>1. fee_cache \in [Targets -> 0..U32Max]
  BY FallbackFees DEF Init
<1>2. FeeFloor
  BY FallbackFees DEF Init, FeeFloor
<1>3. next \in 1..Len(CONF_TARGETS)
  BY TargetsListed DEF Init
<1>4. shutdown \in BOOLEAN /\ clean \in BOOLEAN
  BY Zenon DEF Init
<1>5. changes \in 0..MaxChanges /\ failures \in 0..MaxFailures
  BY FeeAssumption DEF Init
<1>6. estimate \in Forecasts /\ pc = "fetch"
  BY DEF Init
<1>7. QED
  BY <1>1, <1>2, <1>3, <1>4, <1>5, <1>6 DEF TypeOK

\* The position of the next target stays within CONF_TARGETS.
LEMMA AdvanceType ==
  ASSUME TypeOK, pc = "fetch", Advance
  PROVE  /\ next' \in 1..Len(CONF_TARGETS)
         /\ pc' \in {"fetch", "select", "cancelled"}
  BY TargetsListed DEF TypeOK, Advance

\* A successful call: only the rate just fetched changes, and it is in bounds.
LEMMA FetchFeeInv ==
  ASSUME TypeOK, FeeFloor, FetchFee
  PROVE  TypeOK' /\ FeeFloor'
<1> DEFINE t == CONF_TARGETS[next]
           answer == estimate[confirmation_target_to_blocks[t]]
           rate == CachedRate(t, answer)
<1>1. t \in Targets
  BY TargetsListed DEF TypeOK
<1>2. answer \in Nat
  <2>1. confirmation_target_to_blocks[t] \in Blocks
    BY <1>1, BlocksOfTarget
  <2>2. estimate \in [Blocks -> Estimates]
    BY DEF TypeOK, Forecasts
  <2>3. answer \in Estimates
    BY <2>1, <2>2, Zenon
  <2>4. Estimates \subseteq Nat
    BY FeeAssumption
  <2>5. QED
    BY <2>3, <2>4, Zenon
<1>3. rate \in 253..U32Max /\ (t = "MaximumFeeEstimate" => rate >= 2753)
  BY <1>2, RateBounds
<1>4. fee_cache' = [fee_cache EXCEPT ![t] = rate]
  BY DEF FetchFee
<1>5. next' \in 1..Len(CONF_TARGETS)
      /\ pc' \in {"fetch", "select", "cancelled"}
  BY AdvanceType DEF FetchFee
<1> HIDE DEF t, answer, rate
<1>6. fee_cache' \in [Targets -> 0..U32Max]
  BY <1>1, <1>3, <1>4, FeeAssumption DEF TypeOK
<1>7. \A s \in Targets : fee_cache'[s] = IF s = t THEN rate ELSE fee_cache[s]
  BY <1>1, <1>4 DEF TypeOK
<1>8. "MaximumFeeEstimate" \in Targets
  BY DEF Targets
<1>9. FeeFloor'
  <2>1. \A s \in Targets : fee_cache'[s] >= 253
    BY <1>3, <1>7 DEF FeeFloor
  <2>2. fee_cache'["MaximumFeeEstimate"] >= 2753
    BY <1>3, <1>7, <1>8 DEF FeeFloor
  <2>3. QED
    BY <2>1, <2>2 DEF FeeFloor
<1>10. UNCHANGED <<estimate, shutdown, clean, changes, failures>>
  BY DEF FetchFee
<1>11. TypeOK'
  BY <1>5, <1>6, <1>10 DEF TypeOK
<1>12. QED
  BY <1>9, <1>11

\* No step writes a rate that is out of u32 or below the floor.
LEMMA StepInv == TypeOK /\ FeeFloor /\ [Next]_vars => TypeOK' /\ FeeFloor'
<1> SUFFICES ASSUME TypeOK, FeeFloor, [Next]_vars
             PROVE  TypeOK' /\ FeeFloor'
  OBVIOUS
<1>1. CASE FetchFee
  BY <1>1, FetchFeeInv
<1>2. CASE FetchFeeFails
  <2>1. pc = "fetch" /\ Advance /\ failures' \in 0..MaxFailures
    BY <1>2, FeeAssumption DEF FetchFeeFails, TypeOK
  <2>2. UNCHANGED <<fee_cache, estimate, shutdown, changes>>
    BY <1>2 DEF FetchFeeFails
  <2>3. next' \in 1..Len(CONF_TARGETS)
        /\ pc' \in {"fetch", "select", "cancelled"}
    BY <2>1, AdvanceType
  <2>4. clean' \in BOOLEAN
    BY <1>2, Zenon DEF FetchFeeFails
  <2>5. QED
    BY <2>1, <2>2, <2>3, <2>4 DEF TypeOK, FeeFloor
<1>3. ASSUME NEW e \in Forecasts, EstimatesChange(e)
      PROVE  TypeOK' /\ FeeFloor'
  <2>1. changes' \in 0..MaxChanges /\ clean' \in BOOLEAN /\ estimate' = e
    BY <1>3, FeeAssumption DEF EstimatesChange, TypeOK
  <2>2. UNCHANGED <<fee_cache, pc, next, shutdown, failures>>
    BY <1>3 DEF EstimatesChange
  <2>3. QED
    BY <1>3, <2>1, <2>2 DEF TypeOK, FeeFloor
<1>4. CASE Shutdown
  BY <1>4 DEF Shutdown, TypeOK, FeeFloor
<1>5. CASE NextRound
  BY <1>5 DEF NextRound, TypeOK, FeeFloor
<1>6. CASE Stop
  BY <1>6 DEF Stop, TypeOK, FeeFloor
<1>7. CASE UNCHANGED vars
  BY <1>7 DEF vars, TypeOK, FeeFloor
<1>8. QED
  BY <1>1, <1>2, <1>3, <1>4, <1>5, <1>6, <1>7 DEF Next

\* Types: in particular the cache always has a rate for every target, so
\* get_est_sat_per_1000_weight never unwraps None, and the rate fits into u32.
THEOREM FeeTypes == Spec => []TypeOK
<1>1. TypeOK /\ FeeFloor /\ [Next]_vars => (TypeOK /\ FeeFloor)'
  BY StepInv
<1>2. QED
  BY InitInv, <1>1, PTL DEF Spec

\* LDK never reads a rate below 253 from the cache, nor a maximum within 2500
\* of it, whatever bitcoind answers and whichever calls fail.
THEOREM FloorHolds == Spec => []FeeFloor
<1>1. TypeOK /\ FeeFloor /\ [Next]_vars => (TypeOK /\ FeeFloor)'
  BY StepInv
<1>2. QED
  BY InitInv, <1>1, PTL DEF Spec

-----------------------------------------------------------------------------
(* The order of the rates after a clean round.                             *)

\* The cache holds for t what bitcoind says now.
Fresh(t) ==
  fee_cache[t] = CachedRate(t, estimate[confirmation_target_to_blocks[t]])

\* In a clean round the targets already fetched are fresh; estimates that
\* change after the round leave the cache, and its order, alone.
RoundInv ==
  /\ pc # "fetch" => next = 1
  /\ pc = "fetch" /\ clean => \A i \in 1..(next - 1) : Fresh(CONF_TARGETS[i])
  /\ OrderedWhenClean

\* CONF_TARGETS lists every target, once.
LEMMA AllListed ==
  /\ \A t \in Targets : \E i \in 1..8 : CONF_TARGETS[i] = t
  /\ \A i, j \in 1..8 : CONF_TARGETS[i] = CONF_TARGETS[j] => i = j
<1>1. \A t \in Targets : \E i \in 1..8 : CONF_TARGETS[i] = t
  <2>1. /\ CONF_TARGETS[1] = "MaximumFeeEstimate"
        /\ CONF_TARGETS[2] = "UrgentOnChainSweep"
        /\ CONF_TARGETS[3] = "MinAllowedAnchorChannelRemoteFee"
        /\ CONF_TARGETS[4] = "MinAllowedNonAnchorChannelRemoteFee"
        /\ CONF_TARGETS[5] = "AnchorChannelFee"
        /\ CONF_TARGETS[6] = "NonAnchorChannelFee"
        /\ CONF_TARGETS[7] = "ChannelCloseMinimum"
        /\ CONF_TARGETS[8] = "OutputSpendingFee"
    BY DEF CONF_TARGETS
  <2>2. QED
    BY <2>1 DEF Targets
<1>2. \A i, j \in 1..8 : CONF_TARGETS[i] = CONF_TARGETS[j] => i = j
  BY DEF CONF_TARGETS
<1>3. QED
  BY <1>1, <1>2

\* The cast, the floor and the addition keep the order of two answers.
LEMMA RateMonotone ==
  ASSUME NEW s, NEW t, t # "MaximumFeeEstimate",
         NEW a \in Nat, NEW b \in Nat, a >= b
  PROVE  CachedRate(s, a) >= CachedRate(t, b)
<1>1. /\ Saturate(a) \in 0..U32Max /\ Saturate(b) \in 0..U32Max
      /\ Saturate(a) >= Saturate(b)
  BY FeeAssumption DEF Saturate
<1>2. /\ FetchedRate(a) \in 253..U32Max /\ FetchedRate(b) \in 253..U32Max
      /\ FetchedRate(a) >= FetchedRate(b)
  BY <1>1, FeeAssumption DEF FetchedRate
<1>3. Saturate(FetchedRate(a) + 2500) >= FetchedRate(b)
  BY <1>2, FeeAssumption DEF Saturate
<1>4. QED
  BY <1>2, <1>3 DEF CachedRate

\* bitcoind's answers are numbers, and a later deadline costs no more.
LEMMA AnswersOrdered ==
  ASSUME NEW est \in Forecasts, NEW m \in Blocks, NEW n \in Blocks, m <= n
  PROVE  est[m] \in Nat /\ est[n] \in Nat /\ est[m] >= est[n]
<1>1. /\ est \in [Blocks -> Estimates]
      /\ \A a, b \in Blocks : a <= b => est[a] >= est[b]
  <2>1. est \in {e \in [Blocks -> Estimates] :
                  \A a, b \in Blocks : a <= b => e[a] >= e[b]}
    BY DEF Forecasts
  <2>2. QED
    BY <2>1, Zenon
<1>2. est[m] \in Estimates /\ est[n] \in Estimates
  BY <1>1, Zenon
<1>3. est[m] >= est[n]
  BY <1>1, Zenon
<1>4. Estimates \subseteq Nat
  BY FeeAssumption
<1>5. QED
  BY <1>2, <1>3, <1>4, Zenon

\* When every target is fresh the rates are in order.
LEMMA FreshIsOrdered ==
  ASSUME NEW cache, NEW est \in Forecasts,
         \A i \in 1..8 : cache[CONF_TARGETS[i]] =
           CachedRate(CONF_TARGETS[i],
                      est[confirmation_target_to_blocks[CONF_TARGETS[i]]])
  PROVE  \A s \in Targets, t \in Targets \ {"MaximumFeeEstimate"} :
           confirmation_target_to_blocks[s] <= confirmation_target_to_blocks[t]
             => cache[s] >= cache[t]
<1> SUFFICES ASSUME NEW s \in Targets,
                    NEW t \in Targets \ {"MaximumFeeEstimate"},
                    confirmation_target_to_blocks[s]
                      <= confirmation_target_to_blocks[t]
             PROVE  cache[s] >= cache[t]
  OBVIOUS
<1> DEFINE a == est[confirmation_target_to_blocks[s]]
           b == est[confirmation_target_to_blocks[t]]
<1>1. cache[s] = CachedRate(s, a) /\ cache[t] = CachedRate(t, b)
  BY AllListed
<1>2. a \in Nat /\ b \in Nat /\ a >= b
  BY BlocksOfTarget, AnswersOrdered
<1>3. CachedRate(s, a) >= CachedRate(t, b)
  BY <1>2, RateMonotone
<1>4. QED
  BY <1>1, <1>3

\* A successful call makes one more target fresh; the eighth ends the round.
LEMMA FetchFeeRound ==
  ASSUME TypeOK, TypeOK', RoundInv, FetchFee
  PROVE  RoundInv'
<1>1. /\ next \in 1..8 /\ pc = "fetch"
      /\ UNCHANGED <<estimate, clean>>
      /\ CONF_TARGETS[next] \in Targets
  BY TargetsListed DEF TypeOK, FetchFee
<1>2. fee_cache' = [fee_cache EXCEPT ![CONF_TARGETS[next]] =
        CachedRate(CONF_TARGETS[next],
          estimate[confirmation_target_to_blocks[CONF_TARGETS[next]]])]
  BY DEF FetchFee
<1>3. ASSUME NEW t, t = CONF_TARGETS[next] PROVE Fresh(t)'
  BY <1>1, <1>2, <1>3 DEF Fresh, TypeOK
<1>4. ASSUME clean, NEW i \in 1..next PROVE Fresh(CONF_TARGETS[i])'
  <2>1. CASE i = next
    BY <1>3, <2>1
  <2>2. CASE i # next
    <3>1. i \in 1..(next - 1) /\ i \in 1..8
      BY <1>1, <2>2
    <3>2. Fresh(CONF_TARGETS[i])
      BY <1>1, <1>4, <3>1 DEF RoundInv
    <3>3. CONF_TARGETS[i] # CONF_TARGETS[next] /\ CONF_TARGETS[i] \in Targets
      BY <1>1, <2>2, <3>1, AllListed, TargetsListed
    <3>4. fee_cache'[CONF_TARGETS[i]] = fee_cache[CONF_TARGETS[i]]
      BY <1>2, <3>3 DEF TypeOK
    <3>5. QED
      BY <1>1, <3>2, <3>4 DEF Fresh
  <2>3. QED
    BY <2>1, <2>2
<1>5. CASE next < 8
  <2>1. next' = next + 1 /\ pc' = "fetch"
    BY <1>1, <1>5, TargetsListed DEF FetchFee, Advance
  <2>2. 1..(next' - 1) = 1..next
    BY <1>1, <2>1
  <2>3. QED
    BY <1>1, <1>4, <2>1, <2>2 DEF RoundInv, OrderedWhenClean
<1>6. CASE next = 8
  <2>1. next' = 1 /\ pc' # "fetch"
    BY <1>6, TargetsListed DEF FetchFee, Advance
  <2>2. ASSUME clean
        PROVE  \A s \in Targets, t \in Targets \ {"MaximumFeeEstimate"} :
                 confirmation_target_to_blocks[s]
                     <= confirmation_target_to_blocks[t]
                   => fee_cache'[s] >= fee_cache'[t]
    <3>1. \A i \in 1..8 : Fresh(CONF_TARGETS[i])'
      BY <1>4, <1>6, <2>2
    <3>2. estimate' \in Forecasts
      BY DEF TypeOK
    <3>3. QED
      BY <3>1, <3>2, FreshIsOrdered DEF Fresh
  <2>3. OrderedWhenClean'
    BY <1>1, <2>2 DEF OrderedWhenClean
  <2>4. QED
    BY <2>1, <2>3 DEF RoundInv
<1>7. QED
  BY <1>1, <1>5, <1>6

\* After every clean round the rates are in the order of their deadlines and
\* the maximum is above them all, for every forecast and every integer width.
THEOREM RatesOrdered == Spec => []OrderedWhenClean
<1>1. Init => RoundInv
  BY DEF Init, RoundInv, OrderedWhenClean
<1>2. TypeOK /\ TypeOK' /\ RoundInv /\ [Next]_vars => RoundInv'
  <2> SUFFICES ASSUME TypeOK, TypeOK', RoundInv, [Next]_vars PROVE RoundInv'
    OBVIOUS
  <2>1. CASE FetchFee
    BY <2>1, FetchFeeRound
  <2>2. CASE FetchFeeFails
    <3>1. ~clean' /\ (pc' # "fetch" => next' = 1)
      BY <2>2 DEF FetchFeeFails, Advance
    <3>2. QED
      BY <3>1 DEF RoundInv, OrderedWhenClean
  <2>3. ASSUME NEW e \in Forecasts, EstimatesChange(e) PROVE RoundInv'
    <3>1. /\ clean' <=> clean /\ pc # "fetch"
          /\ UNCHANGED <<fee_cache, pc, next>>
      BY <2>3 DEF EstimatesChange
    <3>2. QED
      BY <3>1 DEF RoundInv, OrderedWhenClean
  <2>4. CASE Shutdown
    BY <2>4 DEF Shutdown, RoundInv, OrderedWhenClean, Fresh
  <2>5. CASE NextRound
    <3>1. next' = 1 /\ pc' = "fetch"
      BY <2>5 DEF NextRound, RoundInv
    <3>2. 1..(next' - 1) = {}
      BY <3>1
    <3>3. QED
      BY <3>1, <3>2 DEF RoundInv, OrderedWhenClean
  <2>6. CASE Stop
    BY <2>6 DEF Stop, RoundInv, OrderedWhenClean
  <2>7. CASE UNCHANGED vars
    BY <2>7 DEF vars, RoundInv, OrderedWhenClean, Fresh
  <2>8. QED
    BY <2>1, <2>2, <2>3, <2>4, <2>5, <2>6, <2>7 DEF Next
<1>3. RoundInv => OrderedWhenClean
  BY DEF RoundInv
<1>4. QED
  BY <1>1, <1>2, <1>3, FeeTypes, PTL DEF Spec

-----------------------------------------------------------------------------
(* Peers, for any peers and any number of runs and errors.                 *)

\* A task of a run ends with it.
OffTogether ==
  /\ node = "off" <=> reconnect = "off"
  /\ node = "off" => acceptor = "off"
  /\ reconnect \in {"off", "list"} => tried = {}

\* While the task connects, every peer stored with an IP address was tried or
\* is yet to be: the store does not change before the peers are listed.
TriedOrLeft ==
  /\ reconnect = "connecting" /\ node \in {"running", "stopping"}
       => tried \cup (left \cap HasIp) = HasIp
  /\ EveryPeerTried

\* Until the peers are listed atStop holds only connected ones; while they are
\* written, those not written yet are in toSave.  It takes an error for a peer
\* to have no address.
SavedOrToSave ==
  /\ errors = 0 => \A p \in Peers : conn[p] # "unknown" /\ list[p] # "unknown"
  /\ node = "stopping" => atStop \subseteq Connected
  /\ errors = 0 /\ node = "saving" => atStop \subseteq Stored \cup toSave
  /\ ConnectedPeersSaved

PeersInv == PeersTypeOK /\ OffTogether /\ TriedOrLeft /\ SavedOrToSave

\* Every action preserves the invariant; only add_peer and damage touch the
\* store, and the first only adds to it.
LEMMA NextPeersInv == PeersInv /\ [PeersNext]_peersVars => PeersInv'
<1> SUFFICES ASSUME PeersInv, [PeersNext]_peersVars PROVE PeersInv'
  OBVIOUS
<1> USE PeersAssumption
    DEF PeersInv, PeersTypeOK, OffTogether, TriedOrLeft, SavedOrToSave,
        EveryPeerTried, ConnectedPeersSaved, Stored, HasIp, Connected,
        Nobody, stop, again
<1>1. CASE Start
  BY <1>1 DEF Start
<1>2. CASE list_peers
  BY <1>2 DEF list_peers
<1>3. CASE ReconnectEnds
  BY <1>3 DEF ReconnectEnds
<1>4. CASE AcceptorDies
  BY <1>4 DEF AcceptorDies, Error
<1>5. ASSUME NEW q \in Peers, Reconnect(q) PROVE PeersInv'
  BY <1>5 DEF Reconnect
<1>6. ASSUME NEW q \in Peers, connect_to_peer(q) PROVE PeersInv'
  BY <1>6 DEF connect_to_peer
<1>7. ASSUME NEW q \in Peers, Inbound(q) PROVE PeersInv'
  BY <1>7 DEF Inbound, Error
<1>8. ASSUME NEW q \in Peers, Disconnect(q) PROVE PeersInv'
  BY <1>8 DEF Disconnect
<1>9. ASSUME NEW q \in Peers, UpDown(q) PROVE PeersInv'
  BY <1>9 DEF UpDown
<1>10. ASSUME NEW q \in Peers, SavePeer(q) PROVE PeersInv'
  BY <1>10 DEF SavePeer, Error
<1>11. ASSUME NEW q \in Peers, Damage(q) PROVE PeersInv'
  BY <1>11 DEF Damage, Error
<1>12. CASE BeginStop
  BY <1>12 DEF BeginStop
<1>13. CASE ListConnected
  BY <1>13 DEF ListConnected
<1>14. CASE EndOfSave
  BY <1>14 DEF EndOfSave, Off
<1>15. CASE Crash
  BY <1>15 DEF Crash, Off
<1>16. CASE UNCHANGED peersVars
  BY <1>16 DEF peersVars
<1>17. QED
  BY <1>1, <1>2, <1>3, <1>4, <1>5, <1>6, <1>7, <1>8, <1>9,
     <1>10, <1>11, <1>12, <1>13, <1>14, <1>15, <1>16 DEF PeersNext

\* The inductive invariant holds in every reachable state.
THEOREM PeersInvariance == PeersSpec => []PeersInv
<1>1. PeersInit => PeersInv
  BY PeersAssumption
     DEF PeersInit, PeersInv, PeersTypeOK, OffTogether, TriedOrLeft,
         SavedOrToSave, EveryPeerTried, ConnectedPeersSaved, Stored, HasIp,
         Connected, Nobody
<1>2. QED
  BY <1>1, NextPeersInv, PTL DEF PeersSpec

\* Type correctness of the peers over all runs.
THEOREM PeersTypes == PeersSpec => []PeersTypeOK
<1>1. PeersInv => PeersTypeOK
  BY DEF PeersInv
<1>2. QED
  BY <1>1, PeersInvariance, PTL

\* The reconnecting task skips nobody whose stored address is an IP address,
\* whichever peers do not answer and whichever others it passes over.
THEOREM NobodySkipped == PeersSpec => []EveryPeerTried
<1>1. PeersInv => EveryPeerTried
  BY DEF PeersInv, TriedOrLeft
<1>2. QED
  BY <1>1, PeersInvariance, PTL

\* An orderly stop without an error stores everybody who was connected from
\* its beginning until the peers were listed.
THEOREM NobodyForgotten == PeersSpec => []ConnectedPeersSaved
<1>1. PeersInv => ConnectedPeersSaved
  BY DEF PeersInv, SavedOrToSave
<1>2. QED
  BY <1>1, PeersInvariance, PTL

============================================================================
