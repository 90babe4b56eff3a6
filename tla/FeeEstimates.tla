--------------------------- MODULE FeeEstimates ----------------------------
(***************************************************************************)
(* BitcoindRpcClient's fee cache.  update_fee_estimates asks bitcoind for  *)
(* one estimate per confirmation target, one after the other, and stores   *)
(* each answer as it comes; LDK and the wallet read the cache in between   *)
(* (get_est_sat_per_1000_weight).  A target whose call fails keeps its old *)
(* value.  The first round runs at once, the next ones every five minutes  *)
(* until the shutdown token is cancelled, which is looked at only between  *)
(* two rounds.                                                             *)
(***************************************************************************)
EXTENDS Naturals, Sequences

CONSTANTS U32Max,      \* u32::MAX
          Estimates,   \* what estimatesmartfee may answer, in sat per 1000
                       \* weight units, cut to an integer but to no width
          MaxChanges,  \* bound: times bitcoind's estimates change
          MaxFailures  \* bound: calls that fail

ASSUME FeeAssumption ==
  /\ U32Max \in Nat /\ U32Max >= 10000
  /\ Estimates \subseteq Nat
  /\ MaxChanges \in Nat /\ MaxFailures \in Nat

VARIABLES
  fee_cache,
  estimate,  \* bitcoind's estimate for each number of blocks
  pc,        \* where update_fee_estimates is
  next,      \* the position in CONF_TARGETS it fetches next
  shutdown,  \* the CancellationToken is cancelled
  clean,     \* history: in this round no call failed and no estimate changed
  changes, failures

vars == <<fee_cache, estimate, pc, next, shutdown, clean, changes, failures>>

CONF_TARGETS ==
  <<"MaximumFeeEstimate", "UrgentOnChainSweep",
    "MinAllowedAnchorChannelRemoteFee", "MinAllowedNonAnchorChannelRemoteFee",
    "AnchorChannelFee", "NonAnchorChannelFee", "ChannelCloseMinimum",
    "OutputSpendingFee">>

Targets ==
  {"MaximumFeeEstimate", "UrgentOnChainSweep",
   "MinAllowedAnchorChannelRemoteFee", "MinAllowedNonAnchorChannelRemoteFee",
   "AnchorChannelFee", "NonAnchorChannelFee", "ChannelCloseMinimum",
   "OutputSpendingFee"}

confirmation_target_to_blocks ==
  [MaximumFeeEstimate                  |-> 1,
   UrgentOnChainSweep                  |-> 1,
   OutputSpendingFee                   |-> 6,
   MinAllowedAnchorChannelRemoteFee    |-> 1008,
   MinAllowedNonAnchorChannelRemoteFee |-> 144,
   AnchorChannelFee                    |-> 1008,
   NonAnchorChannelFee                 |-> 12,
   ChannelCloseMinimum                 |-> 144]

get_fallback_fee ==
  [MaximumFeeEstimate                  |-> 10000,
   UrgentOnChainSweep                  |-> 5000,
   OutputSpendingFee                   |-> 4000,
   MinAllowedAnchorChannelRemoteFee    |-> 253,
   MinAllowedNonAnchorChannelRemoteFee |-> 1000,
   AnchorChannelFee                    |-> 253,
   NonAnchorChannelFee                 |-> 3000,
   ChannelCloseMinimum                 |-> 1000]

Blocks == {1, 6, 12, 144, 1008}

\* bitcoind never asks more for a later confirmation.
Forecasts ==
  {e \in [Blocks -> Estimates] : \A a, b \in Blocks : a <= b => e[a] >= e[b]}

Init ==
  /\ fee_cache = get_fallback_fee
  /\ estimate \in Forecasts
  /\ pc = "fetch"
  /\ next = 1
  /\ shutdown = FALSE
  /\ clean = TRUE
  /\ changes = 0 /\ failures = 0

-----------------------------------------------------------------------------
\* bitcoind, external: the mempool changed.
EstimatesChange(e) ==
  /\ changes < MaxChanges
  /\ changes' = changes + 1
  /\ e # estimate
  /\ estimate' = e
  /\ clean' = (clean /\ pc # "fetch")
  /\ UNCHANGED <<fee_cache, pc, next, shutdown, failures>>

\* Node::shutdown cancels the token.
Shutdown ==
  /\ ~shutdown
  /\ shutdown' = TRUE
  /\ UNCHANGED <<fee_cache, estimate, pc, next, clean, changes, failures>>

-----------------------------------------------------------------------------
(* The fee task.                                                           *)

Saturate(n) == IF n > U32Max THEN U32Max ELSE n

\* Mutant: bitcoind's answer without the floor.
UnflooredRate(answer) == Saturate(answer)

\* fetch_fee_estimate: the cast to u32 saturates, then the floor is applied.
FetchedRate(answer) ==
  IF Saturate(answer) < 253 THEN 253 ELSE Saturate(answer)

\* Mutant: wrapping_add in place of saturating_add.
WrappedRate(t, answer) ==
  IF t = "MaximumFeeEstimate" THEN (FetchedRate(answer) + 2500) % (U32Max + 1)
                              ELSE FetchedRate(answer)

\* The rate update_fees stores for a target.
CachedRate(t, answer) ==
  IF t = "MaximumFeeEstimate" THEN Saturate(FetchedRate(answer) + 2500)
                              ELSE FetchedRate(answer)

\* Mutant: the loop goes round without its select!.
AdvanceWithoutSelect ==
  next' = (next % Len(CONF_TARGETS)) + 1 /\ UNCHANGED pc

\* On to the next target, or to the select! of the loop.  There the sleep
\* starts anew, so a token already cancelled is the only branch ready.
Advance ==
  IF next < Len(CONF_TARGETS)
  THEN next' = next + 1 /\ UNCHANGED pc
  ELSE next' = 1 /\ pc' = IF shutdown THEN "cancelled" ELSE "select"

FetchFee ==
  LET t == CONF_TARGETS[next] IN
  /\ pc = "fetch"
  /\ fee_cache' = [fee_cache EXCEPT
       ![t] = CachedRate(t, estimate[confirmation_target_to_blocks[t]])]
  /\ Advance
  /\ UNCHANGED <<estimate, shutdown, clean, changes, failures>>

\* The call failed or the answer has no feerate: logged, nothing stored.
FetchFeeFails ==
  /\ pc = "fetch"
  /\ failures < MaxFailures
  /\ failures' = failures + 1
  /\ clean' = FALSE
  /\ Advance
  /\ UNCHANGED <<fee_cache, estimate, shutdown, changes>>

\* The five minutes are over.  select! takes any branch that is ready, so
\* this round may start although the token has just been cancelled.
NextRound ==
  /\ pc = "select"
  /\ pc' = "fetch"
  /\ clean' = TRUE
  /\ UNCHANGED <<fee_cache, estimate, next, shutdown, changes, failures>>

Stop ==
  /\ pc \in {"select", "cancelled"}
  /\ shutdown
  /\ pc' = "stopped"
  /\ UNCHANGED <<fee_cache, estimate, next, shutdown, clean, changes, failures>>

-----------------------------------------------------------------------------
Next ==
  \/ \E e \in Forecasts : EstimatesChange(e)
  \/ Shutdown
  \/ FetchFee \/ FetchFeeFails
  \/ NextRound \/ Stop

Spec == Init /\ [][Next]_vars

\* The runtime runs the task, and an RPC call ends one way or the other.
FairSpec == Spec /\ WF_vars(FetchFee \/ FetchFeeFails) /\ WF_vars(Stop)

-----------------------------------------------------------------------------
(* Properties.                                                             *)

\* Every variable has its type; the cache has an entry for every target, so
\* the unwrap() of get_est_sat_per_1000_weight never fails, and no entry
\* leaves the range of u32.
TypeOK ==
  /\ fee_cache \in [Targets -> 0..U32Max]
  /\ estimate \in Forecasts
  /\ pc \in {"fetch", "select", "cancelled", "stopped"}
  /\ next \in 1..Len(CONF_TARGETS)
  /\ shutdown \in BOOLEAN /\ clean \in BOOLEAN
  /\ changes \in 0..MaxChanges
  /\ failures \in 0..MaxFailures

\* Whatever bitcoind answers, however many calls fail, LDK never reads a rate
\* below the relay floor of 253, and never a maximum within 2500 of it.
FeeFloor ==
  /\ \A t \in Targets : fee_cache[t] >= 253
  /\ fee_cache["MaximumFeeEstimate"] >= 253 + 2500

\* After a round in which every call succeeded and bitcoind's estimates were
\* steady, the rates are ordered as their deadlines are, and the maximum is
\* an upper bound of them all: the cast, the floor and the addition keep the
\* order also where they saturate.
OrderedWhenClean ==
  pc # "fetch" /\ clean =>
    \A s \in Targets, t \in Targets \ {"MaximumFeeEstimate"} :
      confirmation_target_to_blocks[s] <= confirmation_target_to_blocks[t]
        => fee_cache[s] >= fee_cache[t]

\* The task ends after a shutdown, in whatever target it was at.
StopsAfterShutdown == shutdown ~> pc = "stopped"

=============================================================================
