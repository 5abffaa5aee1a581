------------------------------ MODULE UEFlowRtt ------------------------------
(***************************************************************************)
(* The round-trip-time estimator of one flow (UEFlowManager::updateFlowRTT)*)
(* as a function from the statistics and a sample to the new statistics.   *)
(***************************************************************************)
EXTENDS Integers

CONSTANT Word   \* 2^w, w the width in bits of the members' arithmetic

ASSUME WordAssumption == Word \in Nat \ {0}

RttStats == [current_rtt_us : Nat, min_rtt_us : Nat,
             max_rtt_us : Nat, avg_rtt_us : Nat]

\* UEFlowStats stats = {}; a zero minimum or average means "no sample yet".
NoRtt == [current_rtt_us |-> 0, min_rtt_us |-> 0,
          max_rtt_us |-> 0, avg_rtt_us |-> 0]

\* Variants a plausible slip would give, for mutation.
AverageRoundingUp(avg, rtt) == ((avg * 7 + rtt + 8) % Word) \div 8
AverageWithWrongWeight(avg, rtt) == ((avg * 6 + rtt) % Word) \div 8

\* (stats.avg_rtt_us * 7 + rtt_us) / 8, in w-bit unsigned arithmetic.
WeightedAverage(avg, rtt) == ((avg * 7 + rtt) % Word) \div 8

UpdateRtt(s, rtt) ==
  [current_rtt_us |-> rtt,
   min_rtt_us |-> IF s.min_rtt_us = 0 \/ rtt < s.min_rtt_us
                  THEN rtt ELSE s.min_rtt_us,
   max_rtt_us |-> IF rtt > s.max_rtt_us THEN rtt ELSE s.max_rtt_us,
   avg_rtt_us |-> IF s.avg_rtt_us = 0
                  THEN rtt ELSE WeightedAverage(s.avg_rtt_us, rtt)]

(***************************************************************************)
(* Whatever the samples, zero and overflow included: the newest sample     *)
(* lies between the recorded minimum and maximum, and the average never    *)
(* exceeds the maximum.                                                    *)
(***************************************************************************)
RttOrdered(s) ==
  /\ s.min_rtt_us <= s.current_rtt_us
  /\ s.current_rtt_us <= s.max_rtt_us
  /\ s.avg_rtt_us <= s.max_rtt_us

Between(x, p, q) == (p <= x /\ x <= q) \/ (q <= x /\ x <= p)

(***************************************************************************)
(* From s to t in one sample, t's newest: the average moves towards the    *)
(* sample and not past it, or the sum has overflowed; the maximum does not *)
(* fall; the minimum rises from 0 only.                                    *)
(***************************************************************************)
RttFollows(s, t) ==
  /\ s.max_rtt_us <= t.max_rtt_us
  /\ s.min_rtt_us < t.min_rtt_us => s.min_rtt_us = 0
  /\ \/ Between(t.avg_rtt_us, s.avg_rtt_us, t.current_rtt_us)
     \/ s.avg_rtt_us * 7 + t.current_rtt_us >= Word

(***************************************************************************)
(* The average does not fall below the minimum.  This needs samples of at  *)
(* least 1 (a zero sample drags the average down and is then forgotten by  *)
(* the minimum, since 0 also means "unset") and samples small enough for   *)
(* avg * 7 + rtt not to wrap.                                              *)
(***************************************************************************)
AverageAboveMinimum(s) == s.min_rtt_us <= s.avg_rtt_us
=============================================================================
