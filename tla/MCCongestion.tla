---------------------------- MODULE MCCongestion -----------------------------
(***************************************************************************)
(* UECongestionManager on two interfaces, with a reading for every state,  *)
(* a queue of two events, so that it overflows, and two changes of each    *)
(* interface.                                                              *)
(***************************************************************************)
EXTENDS UECongestionManager

CONSTANTS eth0, eth1

MCInterfaces == {eth0, eth1}
MCThresholds == [warning |-> 60, congested |-> 80, critical |-> 95]
MCSymmetry == Permutations(MCInterfaces)
=============================================================================
