---------------------------- MODULE MCLLRManager -----------------------------
(***************************************************************************)
(* UELLRManager on two interfaces: global SETs that enable with accepted   *)
(* and with refused values (a retry limit of 0, a window that is no power  *)
(* of two) and one that disables, and one or two updates of statistics.    *)
(***************************************************************************)
EXTENDS UELLRManager, TLC

CONSTANTS eth0, eth1

MCInterfaces == {eth0, eth1}
MCGlobalEntries ==
  {[enabled |-> TRUE, max_retries |-> 7],
   [enabled |-> TRUE, max_retries |-> 0, timeout_ms |-> 101, window_size |-> 100],
   [max_retries |-> 7]}
MCRetryDraws == {0, 10}
MCSuccessDraws == {90}
MCSymmetry == Permutations(MCInterfaces)
=============================================================================
