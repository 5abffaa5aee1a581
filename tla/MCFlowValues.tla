----------------------------- MODULE MCFlowValues ----------------------------
(***************************************************************************)
(* UEFlowManager on one flow: what is stored in it.  Round-trip times that *)
(* include zero and, in Word = 64 where 7 * 9 + 9 wraps, samples that      *)
(* overflow the average; path counts that include 0, the 100 that shares   *)
(* one per cent each, and the 101 that shares nothing; weights of callers  *)
(* that are nothing but zeros, or of which there are none.                 *)
(***************************************************************************)
EXTENDS UEFlowManager

CONSTANTS a, z,                    \* IP addresses
          rud, cubic_plus          \* flow mode and congestion algorithm

Udp == [len |-> 100, version |-> 4, saddr |-> a, daddr |-> z,
        protocol |-> "udp", source |-> 4000, dest |-> 4793]
MCPackets == {Udp, [Udp EXCEPT !.protocol = "tcp"]}

MCAccepted == [n \in SettingNames |->
  CASE n = "default_flow_mode"    -> {rud}
    [] n = "congestion_algorithm" -> {cubic_plus}
    [] n = "default_window_size"  -> {65536}
    [] n = "max_flows"            -> {1}
    [] n = "flow_timeout_sec"     -> {1}]

MCDefaultSettings == [n \in SettingNames |->
  CASE n = "default_flow_mode"    -> rud
    [] n = "congestion_algorithm" -> cubic_plus
    [] n = "default_window_size"  -> 65536
    [] n = "max_flows"            -> 1
    [] n = "flow_timeout_sec"     -> 1]

MCConfigEntries == {[default_window_size |-> 512]}
MCWeightVectors == {<<100, 0>>, <<0, 0>>, <<>>}
MCClock == {2}
=============================================================================
