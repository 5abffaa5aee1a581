----------------------------- MODULE MCFlowTable -----------------------------
(***************************************************************************)
(* UEFlowManager on two UDP flows and three packets that name none, with a *)
(* limit of one or two flows and a timeout of one or two seconds, which    *)
(* the configuration moves; the round-trip times and the paths of a flow   *)
(* are left to MCFlowValues.                                               *)
(***************************************************************************)
EXTENDS UEFlowManager, TLC

CONSTANTS
  a, b, z,          \* IP addresses; a and b are symmetric
  rud, cubic_plus   \* the flow mode and the congestion algorithm in use

Udp(s) == [len |-> 100, version |-> 4, saddr |-> s, daddr |-> z,
           protocol |-> "udp", source |-> 4000, dest |-> 4793]

MCPackets == {Udp(a), Udp(b), Udp(0),
              [Udp(a) EXCEPT !.len = 27], [Udp(b) EXCEPT !.version = 6]}

MCAccepted == [n \in SettingNames |->
  CASE n = "default_flow_mode"    -> {rud}
    [] n = "congestion_algorithm" -> {cubic_plus}
    [] n = "default_window_size"  -> {65536}
    [] n = "max_flows"            -> {1, 2}
    [] n = "flow_timeout_sec"     -> {1, 2}]

MCDefaultSettings == [n \in SettingNames |->
  CASE n = "default_flow_mode"    -> rud
    [] n = "congestion_algorithm" -> cubic_plus
    [] n = "default_window_size"  -> 65536
    [] n = "max_flows"            -> 2
    [] n = "flow_timeout_sec"     -> 1]

\* Two fields at once: a limit that is lower, the default, or refused, with a
\* timeout that is longer or refused.
MCConfigEntries ==
  {[max_flows |-> 1, flow_timeout_sec |-> 0], [max_flows |-> 0, flow_timeout_sec |-> 2],
   [max_flows |-> 2]}
MCClock == 2..5
MCSymmetry == Permutations({a, b})
=============================================================================
