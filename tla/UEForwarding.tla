----------------------------- MODULE UEForwarding -----------------------------
(***************************************************************************)
(* The P4 program ue_forwarding.p4: a packet passing through the ingress   *)
(* of switches that all run it, each with tables of its own, which somebody*)
(* else fills before and leaves alone meanwhile.                           *)
(*                                                                         *)
(* Only IPv4 is parsed: of anything else, IPv6 included, egress_spec keeps *)
(* its initial value, port 0.  No action sets ecmp_group_id, which like    *)
(* all metadata begins as 0, so that paths are looked up in group 0; an    *)
(* address in no group takes path 0.  set_nhop takes one from ttl without  *)
(* a look at it, and replaces the destination by the next hop's address.   *)
(* The hash over the packet is any value, the modulo by a path count of 0  *)
(* too; the depth of the queue, not known in ingress, is 0.                *)
(***************************************************************************)
EXTENDS Integers, FiniteSets, UEMaps

CONSTANTS
  Switches,
  Ports,        \* with port 0
  Addresses,
  Paths,        \* values of selected_path
  Ttls,         \* 2^8
  Tables,       \* the contents the tables of a switch may have
  Links         \* where the ports of a switch may lead: to a switch, or "out"

VARIABLES
  tables,       \* for each switch: ecmp_group, a map from address to path
                \* count; path_select, a map from <<group, path>> to port and
                \* next hop; congestion_control, the ports marked at depth 0
  links,
  packet,       \* kind, and of IPv4 the destination, ttl, and the ECN bits
  at            \* the switch the packet comes to, "out" or "dropped"

vars == <<tables, links, packet, at>>

Packets == [kind : {"ipv4", "other"}, dst : Addresses, ttl : 0..(Ttls - 1), ce : BOOLEAN]

-----------------------------------------------------------------------------
(* The ingress.                                                            *)

\* ecmp_group.apply(): selected_path afterwards.
Selected(w, dst) ==
  LET group == tables[w].ecmp_group
  IN  IF dst \notin DOMAIN group THEN {0}
      ELSE IF group[dst] = 0 THEN Paths
      ELSE {n \in Paths : n < group[dst]}

\* egress_spec of what no table has assigned a port.
NoPort == 0

\* Where the packet is after the table path_select missed.  The slip for
\* mutation has NoAction for its default.
Passed(w) == links[w][NoPort]
Missed(w) == "dropped"

Marked(w, port) == port \in tables[w].congestion_control

\* set_nhop, then congestion_control.
SetNhop(w, entry) ==
  /\ packet' = [packet EXCEPT !.dst = entry.nhop_ipv4,
                              !.ttl = IF @ = 0 THEN Ttls - 1 ELSE @ - 1,
                              !.ce = @ \/ Marked(w, entry.port)]
  /\ at' = links[w][entry.port]

-----------------------------------------------------------------------------
(* The state machine.                                                      *)

Init ==
  /\ tables \in [Switches -> Tables]
  /\ links \in [Switches -> Links]
  /\ packet \in {p \in Packets : ~p.ce}
  /\ at \in Switches

IngressOther ==
  /\ at \in Switches
  /\ packet.kind = "other"
  /\ at' = links[at][NoPort]
  /\ UNCHANGED packet

IngressIPv4 ==
  /\ at \in Switches
  /\ packet.kind = "ipv4"
  /\ \E n \in Selected(at, packet.dst) :
       LET path_select == tables[at].path_select
       IN  \/ <<0, n>> \in DOMAIN path_select /\ SetNhop(at, path_select[<<0, n>>])
           \/ <<0, n>> \notin DOMAIN path_select /\ at' = Missed(at) /\ UNCHANGED packet

Ingress == (IngressOther \/ IngressIPv4) /\ UNCHANGED <<tables, links>>

\* The packet is gone.
Gone == at \notin Switches /\ UNCHANGED vars

Next == Ingress \/ Gone

Spec == Init /\ [][Next]_vars /\ WF_vars(Ingress)

-----------------------------------------------------------------------------
(* Properties.                                                             *)

(***************************************************************************)
(* Every variable has its type.                                            *)
(***************************************************************************)
TypeOK ==
  /\ tables \in [Switches -> Tables]
  /\ links \in [Switches -> Links]
  /\ packet \in Packets
  /\ at \in Switches \cup {"out", "dropped"}

\* The ports a packet of this kind may leave w by.
Exits(w, kind) ==
  IF kind = "other" THEN {NoPort}
  ELSE {tables[w].path_select[k].port : k \in {k \in DOMAIN tables[w].path_select : k[1] = 0}}

LoopFree(kind) ==
  \E rank \in [Switches -> 1..Cardinality(Switches)] :
    \A w \in Switches : \A p \in Exits(w, kind) :
      links[w][p] \in Switches => rank[links[w][p]] < rank[w]

(***************************************************************************)
(* Time to live ends no loop, for it wraps, so packets leave only because  *)
(* routes do: if the entries of group 0 take no packet round in a circle,  *)
(* whatever entries other groups and addresses have, every IPv4 packet     *)
(* leaves the switches or is dropped; any other packet if the ports 0 are  *)
(* not joined in a circle.                                                 *)
(***************************************************************************)
PacketsLeave == LoopFree(packet.kind) => <>(at \notin Switches)
=============================================================================
