----------------------------- MODULE MCDataPlane -----------------------------
(***************************************************************************)
(* Three parts that share nothing: the connection pool, the PRI manager    *)
(* and the P4 program.  A behaviour runs one of them, the others rest; the *)
(* states of the run are the sum of theirs.                                *)
(***************************************************************************)
EXTENDS UEConnectionPool, UEPriManager

CONSTANTS Switches, Ports, Addresses, Paths, Ttls, Tables, Links

\* Of UEForwarding: entries of path_select name a port and an address; "out" and
\* "dropped" are not switches.
ASSUME ForwardingAssumption ==
  /\ 0 \in Ports /\ Ttls \in Nat \ {0}
  /\ Switches \cap {"out", "dropped"} = {}
  /\ Links \subseteq [Ports -> Switches \cup {"out"}]
  /\ \A t \in Tables : \A k \in DOMAIN t.path_select :
       t.path_select[k].port \in Ports /\ t.path_select[k].nhop_ipv4 \in Addresses

VARIABLES part, tables, links, packet, at

P4 == INSTANCE UEForwarding

p4_vars == <<tables, links, packet, at>>
all_vars == <<part, vars, pri_vars, p4_vars>>

MCEntry(p) == [port |-> p, nhop_ipv4 |-> IF p = 0 THEN "a" ELSE "b"]
MCTables ==
  [ecmp_group : {EmptyMap, [x \in {"a"} |-> 2], [x \in {"b"} |-> 0]},
   path_select : UNION {[keys -> {MCEntry(0), MCEntry(1)}] : keys \in
     {{}, {<<0, 0>>}, {<<0, 0>>, <<0, 1>>}, {<<1, 0>>}}},
   congestion_control : {{1}}]
MCLinks == {[p \in Ports |-> IF p = 0 THEN x ELSE y] :
              x \in {"w1", "w2"}, y \in {"w2", "out"}}

PoolRests == Init /\ jiffies = 0
PriRests == PriInit /\ m_global_pri_config.compression_ratio = 25
P4Rests ==
  /\ P4!Init /\ at = "w1" /\ packet = [kind |-> "other", dst |-> "a", ttl |-> 0, ce |-> FALSE]
  /\ \A w \in Switches :
       /\ tables[w].ecmp_group = EmptyMap /\ tables[w].path_select = EmptyMap
       /\ links[w] = [p \in Ports |-> IF p = 0 THEN "w1" ELSE "out"]

AllInit ==
  \/ part = "pool" /\ Init /\ PriRests /\ P4Rests
  \/ part = "pri" /\ PriInit /\ PoolRests /\ P4Rests
  \/ part = "p4" /\ P4!Init /\ PoolRests /\ PriRests

PoolRuns == part = "pool" /\ UNCHANGED <<part, pri_vars, p4_vars>>
P4Runs == part = "p4" /\ UNCHANGED <<part, vars, pri_vars>>

AllNext ==
  \/ PoolRuns /\ Next
  \/ part = "pri" /\ PriNext /\ UNCHANGED <<part, vars, p4_vars>>
  \/ P4Runs /\ P4!Next

AllSpec ==
  /\ AllInit /\ [][AllNext]_all_vars
  /\ WF_all_vars(PoolRuns /\ Tick)
  /\ WF_all_vars(P4Runs /\ P4!Ingress)

(***************************************************************************)
(* Every variable of the three parts has its type.                         *)
(***************************************************************************)
AllTypesOK == TypeOK /\ PriTypeOK /\ P4!TypeOK

(***************************************************************************)
(* Packets leave the switches unless routes, or ports 0, lead in a circle: *)
(* UEForwarding's property, of the behaviours that run it.                 *)
(***************************************************************************)
PacketsLeave == part = "p4" => P4!PacketsLeave
=============================================================================
