----------------------------- MODULE UEPriManager -----------------------------
(***************************************************************************)
(* The PRI manager of ue-linkd (ue_pri_manager.cpp): the global setting of *)
(* header compression, and the statistics of the interfaces, simulated     *)
(* every five seconds whatever that setting.  An update adds 1000 packets, *)
(* and to the bytes saved the saving on all packets so far, not on these.  *)
(*                                                                         *)
(* External, since declared and not defined: disableGlobalPRI, and the     *)
(* functions that put interfaces into the map and take them out.  The      *)
(* ratio has no initial value: until the first enable it is anything.      *)
(* A ratio is not validated, and one that does not parse throws where      *)
(* nothing catches.  MaxUpdates keeps the 64-bit counters from wrapping;   *)
(* the product of ratio and header length is of 32 bits and may wrap.      *)
(***************************************************************************)
EXTENDS Integers, UEMaps

CONSTANTS
  Interfaces,    \* interface names
  Ratios,        \* ratios configured, or found in memory
  Word,          \* the range of ratio * 42, 2^32
  MaxUpdates     \* bound: updates of an interface

ASSUME PriAssumption ==
  /\ Ratios \subseteq Nat
  /\ Word \in Nat \ {0}
  /\ MaxUpdates \in Nat

VARIABLES
  m_global_pri_config,
  m_pri_interfaces,      \* the interfaces in the map, which are all enabled
  m_pri_stats,           \* map from interface to its statistics
  stats_due,             \* now - last_stats_update >= 5
  appl_global,           \* APPL_DB, the ":global" entry, as a map
  state_rows             \* STATE_DB, the published statistics

pri_memory == <<m_global_pri_config, m_pri_interfaces, m_pri_stats, stats_due>>
pri_vars == <<pri_memory, appl_global, state_rows>>

-----------------------------------------------------------------------------
(* Values.                                                                 *)

Configs == [enabled : BOOLEAN, compression_ratio : Ratios]

\* Bytes saved on a packet, of a header of 42.
Reduction(ratio) == ((ratio * 42) % Word) \div 100

\* packets_compressed in thousands.
PriStats == [thousands : 0..MaxUpdates, bytes_saved : Nat, ratio_actual : Nat]
ZeroStats == [thousands |-> 0, bytes_saved |-> 0, ratio_actual |-> 0]

\* The thousands an update adds the saving on: all so far.  The slip for
\* mutation adds up before it counts.
BeforeCounting(s) == s.thousands
SavedOn(s) == s.thousands + 1

Updated(s) ==
  LET saved == s.bytes_saved
                 + 1000 * SavedOn(s) * Reduction(m_global_pri_config.compression_ratio)
      n     == s.thousands + 1
  IN  [thousands    |-> n,
       bytes_saved  |-> saved,
       ratio_actual |-> (saved * 100) \div (1000 * n * 42)]

-----------------------------------------------------------------------------
(* The state machine.                                                      *)

PriInit ==
  /\ m_global_pri_config \in {c \in Configs : ~c.enabled}
  /\ m_pri_interfaces = {}
  /\ m_pri_stats = EmptyMap
  /\ stats_due = TRUE
  /\ appl_global = EmptyMap
  /\ state_rows = EmptyMap

\* The process is gone and starts again.
Restart ==
  /\ m_global_pri_config' \in {c \in Configs : ~c.enabled}
  /\ m_pri_interfaces' = {}
  /\ m_pri_stats' = EmptyMap
  /\ stats_due' = TRUE
  /\ UNCHANGED <<appl_global, state_rows>>

EnableGlobalPRI(ratio) ==
  /\ m_global_pri_config' = [enabled |-> TRUE, compression_ratio |-> ratio]
  /\ appl_global' = Put(appl_global, "global", ratio)
  /\ UNCHANGED <<m_pri_interfaces, m_pri_stats, stats_due, state_rows>>

DisableGlobalPRI ==
  /\ m_global_pri_config' = [m_global_pri_config EXCEPT !.enabled = FALSE]
  /\ UNCHANGED <<m_pri_interfaces, m_pri_stats, stats_due, appl_global, state_rows>>

\* A SET of "global", with its ratio or 25; a DEL of it, and any other key, do
\* nothing.
ProcessPRIConfig ==
  \/ \E ratio \in Ratios : EnableGlobalPRI(ratio)
  \/ DisableGlobalPRI
  \/ Restart

\* processInterfaceConfig; the statistics of an interface taken out stay or go.
ProcessInterfaceConfig(i) ==
  /\ \/ /\ m_pri_interfaces' = m_pri_interfaces \cup {i}
        /\ UNCHANGED m_pri_stats
     \/ /\ m_pri_interfaces' = m_pri_interfaces \ {i}
        /\ m_pri_stats' \in {m_pri_stats, Without(m_pri_stats, {i})}
  /\ UNCHANGED <<m_global_pri_config, stats_due, appl_global, state_rows>>

DoPeriodicTask ==
  /\ stats_due = TRUE
  /\ stats_due' = FALSE
  /\ LET old(i)  == IF i \in DOMAIN m_pri_stats THEN m_pri_stats[i] ELSE ZeroStats
         updated == [i \in m_pri_interfaces |-> Updated(old(i))]
     IN  /\ \A i \in m_pri_interfaces : old(i).thousands < MaxUpdates
         /\ m_pri_stats' = PutAll(m_pri_stats, updated)
         /\ state_rows' = PutAll(state_rows, updated)
  /\ UNCHANGED <<m_global_pri_config, m_pri_interfaces, appl_global>>

\* Five seconds pass.
ClockStep ==
  /\ ~stats_due
  /\ stats_due' = TRUE
  /\ UNCHANGED <<m_global_pri_config, m_pri_interfaces, m_pri_stats, appl_global,
                 state_rows>>

PriNext ==
  \/ ProcessPRIConfig
  \/ \E i \in Interfaces : ProcessInterfaceConfig(i)
  \/ DoPeriodicTask
  \/ ClockStep

PriSpec == PriInit /\ [][PriNext]_pri_vars

-----------------------------------------------------------------------------
(* Properties.                                                             *)

(***************************************************************************)
(* Every variable has its type.                                            *)
(***************************************************************************)
PriTypeOK ==
  /\ m_global_pri_config \in Configs
  /\ m_pri_interfaces \subseteq Interfaces
  /\ IsMap(m_pri_stats, Interfaces, PriStats)
  /\ stats_due \in BOOLEAN
  /\ IsMap(appl_global, {"global"}, Ratios)
  /\ IsMap(state_rows, Interfaces, PriStats)

\* n updates that saved as little, and as much, as any ratio does on a packet.
Triangular(s) ==
  LET twice == 1000 * s.thousands * (s.thousands + 1)
  IN  /\ \E r \in Ratios : 2 * s.bytes_saved >= twice * Reduction(r)
      /\ \E r \in Ratios : 2 * s.bytes_saved <= twice * Reduction(r)

(***************************************************************************)
(* The bytes reported saved grow with the square of the packets: after n   *)
(* updates they are between n(n+1)/2 times a thousand packets at the       *)
(* smallest reduction and at the greatest, in memory and in STATE_DB, with *)
(* whatever ratios, deconfigurations and restarts in between.  At 25 per   *)
(* cent, eight updates report more than whole headers saved.               *)
(***************************************************************************)
SavingsTriangular ==
  /\ \A i \in DOMAIN m_pri_stats : Triangular(m_pri_stats[i])
  /\ \A i \in DOMAIN state_rows : Triangular(state_rows[i])
=============================================================================
