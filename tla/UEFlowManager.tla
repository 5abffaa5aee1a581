---------------------------- MODULE UEFlowManager ----------------------------
(***************************************************************************)
(* The flow manager of ue-transportd (ue_flow_manager.cpp): the table of   *)
(* active Ultra Ethernet flows, the statistics kept beside it, the         *)
(* transport settings, and the copies of both that it publishes in the     *)
(* SONiC databases.                                                        *)
(*                                                                         *)
(* One action is one call of a public method, which runs to completion on  *)
(* the daemon's only thread.  Restart is the death and relaunch of the     *)
(* process at any point between two calls: the maps are in memory and are  *)
(* lost, the databases are not.                                            *)
(*                                                                         *)
(* Abstracted: the sequence, acknowledgement and congestion-window numbers *)
(* of a flow, which no method reads; of its statistics only the packets    *)
(* received and the round-trip times are kept.  processFlowConfig changes  *)
(* no state and has no action.                                             *)
(***************************************************************************)
EXTENDS Integers, Sequences, FiniteSets, UEMaps, UEFlowRtt

CONSTANTS
  Packets,         \* what may arrive: records of the fields the parser reads
  Accepted,        \* [SettingNames -> the set of values a setting accepts]
  DefaultSettings, \* the settings the constructor installs
  ConfigEntries,   \* the field-value lists a "global" SET may carry
  RttSamples,      \* round-trip times, in microseconds, a caller may report
  PathCounts,      \* numbers of paths a caller may ask to spray over
  WeightVectors,   \* weight vectors a caller may install
  Clock,           \* bound: the values time(nullptr) takes
  StatsPeriod,     \* seconds between two publications (1 in the code)
  CleanupPeriod,   \* seconds between two cleanups (60 in the code)
  MaxPackets,      \* bound: packets counted per flow
  NoRow            \* stands for a database entry that does not exist

SettingNames == {"default_flow_mode", "congestion_algorithm",
                 "default_window_size", "max_flows", "flow_timeout_sec"}

ASSUME SettingsAssumption ==
  /\ DOMAIN Accepted = SettingNames
  /\ DefaultSettings \in [SettingNames -> UNION {Accepted[s] : s \in SettingNames}]
  /\ \A s \in SettingNames : DefaultSettings[s] \in Accepted[s]
  /\ Accepted["max_flows"] \subseteq Nat
  /\ Accepted["flow_timeout_sec"] \subseteq Nat

ASSUME InputsAssumption ==
  /\ IsFiniteSet(Packets)
  /\ RttSamples \subseteq Nat
  /\ PathCounts \subseteq Nat
  /\ \A w \in WeightVectors : w \in Seq(Nat)

ASSUME TimeAssumption ==
  /\ Clock \subseteq Nat
  /\ StatsPeriod \in Nat
  /\ CleanupPeriod \in Nat
  /\ MaxPackets \in Nat

VARIABLES
  m_active_flows,     \* map from flow id to its state
  m_flow_stats,       \* map from flow id to its statistics
  m_settings,         \* the five m_ members the configuration sets
  last_stats_update,  \* function-local static of doPeriodicTask
  last_cleanup,       \* function-local static of doPeriodicTask
  now,                \* time(nullptr), the wall clock
  appl_global,        \* APPL_DB, the flow table's ":global" entry
  state_rows,         \* STATE_DB, packets_received of each statistics entry
  inherited           \* history: the entries a previous process left behind

memory == <<m_active_flows, m_flow_stats, m_settings,
            last_stats_update, last_cleanup>>
databases == <<appl_global, state_rows, inherited>>
vars == <<memory, databases, now>>

-----------------------------------------------------------------------------
(* Flow ids, read off a packet.                                            *)

HeaderLen == 28     \* sizeof(struct iphdr) + sizeof(struct udphdr)

\* UEFlowId flow_id = {}: what the parser returns for an invalid packet.
ZeroFlow == [src_ip |-> 0, dst_ip |-> 0, src_port |-> 0, dst_port |-> 0]

ParsePacketFlowId(p) ==
  IF p.len < HeaderLen \/ p.version # 4
  THEN ZeroFlow
  ELSE [src_ip   |-> p.saddr,
        dst_ip   |-> p.daddr,
        src_port |-> IF p.protocol = "udp" THEN p.source ELSE 0,
        dst_port |-> IF p.protocol = "udp" THEN p.dest ELSE 0]

ValidFlow(id) == id.src_ip # 0 /\ id.dst_ip # 0

FlowIds == {id \in {ParsePacketFlowId(p) : p \in Packets} : ValidFlow(id)}

-----------------------------------------------------------------------------
(* Values.                                                                 *)

Settings ==
  {s \in [SettingNames -> UNION {Accepted[n] : n \in SettingNames}] :
     \A n \in SettingNames : s[n] \in Accepted[n]}

Paths(n, weights) == [active_paths |-> n, path_weights |-> weights]
DefaultPaths == Paths(4, <<25, 25, 25, 25>>)

\* A slip for mutation: dividing by the maximum instead of into it.
SharesLost(n) == Paths(n, [i \in 1..n |-> n \div 100])
EqualWeights(n) == Paths(n, [i \in 1..n |-> 100 \div n])

ListedWeights(weights) == Paths(Len(weights), weights)

\* What callers hand to updateFlowPaths and updateFlowState is not looked at: a
\* number of paths that is not that of the weights, no path, weights of zero.
PathNumbers == PathCounts \cup {Len(w) : w \in WeightVectors}
GivenPaths == {DefaultPaths}
              \cup {Paths(n, w) : n \in PathNumbers, w \in WeightVectors}

PathShapes == GivenPaths \cup {EqualWeights(n) : n \in PathCounts \ {0}}

FlowStates == [mode : Accepted["default_flow_mode"],
               window_size : Accepted["default_window_size"],
               last_activity : Clock,
               paths : PathShapes]
GivenStates == {state \in FlowStates : state.paths \in GivenPaths}

FlowStats == [packets_received : Nat, rtt : RttStats]
ZeroStats == [packets_received |-> 0, rtt |-> NoRtt]

\* What createFlow stores, given the settings in force.
NewFlow(mode) == [mode |-> mode,
                  window_size |-> m_settings["default_window_size"],
                  last_activity |-> now,
                  paths |-> DefaultPaths]

\* A slip for mutation: the range is not checked.
AppliedUnchecked(settings, entry) ==
  [s \in SettingNames |-> IF s \in DOMAIN entry THEN entry[s] ELSE settings[s]]

\* The range and membership checks of processTransportConfig: a value that
\* does not parse or lies outside its range leaves the setting as it was.
Applied(settings, entry) ==
  [s \in SettingNames |-> IF s \in DOMAIN entry /\ entry[s] \in Accepted[s]
                          THEN entry[s] ELSE settings[s]]

\* What a SET writes to APPL_DB: the settings it has just applied.  The slip
\* for mutation writes the ones it replaces.
PublishedBeforeApplied(entry) == m_settings
PublishedConfig(entry) == Applied(m_settings, entry)

\* Slips for mutation: a missing existence check, a limit off by one.
MayOverwrite(id) ==
  Cardinality(DOMAIN m_active_flows) < m_settings["max_flows"]
MayExceedByOne(id) ==
  /\ Cardinality(DOMAIN m_active_flows) <= m_settings["max_flows"]
  /\ id \notin DOMAIN m_active_flows
\* The checks of createFlow: the limit first, then whether the flow exists.
MayCreate(id) ==
  /\ Cardinality(DOMAIN m_active_flows) < m_settings["max_flows"]
  /\ id \notin DOMAIN m_active_flows

\* now - state.last_activity > m_flow_timeout_sec
Expired(id) ==
  now - m_active_flows[id].last_activity > m_settings["flow_timeout_sec"]

ExpiredFlows == {id \in DOMAIN m_active_flows : Expired(id)}

\* The statistics and the published rows once the flows ids are erased.
StatsKept(ids) == m_flow_stats
StatsWithout(ids) == Without(m_flow_stats, ids)
RowsKept(rows, ids) == rows
RowsWithout(rows, ids) == Without(rows, ids)

\* updateFlowStatistics: one db->set per entry of m_flow_stats.
PublishedRows ==
  PutAll(state_rows,
         [id \in DOMAIN m_flow_stats |-> m_flow_stats[id].packets_received])

-----------------------------------------------------------------------------
(* The state machine.                                                      *)

InitialMemory ==
  /\ m_active_flows = EmptyMap
  /\ m_flow_stats = EmptyMap
  /\ m_settings = DefaultSettings
  /\ last_stats_update = 0
  /\ last_cleanup = 0

\* The first start, on empty databases.
Init ==
  /\ InitialMemory
  /\ appl_global = NoRow
  /\ state_rows = EmptyMap
  /\ inherited = {}
  /\ now \in Clock

\* A SET of the key "global"; other keys and other commands do nothing.
ProcessTransportConfig(entry) ==
  /\ m_settings' = Applied(m_settings, entry)
  /\ appl_global' = PublishedConfig(entry)
  /\ UNCHANGED <<m_active_flows, m_flow_stats, last_stats_update, last_cleanup,
                 state_rows, inherited, now>>

\* A call from outside; packets of unknown flows create them below.
CreateFlow(id, mode) ==
  /\ MayCreate(id)
  /\ m_active_flows' = Put(m_active_flows, id, NewFlow(mode))
  /\ m_flow_stats' = Put(m_flow_stats, id, ZeroStats)
  /\ UNCHANGED <<m_settings, last_stats_update, last_cleanup, databases, now>>

\* The row is deleted whether or not the flow is known.
RemoveFlow(id) ==
  /\ m_active_flows' = Without(m_active_flows, {id})
  /\ m_flow_stats' = StatsWithout({id})
  /\ state_rows' = RowsWithout(state_rows, {id})
  /\ inherited' = inherited \ {id}
  /\ UNCHANGED <<m_settings, last_stats_update, last_cleanup, appl_global, now>>

\* flow_it->second = state, for a flow that is there.
SetFlow(id, state) ==
  /\ id \in DOMAIN m_active_flows
  /\ m_active_flows' = Put(m_active_flows, id, state)
  /\ UNCHANGED <<m_flow_stats, m_settings, last_stats_update, last_cleanup,
                 databases, now>>

\* The caller's state, whose last_activity the call overwrites.
UpdateFlowState(id, state) ==
  SetFlow(id, [state EXCEPT !.last_activity = now])

\* The process dies and starts again: what a previous life published stays.
Restart ==
  /\ m_active_flows' = EmptyMap
  /\ m_flow_stats' = EmptyMap
  /\ m_settings' = DefaultSettings
  /\ last_stats_update' = 0
  /\ last_cleanup' = 0
  /\ inherited' = DOMAIN state_rows
  /\ UNCHANGED <<appl_global, state_rows, now>>

\* For no paths, 100 / num_paths divides by zero and the process dies.
EnablePacketSpraying(id, num_paths) ==
  \/ /\ num_paths > 0
     /\ id \in DOMAIN m_active_flows
     /\ SetFlow(id, [m_active_flows[id] EXCEPT !.paths = EqualWeights(num_paths)])
  \/ /\ num_paths = 0
     /\ id \in DOMAIN m_active_flows
     /\ Restart

UpdateFlowPaths(id, weights) ==
  /\ id \in DOMAIN m_active_flows
  /\ SetFlow(id, [m_active_flows[id] EXCEPT !.paths = ListedWeights(weights)])

\* An invalid packet, or a new flow beyond the limit, changes nothing.
ProcessIncomingPacket(p) ==
  LET id    == ParsePacketFlowId(p)
      known == id \in DOMAIN m_active_flows
      flow  == IF known THEN m_active_flows[id]
                        ELSE NewFlow(m_settings["default_flow_mode"])
      stats == IF known /\ id \in DOMAIN m_flow_stats
               THEN m_flow_stats[id] ELSE ZeroStats
  IN  /\ ValidFlow(id)
      /\ known \/ MayCreate(id)
      /\ stats.packets_received < MaxPackets
      /\ m_active_flows' = Put(m_active_flows, id,
                               [flow EXCEPT !.last_activity = now])
      /\ m_flow_stats' = Put(m_flow_stats, id,
                             [stats EXCEPT !.packets_received = @ + 1])
      /\ UNCHANGED <<m_settings, last_stats_update, last_cleanup, databases, now>>

UpdateFlowRTT(id, rtt_us) ==
  /\ id \in DOMAIN m_flow_stats
  /\ m_flow_stats' = Put(m_flow_stats, id,
                         [m_flow_stats[id] EXCEPT !.rtt = UpdateRtt(@, rtt_us)])
  /\ UNCHANGED <<m_active_flows, m_settings, last_stats_update, last_cleanup,
                 databases, now>>

\* Publish, then clean up, each when its period has passed.
DoPeriodicTask ==
  LET publish == now - last_stats_update >= StatsPeriod
      clean   == now - last_cleanup >= CleanupPeriod
      gone    == IF clean THEN ExpiredFlows ELSE {}
      rows    == IF publish THEN PublishedRows ELSE state_rows
      old     == IF publish THEN inherited \ DOMAIN m_flow_stats ELSE inherited
  IN  /\ last_stats_update' = IF publish THEN now ELSE last_stats_update
      /\ last_cleanup' = IF clean THEN now ELSE last_cleanup
      /\ m_active_flows' = Without(m_active_flows, gone)
      /\ m_flow_stats' = StatsWithout(gone)
      /\ state_rows' = RowsWithout(rows, gone)
      /\ inherited' = old \ gone
      /\ UNCHANGED <<m_settings, appl_global, now>>

\* time(nullptr) is the wall clock: it advances, and it may be set back.
ClockStep ==
  /\ now' \in Clock
  /\ UNCHANGED <<memory, databases>>

Next ==
  \/ \E entry \in ConfigEntries : ProcessTransportConfig(entry)
  \/ \E id \in FlowIds, mode \in Accepted["default_flow_mode"] : CreateFlow(id, mode)
  \/ \E id \in FlowIds : RemoveFlow(id)
  \/ \E id \in FlowIds, state \in GivenStates : UpdateFlowState(id, state)
  \/ \E id \in FlowIds, n \in PathCounts : EnablePacketSpraying(id, n)
  \/ \E id \in FlowIds, w \in WeightVectors : UpdateFlowPaths(id, w)
  \/ \E p \in Packets : ProcessIncomingPacket(p)
  \/ \E id \in FlowIds, r \in RttSamples : UpdateFlowRTT(id, r)
  \/ DoPeriodicTask
  \/ ClockStep
  \/ Restart

Spec == Init /\ [][Next]_vars

-----------------------------------------------------------------------------
(* Properties.                                                             *)

(***************************************************************************)
(* Every variable has its type: the tables hold flows a packet can name,   *)
(* settings stay within their accepted ranges.                             *)
(***************************************************************************)
TypeOK ==
  /\ IsMap(m_active_flows, FlowIds, FlowStates)
  /\ IsMap(m_flow_stats, FlowIds, FlowStats)
  /\ m_settings \in Settings
  /\ last_stats_update \in Clock \cup {0}
  /\ last_cleanup \in Clock \cup {0}
  /\ now \in Clock
  /\ appl_global \in Settings \cup {NoRow}
  /\ IsMap(state_rows, FlowIds, Nat)
  /\ inherited \subseteq DOMAIN state_rows

(***************************************************************************)
(* The two tables name the same flows, whichever of creation, removal,     *)
(* arrival, expiry and restart come in whichever order: m_flow_stats[id]   *)
(* in processIncomingPacket never inserts an entry no cleanup will erase.  *)
(***************************************************************************)
FlowsAndStatsAgree == DOMAIN m_active_flows = DOMAIN m_flow_stats

(***************************************************************************)
(* A row this process published belongs to a flow it still tracks and does *)
(* not run ahead of that flow's counter.  Only a row a previous process    *)
(* left behind may outlive its flow.                                       *)
(***************************************************************************)
RowsShowLiveFlows ==
  \A id \in DOMAIN state_rows \ inherited :
    /\ id \in DOMAIN m_flow_stats
    /\ state_rows[id] <= m_flow_stats[id].packets_received

(***************************************************************************)
(* A reader of STATE_DB never sees a flow's packet count go back, except   *)
(* across a restart: a flow removed and created again starts a new row.    *)
(***************************************************************************)
PublishedNeverRegresses ==
  [][\A id \in DOMAIN state_rows \cap DOMAIN state_rows' :
       id \notin inherited => state_rows[id] <= state_rows'[id]]_vars

(***************************************************************************)
(* The table grows only up to the limit in force at that moment.  Lowering *)
(* max_flows leaves it above the limit until flows expire.                 *)
(***************************************************************************)
GrowthRespectsLimit ==
  [][Cardinality(DOMAIN m_active_flows') > Cardinality(DOMAIN m_active_flows)
       => Cardinality(DOMAIN m_active_flows') <= m_settings["max_flows"]]_vars

(***************************************************************************)
(* Once any configuration is in force, APPL_DB shows it: only before the   *)
(* first SET, and after a restart until the next one, may the entry differ *)
(* from the settings the manager uses, which are then the defaults.        *)
(***************************************************************************)
ConfigPublished == m_settings # DefaultSettings => appl_global = m_settings

(***************************************************************************)
(* The manager implements the table it promises: the settings, the clock,  *)
(* the periods and the second table are hidden, and every method either    *)
(* keeps, counts, reports or forgets.                                      *)
(***************************************************************************)
FlowTable == INSTANCE UEFlowTable WITH
  Ids     <- FlowIds,
  tracked <- [id \in DOMAIN m_flow_stats |-> m_flow_stats[id].packets_received],
  shown   <- state_rows

ImplementsFlowTable == FlowTable!Spec

(***************************************************************************)
(* The statistics of every flow are ordered: minimum, newest sample and    *)
(* average below the maximum.                                              *)
(***************************************************************************)
RttStatsOrdered == \A id \in DOMAIN m_flow_stats : RttOrdered(m_flow_stats[id].rtt)

(***************************************************************************)
(* With positive samples and no wrap-around, the average of every flow     *)
(* stays at or above the minimum.                                          *)
(***************************************************************************)
RttAverageAboveMinimum ==
  \A id \in DOMAIN m_flow_stats : AverageAboveMinimum(m_flow_stats[id].rtt)

(***************************************************************************)
(* A flow's round-trip times follow its samples, from creation to removal, *)
(* whatever else is called: the average moves towards the sample and not   *)
(* past it, or the sum has overflowed; the maximum never falls; the        *)
(* minimum rises only from 0, which is what a sample of 0 leaves, as does  *)
(* no sample at all.                                                       *)
(***************************************************************************)
RttFollowsSamples ==
  [][\A id \in DOMAIN m_flow_stats \cap DOMAIN m_flow_stats' :
       RttFollows(m_flow_stats[id].rtt, m_flow_stats'[id].rtt)]_vars

Carries(paths) == \E i \in DOMAIN paths.path_weights : paths.path_weights[i] > 0

\* The calls that may leave flow id without a weight: more paths than per cents
\* to share, or paths of no weight that the caller lists or hands over.
WeightGivenUp(id) ==
  \/ \E n \in PathCounts : n > 100 /\ EnablePacketSpraying(id, n)
  \/ \E w \in WeightVectors : ~Carries(ListedWeights(w)) /\ UpdateFlowPaths(id, w)
  \/ \E state \in GivenStates : ~Carries(state.paths) /\ UpdateFlowState(id, state)

(***************************************************************************)
(* The manager itself never takes the last weight from a flow: one that    *)
(* has a path of positive weight, or is new, has one after every step but  *)
(* those calls.  The integer share 100 / num_paths is such a weight up to  *)
(* 100 paths.                                                              *)
(***************************************************************************)
WeightKeptUnlessGivenUp ==
  [][\A id \in DOMAIN m_active_flows' :
       \/ id \in DOMAIN m_active_flows /\ ~Carries(m_active_flows[id].paths)
       \/ Carries(m_active_flows'[id].paths)
       \/ WeightGivenUp(id)]_vars
=============================================================================
