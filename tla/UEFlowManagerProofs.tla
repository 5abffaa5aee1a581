------------------------- MODULE UEFlowManagerProofs -------------------------
(***************************************************************************)
(* The safety properties of the flow manager, for every set of packets,    *)
(* settings, clock and bound, and its refinement of UEFlowTable.           *)
(*                                                                         *)
(* The invariant is built in layers: types; then the agreement of the two  *)
(* tables; then the relation between the published rows and the counters,  *)
(* which needs the agreement (a new flow has no row of this process).      *)
(***************************************************************************)
EXTENDS UEFlowManager, UEMapsProofs, FiniteSetTheorems, TLAPS

-----------------------------------------------------------------------------
(* What one sample does to the round-trip statistics of a flow, for every  *)
(* width of the arithmetic and every sample.                               *)

(***************************************************************************)
(* The weighted average of values up to m is at most m: a wrap-around can  *)
(* only lower it.                                                          *)
(***************************************************************************)
LEMMA AverageAtMost ==
  ASSUME NEW avg \in Nat, NEW rtt \in Nat, NEW m \in Nat, avg <= m, rtt <= m
  PROVE  WeightedAverage(avg, rtt) \in Nat /\ WeightedAverage(avg, rtt) <= m
<1> DEFINE x == avg * 7 + rtt
<1>1. x \in Nat /\ x <= 8 * m
  OBVIOUS
<1>2. x % Word \in Nat /\ x % Word <= x
  BY <1>1, WordAssumption
<1>3. \A y \in Nat : y <= 8 * m => y \div 8 \in Nat /\ y \div 8 <= m
  OBVIOUS
<1> QED
  BY <1>1, <1>2, <1>3 DEF WeightedAverage

(***************************************************************************)
(* If nothing wraps, the weighted average of values of at least m is at    *)
(* least m.                                                                *)
(***************************************************************************)
LEMMA AverageAtLeast ==
  ASSUME NEW avg \in Nat, NEW rtt \in Nat, NEW m \in Nat, m <= avg, m <= rtt,
         avg * 7 + rtt < Word
  PROVE  m <= WeightedAverage(avg, rtt)
<1> DEFINE x == avg * 7 + rtt
<1>1. x \in Nat /\ 8 * m <= x /\ x < Word
  OBVIOUS
<1>2. x % Word = x
  BY <1>1, WordAssumption
<1>3. \A y \in Nat : 8 * m <= y => m <= y \div 8
  OBVIOUS
<1> QED
  BY <1>1, <1>2, <1>3 DEF WeightedAverage

(***************************************************************************)
(* updateFlowRTT keeps the statistics well formed and ordered whatever the *)
(* sample, zero and overflow included.                                     *)
(***************************************************************************)
THEOREM UpdateKeepsOrder ==
  ASSUME NEW s \in RttStats, RttOrdered(s), NEW rtt \in Nat
  PROVE  UpdateRtt(s, rtt) \in RttStats /\ RttOrdered(UpdateRtt(s, rtt))
<1> DEFINE new == UpdateRtt(s, rtt)
<1>1. /\ s.current_rtt_us \in Nat /\ s.min_rtt_us \in Nat
      /\ s.max_rtt_us \in Nat /\ s.avg_rtt_us \in Nat
  BY DEF RttStats
<1>2. /\ new.current_rtt_us = rtt
      /\ new.min_rtt_us \in Nat /\ new.min_rtt_us <= rtt
      /\ new.max_rtt_us \in Nat /\ rtt <= new.max_rtt_us
      /\ s.max_rtt_us <= new.max_rtt_us
  BY <1>1 DEF UpdateRtt
<1>3. new.avg_rtt_us \in Nat /\ new.avg_rtt_us <= new.max_rtt_us
  <2>1. CASE s.avg_rtt_us = 0
    BY <2>1, <1>2 DEF UpdateRtt
  <2>2. CASE s.avg_rtt_us # 0
    <3>1. s.avg_rtt_us <= new.max_rtt_us
      BY <1>1, <1>2 DEF RttOrdered
    <3>2. new.avg_rtt_us = WeightedAverage(s.avg_rtt_us, rtt)
      BY <2>2 DEF UpdateRtt
    <3> HIDE DEF new
    <3>3. /\ WeightedAverage(s.avg_rtt_us, rtt) \in Nat
          /\ WeightedAverage(s.avg_rtt_us, rtt) <= new.max_rtt_us
      BY <1>1, <1>2, <3>1, AverageAtMost
    <3> QED
      BY <3>2, <3>3
  <2> QED
    BY <2>1, <2>2
<1>4. new \in RttStats
  BY <1>1, <1>2, <1>3 DEF UpdateRtt, RttStats
<1> QED
  BY <1>2, <1>3, <1>4 DEF RttOrdered

(***************************************************************************)
(* The strengthening under which the average stays above the minimum: both *)
(* are unset, or both are set and nothing recorded exceeds bound.          *)
(***************************************************************************)
SetTogether(s, bound) ==
  \/ s.min_rtt_us = 0 /\ s.avg_rtt_us = 0
  \/ 1 <= s.min_rtt_us /\ s.min_rtt_us <= s.avg_rtt_us /\ s.avg_rtt_us <= bound

(***************************************************************************)
(* Samples of 1 to bound, with 8 * bound below the word, keep it.          *)
(***************************************************************************)
THEOREM UpdateKeepsAverageAboveMinimum ==
  ASSUME NEW s \in RttStats, NEW bound \in Nat, 8 * bound < Word,
         SetTogether(s, bound), NEW rtt \in 1..bound
  PROVE  SetTogether(UpdateRtt(s, rtt), bound)
<1> DEFINE new == UpdateRtt(s, rtt)
<1>1. s.min_rtt_us \in Nat /\ s.avg_rtt_us \in Nat
  BY DEF RttStats
<1>2. CASE s.avg_rtt_us = 0
  <2>1. s.min_rtt_us = 0
    BY <1>1, <1>2 DEF SetTogether
  <2>2. new.min_rtt_us = rtt /\ new.avg_rtt_us = rtt
    BY <1>2, <2>1 DEF UpdateRtt
  <2> QED
    BY <2>2 DEF SetTogether
<1>3. CASE s.avg_rtt_us # 0
  <2>1. /\ 1 <= s.min_rtt_us
        /\ s.min_rtt_us <= s.avg_rtt_us
        /\ s.avg_rtt_us <= bound
    BY <1>1, <1>3 DEF SetTogether
  <2>2. /\ new.min_rtt_us \in Nat
        /\ 1 <= new.min_rtt_us
        /\ new.min_rtt_us <= s.avg_rtt_us
        /\ new.min_rtt_us <= rtt
    BY <1>1, <2>1 DEF UpdateRtt
  <2>3. new.avg_rtt_us = WeightedAverage(s.avg_rtt_us, rtt)
    BY <1>3 DEF UpdateRtt
  <2>4. s.avg_rtt_us * 7 + rtt < Word
    BY <1>1, <2>1, WordAssumption
  <2>5. new.min_rtt_us <= new.avg_rtt_us
    BY <1>1, <2>2, <2>3, <2>4, AverageAtLeast
  <2>6. new.avg_rtt_us <= bound
    <3>1. rtt \in Nat /\ rtt <= bound
      OBVIOUS
    <3>2. WeightedAverage(s.avg_rtt_us, rtt) <= bound
      BY <1>1, <2>1, <3>1, AverageAtMost
    <3> QED
      BY <2>3, <3>2
  <2> QED
    BY <2>2, <2>5, <2>6 DEF SetTogether
<1> QED
  BY <1>2, <1>3

-----------------------------------------------------------------------------
(* Types.                                                                  *)

(***************************************************************************)
(* A configuration entry, whatever it holds, leaves accepted settings.     *)
(***************************************************************************)
LEMMA AppliedType ==
  ASSUME NEW s \in Settings, NEW entry
  PROVE  Applied(s, entry) \in Settings
<1>1. \A n \in SettingNames : Applied(s, entry)[n] \in Accepted[n]
  BY DEF Applied, Settings
<1> QED
  BY <1>1 DEF Applied, Settings

LEMMA DefaultSettingsType == DefaultSettings \in Settings
  BY SettingsAssumption DEF Settings

(***************************************************************************)
(* A flow as createFlow stores it is well formed.                          *)
(***************************************************************************)
LEMMA NewFlowType ==
  ASSUME m_settings \in Settings, now \in Clock,
         NEW mode \in Accepted["default_flow_mode"]
  PROVE  NewFlow(mode) \in FlowStates
<1>1. m_settings["default_window_size"] \in Accepted["default_window_size"]
  BY DEF Settings, SettingNames
<1>2. DefaultPaths \in PathShapes
  BY DEF PathShapes, GivenPaths
<1> QED
  BY <1>1, <1>2 DEF NewFlow, FlowStates

(***************************************************************************)
(* The statistics of a new flow are well formed, and so are those of a     *)
(* flow after a packet or a sample.                                        *)
(***************************************************************************)
LEMMA ZeroStatsType == ZeroStats \in FlowStats
  BY DEF ZeroStats, FlowStats, NoRtt, RttStats

LEMMA CountedType ==
  ASSUME NEW stats \in FlowStats
  PROVE  [stats EXCEPT !.packets_received = @ + 1] \in FlowStats
  BY DEF FlowStats

LEMMA UpdateRttType ==
  ASSUME NEW s \in RttStats, NEW rtt \in Nat
  PROVE  UpdateRtt(s, rtt) \in RttStats
<1>1. /\ s.min_rtt_us \in Nat /\ s.max_rtt_us \in Nat /\ s.avg_rtt_us \in Nat
  BY DEF RttStats
<1>2. WeightedAverage(s.avg_rtt_us, rtt) \in Nat
  <2> DEFINE a == s.avg_rtt_us
  <2>1. a \in Nat /\ (a <= rtt \/ rtt <= a)
    BY <1>1
  <2> HIDE DEF a
  <2>2. WeightedAverage(a, rtt) \in Nat
    <3>1. CASE a <= rtt
      BY <2>1, <3>1, AverageAtMost
    <3>2. CASE rtt <= a
      BY <2>1, <3>2, AverageAtMost
    <3> QED BY <2>1, <3>1, <3>2
  <2> QED BY <2>2 DEF a
<1> QED
  BY <1>1, <1>2 DEF UpdateRtt, RttStats

LEMMA SampledType ==
  ASSUME NEW stats \in FlowStats, NEW rtt \in Nat
  PROVE  [stats EXCEPT !.rtt = UpdateRtt(@, rtt)] \in FlowStats
  BY UpdateRttType DEF FlowStats

(***************************************************************************)
(* Every initial state is well typed.                                      *)
(***************************************************************************)
LEMMA InitType == Init => TypeOK
  BY EmptyMapType, DefaultSettingsType
     DEF Init, InitialMemory, TypeOK

(***************************************************************************)
(* One fact per method: it keeps the types.                                *)
(***************************************************************************)
LEMMA ConfigKeepsType ==
  ASSUME TypeOK, NEW entry, ProcessTransportConfig(entry)
  PROVE  TypeOK'
<1>1. Applied(m_settings, entry) \in Settings
  BY AppliedType DEF TypeOK
<1> QED
  BY <1>1 DEF TypeOK, ProcessTransportConfig, PublishedConfig

LEMMA CreateKeepsType ==
  ASSUME TypeOK, NEW id \in FlowIds, NEW mode \in Accepted["default_flow_mode"],
         CreateFlow(id, mode)
  PROVE  TypeOK'
<1>1. NewFlow(mode) \in FlowStates
  BY NewFlowType DEF TypeOK
<1>2. IsMap(m_active_flows', FlowIds, FlowStates)
  BY <1>1, PutType DEF TypeOK, CreateFlow
<1>3. IsMap(m_flow_stats', FlowIds, FlowStats)
  BY ZeroStatsType, PutType DEF TypeOK, CreateFlow
<1> QED
  BY <1>2, <1>3 DEF TypeOK, CreateFlow, databases

LEMMA RemoveKeepsType ==
  ASSUME TypeOK, NEW id \in FlowIds, RemoveFlow(id)
  PROVE  TypeOK'
<1>1. /\ IsMap(m_active_flows', FlowIds, FlowStates)
      /\ IsMap(m_flow_stats', FlowIds, FlowStats)
      /\ IsMap(state_rows', FlowIds, Nat)
  BY WithoutType DEF TypeOK, RemoveFlow, StatsWithout, RowsWithout
<1>2. inherited' \subseteq DOMAIN state_rows'
  BY WithoutDomain DEF TypeOK, RemoveFlow, RowsWithout
<1> QED
  BY <1>1, <1>2 DEF TypeOK, RemoveFlow

LEMMA SetFlowKeepsType ==
  ASSUME TypeOK, NEW id \in FlowIds, NEW state \in FlowStates, SetFlow(id, state)
  PROVE  TypeOK'
<1>1. IsMap(m_active_flows', FlowIds, FlowStates)
  BY PutType DEF TypeOK, SetFlow
<1> QED
  BY <1>1 DEF TypeOK, SetFlow, databases

LEMMA RestartKeepsType ==
  ASSUME TypeOK, Restart
  PROVE  TypeOK'
<1>1. /\ IsMap(m_active_flows', FlowIds, FlowStates)
      /\ IsMap(m_flow_stats', FlowIds, FlowStats)
  BY EmptyMapType DEF Restart
<1> QED
  BY <1>1, DefaultSettingsType DEF TypeOK, Restart

LEMMA SprayingKeepsType ==
  ASSUME TypeOK, NEW id \in FlowIds, NEW n \in PathCounts, EnablePacketSpraying(id, n)
  PROVE  TypeOK'
<1>1. CASE n = 0 /\ Restart
  BY <1>1, RestartKeepsType
<1>2. CASE /\ n > 0
           /\ id \in DOMAIN m_active_flows
           /\ SetFlow(id, [m_active_flows[id] EXCEPT !.paths = EqualWeights(n)])
  <2>1. EqualWeights(n) \in PathShapes
    BY <1>2, InputsAssumption DEF PathShapes
  <2>2. m_active_flows[id] \in FlowStates
    BY <1>2 DEF TypeOK, IsMap
  <2>3. [m_active_flows[id] EXCEPT !.paths = EqualWeights(n)] \in FlowStates
    BY <2>1, <2>2 DEF FlowStates
  <2> QED
    BY <1>2, <2>3, SetFlowKeepsType
<1> QED
  BY <1>1, <1>2 DEF EnablePacketSpraying

LEMMA PathsKeepType ==
  ASSUME TypeOK, NEW id \in FlowIds, NEW w \in WeightVectors, UpdateFlowPaths(id, w)
  PROVE  TypeOK'
<1>1. ListedWeights(w) \in PathShapes
  BY DEF PathShapes, GivenPaths, PathNumbers, ListedWeights
<1>2. m_active_flows[id] \in FlowStates
  BY DEF TypeOK, IsMap, UpdateFlowPaths
<1>3. [m_active_flows[id] EXCEPT !.paths = ListedWeights(w)] \in FlowStates
  BY <1>1, <1>2 DEF FlowStates
<1> QED
  BY <1>3, SetFlowKeepsType DEF UpdateFlowPaths

LEMMA PacketKeepsType ==
  ASSUME TypeOK, NEW p \in Packets, ProcessIncomingPacket(p)
  PROVE  TypeOK'
<1> DEFINE id    == ParsePacketFlowId(p)
           known == id \in DOMAIN m_active_flows
           flow  == IF known THEN m_active_flows[id]
                             ELSE NewFlow(m_settings["default_flow_mode"])
           stats == IF known /\ id \in DOMAIN m_flow_stats
                    THEN m_flow_stats[id] ELSE ZeroStats
<1>1. id \in FlowIds
  BY DEF FlowIds, ProcessIncomingPacket
<1>2. flow \in FlowStates
  <2>1. m_settings["default_flow_mode"] \in Accepted["default_flow_mode"]
    BY DEF TypeOK, Settings, SettingNames
  <2>2. NewFlow(m_settings["default_flow_mode"]) \in FlowStates
    BY <2>1, NewFlowType DEF TypeOK
  <2> QED
    BY <2>2 DEF TypeOK, IsMap
<1>3. stats \in FlowStats
  BY ZeroStatsType DEF TypeOK, IsMap
<1>4. /\ m_active_flows' = Put(m_active_flows, id, [flow EXCEPT !.last_activity = now])
      /\ m_flow_stats' = Put(m_flow_stats, id, [stats EXCEPT !.packets_received = @ + 1])
      /\ UNCHANGED <<m_settings, last_stats_update, last_cleanup, databases, now>>
  BY DEF ProcessIncomingPacket
<1>5. [flow EXCEPT !.last_activity = now] \in FlowStates
  BY <1>2 DEF TypeOK, FlowStates
<1>6. [stats EXCEPT !.packets_received = @ + 1] \in FlowStats
  BY <1>3, CountedType
<1> HIDE DEF id, known, flow, stats
<1>7. IsMap(m_active_flows', FlowIds, FlowStates)
  BY <1>1, <1>4, <1>5, PutType DEF TypeOK
<1>8. IsMap(m_flow_stats', FlowIds, FlowStats)
  BY <1>1, <1>4, <1>6, PutType DEF TypeOK
<1> QED
  BY <1>4, <1>7, <1>8 DEF TypeOK, databases

LEMMA SampleKeepsType ==
  ASSUME TypeOK, NEW id \in FlowIds, NEW r \in RttSamples, UpdateFlowRTT(id, r)
  PROVE  TypeOK'
<1>1. r \in Nat
  BY InputsAssumption
<1>2. m_flow_stats[id] \in FlowStats
  BY DEF TypeOK, IsMap, UpdateFlowRTT
<1>3. [m_flow_stats[id] EXCEPT !.rtt = UpdateRtt(@, r)] \in FlowStats
  BY <1>1, <1>2, SampledType
<1>4. IsMap(m_flow_stats', FlowIds, FlowStats)
  BY <1>3, PutType DEF TypeOK, UpdateFlowRTT
<1> QED
  BY <1>4 DEF TypeOK, UpdateFlowRTT, databases

(***************************************************************************)
(* What a publication writes: a row per statistics entry, over the rows    *)
(* there are.                                                              *)
(***************************************************************************)
LEMMA PublishedRowsValue ==
  ASSUME TypeOK
  PROVE  /\ IsMap(PublishedRows, FlowIds, Nat)
         /\ DOMAIN PublishedRows = DOMAIN state_rows \cup DOMAIN m_flow_stats
         /\ \A id \in DOMAIN m_flow_stats :
              PublishedRows[id] = m_flow_stats[id].packets_received
         /\ \A id \in DOMAIN state_rows \ DOMAIN m_flow_stats :
              PublishedRows[id] = state_rows[id]
<1> DEFINE counts == [id \in DOMAIN m_flow_stats |-> m_flow_stats[id].packets_received]
<1>1. IsMap(counts, FlowIds, Nat)
  BY DEF TypeOK, IsMap, FlowStats
<1>2. PublishedRows = PutAll(state_rows, counts)
  BY DEF PublishedRows
<1>3. /\ DOMAIN counts = DOMAIN m_flow_stats
      /\ \A id \in DOMAIN counts : counts[id] = m_flow_stats[id].packets_received
  OBVIOUS
<1> HIDE DEF counts
<1>4. IsMap(PublishedRows, FlowIds, Nat)
  BY <1>1, <1>2, PutAllType DEF TypeOK
<1>5. /\ DOMAIN PublishedRows = DOMAIN state_rows \cup DOMAIN counts
      /\ \A x \in DOMAIN counts : PublishedRows[x] = counts[x]
      /\ \A x \in DOMAIN state_rows \ DOMAIN counts : PublishedRows[x] = state_rows[x]
  BY <1>2 DEF PutAll
<1> QED
  BY <1>3, <1>4, <1>5

LEMMA PeriodicKeepsType ==
  ASSUME TypeOK, DoPeriodicTask
  PROVE  TypeOK'
<1>1. PICK rows \in {PublishedRows, state_rows}, gone \in SUBSET DOMAIN m_active_flows,
           old \in SUBSET DOMAIN state_rows :
        /\ m_active_flows' = Without(m_active_flows, gone)
        /\ m_flow_stats' = Without(m_flow_stats, gone)
        /\ state_rows' = Without(rows, gone)
        /\ inherited' = old \ gone
  BY DEF DoPeriodicTask, ExpiredFlows, StatsWithout, RowsWithout, TypeOK
<1>2. IsMap(rows, FlowIds, Nat) /\ DOMAIN state_rows \subseteq DOMAIN rows
  BY PublishedRowsValue DEF TypeOK
<1>3. /\ IsMap(m_active_flows', FlowIds, FlowStates)
      /\ IsMap(m_flow_stats', FlowIds, FlowStats)
      /\ IsMap(state_rows', FlowIds, Nat)
  BY <1>1, <1>2, WithoutType DEF TypeOK
<1>4. inherited' \subseteq DOMAIN state_rows'
  BY <1>1, <1>2, WithoutDomain
<1>5. last_stats_update' \in Clock \cup {0} /\ last_cleanup' \in Clock \cup {0}
  BY DEF DoPeriodicTask, TypeOK
<1> QED
  BY <1>3, <1>4, <1>5 DEF TypeOK, DoPeriodicTask

(***************************************************************************)
(* The type invariant: no sequence of calls, clock settings and restarts   *)
(* puts a setting out of its range or an unnameable flow into a table.     *)
(***************************************************************************)
THEOREM TypeCorrect == Spec => []TypeOK
<1>1. Init => TypeOK
  BY InitType
<1>2. TypeOK /\ [Next]_vars => TypeOK'
  <2> SUFFICES ASSUME TypeOK, [Next]_vars
               PROVE  TypeOK'
    OBVIOUS
  <2>1. ASSUME NEW entry \in ConfigEntries, ProcessTransportConfig(entry)
        PROVE  TypeOK'
    BY <2>1, ConfigKeepsType
  <2>2. ASSUME NEW id \in FlowIds, NEW mode \in Accepted["default_flow_mode"],
               CreateFlow(id, mode)
        PROVE  TypeOK'
    BY <2>2, CreateKeepsType
  <2>3. ASSUME NEW id \in FlowIds, RemoveFlow(id)
        PROVE  TypeOK'
    BY <2>3, RemoveKeepsType
  <2>4. ASSUME NEW id \in FlowIds, NEW state \in GivenStates, UpdateFlowState(id, state)
        PROVE  TypeOK'
    <3>1. [state EXCEPT !.last_activity = now] \in FlowStates
      BY DEF TypeOK, FlowStates, GivenStates
    <3> QED
      BY <2>4, <3>1, SetFlowKeepsType DEF UpdateFlowState
  <2>5. ASSUME NEW id \in FlowIds, NEW n \in PathCounts, EnablePacketSpraying(id, n)
        PROVE  TypeOK'
    BY <2>5, SprayingKeepsType
  <2>6. ASSUME NEW id \in FlowIds, NEW w \in WeightVectors, UpdateFlowPaths(id, w)
        PROVE  TypeOK'
    BY <2>6, PathsKeepType
  <2>7. ASSUME NEW p \in Packets, ProcessIncomingPacket(p)
        PROVE  TypeOK'
    BY <2>7, PacketKeepsType
  <2>8. ASSUME NEW id \in FlowIds, NEW r \in RttSamples, UpdateFlowRTT(id, r)
        PROVE  TypeOK'
    BY <2>8, SampleKeepsType
  <2>9. CASE DoPeriodicTask
    BY <2>9, PeriodicKeepsType
  <2>10. CASE ClockStep
    BY <2>10 DEF TypeOK, ClockStep, memory, databases
  <2>11. CASE Restart
    BY <2>11, RestartKeepsType
  <2>12. CASE UNCHANGED vars
    BY <2>12 DEF TypeOK, vars, memory, databases
  <2> QED
    BY <2>1, <2>2, <2>3, <2>4, <2>5, <2>6, <2>7, <2>8, <2>9, <2>10, <2>11, <2>12
       DEF Next
<1> QED
  BY <1>1, <1>2, PTL DEF Spec

-----------------------------------------------------------------------------
(* The steps, by what they do to the tables and the published rows.        *)

\* The packets counted for each flow with statistics.
Counts == [id \in DOMAIN m_flow_stats |-> m_flow_stats[id].packets_received]

Quiet ==
  /\ Counts' = Counts
  /\ DOMAIN m_active_flows' = DOMAIN m_active_flows
  /\ UNCHANGED <<state_rows, inherited>>

Opens(id) ==
  /\ MayCreate(id)
  /\ id \notin DOMAIN Counts
  /\ Counts' = Put(Counts, id, 0)
  /\ DOMAIN m_active_flows' = DOMAIN m_active_flows \cup {id}
  /\ UNCHANGED <<state_rows, inherited>>

Receives(id) ==
  /\ id \in DOMAIN m_active_flows \/ MayCreate(id)
  /\ Counts' = Put(Counts, id, (IF id \in DOMAIN Counts THEN Counts[id] ELSE 0) + 1)
  /\ DOMAIN m_active_flows' = DOMAIN m_active_flows \cup {id}
  /\ UNCHANGED <<state_rows, inherited>>

Forgets(report, ids) ==
  /\ Counts' = Without(Counts, ids)
  /\ DOMAIN m_active_flows' = DOMAIN m_active_flows \ ids
  /\ state_rows' = Without(IF report THEN PutAll(state_rows, Counts)
                                     ELSE state_rows, ids)
  /\ inherited' = (IF report THEN inherited \ DOMAIN Counts ELSE inherited) \ ids

Dies ==
  /\ Counts' = EmptyMap
  /\ DOMAIN m_active_flows' = {}
  /\ state_rows' = state_rows
  /\ inherited' = DOMAIN state_rows

(***************************************************************************)
(* Each method is a step of one of these kinds.                            *)
(***************************************************************************)
LEMMA CreateOpens ==
  ASSUME FlowsAndStatsAgree, NEW id, NEW mode, CreateFlow(id, mode)
  PROVE  Opens(id)
<1>1. id \notin DOMAIN m_flow_stats
  BY DEF CreateFlow, MayCreate, FlowsAndStatsAgree
<1>2. Counts' = Put(Counts, id, 0)
  BY DEF CreateFlow, Counts, Put, ZeroStats
<1> QED
  BY <1>1, <1>2, PutDomain DEF Opens, CreateFlow, Counts, databases

LEMMA RemoveForgets ==
  ASSUME NEW id, RemoveFlow(id)
  PROVE  Forgets(FALSE, {id})
<1>1. Counts' = Without(Counts, {id})
  BY DEF RemoveFlow, StatsWithout, Counts, Without, Restrict
<1> QED
  BY <1>1, WithoutDomain DEF Forgets, RemoveFlow, RowsWithout

LEMMA SetFlowIsQuiet ==
  ASSUME NEW id, NEW state, SetFlow(id, state)
  PROVE  Quiet
<1>1. DOMAIN m_active_flows' = DOMAIN m_active_flows
  BY DEF SetFlow, Put
<1> QED
  BY <1>1 DEF Quiet, SetFlow, Counts, databases

LEMMA RestartDies ==
  ASSUME Restart
  PROVE  Dies
  BY DEF Dies, Restart, Counts, EmptyMap

LEMMA PacketReceives ==
  ASSUME TypeOK, FlowsAndStatsAgree, NEW p \in Packets, ProcessIncomingPacket(p)
  PROVE  \E id \in FlowIds : Receives(id)
<1> DEFINE id    == ParsePacketFlowId(p)
           stats == IF id \in DOMAIN m_flow_stats THEN m_flow_stats[id] ELSE ZeroStats
<1>1. id \in FlowIds
  BY DEF FlowIds, ProcessIncomingPacket
<1>2. /\ m_flow_stats' = Put(m_flow_stats, id, [stats EXCEPT !.packets_received = @ + 1])
      /\ DOMAIN m_active_flows' = DOMAIN m_active_flows \cup {id}
      /\ id \in DOMAIN m_active_flows \/ MayCreate(id)
      /\ UNCHANGED <<state_rows, inherited>>
  BY PutDomain DEF ProcessIncomingPacket, FlowsAndStatsAgree, databases
<1>3. stats \in FlowStats
  BY ZeroStatsType DEF TypeOK, IsMap
<1>4. stats.packets_received = IF id \in DOMAIN Counts THEN Counts[id] ELSE 0
  BY DEF Counts, ZeroStats
<1>5. [stats EXCEPT !.packets_received = @ + 1].packets_received
        = stats.packets_received + 1
  BY <1>3 DEF FlowStats
<1> HIDE DEF id, stats
<1>6. Counts' = Put(Counts, id, stats.packets_received + 1)
  BY <1>2, <1>5 DEF Counts, Put
<1> QED
  BY <1>1, <1>2, <1>4, <1>6 DEF Receives

LEMMA SampleIsQuiet ==
  ASSUME TypeOK, NEW id, NEW r, UpdateFlowRTT(id, r)
  PROVE  Quiet
<1> DEFINE new == [m_flow_stats[id] EXCEPT !.rtt = UpdateRtt(@, r)]
<1>1. m_flow_stats[id] \in FlowStats
  BY DEF TypeOK, IsMap, UpdateFlowRTT
<1>2. new.packets_received = m_flow_stats[id].packets_received
  BY <1>1 DEF FlowStats
<1>3. id \in DOMAIN m_flow_stats /\ m_flow_stats' = Put(m_flow_stats, id, new)
  BY DEF UpdateFlowRTT
<1> HIDE DEF new
<1>4. /\ DOMAIN m_flow_stats' = DOMAIN m_flow_stats
      /\ \A x \in DOMAIN m_flow_stats :
           m_flow_stats'[x].packets_received = m_flow_stats[x].packets_received
  BY <1>2, <1>3 DEF Put
<1>5. Counts' = Counts
  BY <1>4 DEF Counts
<1> QED
  BY <1>5 DEF Quiet, UpdateFlowRTT, databases

LEMMA PeriodicForgets ==
  ASSUME TypeOK, DoPeriodicTask
  PROVE  \E report \in BOOLEAN, ids \in SUBSET FlowIds : Forgets(report, ids)
<1> DEFINE report == now - last_stats_update >= StatsPeriod
           ids    == IF now - last_cleanup >= CleanupPeriod THEN ExpiredFlows ELSE {}
<1>1. /\ m_active_flows' = Without(m_active_flows, ids)
      /\ m_flow_stats' = Without(m_flow_stats, ids)
      /\ state_rows' = Without(IF report THEN PublishedRows ELSE state_rows, ids)
      /\ inherited' = (IF report THEN inherited \ DOMAIN m_flow_stats
                                 ELSE inherited) \ ids
  BY DEF DoPeriodicTask, StatsWithout, RowsWithout
<1>2. report \in BOOLEAN /\ ids \in SUBSET FlowIds
  BY DEF ExpiredFlows, TypeOK, IsMap
<1>3. PublishedRows = PutAll(state_rows, Counts) /\ DOMAIN Counts = DOMAIN m_flow_stats
  BY DEF PublishedRows, Counts
<1> HIDE DEF report, ids
<1>4. Counts' = Without(Counts, ids)
  BY <1>1 DEF Counts, Without, Restrict
<1>5. DOMAIN m_active_flows' = DOMAIN m_active_flows \ ids
  BY <1>1, WithoutDomain
<1> QED
  BY <1>1, <1>2, <1>3, <1>4, <1>5 DEF Forgets

(***************************************************************************)
(* Every step of the manager opens a flow, counts a packet, forgets flows  *)
(* after a report or without, loses everything, or leaves all this alone.  *)
(***************************************************************************)
LEMMA KindsOfSteps ==
  ASSUME TypeOK, FlowsAndStatsAgree, [Next]_vars
  PROVE  \/ Quiet
         \/ \E id \in FlowIds : Opens(id) \/ Receives(id)
         \/ \E report \in BOOLEAN, ids \in SUBSET FlowIds : Forgets(report, ids)
         \/ Dies
<1>1. ASSUME NEW entry \in ConfigEntries, ProcessTransportConfig(entry)
      PROVE  Quiet
  BY <1>1 DEF ProcessTransportConfig, Quiet, Counts
<1>2. ASSUME NEW id \in FlowIds, NEW mode, CreateFlow(id, mode)
      PROVE  Opens(id)
  BY <1>2, CreateOpens
<1>3. ASSUME NEW id \in FlowIds, RemoveFlow(id)
      PROVE  Forgets(FALSE, {id})
  BY <1>3, RemoveForgets
<1>4. ASSUME NEW id \in FlowIds, NEW state, UpdateFlowState(id, state)
      PROVE  Quiet
  BY <1>4, SetFlowIsQuiet DEF UpdateFlowState
<1>5. ASSUME NEW id \in FlowIds, NEW n, EnablePacketSpraying(id, n)
      PROVE  Quiet \/ Dies
  BY <1>5, SetFlowIsQuiet, RestartDies DEF EnablePacketSpraying
<1>6. ASSUME NEW id \in FlowIds, NEW w, UpdateFlowPaths(id, w)
      PROVE  Quiet
  BY <1>6, SetFlowIsQuiet DEF UpdateFlowPaths
<1>7. ASSUME NEW p \in Packets, ProcessIncomingPacket(p)
      PROVE  \E id \in FlowIds : Receives(id)
  BY <1>7, PacketReceives
<1>8. ASSUME NEW id \in FlowIds, NEW r, UpdateFlowRTT(id, r)
      PROVE  Quiet
  BY <1>8, SampleIsQuiet
<1>9. CASE DoPeriodicTask
  BY <1>9, PeriodicForgets
<1>10. CASE ClockStep
  BY <1>10 DEF ClockStep, Quiet, Counts, memory, databases
<1>11. CASE Restart
  BY <1>11, RestartDies
<1>12. CASE UNCHANGED vars
  BY <1>12 DEF vars, Quiet, Counts, memory, databases
<1> QED
  BY <1>1, <1>2, <1>3, <1>4, <1>5, <1>6, <1>7, <1>8, <1>9, <1>10, <1>11, <1>12 DEF Next

-----------------------------------------------------------------------------
(* Safety.                                                                 *)

(***************************************************************************)
(* The tables of flows and of statistics never come apart.                 *)
(***************************************************************************)
THEOREM TablesAgree == Spec => []FlowsAndStatsAgree
<1>1. Init => FlowsAndStatsAgree
  BY DEF Init, InitialMemory, FlowsAndStatsAgree
<1>2. TypeOK /\ FlowsAndStatsAgree /\ [Next]_vars => FlowsAndStatsAgree'
  <2> SUFFICES ASSUME TypeOK, FlowsAndStatsAgree, [Next]_vars
               PROVE  DOMAIN m_active_flows' = DOMAIN Counts'
    BY DEF FlowsAndStatsAgree, Counts
  <2>1. DOMAIN m_active_flows = DOMAIN Counts
    BY DEF FlowsAndStatsAgree, Counts
  <2>2. CASE Quiet
    BY <2>1, <2>2 DEF Quiet
  <2>3. ASSUME NEW id, Opens(id) \/ Receives(id)
        PROVE  DOMAIN m_active_flows' = DOMAIN Counts'
    BY <2>1, <2>3 DEF Opens, Receives, Put
  <2>4. ASSUME NEW report, NEW ids, Forgets(report, ids)
        PROVE  DOMAIN m_active_flows' = DOMAIN Counts'
    BY <2>1, <2>4 DEF Forgets, Without, Restrict
  <2>5. CASE Dies
    BY <2>5, EmptyMapType DEF Dies
  <2> QED
    BY <2>2, <2>3, <2>4, <2>5, KindsOfSteps
<1> QED
  BY <1>1, <1>2, TypeCorrect, PTL DEF Spec

(***************************************************************************)
(* The rows of this process, in terms of the counters.                     *)
(***************************************************************************)
LEMMA CountsType ==
  ASSUME TypeOK
  PROVE  /\ \A id \in DOMAIN Counts : Counts[id] \in Nat
         /\ \A id \in DOMAIN state_rows : state_rows[id] \in Nat
         /\ inherited \subseteq DOMAIN state_rows
  BY DEF TypeOK, IsMap, Counts, FlowStats

RowsBehindCounts ==
  \A id \in DOMAIN state_rows \ inherited :
    id \in DOMAIN Counts /\ state_rows[id] <= Counts[id]

LEMMA RowsInCounts == RowsShowLiveFlows <=> RowsBehindCounts
  BY DEF RowsShowLiveFlows, RowsBehindCounts, Counts

(***************************************************************************)
(* Every row this process published is of a flow it tracks and not ahead   *)
(* of its counter.                                                         *)
(***************************************************************************)
THEOREM RowsFollowFlows == Spec => []RowsShowLiveFlows
<1>1. Init => RowsShowLiveFlows
  BY EmptyMapType DEF Init, InitialMemory, RowsShowLiveFlows
<1>2. TypeOK /\ FlowsAndStatsAgree /\ RowsShowLiveFlows /\ [Next]_vars
        => RowsShowLiveFlows'
  <2> SUFFICES ASSUME TypeOK, FlowsAndStatsAgree, RowsBehindCounts, [Next]_vars
               PROVE  RowsBehindCounts'
    BY RowsInCounts DEF RowsShowLiveFlows, RowsBehindCounts, Counts
  <2>1. CASE Quiet
    BY <2>1 DEF Quiet, RowsBehindCounts
  <2>2. ASSUME NEW id, Opens(id)
        PROVE  RowsBehindCounts'
    BY <2>2 DEF Opens, RowsBehindCounts, Put
  <2>3. ASSUME NEW id, Receives(id)
        PROVE  RowsBehindCounts'
    BY <2>3, CountsType DEF Receives, RowsBehindCounts, Put
  <2>4. ASSUME NEW report \in BOOLEAN, NEW ids, Forgets(report, ids)
        PROVE  RowsBehindCounts'
    <3>1. CASE report
      <4>1. /\ Counts' = Without(Counts, ids)
            /\ state_rows' = Without(PutAll(state_rows, Counts), ids)
            /\ inherited' = (inherited \ DOMAIN Counts) \ ids
        BY <2>4, <3>1 DEF Forgets
      <4>2. SUFFICES ASSUME NEW id \in DOMAIN state_rows' \ inherited'
                     PROVE  id \in DOMAIN Counts' /\ state_rows'[id] <= Counts'[id]
        BY DEF RowsBehindCounts
      <4>3. id \notin ids /\ id \in DOMAIN state_rows \cup DOMAIN Counts
        BY <4>1 DEF Without, Restrict, PutAll
      <4>4. id \in DOMAIN Counts
        BY <4>1, <4>2, <4>3 DEF RowsBehindCounts
      <4>5. state_rows'[id] = Counts[id] /\ id \in DOMAIN Counts' /\ Counts'[id] = Counts[id]
        BY <4>1, <4>3, <4>4 DEF Without, Restrict, PutAll
      <4> QED
        BY <4>4, <4>5, CountsType
    <3>2. CASE ~report
      BY <2>4, <3>2 DEF Forgets, RowsBehindCounts, Without, Restrict
    <3> QED
      BY <3>1, <3>2
  <2>5. CASE Dies
    BY <2>5 DEF Dies, RowsBehindCounts
  <2> QED
    BY <2>1, <2>2, <2>3, <2>4, <2>5, KindsOfSteps
<1> QED
  BY <1>1, <1>2, TypeCorrect, TablesAgree, PTL DEF Spec

(***************************************************************************)
(* The count a reader sees of a flow never falls, restarts aside.          *)
(***************************************************************************)
THEOREM CountsNeverFall == Spec => PublishedNeverRegresses
<1> DEFINE Step == \A id \in DOMAIN state_rows \cap DOMAIN state_rows' :
                     id \notin inherited => state_rows[id] <= state_rows'[id]
<1>1. TypeOK /\ FlowsAndStatsAgree /\ RowsShowLiveFlows /\ [Next]_vars => Step
  <2> SUFFICES ASSUME TypeOK, FlowsAndStatsAgree, RowsBehindCounts, [Next]_vars,
                      NEW id \in DOMAIN state_rows \cap DOMAIN state_rows',
                      id \notin inherited
               PROVE  state_rows[id] <= state_rows'[id]
    BY RowsInCounts
  <2>1. CASE state_rows' = state_rows
    BY <2>1, CountsType
  <2>2. ASSUME NEW report \in BOOLEAN, NEW ids, Forgets(report, ids)
        PROVE  state_rows[id] <= state_rows'[id]
    <3>1. CASE report
      <4>1. state_rows' = Without(PutAll(state_rows, Counts), ids)
        BY <2>2, <3>1 DEF Forgets
      <4>2. id \in DOMAIN Counts /\ state_rows[id] <= Counts[id]
        BY DEF RowsBehindCounts
      <4>3. state_rows'[id] = Counts[id]
        BY <4>1, <4>2 DEF Without, Restrict, PutAll
      <4> QED
        BY <4>2, <4>3
    <3>2. CASE ~report
      <4>1. state_rows' = Without(state_rows, ids)
        BY <2>2, <3>2 DEF Forgets
      <4>2. state_rows'[id] = state_rows[id]
        BY <4>1 DEF Without, Restrict
      <4> QED
        BY <4>2, CountsType
    <3> QED
      BY <3>1, <3>2
  <2> QED
    BY <2>1, <2>2, KindsOfSteps DEF Quiet, Opens, Receives, Dies
<1>2. TypeOK /\ FlowsAndStatsAgree /\ RowsShowLiveFlows /\ [Next]_vars => [Step]_vars
  BY <1>1
<1> QED
  BY <1>2, TypeCorrect, TablesAgree, RowsFollowFlows, PTL
     DEF Spec, PublishedNeverRegresses

(***************************************************************************)
(* The tables stay finite, so that their size is a number.                 *)
(***************************************************************************)
FiniteTable == IsFiniteSet(DOMAIN m_active_flows)

LEMMA TableIsFinite == Spec => []FiniteTable
<1>1. Init => FiniteTable
  BY EmptyMapType, FS_EmptySet DEF Init, InitialMemory, FiniteTable
<1>2. TypeOK /\ FlowsAndStatsAgree /\ FiniteTable /\ [Next]_vars => FiniteTable'
  <2> SUFFICES ASSUME TypeOK, FlowsAndStatsAgree, FiniteTable, [Next]_vars
               PROVE  IsFiniteSet(DOMAIN m_active_flows')
    BY DEF FiniteTable
  <2>1. CASE Quiet \/ Dies
    BY <2>1, FS_EmptySet DEF Quiet, Dies, FiniteTable
  <2>2. ASSUME NEW id, Opens(id) \/ Receives(id)
        PROVE  IsFiniteSet(DOMAIN m_active_flows')
    BY <2>2, FS_AddElement DEF Opens, Receives, FiniteTable
  <2>3. ASSUME NEW report, NEW ids, Forgets(report, ids)
        PROVE  IsFiniteSet(DOMAIN m_active_flows')
    BY <2>3, FS_Subset DEF Forgets, FiniteTable
  <2> QED
    BY <2>1, <2>2, <2>3, KindsOfSteps
<1> QED
  BY <1>1, <1>2, TypeCorrect, TablesAgree, PTL DEF Spec

(***************************************************************************)
(* A step that makes the table grow ends at or below the limit in force,   *)
(* even if the limit was lowered below the size of the table before.       *)
(***************************************************************************)
THEOREM GrowthIsLimited == Spec => GrowthRespectsLimit
<1> DEFINE Step ==
      Cardinality(DOMAIN m_active_flows') > Cardinality(DOMAIN m_active_flows)
        => Cardinality(DOMAIN m_active_flows') <= m_settings["max_flows"]
<1>1. TypeOK /\ FlowsAndStatsAgree /\ FiniteTable /\ [Next]_vars => Step
  <2> SUFFICES ASSUME TypeOK, FlowsAndStatsAgree, FiniteTable, [Next]_vars,
                      Cardinality(DOMAIN m_active_flows')
                        > Cardinality(DOMAIN m_active_flows)
               PROVE  Cardinality(DOMAIN m_active_flows') <= m_settings["max_flows"]
    OBVIOUS
  <2>1. Cardinality(DOMAIN m_active_flows) \in Nat
    BY FS_CardinalityType DEF FiniteTable
  <2>2. m_settings["max_flows"] \in Nat
    BY SettingsAssumption DEF TypeOK, Settings, SettingNames
  <2>3. ASSUME NEW id, DOMAIN m_active_flows' = DOMAIN m_active_flows \cup {id},
               id \in DOMAIN m_active_flows \/ MayCreate(id)
        PROVE  Cardinality(DOMAIN m_active_flows') <= m_settings["max_flows"]
    <3>1. Cardinality(DOMAIN m_active_flows') =
            IF id \in DOMAIN m_active_flows THEN Cardinality(DOMAIN m_active_flows)
                                            ELSE Cardinality(DOMAIN m_active_flows) + 1
      BY <2>3, FS_AddElement DEF FiniteTable
    <3>2. MayCreate(id) /\ id \notin DOMAIN m_active_flows
      BY <2>1, <2>3, <3>1
    <3> QED
      BY <2>1, <2>2, <3>1, <3>2 DEF MayCreate
  <2>4. ASSUME DOMAIN m_active_flows' \subseteq DOMAIN m_active_flows
        PROVE  FALSE
    <3>1. /\ Cardinality(DOMAIN m_active_flows') <= Cardinality(DOMAIN m_active_flows)
          /\ IsFiniteSet(DOMAIN m_active_flows')
      BY <2>4, FS_Subset DEF FiniteTable
    <3>2. Cardinality(DOMAIN m_active_flows') \in Nat
      BY <3>1, FS_CardinalityType
    <3> QED
      BY <2>1, <3>1, <3>2
  <2> QED
    BY <2>3, <2>4, KindsOfSteps DEF Quiet, Opens, Receives, Forgets, Dies
<1>2. TypeOK /\ FlowsAndStatsAgree /\ FiniteTable /\ [Next]_vars => [Step]_vars
  BY <1>1
<1> QED
  BY <1>2, TypeCorrect, TablesAgree, TableIsFinite, PTL DEF Spec, GrowthRespectsLimit

(***************************************************************************)
(* Settings other than the defaults are always those APPL_DB shows.        *)
(***************************************************************************)
THEOREM ConfigIsPublished == Spec => []ConfigPublished
<1>1. Init => ConfigPublished
  BY DEF Init, InitialMemory, ConfigPublished
<1>2. ConfigPublished /\ [Next]_vars => ConfigPublished'
  <2> SUFFICES ASSUME ConfigPublished, [Next]_vars
               PROVE  ConfigPublished'
    OBVIOUS
  <2>1. ASSUME NEW entry, ProcessTransportConfig(entry)
        PROVE  ConfigPublished'
    BY <2>1 DEF ProcessTransportConfig, PublishedConfig, ConfigPublished
  <2>2. CASE Restart
    BY <2>2 DEF Restart, ConfigPublished
  <2>3. CASE UNCHANGED <<m_settings, appl_global>>
    BY <2>3 DEF ConfigPublished
  <2>4. ASSUME NEW id, NEW n, EnablePacketSpraying(id, n)
        PROVE  Restart \/ UNCHANGED <<m_settings, appl_global>>
    BY <2>4 DEF EnablePacketSpraying, SetFlow, databases
  <2>5. ASSUME NEW p, ProcessIncomingPacket(p)
        PROVE  UNCHANGED <<m_settings, appl_global>>
    BY <2>5 DEF ProcessIncomingPacket, databases
  <2> QED
    BY <2>1, <2>2, <2>3, <2>4, <2>5
       DEF Next, vars, memory, databases, CreateFlow, RemoveFlow, UpdateFlowState,
           UpdateFlowPaths, SetFlow, UpdateFlowRTT, DoPeriodicTask, ClockStep
<1> QED
  BY <1>1, <1>2, PTL DEF Spec

(***************************************************************************)
(* A share of 100 per cent among 1 to 100 paths is a weight.               *)
(***************************************************************************)
LEMMA SharesCarry ==
  ASSUME NEW n \in Nat, n > 0, n <= 100
  PROVE  Carries(EqualWeights(n))
<1>1. 100 \div n > 0 /\ 1 \in 1..n
  OBVIOUS
<1>2. EqualWeights(n).path_weights = [i \in 1..n |-> 100 \div n]
  BY DEF EqualWeights, Paths
<1>3. 1 \in DOMAIN EqualWeights(n).path_weights
  BY <1>1, <1>2
<1>4. EqualWeights(n).path_weights[1] > 0
  BY <1>1, <1>2
<1> QED
  BY <1>3, <1>4 DEF Carries

(***************************************************************************)
(* So are the four weights a new flow starts with.                         *)
(***************************************************************************)
LEMMA NewFlowCarries ==
  ASSUME NEW mode
  PROVE  Carries(NewFlow(mode).paths)
<1>1. NewFlow(mode).paths.path_weights = <<25, 25, 25, 25>>
  BY DEF NewFlow, DefaultPaths, Paths
<1>2. 1 \in DOMAIN NewFlow(mode).paths.path_weights
  BY <1>1
<1>3. NewFlow(mode).paths.path_weights[1] > 0
  BY <1>1
<1> QED
  BY <1>2, <1>3 DEF Carries

\* Flow id still carries after a step, if it did or is new.
WeightKept(id) ==
  \/ id \in DOMAIN m_active_flows /\ ~Carries(m_active_flows[id].paths)
  \/ Carries(m_active_flows'[id].paths)
  \/ WeightGivenUp(id)

(***************************************************************************)
(* The three calls that give a flow other paths.                           *)
(***************************************************************************)
LEMMA CallersChangePaths ==
  ASSUME TypeOK, NEW flow \in FlowIds, NEW id \in DOMAIN m_active_flows',
         \/ \E n \in PathCounts : EnablePacketSpraying(flow, n)
         \/ \E w \in WeightVectors : UpdateFlowPaths(flow, w)
         \/ \E state \in GivenStates : UpdateFlowState(flow, state)
  PROVE  WeightKept(id)
<1>1. ASSUME NEW state, SetFlow(flow, state)
      PROVE  /\ flow \in DOMAIN m_active_flows
             /\ id = flow => m_active_flows'[id] = state
             /\ id # flow => /\ id \in DOMAIN m_active_flows
                            /\ m_active_flows'[id] = m_active_flows[id]
  BY <1>1 DEF SetFlow, Put
<1>2. ASSUME flow \in DOMAIN m_active_flows, NEW paths
      PROVE  [m_active_flows[flow] EXCEPT !.paths = paths].paths = paths
  <2>1. m_active_flows[flow] \in FlowStates
    BY <1>2 DEF TypeOK, IsMap
  <2> QED
    BY <2>1 DEF FlowStates
<1>3. ASSUME NEW n \in PathCounts, EnablePacketSpraying(flow, n)
      PROVE  WeightKept(id)
  <2>1. CASE Restart
    BY <2>1, EmptyMapType DEF Restart
  <2>2. CASE n > 0 /\ SetFlow(flow, [m_active_flows[flow] EXCEPT !.paths = EqualWeights(n)])
    <3>1. CASE id # flow
      BY <1>1, <2>2, <3>1 DEF WeightKept
    <3>2. CASE id = flow /\ n > 100
      BY <1>3, <3>2 DEF WeightKept, WeightGivenUp
    <3>3. CASE id = flow /\ ~(n > 100)
      <4>1. m_active_flows'[id].paths = EqualWeights(n)
        BY <1>1, <1>2, <2>2, <3>3
      <4>2. Carries(EqualWeights(n))
        BY <2>2, <3>3, SharesCarry, InputsAssumption
      <4> QED
        BY <4>1, <4>2 DEF WeightKept
    <3> QED
      BY <3>1, <3>2, <3>3
  <2> QED
    BY <1>3, <2>1, <2>2 DEF EnablePacketSpraying
<1>4. ASSUME NEW w \in WeightVectors, UpdateFlowPaths(flow, w)
      PROVE  WeightKept(id)
  <2>1. SetFlow(flow, [m_active_flows[flow] EXCEPT !.paths = ListedWeights(w)])
    BY <1>4 DEF UpdateFlowPaths
  <2>2. CASE id # flow
    BY <1>1, <2>1, <2>2 DEF WeightKept
  <2>3. CASE id = flow
    <3>1. m_active_flows'[id].paths = ListedWeights(w)
      BY <1>1, <1>2, <2>1, <2>3
    <3> QED
      BY <1>4, <2>3, <3>1 DEF WeightKept, WeightGivenUp
  <2> QED
    BY <2>2, <2>3
<1>5. ASSUME NEW state \in GivenStates, UpdateFlowState(flow, state)
      PROVE  WeightKept(id)
  <2>1. SetFlow(flow, [state EXCEPT !.last_activity = now])
    BY <1>5 DEF UpdateFlowState
  <2>2. [state EXCEPT !.last_activity = now].paths = state.paths
    BY DEF FlowStates, GivenStates
  <2>3. CASE id # flow
    BY <1>1, <2>1, <2>3 DEF WeightKept
  <2>4. CASE id = flow
    <3>1. m_active_flows'[id].paths = state.paths
      BY <1>1, <2>1, <2>2, <2>4
    <3> QED
      BY <1>5, <2>4, <3>1 DEF WeightKept, WeightGivenUp
  <2> QED
    BY <2>3, <2>4
<1> QED
  BY <1>3, <1>4, <1>5

(***************************************************************************)
(* A packet leaves the paths of its flow alone, or opens it with paths of  *)
(* its own.                                                                *)
(***************************************************************************)
LEMMA PacketKeepsWeight ==
  ASSUME TypeOK, NEW p \in Packets, ProcessIncomingPacket(p),
         NEW id \in DOMAIN m_active_flows'
  PROVE  WeightKept(id)
<1> DEFINE flow == ParsePacketFlowId(p)
           mode == m_settings["default_flow_mode"]
           old  == IF flow \in DOMAIN m_active_flows THEN m_active_flows[flow]
                   ELSE NewFlow(mode)
           new  == [old EXCEPT !.last_activity = now]
<1>1. m_active_flows' = Put(m_active_flows, flow, new)
  BY DEF ProcessIncomingPacket
<1>2. old \in FlowStates
  <2>1. mode \in Accepted["default_flow_mode"]
    BY SettingsAssumption DEF TypeOK, Settings, SettingNames
  <2>2. flow \notin DOMAIN m_active_flows => old \in FlowStates
    BY <2>1, NewFlowType DEF TypeOK
  <2>3. flow \in DOMAIN m_active_flows => old \in FlowStates
    BY DEF TypeOK, IsMap
  <2> QED
    BY <2>2, <2>3
<1>3. new.paths = old.paths
  BY <1>2 DEF FlowStates
<1>4. flow \notin DOMAIN m_active_flows => Carries(old.paths)
  BY NewFlowCarries
<1>5. flow \in DOMAIN m_active_flows => old = m_active_flows[flow]
  OBVIOUS
<1> HIDE DEF flow, old, new
<1>6. CASE id = flow
  BY <1>1, <1>3, <1>4, <1>5, <1>6 DEF WeightKept, Put
<1>7. CASE id # flow
  BY <1>1, <1>7 DEF WeightKept, Put
<1> QED
  BY <1>6, <1>7

(***************************************************************************)
(* Whatever callers list or hand over, the manager takes the last weight   *)
(* from no flow by itself.                                                 *)
(***************************************************************************)
THEOREM WeightIsKept == Spec => WeightKeptUnlessGivenUp
<1>1. ASSUME TypeOK, [Next]_vars, NEW id \in DOMAIN m_active_flows'
      PROVE  WeightKept(id)
  <2>1. CASE UNCHANGED m_active_flows
    BY <1>1, <2>1 DEF WeightKept
  <2>2. ASSUME NEW flow, NEW mode, CreateFlow(flow, mode)
        PROVE  WeightKept(id)
    <3>1. m_active_flows' = Put(m_active_flows, flow, NewFlow(mode))
      BY <2>2 DEF CreateFlow
    <3> QED
      BY <1>1, <3>1, NewFlowCarries DEF WeightKept, Put
  <2>3. ASSUME NEW ids, m_active_flows' = Without(m_active_flows, ids)
        PROVE  WeightKept(id)
    BY <1>1, <2>3 DEF Without, Restrict, WeightKept
  <2>4. ASSUME Restart
        PROVE  WeightKept(id)
    BY <1>1, <2>4, EmptyMapType DEF Restart
  <2>5. ASSUME NEW flow \in FlowIds,
               \/ \E n \in PathCounts : EnablePacketSpraying(flow, n)
               \/ \E w \in WeightVectors : UpdateFlowPaths(flow, w)
               \/ \E state \in GivenStates : UpdateFlowState(flow, state)
        PROVE  WeightKept(id)
    BY <1>1, <2>5, CallersChangePaths
  <2>6. ASSUME NEW p \in Packets, ProcessIncomingPacket(p)
        PROVE  WeightKept(id)
    BY <1>1, <2>6, PacketKeepsWeight
  <2>7. ASSUME NEW flow, RemoveFlow(flow)
        PROVE  \E ids : m_active_flows' = Without(m_active_flows, ids)
    BY <2>7 DEF RemoveFlow
  <2>8. ASSUME DoPeriodicTask
        PROVE  \E ids : m_active_flows' = Without(m_active_flows, ids)
    BY <2>8 DEF DoPeriodicTask
  <2> QED
    BY <1>1, <2>1, <2>2, <2>3, <2>4, <2>5, <2>6, <2>7, <2>8
       DEF Next, vars, memory, ProcessTransportConfig, UpdateFlowRTT, ClockStep
<1>2. TypeOK /\ [Next]_vars =>
        [\A id \in DOMAIN m_active_flows' :
           \/ id \in DOMAIN m_active_flows /\ ~Carries(m_active_flows[id].paths)
           \/ Carries(m_active_flows'[id].paths)
           \/ WeightGivenUp(id)]_vars
  BY <1>1 DEF WeightKept
<1> QED
  BY <1>2, TypeCorrect, PTL DEF Spec, WeightKeptUnlessGivenUp

-----------------------------------------------------------------------------
(* Round-trip times.                                                       *)

\* The statistics of id after a step: fresh for a new flow, untouched, or one
\* sample older.
RttStep(id) ==
  \/ id \notin DOMAIN m_flow_stats /\ m_flow_stats'[id].rtt = NoRtt
  \/ /\ id \in DOMAIN m_flow_stats
     /\ \/ m_flow_stats'[id].rtt = m_flow_stats[id].rtt
        \/ \E r \in RttSamples :
             m_flow_stats'[id].rtt = UpdateRtt(m_flow_stats[id].rtt, r)

(***************************************************************************)
(* No method but updateFlowRTT touches the times of a flow it keeps.       *)
(***************************************************************************)
LEMMA PacketKeepsRtt ==
  ASSUME TypeOK, FlowsAndStatsAgree, NEW p \in Packets, ProcessIncomingPacket(p),
         NEW id \in DOMAIN m_flow_stats'
  PROVE  RttStep(id)
<1> DEFINE flow  == ParsePacketFlowId(p)
           stats == IF flow \in DOMAIN m_active_flows /\ flow \in DOMAIN m_flow_stats
                    THEN m_flow_stats[flow] ELSE ZeroStats
           new   == [stats EXCEPT !.packets_received = @ + 1]
<1>1. m_flow_stats' = Put(m_flow_stats, flow, new)
  BY DEF ProcessIncomingPacket
<1>2. stats \in FlowStats
  BY ZeroStatsType DEF TypeOK, IsMap
<1>3. new.rtt = stats.rtt
  BY <1>2 DEF FlowStats
<1>4. \/ flow \notin DOMAIN m_flow_stats /\ stats.rtt = NoRtt
      \/ flow \in DOMAIN m_flow_stats /\ stats.rtt = m_flow_stats[flow].rtt
  BY DEF ZeroStats, FlowsAndStatsAgree
<1> HIDE DEF flow, stats, new
<1>5. CASE id = flow
  BY <1>1, <1>3, <1>4, <1>5 DEF RttStep, Put
<1>6. CASE id # flow
  BY <1>1, <1>6 DEF RttStep, Put
<1> QED
  BY <1>5, <1>6

LEMMA SampleUpdatesRtt ==
  ASSUME TypeOK, NEW flow, NEW r \in RttSamples, UpdateFlowRTT(flow, r),
         NEW id \in DOMAIN m_flow_stats'
  PROVE  RttStep(id)
<1> DEFINE new == [m_flow_stats[flow] EXCEPT !.rtt = UpdateRtt(@, r)]
<1>1. flow \in DOMAIN m_flow_stats /\ m_flow_stats' = Put(m_flow_stats, flow, new)
  BY DEF UpdateFlowRTT
<1>2. new.rtt = UpdateRtt(m_flow_stats[flow].rtt, r)
  <2>1. m_flow_stats[flow] \in FlowStats
    BY <1>1 DEF TypeOK, IsMap
  <2> QED
    BY <2>1 DEF FlowStats
<1> HIDE DEF new
<1>3. CASE id = flow
  BY <1>1, <1>2, <1>3 DEF RttStep, Put
<1>4. CASE id # flow
  BY <1>1, <1>4 DEF RttStep, Put
<1> QED
  BY <1>3, <1>4

LEMMA RttSteps ==
  ASSUME TypeOK, FlowsAndStatsAgree, [Next]_vars, NEW id \in DOMAIN m_flow_stats'
  PROVE  RttStep(id)
<1>1. CASE UNCHANGED m_flow_stats
  BY <1>1 DEF RttStep
<1>2. ASSUME NEW flow, NEW mode, CreateFlow(flow, mode)
      PROVE  RttStep(id)
  <2>1. flow \notin DOMAIN m_flow_stats
    BY <1>2 DEF CreateFlow, MayCreate, FlowsAndStatsAgree
  <2>2. m_flow_stats' = Put(m_flow_stats, flow, ZeroStats)
    BY <1>2 DEF CreateFlow
  <2> QED
    BY <2>1, <2>2 DEF Put, ZeroStats, RttStep
<1>3. ASSUME NEW ids, m_flow_stats' = Without(m_flow_stats, ids)
      PROVE  RttStep(id)
  BY <1>3 DEF Without, Restrict, RttStep
<1>4. ASSUME NEW p \in Packets, ProcessIncomingPacket(p)
      PROVE  RttStep(id)
  BY <1>4, PacketKeepsRtt
<1>5. ASSUME NEW flow, NEW r \in RttSamples, UpdateFlowRTT(flow, r)
      PROVE  RttStep(id)
  BY <1>5, SampleUpdatesRtt
<1>6. ASSUME Restart
      PROVE  RttStep(id)
  BY <1>6, EmptyMapType DEF Restart
<1>7. ASSUME NEW flow, NEW n, EnablePacketSpraying(flow, n)
      PROVE  UNCHANGED m_flow_stats \/ Restart
  BY <1>7 DEF EnablePacketSpraying, SetFlow
<1>8. ASSUME NEW flow, RemoveFlow(flow)
      PROVE  m_flow_stats' = Without(m_flow_stats, {flow})
  BY <1>8 DEF RemoveFlow, StatsWithout
<1>9. ASSUME DoPeriodicTask
      PROVE  \E ids : m_flow_stats' = Without(m_flow_stats, ids)
  BY <1>9 DEF DoPeriodicTask, StatsWithout
<1> QED
  BY <1>1, <1>2, <1>3, <1>4, <1>5, <1>6, <1>7, <1>8, <1>9
     DEF Next, vars, memory, ProcessTransportConfig, UpdateFlowState,
         UpdateFlowPaths, SetFlow, ClockStep

(***************************************************************************)
(* The times of every flow stay ordered, whatever is sampled and however   *)
(* narrow the arithmetic.                                                  *)
(***************************************************************************)
THEOREM TimesStayOrdered == Spec => []RttStatsOrdered
<1>1. Init => RttStatsOrdered
  BY EmptyMapType DEF Init, InitialMemory, RttStatsOrdered
<1>2. TypeOK /\ FlowsAndStatsAgree /\ RttStatsOrdered /\ [Next]_vars => RttStatsOrdered'
  <2> SUFFICES ASSUME TypeOK, FlowsAndStatsAgree, RttStatsOrdered, [Next]_vars,
                      NEW id \in DOMAIN m_flow_stats'
               PROVE  RttOrdered(m_flow_stats'[id].rtt)
    BY DEF RttStatsOrdered
  <2>1. RttStep(id)
    BY RttSteps
  <2>2. CASE m_flow_stats'[id].rtt = NoRtt
    BY <2>2 DEF NoRtt, RttOrdered
  <2>3. ASSUME id \in DOMAIN m_flow_stats
        PROVE  m_flow_stats[id].rtt \in RttStats /\ RttOrdered(m_flow_stats[id].rtt)
    BY <2>3 DEF TypeOK, IsMap, FlowStats, RttStatsOrdered
  <2>4. ASSUME id \in DOMAIN m_flow_stats, NEW r \in RttSamples,
               m_flow_stats'[id].rtt = UpdateRtt(m_flow_stats[id].rtt, r)
        PROVE  RttOrdered(m_flow_stats'[id].rtt)
    <3>1. r \in Nat
      BY InputsAssumption
    <3>2. RttOrdered(UpdateRtt(m_flow_stats[id].rtt, r))
      BY <2>3, <2>4, <3>1, UpdateKeepsOrder
    <3> QED
      BY <2>4, <3>2
  <2> QED
    BY <2>1, <2>2, <2>3, <2>4 DEF RttStep
<1> QED
  BY <1>1, <1>2, TypeCorrect, TablesAgree, PTL DEF Spec

(***************************************************************************)
(* One sample, of any size: the average moves towards it and not past it,  *)
(* unless the sum overflows; the extremes move as they should but for the  *)
(* minimum of 0.                                                           *)
(***************************************************************************)
LEMMA SampleIsFollowed ==
  ASSUME NEW s \in RttStats, NEW rtt \in Nat
  PROVE  RttFollows(s, UpdateRtt(s, rtt))
<1> DEFINE t   == UpdateRtt(s, rtt)
           avg == s.avg_rtt_us
<1>1. avg \in Nat /\ s.min_rtt_us \in Nat /\ s.max_rtt_us \in Nat
  BY DEF RttStats
<1>2. t.current_rtt_us = rtt
  BY DEF UpdateRtt
<1>3. s.max_rtt_us <= t.max_rtt_us
  BY <1>1 DEF UpdateRtt
<1>4. s.min_rtt_us < t.min_rtt_us => s.min_rtt_us = 0
  BY <1>1 DEF UpdateRtt
<1>5. CASE avg = 0
  <2>1. t.avg_rtt_us = rtt
    BY <1>5 DEF UpdateRtt
  <2>2. Between(t.avg_rtt_us, avg, rtt)
    BY <1>5, <2>1 DEF Between
  <2> QED
    BY <1>2, <1>3, <1>4, <2>2 DEF RttFollows
<1>6. CASE avg # 0 /\ avg * 7 + rtt < Word
  <2>1. t.avg_rtt_us = WeightedAverage(avg, rtt)
    BY <1>6 DEF UpdateRtt
  <2>2. CASE avg <= rtt
    <3>1. avg <= WeightedAverage(avg, rtt)
      BY <1>1, <1>6, <2>2, AverageAtLeast
    <3>2. WeightedAverage(avg, rtt) <= rtt
      BY <1>1, <2>2, AverageAtMost
    <3> QED
      BY <1>2, <1>3, <1>4, <2>1, <3>1, <3>2 DEF RttFollows, Between
  <2>3. CASE rtt <= avg
    <3>1. rtt <= WeightedAverage(avg, rtt)
      BY <1>1, <1>6, <2>3, AverageAtLeast
    <3>2. WeightedAverage(avg, rtt) <= avg
      BY <1>1, <2>3, AverageAtMost
    <3> QED
      BY <1>2, <1>3, <1>4, <2>1, <3>1, <3>2 DEF RttFollows, Between
  <2> QED
    BY <1>1, <2>2, <2>3
<1>7. CASE avg * 7 + rtt >= Word
  BY <1>2, <1>3, <1>4, <1>7 DEF RttFollows
<1> QED
  BY <1>1, <1>5, <1>6, <1>7, WordAssumption

(***************************************************************************)
(* The times of a flow follow its samples from creation to removal: no     *)
(* packet, periodic task or configuration disturbs them.                   *)
(***************************************************************************)
THEOREM TimesFollowSamples == Spec => RttFollowsSamples
<1>1. TypeOK /\ FlowsAndStatsAgree /\ [Next]_vars =>
        [\A id \in DOMAIN m_flow_stats \cap DOMAIN m_flow_stats' :
           RttFollows(m_flow_stats[id].rtt, m_flow_stats'[id].rtt)]_vars
  <2> SUFFICES ASSUME TypeOK, FlowsAndStatsAgree, [Next]_vars,
                      NEW id \in DOMAIN m_flow_stats, id \in DOMAIN m_flow_stats'
               PROVE  RttFollows(m_flow_stats[id].rtt, m_flow_stats'[id].rtt)
    OBVIOUS
  <2>1. RttStep(id)
    BY RttSteps
  <2>2. m_flow_stats[id].rtt \in RttStats
    BY DEF TypeOK, IsMap, FlowStats
  <2>3. CASE m_flow_stats'[id].rtt = m_flow_stats[id].rtt
    BY <2>2, <2>3 DEF RttFollows, Between, RttStats
  <2>4. ASSUME NEW r \in RttSamples,
               m_flow_stats'[id].rtt = UpdateRtt(m_flow_stats[id].rtt, r)
        PROVE  RttFollows(m_flow_stats[id].rtt, m_flow_stats'[id].rtt)
    <3>1. r \in Nat
      BY InputsAssumption
    <3> QED
      BY <2>2, <2>4, <3>1, SampleIsFollowed
  <2> QED
    BY <2>1, <2>3, <2>4 DEF RttStep
<1> QED
  BY <1>1, TypeCorrect, TablesAgree, PTL DEF Spec, RttFollowsSamples

(***************************************************************************)
(* If every sample lies between 1 and a bound whose eightfold fits the     *)
(* word, no flow's average falls below its minimum.                        *)
(***************************************************************************)
THEOREM AverageStaysAboveMinimum ==
  ASSUME NEW bound \in Nat, RttSamples \subseteq 1..bound, 8 * bound < Word
  PROVE  Spec => []RttAverageAboveMinimum
<1> DEFINE Together == \A id \in DOMAIN m_flow_stats :
                         SetTogether(m_flow_stats[id].rtt, bound)
<1>1. Init => Together
  BY EmptyMapType DEF Init, InitialMemory
<1>2. TypeOK /\ FlowsAndStatsAgree /\ Together /\ [Next]_vars => Together'
  <2> SUFFICES ASSUME TypeOK, FlowsAndStatsAgree, Together, [Next]_vars,
                      NEW id \in DOMAIN m_flow_stats'
               PROVE  SetTogether(m_flow_stats'[id].rtt, bound)
    OBVIOUS
  <2>1. RttStep(id)
    BY RttSteps
  <2>2. CASE m_flow_stats'[id].rtt = NoRtt
    BY <2>2 DEF NoRtt, SetTogether
  <2>3. ASSUME id \in DOMAIN m_flow_stats
        PROVE  /\ m_flow_stats[id].rtt \in RttStats
               /\ SetTogether(m_flow_stats[id].rtt, bound)
    BY <2>3 DEF TypeOK, IsMap, FlowStats
  <2>4. ASSUME id \in DOMAIN m_flow_stats, NEW r \in RttSamples,
               m_flow_stats'[id].rtt = UpdateRtt(m_flow_stats[id].rtt, r)
        PROVE  SetTogether(m_flow_stats'[id].rtt, bound)
    <3>1. r \in 1..bound
      OBVIOUS
    <3>2. SetTogether(UpdateRtt(m_flow_stats[id].rtt, r), bound)
      BY <2>3, <2>4, <3>1, UpdateKeepsAverageAboveMinimum
    <3> QED
      BY <2>4, <3>2
  <2> QED
    BY <2>1, <2>2, <2>3, <2>4 DEF RttStep
<1>3. TypeOK /\ Together => RttAverageAboveMinimum
  <2> SUFFICES ASSUME TypeOK, Together, NEW id \in DOMAIN m_flow_stats
               PROVE  AverageAboveMinimum(m_flow_stats[id].rtt)
    BY DEF RttAverageAboveMinimum
  <2>1. m_flow_stats[id].rtt \in RttStats
    BY DEF TypeOK, IsMap, FlowStats
  <2> QED
    BY <2>1 DEF SetTogether, AverageAboveMinimum, RttStats
<1> QED
  BY <1>1, <1>2, <1>3, TypeCorrect, TablesAgree, PTL DEF Spec

-----------------------------------------------------------------------------
(* Refinement.                                                             *)

(***************************************************************************)
(* The counters are what UEFlowTable tracks, the rows what it shows, and   *)
(* each kind of step is a step of it or leaves both alone.                 *)
(***************************************************************************)
LEMMA StepsImplementFlowTable ==
  ASSUME TypeOK, FlowsAndStatsAgree, [Next]_vars
  PROVE  FlowTable!Next \/ UNCHANGED <<Counts, state_rows>>
<1>1. CASE Quiet
  BY <1>1 DEF Quiet
<1>2. ASSUME NEW id \in FlowIds, Opens(id)
      PROVE  FlowTable!Track(id)
  BY <1>2 DEF Opens, Counts, FlowTable!Track, Put, FlowTable!Put
<1>3. ASSUME NEW id \in FlowIds, Receives(id)
      PROVE  FlowTable!Count(id)
  BY <1>3 DEF Receives, Counts, FlowTable!Count, Put, FlowTable!Put
<1>4. ASSUME NEW report \in BOOLEAN, NEW ids \in SUBSET FlowIds, Forgets(report, ids)
      PROVE  FlowTable!Maintain(report, ids)
  BY <1>4 DEF Forgets, Counts, FlowTable!Maintain, PutAll, FlowTable!PutAll,
              Without, FlowTable!Without, Restrict, FlowTable!Restrict
<1>5. ASSUME Dies
      PROVE  FlowTable!Crash
  BY <1>5 DEF Dies, Counts, FlowTable!Crash, EmptyMap, FlowTable!EmptyMap
<1> QED
  BY <1>1, <1>2, <1>3, <1>4, <1>5, KindsOfSteps DEF FlowTable!Next

(***************************************************************************)
(* The flow manager implements the table it promises its clients.          *)
(***************************************************************************)
THEOREM ManagerImplementsTable == Spec => ImplementsFlowTable
<1>1. Init => FlowTable!Init
  BY DEF Init, InitialMemory, FlowTable!Init, EmptyMap, FlowTable!EmptyMap
<1>2. TypeOK /\ FlowsAndStatsAgree /\ [Next]_vars
        => [FlowTable!Next]_<<[id \in DOMAIN m_flow_stats |->
                                 m_flow_stats[id].packets_received], state_rows>>
  BY StepsImplementFlowTable DEF Counts
<1> QED
  BY <1>1, <1>2, TypeCorrect, TablesAgree, PTL
     DEF Spec, ImplementsFlowTable, FlowTable!Spec
=============================================================================
