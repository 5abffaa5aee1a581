------------------------- MODULE UECongestionManager -------------------------
(***************************************************************************)
(* The congestion manager of ue-transportd (ue_congestion_manager.cpp):    *)
(* the congestion state of every interface, the queue of its last changes, *)
(* the weights of the paths, and the entries it writes for ECN marking and *)
(* for statistics.                                                         *)
(*                                                                         *)
(* processInterfaceConfig and updateCongestionState are called but not     *)
(* defined in the repository.  The first is taken to register an           *)
(* interface, the second to copy the states just detected into m_path_info *)
(* (nothing else could: detectCongestion does not touch m_path_info, and   *)
(* updatePathWeights reads it).                                            *)
(*                                                                         *)
(* Abstracted: the algorithm and the two feedback flags, which no method   *)
(* reads; the simulated packet counters; of an event, all but its          *)
(* interface and state.  The steady clock is replaced by what doPeriodic-  *)
(* Task asks of it: which of its three intervals have passed.              *)
(***************************************************************************)
EXTENDS Integers, Sequences, FiniteSets, UEMaps, SequencesExt

CONSTANTS
  Interfaces,   \* interface names
  QueueDepths,  \* the simulated readings, per cent (rand() % 100 in the code)
  Thresholds,   \* [warning, congested, critical], per cent
  EcnEntries,   \* values of ecn_threshold_percent that parse
  QueueLimit,   \* events kept (100 in the code)
  MaxChanges    \* bound: state changes of one interface

States == {"NORMAL", "WARNING", "CONGESTED", "CRITICAL"}

ASSUME CongestionAssumption ==
  /\ IsFiniteSet(Interfaces)
  /\ QueueDepths \subseteq 0..99
  /\ Thresholds \in [warning : Nat, congested : Nat, critical : Nat]
  /\ EcnEntries \subseteq Int
  /\ QueueLimit \in Nat \ {0}
  /\ MaxChanges \in Nat

VARIABLES
  m_interface_congestion,  \* map from interface to its state
  m_congestion_stats,      \* map from interface to its counters
  m_congestion_events,     \* queue of [interface, state], newest last
  m_path_info,             \* map from interface to its path
  m_ecn_threshold_percent,
  m_path_rebalancing_enabled,
  due,                     \* which of "check", "rebalance", "stats" are due
  ecn_rows,                \* APPL_DB: map from interface to the ECN threshold
  state_rows               \* STATE_DB: map from interface to its counters

settings == <<m_ecn_threshold_percent, m_path_rebalancing_enabled>>
vars == <<m_interface_congestion, m_congestion_stats, m_congestion_events,
          m_path_info, settings, due, ecn_rows, state_rows>>

-----------------------------------------------------------------------------
(* Values.                                                                 *)

Tasks == {"check", "rebalance", "stats"}
Stats == [congestion_events : Nat, path_rebalance_events : Nat]
ZeroStats == [congestion_events |-> 0, path_rebalance_events |-> 0]

Classified(depth) ==
  CASE depth >= Thresholds.critical -> "CRITICAL"
    [] depth < Thresholds.critical /\ depth >= Thresholds.congested -> "CONGESTED"
    [] depth < Thresholds.critical /\ depth < Thresholds.congested
         /\ depth >= Thresholds.warning -> "WARNING"
    [] OTHER -> "NORMAL"

Weight == [NORMAL |-> 100, WARNING |-> 75, CONGESTED |-> 25, CRITICAL |-> 0]

NewPath == [congestion_state |-> "NORMAL", weight |-> 100, available |-> TRUE]

\* updatePathWeights.
Rebalanced(paths) ==
  [i \in DOMAIN paths |->
     [paths[i] EXCEPT !.weight = Weight[paths[i].congestion_state],
                      !.available = paths[i].congestion_state # "CRITICAL"]]

\* updateCongestionState (external): the paths learn the states detected.
WithStates(paths, states) ==
  [i \in DOMAIN paths |-> [paths[i] EXCEPT !.congestion_state = states[i]]]

\* Push, then pop from the front down to the limit.  In the slips for mutation
\* nothing is popped, and one too many is.
AllKept(queue) == queue
OneTooFewKept(queue) ==
  IF Len(queue) >= QueueLimit
  THEN SubSeq(queue, Len(queue) - QueueLimit + 2, Len(queue)) ELSE queue
LatestKept(queue) ==
  IF Len(queue) > QueueLimit
  THEN SubSeq(queue, Len(queue) - QueueLimit + 1, Len(queue)) ELSE queue

\* The interfaces handleCongestionEvent is called for.
ChangedIn(states) ==
  {i \in DOMAIN states : states[i] # m_interface_congestion[i]}

\* handleCongestionEvent's counters for the interfaces changed.  The slip for
\* mutation counts a rebalancing the configuration has switched off.
CountedUnasked(stats, states, changed) ==
  [i \in DOMAIN stats \cup changed |->
     LET old == IF i \in DOMAIN stats THEN stats[i] ELSE ZeroStats
     IN  IF i \notin changed THEN old
         ELSE [congestion_events |-> old.congestion_events + 1,
               path_rebalance_events |-> old.path_rebalance_events +
                 (IF states[i] = "CONGESTED" THEN 1 ELSE 0)]]
Counted(stats, states, changed) ==
  [i \in DOMAIN stats \cup changed |->
     LET old == IF i \in DOMAIN stats THEN stats[i] ELSE ZeroStats
     IN  IF i \notin changed THEN old
         ELSE [congestion_events |-> old.congestion_events + 1,
               path_rebalance_events |-> old.path_rebalance_events +
                 (IF states[i] = "CONGESTED" /\ m_path_rebalancing_enabled
                  THEN 1 ELSE 0)]]

\* enableECNMarking for the interfaces that have just reached WARNING.
Marked(states, changed) == {i \in changed : states[i] = "WARNING"}

-----------------------------------------------------------------------------
(* The state machine.                                                      *)

InitialMemory ==
  /\ m_interface_congestion = EmptyMap
  /\ m_congestion_stats = EmptyMap
  /\ m_congestion_events = <<>>
  /\ m_path_info = EmptyMap
  /\ m_ecn_threshold_percent = 80
  /\ m_path_rebalancing_enabled = TRUE
  /\ due = Tasks

Init == InitialMemory /\ ecn_rows = EmptyMap /\ state_rows = EmptyMap

\* External: an interface becomes known.
ProcessInterfaceConfig(i) ==
  /\ i \notin DOMAIN m_interface_congestion
  /\ m_interface_congestion' = Put(m_interface_congestion, i, "NORMAL")
  /\ m_path_info' = Put(m_path_info, i, NewPath)
  /\ UNCHANGED <<m_congestion_stats, m_congestion_events, settings, due, ecn_rows,
                 state_rows>>

\* A SET of "global" whose numbers parse; they are not checked against 0..100.
ProcessCongestionConfig(ecn, rebalancing) ==
  /\ m_ecn_threshold_percent' = ecn
  /\ m_path_rebalancing_enabled' = rebalancing
  /\ UNCHANGED <<m_interface_congestion, m_congestion_stats, m_congestion_events,
                 m_path_info, due, ecn_rows, state_rows>>

\* The process dies: std::stoi throws on a number that does not parse and
\* nothing catches it before main; or any other death.  It starts again.
Restart ==
  /\ m_interface_congestion' = EmptyMap
  /\ m_congestion_stats' = EmptyMap
  /\ m_congestion_events' = <<>>
  /\ m_path_info' = EmptyMap
  /\ m_ecn_threshold_percent' = 80
  /\ m_path_rebalancing_enabled' = TRUE
  /\ due' = Tasks
  /\ UNCHANGED <<ecn_rows, state_rows>>

\* detectCongestion on the readings depths, in the order of the map: every
\* change is counted, queued, and answered according to the new state.
DetectCongestion(depths, order) ==
  LET states  == [i \in DOMAIN depths |-> Classified(depths[i])]
      changed == ChangedIn(states)
      marked  == Marked(states, changed)
  IN  /\ order \in SetToSeqs(changed)
      /\ m_interface_congestion' = states
      /\ m_congestion_stats' = Counted(m_congestion_stats, states, changed)
      /\ m_congestion_events' =
           LatestKept(m_congestion_events \o
             [n \in DOMAIN order |-> [interface |-> order[n], state |-> states[order[n]]]])
      /\ ecn_rows' = PutAll(ecn_rows, [i \in marked |-> m_ecn_threshold_percent])

\* The paths after a detection: rebalanced on the states of the detection
\* before, if some interface has just become congested, then told the new ones.
PathsDetected(states) ==
  LET triggered == \E i \in ChangedIn(states) : states[i] = "CONGESTED"
  IN  WithStates(IF triggered /\ m_path_rebalancing_enabled
                 THEN Rebalanced(m_path_info) ELSE m_path_info, states)

\* The periodic rebalancing, when it is due and enabled.  The slip for
\* mutation rebalances before the new states are known.
RebalanceDue == m_path_rebalancing_enabled /\ "rebalance" \in due
PathsBeforeDetection(paths) ==
  IF RebalanceDue THEN WithStates(Rebalanced(m_path_info),
                                  [i \in DOMAIN paths |-> paths[i].congestion_state])
  ELSE paths
PathsRebalanced(paths) == IF RebalanceDue THEN Rebalanced(paths) ELSE paths

\* Publish the counters as this very call has left them.
Published(stats) ==
  IF "stats" \in due THEN PutAll(state_rows, stats) ELSE state_rows

DoPeriodicTask ==
  /\ due # {}
  /\ due' = due \ ({"check", "stats"}
                   \cup IF m_path_rebalancing_enabled THEN {"rebalance"} ELSE {})
  /\ IF "check" \in due
     THEN /\ \A i \in DOMAIN m_congestion_stats :
               m_congestion_stats[i].congestion_events < MaxChanges
          /\ \E depths \in [DOMAIN m_interface_congestion -> QueueDepths] :
             \E order \in SetToSeqs(ChangedIn([i \in DOMAIN depths |->
                                                 Classified(depths[i])])) :
               DetectCongestion(depths, order)
          /\ m_path_info' = PathsRebalanced(PathsDetected(m_interface_congestion'))
     ELSE /\ m_path_info' = PathsRebalanced(m_path_info)
          /\ UNCHANGED <<m_interface_congestion, m_congestion_stats,
                         m_congestion_events, ecn_rows>>
  /\ state_rows' = Published(m_congestion_stats')
  /\ UNCHANGED settings

\* 100 ms, one second or five seconds have passed since the task last ran.
ClockStep ==
  /\ \E elapsed \in {{"check"}, {"check", "rebalance"}, Tasks} :
       due' = due \cup elapsed
  /\ UNCHANGED <<m_interface_congestion, m_congestion_stats, m_congestion_events,
                 m_path_info, settings, ecn_rows, state_rows>>

Next ==
  \/ \E i \in Interfaces : ProcessInterfaceConfig(i)
  \/ \E ecn \in EcnEntries, rebalancing \in BOOLEAN :
       ProcessCongestionConfig(ecn, rebalancing)
  \/ DoPeriodicTask
  \/ ClockStep
  \/ Restart

Spec == Init /\ [][Next]_vars

-----------------------------------------------------------------------------
(* Properties.                                                             *)

(***************************************************************************)
(* Every variable has its type, and the queue respects its limit.          *)
(***************************************************************************)
TypeOK ==
  /\ IsMap(m_interface_congestion, Interfaces, States)
  /\ IsMap(m_congestion_stats, Interfaces, Stats)
  /\ \A n \in DOMAIN m_congestion_events :
       m_congestion_events[n] \in [interface : Interfaces, state : States]
  /\ Len(m_congestion_events) <= QueueLimit
  /\ IsMap(m_path_info, Interfaces,
           [congestion_state : States, weight : 0..100, available : BOOLEAN])
  /\ m_ecn_threshold_percent \in EcnEntries \cup {80}
  /\ m_path_rebalancing_enabled \in BOOLEAN
  /\ due \subseteq Tasks
  /\ IsMap(ecn_rows, Interfaces, EcnEntries \cup {80})
  /\ IsMap(state_rows, Interfaces, Stats)

\* The changes counted so far, over all interfaces.
TotalChanges ==
  SumFunction([i \in DOMAIN m_congestion_stats |->
                 m_congestion_stats[i].congestion_events])

(***************************************************************************)
(* No change goes unreported: the queue holds as many events as changes    *)
(* were counted, up to its limit; the newest event kept of an interface    *)
(* tells the state it is in now, and two successive events of it tell      *)
(* different states.                                                       *)
(***************************************************************************)
EventsFollowStates ==
  /\ Len(m_congestion_events) =
       IF TotalChanges < QueueLimit THEN TotalChanges ELSE QueueLimit
  /\ \A n \in DOMAIN m_congestion_events :
       LET e     == m_congestion_events[n]
           later == {k \in DOMAIN m_congestion_events :
                       k > n /\ m_congestion_events[k].interface = e.interface}
       IN  IF later = {} THEN e.state = m_interface_congestion[e.interface]
           ELSE m_congestion_events[CHOOSE k \in later : \A l \in later : k <= l].state
                  # e.state

(***************************************************************************)
(* The periodic rebalancing works on the states detected in the same call: *)
(* right after it, every weight is that of the interface's state.          *)
(***************************************************************************)
RebalancingIsFresh ==
  [][RebalanceDue /\ "rebalance" \notin due' =>
       \A i \in DOMAIN m_path_info' :
         m_path_info'[i].weight = Weight[m_interface_congestion'[i]]]_vars

\* The interfaces for which a step counts a rebalancing.
Rebalances(stats, i) == IF i \in DOMAIN stats THEN stats[i].path_rebalance_events ELSE 0
RebalancedFor ==
  {i \in DOMAIN m_congestion_stats' :
     Rebalances(m_congestion_stats', i) > Rebalances(m_congestion_stats, i)}

(***************************************************************************)
(* What is counted is what was done, and what was allowed.  A rebalancing  *)
(* is counted only in a step the configuration of that moment allows it,   *)
(* for an interface that becomes congested; the weights change only if one *)
(* is counted or the periodic one is due; and one that is counted, in the  *)
(* middle of detection, gives every path the weight of the state before:   *)
(* until the periodic one, weights lag one detection behind.               *)
(***************************************************************************)
RebalancesAsCounted ==
  [][/\ \A i \in RebalancedFor :
          /\ m_path_rebalancing_enabled
          /\ m_interface_congestion[i] # "CONGESTED"
          /\ m_interface_congestion'[i] = "CONGESTED"
     /\ \A i \in DOMAIN m_path_info \cap DOMAIN m_path_info' :
          \/ RebalanceDue
          \/ m_path_info'[i].weight =
               IF RebalancedFor = {} THEN m_path_info[i].weight
               ELSE Weight[m_interface_congestion[i]]]_vars

(***************************************************************************)
(* Rebalancings are answers to changes: there are never more of them, in   *)
(* memory or, across restarts, in STATE_DB.  A visit to CONGESTED needs    *)
(* another change to leave it, so at most every other change, rounded up,  *)
(* is one.                                                                 *)
(***************************************************************************)
RebalancesWithinChanges ==
  \A stats \in {m_congestion_stats, state_rows} :
    \A i \in DOMAIN stats :
      2 * stats[i].path_rebalance_events <= stats[i].congestion_events + 1
=============================================================================
