---------------------- MODULE UECongestionManagerProofs ----------------------
(***************************************************************************)
(* The safety properties of the congestion manager, for every set of       *)
(* interfaces and readings, every thresholds and every limit of the queue. *)
(*                                                                         *)
(* The invariant is built in layers: types, with the keys the maps share;  *)
(* the paths, which know the states of their interfaces; the counters,     *)
(* whose bound is tighter outside CONGESTED; and the queue, where an event *)
(* tells the state of its interface or is followed by one that differs.    *)
(***************************************************************************)
EXTENDS UECongestionManager, UEMapsProofs, SequenceTheorems

Paths == [congestion_state : States, weight : 0..100, available : BOOLEAN]
Events == [interface : Interfaces, state : States]

-----------------------------------------------------------------------------
(* The invariant.                                                          *)

\* The maps have the keys the methods rely on.
KeysOK ==
  /\ DOMAIN m_path_info = DOMAIN m_interface_congestion
  /\ DOMAIN m_congestion_stats \subseteq DOMAIN m_interface_congestion

\* The paths know the states detected last.
PathsKnowStates ==
  \A i \in DOMAIN m_path_info :
    m_path_info[i].congestion_state = m_interface_congestion[i]

\* An interface that is not congested has left every visit to CONGESTED: two
\* changes each.
Paired(s, state) ==
  /\ 2 * s.path_rebalance_events <= s.congestion_events + 1
  /\ state # "CONGESTED" => 2 * s.path_rebalance_events <= s.congestion_events

CountersOK ==
  /\ \A i \in DOMAIN m_congestion_stats :
       Paired(m_congestion_stats[i], m_interface_congestion[i])
  /\ \A i \in DOMAIN state_rows :
       2 * state_rows[i].path_rebalance_events <= state_rows[i].congestion_events + 1

\* The events from n + 1 to k - 1 are of other interfaces than that of n.
NoneBetween(q, n, k) ==
  \A l \in DOMAIN q : n < l /\ l < k => q[l].interface # q[n].interface

\* The last event of an interface tells its state.
LastTellsState(q, states) ==
  \A n \in DOMAIN q :
    /\ q[n].interface \in DOMAIN states
    /\ NoneBetween(q, n, Len(q) + 1) => q[n].state = states[q[n].interface]

\* Two successive events of an interface differ.
Alternates(q) ==
  \A n, k \in DOMAIN q :
    n < k /\ q[k].interface = q[n].interface /\ NoneBetween(q, n, k)
      => q[k].state # q[n].state

QueueOK ==
  /\ m_congestion_events \in Seq(Events)
  /\ LastTellsState(m_congestion_events, m_interface_congestion)
  /\ Alternates(m_congestion_events)

\* The changes counted in stats.
ChangesIn(stats) ==
  SumFunction([i \in DOMAIN stats |-> stats[i].congestion_events])

LengthOK ==
  Len(m_congestion_events) =
    IF TotalChanges < QueueLimit THEN TotalChanges ELSE QueueLimit

CongestionInv ==
  /\ TypeOK
  /\ KeysOK
  /\ PathsKnowStates
  /\ CountersOK
  /\ QueueOK
  /\ LengthOK

-----------------------------------------------------------------------------
(* Values.                                                                 *)

(***************************************************************************)
(* A reading has a state, a state a weight.                                *)
(***************************************************************************)
LEMMA ValueTypes ==
  /\ \A depth \in QueueDepths : Classified(depth) \in States
  /\ \A s \in States : Weight[s] \in 0..100
<1>1. ASSUME NEW depth \in QueueDepths
      PROVE  Classified(depth) \in States
  <2>1. depth \in Int /\ Thresholds.warning \in Int /\ Thresholds.congested \in Int
        /\ Thresholds.critical \in Int
    BY CongestionAssumption
  <2> QED BY <2>1 DEF Classified, States
<1>2. \A s \in States : Weight[s] \in 0..100
  BY DEF States, Weight
<1> QED BY <1>1, <1>2

(***************************************************************************)
(* updatePathWeights and updateCongestionState keep the paths and their    *)
(* type; the first sets the weights, the second the states.                *)
(***************************************************************************)
LEMMA RebalancedPaths ==
  ASSUME NEW paths, IsMap(paths, Interfaces, Paths)
  PROVE  /\ IsMap(Rebalanced(paths), Interfaces, Paths)
         /\ DOMAIN Rebalanced(paths) = DOMAIN paths
         /\ \A i \in DOMAIN paths :
              /\ Rebalanced(paths)[i].congestion_state = paths[i].congestion_state
              /\ Rebalanced(paths)[i].weight = Weight[paths[i].congestion_state]
<1>1. ASSUME NEW i \in DOMAIN paths
      PROVE  /\ Rebalanced(paths)[i] \in Paths
             /\ Rebalanced(paths)[i].congestion_state = paths[i].congestion_state
             /\ Rebalanced(paths)[i].weight = Weight[paths[i].congestion_state]
  <2>1. PICK p \in Paths : p = paths[i]
    BY DEF IsMap
  <2>2. Rebalanced(paths)[i] =
          [p EXCEPT !.weight = Weight[p.congestion_state],
                    !.available = p.congestion_state # "CRITICAL"]
    BY <2>1 DEF Rebalanced
  <2>3. Weight[p.congestion_state] \in 0..100
    BY ValueTypes DEF Paths
  <2> QED BY <2>1, <2>2, <2>3 DEF Paths
<1> QED BY <1>1 DEF IsMap, Rebalanced

LEMMA InformedPaths ==
  ASSUME NEW paths, IsMap(paths, Interfaces, Paths),
         NEW states, \A i \in DOMAIN paths : states[i] \in States
  PROVE  /\ IsMap(WithStates(paths, states), Interfaces, Paths)
         /\ DOMAIN WithStates(paths, states) = DOMAIN paths
         /\ \A i \in DOMAIN paths : WithStates(paths, states)[i].congestion_state = states[i]
<1>1. ASSUME NEW i \in DOMAIN paths
      PROVE  /\ WithStates(paths, states)[i] \in Paths
             /\ WithStates(paths, states)[i].congestion_state = states[i]
  <2>1. PICK p \in Paths : p = paths[i]
    BY DEF IsMap
  <2>2. WithStates(paths, states)[i] = [p EXCEPT !.congestion_state = states[i]]
    BY <2>1 DEF WithStates
  <2> QED BY <2>1, <2>2 DEF Paths
<1> QED BY <1>1 DEF IsMap, WithStates

\* The counters of i in stats, created at zero if it has none.
CountersBefore(stats, i) == IF i \in DOMAIN stats THEN stats[i] ELSE ZeroStats

(***************************************************************************)
(* handleCongestionEvent counts one change of every interface that has     *)
(* changed, and a rebalancing only of one that has become congested.       *)
(***************************************************************************)
LEMMA CountedEntry ==
  ASSUME NEW stats, IsMap(stats, Interfaces, Stats), NEW states, NEW changed,
         NEW i \in DOMAIN stats \cup changed
  PROVE  /\ CountersBefore(stats, i) \in Stats
         /\ Counted(stats, states, changed)[i] \in Stats
         /\ i \notin changed =>
              Counted(stats, states, changed)[i] = CountersBefore(stats, i)
         /\ i \in changed =>
              Counted(stats, states, changed)[i].congestion_events =
                CountersBefore(stats, i).congestion_events + 1
         /\ i \in changed /\ states[i] # "CONGESTED" =>
              Counted(stats, states, changed)[i].path_rebalance_events =
                CountersBefore(stats, i).path_rebalance_events
         /\ Counted(stats, states, changed)[i].path_rebalance_events <=
              CountersBefore(stats, i).path_rebalance_events + 1
<1> DEFINE c   == Counted(stats, states, changed)
           old == CountersBefore(stats, i)
<1>1. old \in Stats
  <2>1. ZeroStats \in Stats
    BY DEF Stats, ZeroStats
  <2>2. i \in DOMAIN stats => stats[i] \in Stats
    BY DEF IsMap
  <2> QED BY <2>1, <2>2 DEF CountersBefore
<1>2. old.congestion_events \in Nat /\ old.path_rebalance_events \in Nat
  BY <1>1 DEF Stats
<1>3. CASE i \notin changed
  <2>1. c[i] = old
    BY <1>3 DEF Counted, CountersBefore
  <2> HIDE DEF c, old
  <2> QED BY <1>1, <1>2, <1>3, <2>1 DEF c, old
<1>4. CASE i \in changed
  <2> DEFINE reb == IF states[i] = "CONGESTED" /\ m_path_rebalancing_enabled THEN 1 ELSE 0
  <2>1. c[i] = [congestion_events |-> old.congestion_events + 1,
                path_rebalance_events |-> old.path_rebalance_events + reb]
    BY <1>4 DEF Counted, CountersBefore
  <2>2. reb \in {0, 1} /\ (states[i] # "CONGESTED" => reb = 0)
    OBVIOUS
  <2> HIDE DEF reb, c, old
  <2>3. /\ c[i] \in Stats /\ c[i].congestion_events = old.congestion_events + 1
        /\ states[i] # "CONGESTED" => c[i].path_rebalance_events = old.path_rebalance_events
        /\ c[i].path_rebalance_events <= old.path_rebalance_events + 1
    BY <1>2, <2>1, <2>2 DEF Stats
  <2> QED BY <1>1, <1>4, <2>3 DEF c, old
<1> QED BY <1>3, <1>4

\* The interfaces that have changed have counters from then on.
LEMMA CountedType ==
  ASSUME NEW stats, IsMap(stats, Interfaces, Stats), NEW states,
         NEW changed \in SUBSET Interfaces
  PROVE  /\ IsMap(Counted(stats, states, changed), Interfaces, Stats)
         /\ DOMAIN Counted(stats, states, changed) = DOMAIN stats \cup changed
<1> DEFINE c == Counted(stats, states, changed)
<1>1. DOMAIN c = DOMAIN stats \cup changed /\ c = [i \in DOMAIN c |-> c[i]]
  BY DEF Counted
<1>2. \A i \in DOMAIN stats \cup changed : c[i] \in Stats
  BY CountedEntry
<1>3. DOMAIN c \subseteq Interfaces
  BY <1>1 DEF IsMap
<1> HIDE DEF c
<1>4. IsMap(c, Interfaces, Stats)
  BY <1>1, <1>2, <1>3 DEF IsMap
<1> QED BY <1>1, <1>4 DEF c

-----------------------------------------------------------------------------
(* The queue.                                                              *)

(***************************************************************************)
(* Dropping events from the front keeps what the queue tells.              *)
(***************************************************************************)
LEMMA LatestKeptTells ==
  ASSUME NEW q \in Seq(Events), NEW states, LastTellsState(q, states), Alternates(q)
  PROVE  /\ LatestKept(q) \in Seq(Events)
         /\ Len(q) > QueueLimit => Len(LatestKept(q)) = QueueLimit
         /\ ~(Len(q) > QueueLimit) => Len(LatestKept(q)) = Len(q)
         /\ LastTellsState(LatestKept(q), states)
         /\ Alternates(LatestKept(q))
<1> DEFINE s == LatestKept(q)
           d == Len(q) - QueueLimit
<1>0. Len(q) \in Nat /\ QueueLimit \in Nat \ {0} /\ DOMAIN q = 1..Len(q)
  BY LenProperties, CongestionAssumption
<1>1. CASE Len(q) > QueueLimit
  <2>1. s = SubSeq(q, d + 1, Len(q)) /\ d \in Nat /\ Len(q) = QueueLimit + d
    BY <1>0, <1>1 DEF LatestKept
  <2> HIDE DEF s, d
  <2>2. s \in Seq(Events) /\ Len(s) = QueueLimit
    BY <1>0, <2>1
  <2>3. \A n \in 1..QueueLimit : n + d \in 1..Len(q) /\ s[n] = q[n + d]
    BY <1>0, <2>1
  <2>4. DOMAIN s = 1..QueueLimit
    BY <2>2, LenProperties
  <2>5. ASSUME NEW n \in 1..QueueLimit, NEW k \in Nat, k <= QueueLimit + 1,
               NoneBetween(s, n, k)
        PROVE  NoneBetween(q, n + d, k + d)
    <3> SUFFICES ASSUME NEW l \in 1..Len(q), n + d < l, l < k + d
                 PROVE  q[l].interface # q[n + d].interface
      BY <1>0 DEF NoneBetween
    <3>1. l - d \in 1..QueueLimit /\ n < l - d /\ l - d < k /\ (l - d) + d = l
      BY <1>0, <2>1, <2>5
    <3>2. s[l - d].interface # s[n].interface
      BY <2>4, <2>5, <3>1 DEF NoneBetween
    <3>3. s[l - d] = q[l]
      BY <2>3, <3>1
    <3> QED BY <2>3, <3>2, <3>3
  <2>6. LastTellsState(s, states)
    <3> SUFFICES ASSUME NEW n \in 1..QueueLimit
                 PROVE  /\ s[n].interface \in DOMAIN states
                        /\ NoneBetween(s, n, Len(s) + 1) => s[n].state = states[s[n].interface]
      BY <2>4 DEF LastTellsState
    <3>1. q[n + d].interface \in DOMAIN states
          /\ (NoneBetween(q, n + d, Len(q) + 1) => q[n + d].state = states[q[n + d].interface])
      BY <1>0, <2>3 DEF LastTellsState
    <3>2. NoneBetween(s, n, Len(s) + 1) => NoneBetween(q, n + d, Len(q) + 1)
      <4>1. QueueLimit + 1 \in Nat /\ QueueLimit + 1 <= QueueLimit + 1
            /\ (QueueLimit + 1) + d = Len(q) + 1
        BY <1>0, <2>1
      <4> QED BY <2>2, <2>5, <4>1
    <3> QED BY <2>3, <3>1, <3>2
  <2>7. Alternates(s)
    <3> SUFFICES ASSUME NEW n \in 1..QueueLimit, NEW k \in 1..QueueLimit,
                        n < k, s[k].interface = s[n].interface, NoneBetween(s, n, k)
                 PROVE  s[k].state # s[n].state
      BY <2>4 DEF Alternates
    <3>1. NoneBetween(q, n + d, k + d)
      BY <1>0, <2>5
    <3>2. n + d < k + d /\ n + d \in DOMAIN q /\ k + d \in DOMAIN q
      BY <1>0, <2>1, <2>3
    <3>3. s[k] = q[k + d] /\ s[n] = q[n + d]
      BY <2>3
    <3> QED BY <3>1, <3>2, <3>3 DEF Alternates
  <2> QED BY <1>1, <2>2, <2>6, <2>7 DEF s
<1>2. CASE ~(Len(q) > QueueLimit)
  <2>1. LatestKept(q) = q
    BY <1>2 DEF LatestKept
  <2> QED BY <1>2, <2>1
<1> QED BY <1>1, <1>2

(***************************************************************************)
(* An order of a finite set lists every element of it once.                *)
(***************************************************************************)
LEMMA OrderListsAll ==
  ASSUME NEW C, IsFiniteSet(C), NEW order \in SetToSeqs(C)
  PROVE  /\ order \in Seq(C)
         /\ Len(order) = Cardinality(C)
         /\ DOMAIN order = 1..Cardinality(C)
         /\ \A n, k \in DOMAIN order : order[n] = order[k] => n = k
         /\ \A i \in C : \E n \in DOMAIN order : order[n] = i
<1> DEFINE D == 1..Cardinality(C)
<1>1. Cardinality(C) \in Nat
  BY FS_CardinalityType
<1>2. order \in [D -> C] /\ \A n, k \in D : n # k => order[n] # order[k]
  BY DEF SetToSeqs
<1>3. order \in Injection(D, C)
  BY <1>2 DEF Injection, IsInjective
<1>4. Cardinality(D) = Cardinality(C)
  <2>1. Cardinality(D) = IF 1 > Cardinality(C) THEN 0 ELSE Cardinality(C) - 1 + 1
    BY <1>1, FS_Interval
  <2> QED BY <1>1, <2>1
<1>5. order \in Surjection(D, C)
  BY <1>3, <1>4, FS_Injection
<1>6. order \in Seq(C) /\ Len(order) = Cardinality(C)
  BY <1>1, <1>2
<1>7. \A i \in C : \E n \in DOMAIN order : order[n] = i
  BY <1>2, <1>5 DEF Surjection
<1> QED BY <1>2, <1>6, <1>7

(***************************************************************************)
(* handleCongestionEvent's queueing: when every change of a detection is   *)
(* queued, each once and in any order, the queue tells the new states.     *)
(***************************************************************************)
LEMMA ReportsTell ==
  ASSUME NEW q \in Seq(Events), NEW old, NEW new,
         IsMap(old, Interfaces, States), IsMap(new, Interfaces, States),
         DOMAIN new = DOMAIN old,
         LastTellsState(q, old), Alternates(q),
         NEW order \in SetToSeqs({i \in DOMAIN new : new[i] # old[i]})
  PROVE  LET reports == [n \in DOMAIN order |->
                           [interface |-> order[n], state |-> new[order[n]]]]
         IN  /\ q \o reports \in Seq(Events)
             /\ Len(q \o reports) =
                  Len(q) + Cardinality({i \in DOMAIN new : new[i] # old[i]})
             /\ LastTellsState(q \o reports, new)
             /\ Alternates(q \o reports)
<1> DEFINE C == {i \in DOMAIN new : new[i] # old[i]}
           c == Len(order)
           reports == [n \in DOMAIN order |-> [interface |-> order[n], state |-> new[order[n]]]]
           r == q \o reports
           m == Len(q)
<1>1. IsFiniteSet(C) /\ C \subseteq Interfaces
  BY CongestionAssumption, FS_Subset DEF IsMap
<1>2. /\ c = Cardinality(C) /\ c \in Nat /\ DOMAIN order = 1..c /\ order \in Seq(C)
      /\ \A n, k \in 1..c : order[n] = order[k] => n = k
      /\ \A n \in 1..c : order[n] \in C
      /\ \A i \in C : \E n \in 1..c : order[n] = i
  <2>1. order \in SetToSeqs(C)
    OBVIOUS
  <2> HIDE DEF C
  <2>2. /\ order \in Seq(C) /\ c = Cardinality(C) /\ DOMAIN order = 1..c
        /\ \A n, k \in DOMAIN order : order[n] = order[k] => n = k
        /\ \A i \in C : \E n \in DOMAIN order : order[n] = i
    BY <1>1, <2>1, OrderListsAll
  <2>3. c \in Nat /\ \A n \in 1..c : order[n] \in C
    BY <2>2, LenProperties
  <2> QED BY <2>2, <2>3
<1>3. reports \in Seq(Events) /\ Len(reports) = c
  <2>1. \A n \in 1..c : [interface |-> order[n], state |-> new[order[n]]] \in Events
    BY <1>1, <1>2 DEF Events, IsMap
  <2>2. reports \in [1..c -> Events]
    BY <1>2, <2>1
  <2> HIDE DEF reports, c
  <2> QED BY <1>2, <2>2
<1>4. m \in Nat /\ DOMAIN q = 1..m /\ \A n \in 1..m : q[n].interface \in DOMAIN old
  BY LenProperties DEF LastTellsState
<1>5. /\ r \in Seq(Events) /\ Len(r) = m + c /\ DOMAIN r = 1..(m + c)
      /\ \A n \in 1..m : r[n] = q[n]
      /\ \A n \in 1..c : r[m + n] = reports[n]
  <2> HIDE DEF reports, c
  <2>1. r \in Seq(Events) /\ Len(r) = m + c
    BY <1>3, ConcatProperties
  <2>2. DOMAIN r = 1..(m + c)
    BY <2>1, LenProperties
  <2>3. \A n \in 1..(m + c) : r[n] = IF n <= m THEN q[n] ELSE reports[n - m]
    BY <1>3, ConcatProperties
  <2>4. \A n \in 1..m : n \in 1..(m + c) /\ n <= m
    BY <1>2, <1>4
  <2>5. \A n \in 1..c : m + n \in 1..(m + c) /\ ~(m + n <= m) /\ (m + n) - m = n
    BY <1>2, <1>4
  <2> HIDE DEF r
  <2> QED BY <2>1, <2>2, <2>3, <2>4, <2>5
<1>6. \A n \in 1..c : /\ r[m + n].interface = order[n]
                      /\ r[m + n].state = new[order[n]]
                      /\ m + n \in DOMAIN r
  BY <1>2, <1>4, <1>5
<1>7. \A k \in DOMAIN r : k \in 1..m \/ \E n \in 1..c : k = m + n
  <2> SUFFICES ASSUME NEW k \in DOMAIN r, k \notin 1..m
               PROVE  \E n \in 1..c : k = m + n
    OBVIOUS
  <2>1. k - m \in 1..c /\ k = m + (k - m)
    BY <1>2, <1>4, <1>5
  <2> QED BY <2>1
<1> HIDE DEF C, c, reports, r, m
<1>8. ASSUME NEW n \in 1..m, NEW k \in 1..(m + 1), NoneBetween(r, n, k)
      PROVE  NoneBetween(q, n, k)
  BY <1>2, <1>4, <1>5, <1>8 DEF NoneBetween
\* The last event of an interface before the detection told its old state.
<1>9. ASSUME NEW n \in 1..m, NEW k \in 1..c, order[k] = q[n].interface,
             NoneBetween(r, n, m + k)
      PROVE  q[n].state # new[order[k]]
  <2>1. NoneBetween(q, n, m + 1)
    <3> SUFFICES ASSUME NEW l \in 1..m, n < l PROVE q[l].interface # q[n].interface
      BY <1>4 DEF NoneBetween
    <3>1. l \in DOMAIN r /\ l < m + k
      BY <1>2, <1>4, <1>5
    <3> QED BY <1>5, <1>9, <3>1 DEF NoneBetween
  <2>2. q[n].state = old[q[n].interface]
    BY <1>4, <2>1 DEF LastTellsState, m
  <2> QED BY <1>2, <1>9, <2>2 DEF C
<1>10. LastTellsState(r, new)
  <2> SUFFICES ASSUME NEW n \in DOMAIN r
               PROVE  /\ r[n].interface \in DOMAIN new
                      /\ NoneBetween(r, n, Len(r) + 1) => r[n].state = new[r[n].interface]
    BY DEF LastTellsState
  <2>1. CASE n \in 1..m
    <3> SUFFICES ASSUME NoneBetween(r, n, Len(r) + 1)
                 PROVE  r[n].state = new[r[n].interface]
      BY <1>4, <1>5, <2>1
    <3>1. ASSUME NEW k \in 1..c PROVE order[k] # q[n].interface
      <4>1. m + k \in DOMAIN r /\ n < m + k /\ m + k < Len(r) + 1
        BY <1>2, <1>4, <1>5, <2>1
      <4>2. r[m + k].interface # r[n].interface
        BY <4>1 DEF NoneBetween
      <4> QED BY <1>5, <1>6, <2>1, <4>2
    <3>2. q[n].interface \notin C
      BY <1>2, <3>1
    <3>3. new[q[n].interface] = old[q[n].interface]
      BY <1>4, <2>1, <3>2 DEF C
    <3>4. NoneBetween(q, n, m + 1)
      <4> SUFFICES ASSUME NEW l \in 1..m, n < l PROVE q[l].interface # q[n].interface
        BY <1>4 DEF NoneBetween
      <4>1. l \in DOMAIN r /\ l < Len(r) + 1
        BY <1>2, <1>4, <1>5
      <4> QED BY <1>5, <2>1, <4>1 DEF NoneBetween
    <3>5. q[n].state = old[q[n].interface]
      BY <1>4, <2>1, <3>4 DEF LastTellsState, m
    <3> QED BY <1>5, <2>1, <3>3, <3>5
  <2>2. CASE n \notin 1..m
    <3>1. PICK k \in 1..c : n = m + k
      BY <1>7, <2>2
    <3> QED BY <1>2, <1>6, <3>1 DEF C
  <2> QED BY <2>1, <2>2
<1>11. Alternates(r)
  <2> SUFFICES ASSUME NEW n \in DOMAIN r, NEW k \in DOMAIN r, n < k,
                      r[k].interface = r[n].interface, NoneBetween(r, n, k)
               PROVE  r[k].state # r[n].state
    BY DEF Alternates
  <2>1. CASE k \in 1..m
    <3>1. n \in 1..m /\ k \in 1..(m + 1)
      BY <1>4, <1>5, <2>1
    <3>2. NoneBetween(q, n, k)
      BY <1>8, <3>1
    <3>3. q[k].interface = q[n].interface
      BY <1>5, <2>1, <3>1
    <3> QED BY <1>4, <1>5, <2>1, <3>1, <3>2, <3>3 DEF Alternates
  <2>2. ASSUME NEW l \in 1..c, k = m + l, n \in 1..m PROVE r[k].state # r[n].state
    BY <1>5, <1>6, <1>9, <2>2
  <2>3. ASSUME NEW l \in 1..c, k = m + l, NEW j \in 1..c, n = m + j PROVE FALSE
    BY <1>2, <1>4, <1>6, <2>3
  <2> QED BY <1>7, <2>1, <2>2, <2>3
<1> QED BY <1>2, <1>5, <1>10, <1>11 DEF r, reports, C, m

(***************************************************************************)
(* A detection raises the number of changes counted by those it found.     *)
(***************************************************************************)
LEMMA ChangesGrow ==
  ASSUME NEW stats, IsMap(stats, Interfaces, Stats), NEW states,
         NEW changed \in SUBSET Interfaces
  PROVE  /\ ChangesIn(stats) \in Int
         /\ ChangesIn(Counted(stats, states, changed)) =
              ChangesIn(stats) + Cardinality(changed)
<1> DEFINE S == DOMAIN stats
           T == S \cup changed
           f == [i \in S |-> stats[i].congestion_events]
           c == Counted(stats, states, changed)
           h == [i \in DOMAIN c |-> c[i].congestion_events]
<1>1. DOMAIN c = T
  BY CountedType
<1>2. IsFiniteSet(S) /\ IsFiniteSet(T) /\ S \in SUBSET T /\ changed \in SUBSET T
  BY CongestionAssumption, FS_Subset DEF IsMap
<1>3. \A i \in S : f[i] \in Int
  BY DEF IsMap, Stats
<1>4. ASSUME NEW i \in T
      PROVE  h[i] = (IF i \in S THEN f[i] ELSE 0) + (IF i \in changed THEN 1 ELSE 0)
  <2> DEFINE old == CountersBefore(stats, i)
  <2>1. /\ old \in Stats
        /\ i \notin changed => c[i] = old
        /\ i \in changed => c[i].congestion_events = old.congestion_events + 1
    BY CountedEntry
  <2>2. old.congestion_events = IF i \in S THEN f[i] ELSE 0
    BY DEF CountersBefore, ZeroStats
  <2>3. h[i] = c[i].congestion_events
    BY <1>1
  <2>4. old.congestion_events \in Int
    BY <2>1 DEF Stats
  <2> HIDE DEF old, c, h, S, f
  <2>5. h[i] = old.congestion_events + (IF i \in changed THEN 1 ELSE 0)
    BY <2>1, <2>3, <2>4
  <2> QED BY <2>2, <2>5
<1>5. ChangesIn(stats) = SumFunctionOnSet(f, S)
  BY DEF ChangesIn, SumFunction
<1>6. ChangesIn(c) = SumFunctionOnSet(h, T)
  BY <1>1 DEF ChangesIn, SumFunction
<1> HIDE DEF S, T, f, c, h
<1>7. SumFunctionOnSet(h, T) = SumFunctionOnSet(f, S) + Cardinality(changed)
  BY <1>2, <1>3, <1>4, SumGrows
<1>8. SumFunctionOnSet(f, S) \in Int
  BY <1>2, <1>3, SumFacts
<1> QED BY <1>5, <1>6, <1>7, <1>8 DEF c

-----------------------------------------------------------------------------
(* The steps.                                                              *)

(***************************************************************************)
(* detectCongestion: the new states, the counters and the queue.           *)
(***************************************************************************)
LEMMA DetectionStep ==
  ASSUME CongestionInv,
         NEW depths \in [DOMAIN m_interface_congestion -> QueueDepths], NEW order,
         DetectCongestion(depths, order)
  PROVE  /\ IsMap(m_interface_congestion', Interfaces, States)
         /\ DOMAIN m_interface_congestion' = DOMAIN m_interface_congestion
         /\ IsMap(m_congestion_stats', Interfaces, Stats)
         /\ DOMAIN m_congestion_stats' \subseteq DOMAIN m_interface_congestion
         /\ \A i \in DOMAIN m_congestion_stats' :
              Paired(m_congestion_stats'[i], m_interface_congestion'[i])
         /\ QueueOK' /\ LengthOK' /\ Len(m_congestion_events') <= QueueLimit
         /\ IsMap(ecn_rows', Interfaces, EcnEntries \cup {80})
<1> DEFINE states  == [i \in DOMAIN depths |-> Classified(depths[i])]
           changed == ChangedIn(states)
           reports == [n \in DOMAIN order |->
                         [interface |-> order[n], state |-> states[order[n]]]]
           marks   == [i \in Marked(states, changed) |-> m_ecn_threshold_percent]
<1>1. /\ order \in SetToSeqs(changed)
      /\ m_interface_congestion' = states
      /\ m_congestion_stats' = Counted(m_congestion_stats, states, changed)
      /\ m_congestion_events' = LatestKept(m_congestion_events \o reports)
      /\ ecn_rows' = PutAll(ecn_rows, marks)
  BY DEF DetectCongestion
<1>2. /\ IsMap(m_interface_congestion, Interfaces, States)
      /\ IsMap(m_congestion_stats, Interfaces, Stats)
      /\ m_path_rebalancing_enabled \in BOOLEAN
      /\ m_ecn_threshold_percent \in EcnEntries \cup {80}
      /\ IsMap(ecn_rows, Interfaces, EcnEntries \cup {80})
      /\ DOMAIN m_congestion_stats \subseteq DOMAIN m_interface_congestion
  BY DEF CongestionInv, TypeOK, KeysOK
<1>3. IsMap(states, Interfaces, States) /\ DOMAIN states = DOMAIN m_interface_congestion
  BY <1>2, ValueTypes DEF IsMap
<1>4. /\ changed = {i \in DOMAIN states : states[i] # m_interface_congestion[i]}
      /\ changed \subseteq DOMAIN m_interface_congestion
      /\ changed \in SUBSET Interfaces
  BY <1>2, <1>3 DEF ChangedIn, IsMap
<1>5. IsMap(ecn_rows', Interfaces, EcnEntries \cup {80})
  <2>1. IsMap(marks, Interfaces, EcnEntries \cup {80})
    BY <1>2, <1>4 DEF Marked, IsMap
  <2> QED BY <1>1, <1>2, <2>1, PutAllType
<1> HIDE DEF states, changed
<1>6. /\ IsMap(m_congestion_stats', Interfaces, Stats)
      /\ DOMAIN m_congestion_stats' = DOMAIN m_congestion_stats \cup changed
  BY <1>1, <1>2, <1>4, CountedType
<1>7. ASSUME NEW i \in DOMAIN m_congestion_stats'
      PROVE  Paired(m_congestion_stats'[i], states[i])
  <2> DEFINE new == m_congestion_stats'[i]
  <2> DEFINE old == CountersBefore(m_congestion_stats, i)
  <2>1. /\ old \in Stats /\ new \in Stats
        /\ i \notin changed => new = old
        /\ i \in changed => new.congestion_events = old.congestion_events + 1
        /\ i \in changed /\ states[i] # "CONGESTED" =>
             new.path_rebalance_events = old.path_rebalance_events
        /\ new.path_rebalance_events <= old.path_rebalance_events + 1
    BY <1>1, <1>2, <1>6, CountedEntry
  <2>2. /\ old.congestion_events \in Nat /\ old.path_rebalance_events \in Nat
        /\ new.congestion_events \in Nat /\ new.path_rebalance_events \in Nat
    BY <2>1 DEF Stats
  <2>3. Paired(old, m_interface_congestion[i])
    <3>1. CASE i \in DOMAIN m_congestion_stats
      BY <3>1 DEF CongestionInv, CountersOK, CountersBefore
    <3>2. CASE i \notin DOMAIN m_congestion_stats
      BY <3>2 DEF Paired, CountersBefore, ZeroStats
    <3> QED BY <3>1, <3>2
  <2> HIDE DEF old, new
  <2>4. CASE i \notin changed
    <3>1. states[i] = m_interface_congestion[i]
      BY <1>2, <1>3, <1>4, <1>6, <2>4
    <3> QED BY <2>1, <2>3, <2>4, <3>1 DEF new
  <2>5. CASE i \in changed /\ states[i] = "CONGESTED"
    <3>1. m_interface_congestion[i] # "CONGESTED"
      BY <1>4, <2>5
    <3>2. 2 * old.path_rebalance_events <= old.congestion_events
      BY <2>3, <3>1 DEF Paired
    <3>3. 2 * new.path_rebalance_events <= new.congestion_events + 1
      BY <2>1, <2>2, <2>5, <3>2
    <3> QED BY <2>5, <3>3 DEF Paired, new
  <2>6. CASE i \in changed /\ states[i] # "CONGESTED"
    <3>1. 2 * old.path_rebalance_events <= old.congestion_events + 1
      BY <2>3 DEF Paired
    <3>2. 2 * new.path_rebalance_events <= new.congestion_events
      BY <2>1, <2>2, <2>6, <3>1
    <3>3. 2 * new.path_rebalance_events <= new.congestion_events + 1
      BY <2>2, <3>2
    <3> QED BY <3>2, <3>3 DEF Paired, new
  <2> QED BY <2>4, <2>5, <2>6
<1>8. /\ m_congestion_events \o reports \in Seq(Events)
      /\ Len(m_congestion_events \o reports) = Len(m_congestion_events) + Cardinality(changed)
      /\ LastTellsState(m_congestion_events \o reports, states)
      /\ Alternates(m_congestion_events \o reports)
  <2>1. /\ m_congestion_events \in Seq(Events)
        /\ LastTellsState(m_congestion_events, m_interface_congestion)
        /\ Alternates(m_congestion_events)
    BY DEF CongestionInv, QueueOK
  <2>2. order \in SetToSeqs({i \in DOMAIN states : states[i] # m_interface_congestion[i]})
    BY <1>1, <1>4
  <2> QED BY <1>2, <1>3, <1>4, <2>1, <2>2, ReportsTell
<1>9. QueueOK'
  BY <1>1, <1>8, LatestKeptTells DEF QueueOK
<1>10. LengthOK' /\ Len(m_congestion_events') <= QueueLimit
  <2> DEFINE l == Len(m_congestion_events)
             t == ChangesIn(m_congestion_stats)
             c == Cardinality(changed)
             r == Len(m_congestion_events \o reports)
  <2>1. ChangesIn(m_congestion_stats') = t + c /\ t \in Int
    BY <1>1, <1>2, <1>4, ChangesGrow
  <2>2. c \in Nat /\ QueueLimit \in Nat \ {0} /\ l \in Nat
    <3>1. IsFiniteSet(changed)
      BY <1>4, CongestionAssumption, FS_Subset
    <3>2. l \in Nat
      BY LenProperties DEF CongestionInv, QueueOK
    <3> QED BY <3>1, <3>2, FS_CardinalityType, CongestionAssumption
  <2>3. (t < QueueLimit => l = t) /\ (~(t < QueueLimit) => l = QueueLimit)
    BY DEF CongestionInv, LengthOK, TotalChanges, ChangesIn
  <2>4. /\ r = l + c
        /\ r > QueueLimit => Len(m_congestion_events') = QueueLimit
        /\ ~(r > QueueLimit) => Len(m_congestion_events') = r
    BY <1>1, <1>8, LatestKeptTells
  <2>5. TotalChanges' = t + c
    BY <2>1 DEF TotalChanges, ChangesIn
  <2> HIDE DEF l, t, c, r
  <2>6. /\ t + c < QueueLimit => Len(m_congestion_events') = t + c
        /\ ~(t + c < QueueLimit) => Len(m_congestion_events') = QueueLimit
        /\ Len(m_congestion_events') <= QueueLimit
    BY <2>1, <2>2, <2>3, <2>4
  <2> QED BY <2>5, <2>6 DEF LengthOK
<1> QED BY <1>1, <1>2, <1>3, <1>4, <1>5, <1>6, <1>7, <1>9, <1>10

\* The start, and every restart: nothing known, nothing counted.
LEMMA NothingCounted ==
  /\ IsMap(EmptyMap, Interfaces, States) /\ IsMap(EmptyMap, Interfaces, Stats)
  /\ IsMap(EmptyMap, Interfaces, Paths) /\ DOMAIN EmptyMap = {}
  /\ ChangesIn(EmptyMap) = 0
  /\ <<>> \in Seq(Events) /\ Len(<<>>) = 0
  /\ LastTellsState(<<>>, EmptyMap) /\ Alternates(<<>>)
<1>1. /\ IsMap(EmptyMap, Interfaces, States) /\ IsMap(EmptyMap, Interfaces, Stats)
      /\ IsMap(EmptyMap, Interfaces, Paths) /\ DOMAIN EmptyMap = {}
  BY EmptyMapType
<1>2. ChangesIn(EmptyMap) = 0
  <2> DEFINE f == [i \in DOMAIN EmptyMap |-> EmptyMap[i].congestion_events]
  <2>1. DOMAIN f = {}
    BY <1>1
  <2>2. IsFiniteSet({}) /\ \A i \in {} : f[i] \in Int
    BY FS_EmptySet
  <2>3. ChangesIn(EmptyMap) = SumFunctionOnSet(f, {})
    BY <2>1 DEF ChangesIn, SumFunction
  <2> HIDE DEF f
  <2> QED BY <2>2, <2>3, SumFacts
<1>3. <<>> \in Seq(Events) /\ Len(<<>>) = 0 /\ DOMAIN <<>> = {}
  OBVIOUS
<1>4. LastTellsState(<<>>, EmptyMap) /\ Alternates(<<>>)
  BY <1>3 DEF LastTellsState, Alternates
<1> QED BY <1>1, <1>2, <1>3, <1>4

\* The invariant in the state a start or a restart leaves in memory.
Started ==
  /\ InitialMemory
  /\ IsMap(ecn_rows, Interfaces, EcnEntries \cup {80})
  /\ IsMap(state_rows, Interfaces, Stats)
  /\ \A i \in DOMAIN state_rows :
       2 * state_rows[i].path_rebalance_events <= state_rows[i].congestion_events + 1

LEMMA MemoryAfterStart == Started => CongestionInv
<1> SUFFICES ASSUME Started PROVE CongestionInv
  OBVIOUS
<1> USE DEF Started
<1>1. /\ m_interface_congestion = EmptyMap /\ m_congestion_stats = EmptyMap
      /\ m_congestion_events = <<>> /\ m_path_info = EmptyMap
      /\ m_ecn_threshold_percent = 80 /\ m_path_rebalancing_enabled = TRUE
      /\ due = Tasks
  BY DEF InitialMemory
<1>2. QueueLimit \in Nat \ {0}
  BY CongestionAssumption
<1>3. TypeOK
  BY <1>1, <1>2, NothingCounted DEF TypeOK, Paths
<1>4. KeysOK /\ PathsKnowStates /\ CountersOK
  BY <1>1, NothingCounted DEF KeysOK, PathsKnowStates, CountersOK
<1>5. QueueOK
  BY <1>1, NothingCounted DEF QueueOK
<1>6. LengthOK
  BY <1>1, <1>2, NothingCounted DEF LengthOK, TotalChanges, ChangesIn
<1> QED BY <1>3, <1>4, <1>5, <1>6 DEF CongestionInv

\* The paths after a detection keep their keys and type, and know its states.
LEMMA PathsAfterDetection ==
  ASSUME CongestionInv, NEW states, IsMap(states, Interfaces, States),
         DOMAIN states = DOMAIN m_interface_congestion
  PROVE  /\ IsMap(PathsDetected(states), Interfaces, Paths)
         /\ DOMAIN PathsDetected(states) = DOMAIN states
         /\ \A i \in DOMAIN states : PathsDetected(states)[i].congestion_state = states[i]
<1>1. IsMap(m_path_info, Interfaces, Paths) /\ DOMAIN m_path_info = DOMAIN states
  BY DEF CongestionInv, TypeOK, KeysOK, Paths
<1>2. PICK paths : /\ IsMap(paths, Interfaces, Paths) /\ DOMAIN paths = DOMAIN states
                   /\ PathsDetected(states) = WithStates(paths, states)
  BY <1>1, RebalancedPaths DEF PathsDetected
<1>3. \A i \in DOMAIN paths : states[i] \in States
  BY <1>2 DEF IsMap
<1> QED BY <1>2, <1>3, InformedPaths

\* The periodic rebalancing keeps the keys, the type and what the paths know;
\* when it is due, every weight is that of the state known.
LEMMA PathsAfterRebalancing ==
  ASSUME NEW paths, IsMap(paths, Interfaces, Paths)
  PROVE  /\ IsMap(PathsRebalanced(paths), Interfaces, Paths)
         /\ DOMAIN PathsRebalanced(paths) = DOMAIN paths
         /\ \A i \in DOMAIN paths :
              /\ PathsRebalanced(paths)[i].congestion_state = paths[i].congestion_state
              /\ RebalanceDue =>
                   PathsRebalanced(paths)[i].weight = Weight[paths[i].congestion_state]
  BY RebalancedPaths DEF PathsRebalanced

(***************************************************************************)
(* doPeriodicTask, with a detection or without.  The paths know the states *)
(* it leaves, and carry their weights if the rebalancing was due.          *)
(***************************************************************************)
LEMMA PeriodicTaskStep ==
  ASSUME CongestionInv, DoPeriodicTask
  PROVE  /\ CongestionInv'
         /\ RebalanceDue => \A i \in DOMAIN m_path_info' :
              m_path_info'[i].weight = Weight[m_interface_congestion'[i]]
<1> DEFINE paths == IF "check" \in due THEN PathsDetected(m_interface_congestion')
                    ELSE m_path_info
<1>1. /\ IsMap(m_interface_congestion', Interfaces, States)
      /\ DOMAIN m_interface_congestion' = DOMAIN m_interface_congestion
      /\ IsMap(m_congestion_stats', Interfaces, Stats)
      /\ DOMAIN m_congestion_stats' \subseteq DOMAIN m_interface_congestion
      /\ \A i \in DOMAIN m_congestion_stats' :
           Paired(m_congestion_stats'[i], m_interface_congestion'[i])
      /\ QueueOK' /\ LengthOK' /\ Len(m_congestion_events') <= QueueLimit
      /\ IsMap(ecn_rows', Interfaces, EcnEntries \cup {80})
  <2>1. CASE "check" \in due
    <3>1. PICK depths \in [DOMAIN m_interface_congestion -> QueueDepths] :
            \E order \in SetToSeqs(ChangedIn([i \in DOMAIN depths |->
                                                Classified(depths[i])])) :
              DetectCongestion(depths, order)
      BY <2>1 DEF DoPeriodicTask
    <3> QED BY <3>1, DetectionStep
  <2>2. CASE "check" \notin due
    <3>1. UNCHANGED <<m_interface_congestion, m_congestion_stats, m_congestion_events,
                      ecn_rows>>
      BY <2>2 DEF DoPeriodicTask
    <3>2. QueueOK' /\ LengthOK'
      BY <3>1 DEF CongestionInv, QueueOK, LengthOK, TotalChanges
    <3> QED BY <3>1, <3>2 DEF CongestionInv, TypeOK, KeysOK, CountersOK
  <2> QED BY <2>1, <2>2
<1>2. m_path_info' = PathsRebalanced(paths)
  BY DEF DoPeriodicTask
<1>3. /\ IsMap(paths, Interfaces, Paths)
      /\ DOMAIN paths = DOMAIN m_interface_congestion'
      /\ \A i \in DOMAIN paths : paths[i].congestion_state = m_interface_congestion'[i]
  <2>1. CASE "check" \in due
    BY <1>1, <2>1, PathsAfterDetection
  <2>2. CASE "check" \notin due
    <3>1. m_interface_congestion' = m_interface_congestion
      BY <2>2 DEF DoPeriodicTask
    <3> QED BY <2>2, <3>1 DEF CongestionInv, TypeOK, KeysOK, PathsKnowStates, Paths
  <2> QED BY <2>1, <2>2
<1> HIDE DEF paths
<1>4. /\ IsMap(m_path_info', Interfaces, Paths)
      /\ DOMAIN m_path_info' = DOMAIN m_interface_congestion'
      /\ \A i \in DOMAIN m_path_info' :
           /\ m_path_info'[i].congestion_state = m_interface_congestion'[i]
           /\ RebalanceDue => m_path_info'[i].weight = Weight[m_interface_congestion'[i]]
  BY <1>2, <1>3, PathsAfterRebalancing
<1>5. /\ IsMap(state_rows', Interfaces, Stats)
      /\ \A i \in DOMAIN state_rows' :
           2 * state_rows'[i].path_rebalance_events <= state_rows'[i].congestion_events + 1
  <2>1. /\ IsMap(state_rows, Interfaces, Stats)
        /\ \A i \in DOMAIN state_rows :
             2 * state_rows[i].path_rebalance_events <= state_rows[i].congestion_events + 1
    BY DEF CongestionInv, TypeOK, CountersOK
  <2>2. state_rows' \in {state_rows, PutAll(state_rows, m_congestion_stats')}
    BY DEF DoPeriodicTask, Published
  <2>3. \A i \in DOMAIN m_congestion_stats' :
          2 * m_congestion_stats'[i].path_rebalance_events
            <= m_congestion_stats'[i].congestion_events + 1
    BY <1>1 DEF Paired
  <2>4. IsMap(state_rows', Interfaces, Stats)
    BY <1>1, <2>1, <2>2, PutAllType
  <2>5. CASE state_rows' = state_rows
    BY <2>1, <2>4, <2>5
  <2>6. CASE state_rows' = PutAll(state_rows, m_congestion_stats')
    <3> SUFFICES ASSUME NEW i \in DOMAIN state_rows'
                 PROVE  2 * state_rows'[i].path_rebalance_events
                          <= state_rows'[i].congestion_events + 1
      BY <2>4
    <3>1. \/ i \in DOMAIN m_congestion_stats' /\ state_rows'[i] = m_congestion_stats'[i]
          \/ i \in DOMAIN state_rows /\ state_rows'[i] = state_rows[i]
      BY <2>6 DEF PutAll
    <3> QED BY <2>1, <2>3, <3>1
  <2> QED BY <2>2, <2>5, <2>6
<1>6. /\ UNCHANGED settings
      /\ due' \subseteq due
  BY DEF DoPeriodicTask
<1>7. TypeOK'
  <2>1. \A n \in DOMAIN m_congestion_events' :
          m_congestion_events'[n] \in [interface : Interfaces, state : States]
    <3>1. m_congestion_events' \in Seq(Events)
      BY <1>1 DEF QueueOK
    <3>2. m_congestion_events' \in [1..Len(m_congestion_events') -> Events]
          /\ DOMAIN m_congestion_events' = 1..Len(m_congestion_events')
      BY <3>1, LenProperties
    <3> QED BY <3>2 DEF Events
  <2>2. /\ m_ecn_threshold_percent' \in EcnEntries \cup {80}
        /\ m_path_rebalancing_enabled' \in BOOLEAN
        /\ due' \subseteq Tasks
    BY <1>6 DEF CongestionInv, TypeOK, settings
  <2> QED BY <1>1, <1>4, <1>5, <2>1, <2>2 DEF TypeOK, Paths
<1>8. KeysOK' /\ PathsKnowStates' /\ CountersOK'
  BY <1>1, <1>4, <1>5 DEF KeysOK, PathsKnowStates, CountersOK
<1> QED BY <1>1, <1>4, <1>7, <1>8 DEF CongestionInv

\* The steps that touch neither the counters nor the queue.
LEMMA OtherSteps ==
  ASSUME CongestionInv,
         \/ \E i \in Interfaces : ProcessInterfaceConfig(i)
         \/ \E ecn \in EcnEntries, rebalancing \in BOOLEAN :
              ProcessCongestionConfig(ecn, rebalancing)
         \/ ClockStep
         \/ UNCHANGED vars
  PROVE  CongestionInv'
<1>1. ASSUME NEW i \in Interfaces, ProcessInterfaceConfig(i) PROVE CongestionInv'
  <2>1. /\ i \notin DOMAIN m_interface_congestion
        /\ m_interface_congestion' = Put(m_interface_congestion, i, "NORMAL")
        /\ m_path_info' = Put(m_path_info, i, NewPath)
        /\ UNCHANGED <<m_congestion_stats, m_congestion_events, m_ecn_threshold_percent,
                       m_path_rebalancing_enabled, due, ecn_rows, state_rows>>
    BY <1>1 DEF ProcessInterfaceConfig, settings
  <2>2. "NORMAL" \in States /\ NewPath \in Paths /\ NewPath.congestion_state = "NORMAL"
    <3>1. 100 \in 0..100
      OBVIOUS
    <3> QED BY <3>1 DEF States, NewPath, Paths
  <2>3. IsMap(m_interface_congestion, Interfaces, States) /\ IsMap(m_path_info, Interfaces, Paths)
    BY DEF CongestionInv, TypeOK, Paths
  <2>4. IsMap(m_interface_congestion', Interfaces, States)
        /\ IsMap(m_path_info', Interfaces, Paths)
    BY <2>1, <2>2, <2>3, PutType
  <2>5. /\ DOMAIN m_interface_congestion' = DOMAIN m_interface_congestion \cup {i}
        /\ DOMAIN m_path_info' = DOMAIN m_path_info \cup {i}
        /\ m_interface_congestion'[i] = "NORMAL" /\ m_path_info'[i] = NewPath
        /\ \A j \in DOMAIN m_interface_congestion :
             m_interface_congestion'[j] = m_interface_congestion[j]
        /\ \A j \in DOMAIN m_path_info : j # i => m_path_info'[j] = m_path_info[j]
    BY <2>1 DEF Put
  <2>6. TypeOK'
    BY <2>1, <2>4 DEF CongestionInv, TypeOK, Paths
  <2>7. KeysOK' /\ PathsKnowStates'
    BY <2>1, <2>2, <2>5 DEF CongestionInv, KeysOK, PathsKnowStates
  <2>8. CountersOK'
    BY <2>1, <2>5 DEF CongestionInv, KeysOK, CountersOK
  <2>9. QueueOK'
    <3>1. LastTellsState(m_congestion_events, m_interface_congestion')
      BY <2>5 DEF CongestionInv, QueueOK, LastTellsState
    <3> QED BY <2>1, <3>1 DEF CongestionInv, QueueOK
  <2>10. LengthOK'
    BY <2>1 DEF CongestionInv, LengthOK, TotalChanges
  <2> QED BY <2>6, <2>7, <2>8, <2>9, <2>10 DEF CongestionInv
<1>2. ASSUME UNCHANGED <<m_interface_congestion, m_congestion_stats, m_congestion_events,
                         m_path_info, ecn_rows, state_rows>>,
             m_ecn_threshold_percent' \in EcnEntries \cup {80},
             m_path_rebalancing_enabled' \in BOOLEAN,
             due' \subseteq Tasks
      PROVE  CongestionInv'
  <2>1. TypeOK'
    BY <1>2 DEF CongestionInv, TypeOK
  <2>2. KeysOK' /\ PathsKnowStates' /\ CountersOK'
    BY <1>2 DEF CongestionInv, KeysOK, PathsKnowStates, CountersOK
  <2>3. QueueOK' /\ LengthOK'
    BY <1>2 DEF CongestionInv, QueueOK, LengthOK, TotalChanges
  <2> QED BY <2>1, <2>2, <2>3 DEF CongestionInv
<1>3. /\ m_ecn_threshold_percent \in EcnEntries \cup {80}
      /\ m_path_rebalancing_enabled \in BOOLEAN
      /\ due \subseteq Tasks
  BY DEF CongestionInv, TypeOK
<1>4. ASSUME NEW ecn \in EcnEntries, NEW rebalancing \in BOOLEAN,
             ProcessCongestionConfig(ecn, rebalancing)
      PROVE  CongestionInv'
  BY <1>2, <1>3, <1>4 DEF ProcessCongestionConfig
<1>5. CASE ClockStep
  BY <1>2, <1>3, <1>5 DEF ClockStep, settings, Tasks
<1>6. CASE UNCHANGED vars
  BY <1>2, <1>3, <1>6 DEF vars, settings
<1> QED BY <1>1, <1>4, <1>5, <1>6

\* Init => Inv and Inv /\ [Next]_vars => Inv'.
LEMMA CongestionInductive ==
  /\ Init => CongestionInv
  /\ CongestionInv /\ [Next]_vars => CongestionInv'
<1>1. Init => CongestionInv
  <2> SUFFICES ASSUME Init PROVE CongestionInv
    OBVIOUS
  <2>1. /\ IsMap(ecn_rows, Interfaces, EcnEntries \cup {80})
        /\ IsMap(state_rows, Interfaces, Stats) /\ DOMAIN state_rows = {}
    BY EmptyMapType DEF Init
  <2>2. Started
    BY <2>1 DEF Init, Started
  <2> QED BY <2>2, MemoryAfterStart
<1>2. ASSUME CongestionInv, [Next]_vars PROVE CongestionInv'
  <2>1. CASE DoPeriodicTask
    BY <1>2, <2>1, PeriodicTaskStep
  <2>2. CASE Restart
    <3>1. InitialMemory'
      BY <2>2 DEF Restart, InitialMemory
    <3>2. Started'
      BY <1>2, <2>2, <3>1 DEF Restart, CongestionInv, TypeOK, CountersOK, Started
    <3> QED BY <3>2, MemoryAfterStart, PTL
  <2> QED BY <1>2, <2>1, <2>2, OtherSteps DEF Next
<1> QED BY <1>1, <1>2

(***************************************************************************)
(* In every reachable state of the congestion manager the variables have   *)
(* their types and the queue respects its limit.                           *)
(***************************************************************************)
THEOREM TypeCorrect == Spec => []TypeOK
<1>1. CongestionInv => TypeOK
  BY DEF CongestionInv
<1> QED BY <1>1, CongestionInductive, PTL DEF Spec

(***************************************************************************)
(* Rebalancings stay within the changes, in memory and in STATE_DB, across *)
(* restarts and whatever the configuration switches on and off.            *)
(***************************************************************************)
THEOREM RebalancesWithinChangesHolds == Spec => []RebalancesWithinChanges
<1>1. CongestionInv => RebalancesWithinChanges
  BY DEF CongestionInv, CountersOK, Paired, RebalancesWithinChanges
<1> QED BY <1>1, CongestionInductive, PTL DEF Spec

(***************************************************************************)
(* The periodic rebalancing works on the states detected in the same call. *)
(***************************************************************************)
THEOREM RebalancingIsFreshHolds == Spec => RebalancingIsFresh
<1> DEFINE Fresh == RebalanceDue /\ "rebalance" \notin due' =>
                      \A i \in DOMAIN m_path_info' :
                        m_path_info'[i].weight = Weight[m_interface_congestion'[i]]
<1>1. CongestionInv /\ [Next]_vars => [Fresh]_vars
  <2> SUFFICES ASSUME CongestionInv, Next, RebalanceDue, "rebalance" \notin due'
               PROVE  \A i \in DOMAIN m_path_info' :
                        m_path_info'[i].weight = Weight[m_interface_congestion'[i]]
    OBVIOUS
  <2>1. CASE DoPeriodicTask
    BY <2>1, PeriodicTaskStep
  <2>2. CASE ~DoPeriodicTask
    BY <2>2 DEF Next, ProcessInterfaceConfig, ProcessCongestionConfig, ClockStep, Restart,
                RebalanceDue, Tasks
  <2> QED BY <2>1, <2>2
<1> QED BY <1>1, CongestionInductive, PTL DEF Spec, RebalancingIsFresh

(***************************************************************************)
(* No change goes unreported: as many events are queued as changes were    *)
(* counted, up to the limit, the newest of an interface tells its state,   *)
(* and successive ones differ.                                             *)
(***************************************************************************)
THEOREM EventsFollowStatesHolds == Spec => []EventsFollowStates
<1>1. ASSUME CongestionInv PROVE EventsFollowStates
  <2> DEFINE q == m_congestion_events
             later(n) == {k \in DOMAIN q : k > n /\ q[k].interface = q[n].interface}
  <2>1. q \in Seq(Events) /\ LastTellsState(q, m_interface_congestion) /\ Alternates(q)
    BY <1>1 DEF CongestionInv, QueueOK
  <2>2. DOMAIN q = 1..Len(q) /\ Len(q) \in Nat
    BY <2>1, LenProperties
  <2> HIDE DEF q
  <2>3. ASSUME NEW n \in DOMAIN q, later(n) = {}
        PROVE  q[n].state = m_interface_congestion[q[n].interface]
    <3>1. NoneBetween(q, n, Len(q) + 1)
      BY <2>2, <2>3 DEF NoneBetween
    <3> QED BY <2>1, <3>1 DEF LastTellsState
  <2>4. ASSUME NEW n \in DOMAIN q, later(n) # {}
        PROVE  q[CHOOSE k \in later(n) : \A l \in later(n) : k <= l].state # q[n].state
    <3>1. later(n) \subseteq Nat
      BY <2>2
    <3> DEFINE next == CHOOSE k \in later(n) : \A l \in later(n) : k <= l
    <3>2. next \in later(n) /\ \A l \in later(n) : next <= l
      <4> HIDE DEF later
      <4>1. \E k \in later(n) : \A l \in later(n) : k <= l
        BY <2>4, <3>1, LeastNat
      <4> QED BY <4>1
    <3> HIDE DEF next
    <3>3. NoneBetween(q, n, next)
      BY <2>2, <3>1, <3>2 DEF NoneBetween
    <3>4. next \in DOMAIN q /\ n < next /\ q[next].interface = q[n].interface
      BY <2>2, <3>2
    <3>5. q[next].state # q[n].state
      BY <2>1, <3>3, <3>4 DEF Alternates
    <3> QED BY <3>5 DEF next
  <2>5. LengthOK
    BY <1>1 DEF CongestionInv
  <2> QED BY <2>3, <2>4, <2>5 DEF EventsFollowStates, LengthOK, q
<1> QED BY <1>1, CongestionInductive, PTL DEF Spec
-----------------------------------------------------------------------------
(* What is counted is what was done.                                       *)

(***************************************************************************)
(* handleCongestionEvent counts a rebalancing of an interface if and only  *)
(* if it has become congested and rebalancing is enabled.                  *)
(***************************************************************************)
LEMMA CountedRebalances ==
  ASSUME NEW stats, IsMap(stats, Interfaces, Stats), NEW states, NEW changed,
         NEW i \in DOMAIN stats \cup changed
  PROVE  Counted(stats, states, changed)[i].path_rebalance_events > Rebalances(stats, i)
           <=> i \in changed /\ states[i] = "CONGESTED" /\ m_path_rebalancing_enabled
<1> DEFINE new == Counted(stats, states, changed)[i].path_rebalance_events
           old == CountersBefore(stats, i)
<1>1. old.path_rebalance_events \in Nat
  BY CountedEntry DEF Stats
<1>2. Rebalances(stats, i) = old.path_rebalance_events
  BY DEF Rebalances, CountersBefore, ZeroStats
<1>3. CASE i \notin changed
  <2>1. new = old.path_rebalance_events
    BY <1>3 DEF Counted, CountersBefore
  <2> HIDE DEF new, old
  <2> QED BY <1>1, <1>2, <1>3, <2>1 DEF new
<1>4. CASE i \in changed
  <2> DEFINE reb == IF states[i] = "CONGESTED" /\ m_path_rebalancing_enabled THEN 1 ELSE 0
  <2>1. new = old.path_rebalance_events + reb
    BY <1>4 DEF Counted, CountersBefore
  <2>2. \/ reb = 1 /\ states[i] = "CONGESTED" /\ m_path_rebalancing_enabled
        \/ reb = 0 /\ ~(states[i] = "CONGESTED" /\ m_path_rebalancing_enabled)
    OBVIOUS
  <2> HIDE DEF new, old, reb
  <2> QED BY <1>1, <1>2, <1>4, <2>1, <2>2 DEF new
<1> QED BY <1>3, <1>4

\* A step that counts what RebalancesAsCounted allows, and changes the weights
\* that go with it.
AsCounted ==
  /\ \A i \in RebalancedFor :
       /\ m_path_rebalancing_enabled
       /\ m_interface_congestion[i] # "CONGESTED"
       /\ m_interface_congestion'[i] = "CONGESTED"
  /\ \A i \in DOMAIN m_path_info \cap DOMAIN m_path_info' :
       \/ RebalanceDue
       \/ m_path_info'[i].weight =
            IF RebalancedFor = {} THEN m_path_info[i].weight
            ELSE Weight[m_interface_congestion[i]]

\* Unchanged counters count nothing.
LEMMA NothingRebalanced ==
  ASSUME IsMap(m_congestion_stats, Interfaces, Stats),
         m_congestion_stats' \in {m_congestion_stats, EmptyMap}
  PROVE  RebalancedFor = {}
<1>1. CASE m_congestion_stats' = EmptyMap
  BY <1>1, EmptyMapType DEF RebalancedFor
<1>2. CASE m_congestion_stats' = m_congestion_stats
  <2> SUFFICES ASSUME NEW i \in DOMAIN m_congestion_stats
               PROVE  ~(Rebalances(m_congestion_stats, i) > Rebalances(m_congestion_stats, i))
    BY <1>2 DEF RebalancedFor
  <2>1. Rebalances(m_congestion_stats, i) \in Nat
    BY DEF Rebalances, IsMap, Stats
  <2> QED BY <2>1
<1> QED BY <1>1, <1>2

(***************************************************************************)
(* doPeriodicTask with a detection counts a rebalancing for the interfaces *)
(* that become congested, if it may, and has then done one.                *)
(***************************************************************************)
LEMMA DetectionCounts ==
  ASSUME CongestionInv, DoPeriodicTask, "check" \in due
  PROVE  AsCounted
<1>1. PICK depths \in [DOMAIN m_interface_congestion -> QueueDepths] :
        \E order \in SetToSeqs(ChangedIn([i \in DOMAIN depths |-> Classified(depths[i])])) :
          DetectCongestion(depths, order)
  BY DEF DoPeriodicTask
<1> DEFINE states  == [i \in DOMAIN depths |-> Classified(depths[i])]
           changed == ChangedIn(states)
<1>2. /\ m_interface_congestion' = states
      /\ m_congestion_stats' = Counted(m_congestion_stats, states, changed)
      /\ m_path_info' = PathsRebalanced(PathsDetected(states))
  BY <1>1 DEF DetectCongestion, DoPeriodicTask
<1>3. /\ IsMap(m_interface_congestion, Interfaces, States)
      /\ IsMap(m_congestion_stats, Interfaces, Stats)
      /\ IsMap(m_path_info, Interfaces, Paths)
      /\ DOMAIN m_path_info = DOMAIN m_interface_congestion
      /\ PathsKnowStates
  BY DEF CongestionInv, TypeOK, KeysOK, Paths
<1>4. IsMap(states, Interfaces, States) /\ DOMAIN states = DOMAIN m_interface_congestion
  BY <1>3, ValueTypes DEF IsMap
<1>5. /\ changed = {i \in DOMAIN states : states[i] # m_interface_congestion[i]}
      /\ changed \in SUBSET Interfaces
  BY <1>4 DEF ChangedIn, IsMap
<1> HIDE DEF states, changed
<1>6. DOMAIN m_congestion_stats' = DOMAIN m_congestion_stats \cup changed
  BY <1>2, <1>3, <1>5, CountedType
<1>7. RebalancedFor =
        {i \in changed : states[i] = "CONGESTED" /\ m_path_rebalancing_enabled}
  <2>1. \A i \in DOMAIN m_congestion_stats' :
          /\ Rebalances(m_congestion_stats', i) = m_congestion_stats'[i].path_rebalance_events
          /\ m_congestion_stats'[i].path_rebalance_events > Rebalances(m_congestion_stats, i)
               <=> i \in changed /\ states[i] = "CONGESTED" /\ m_path_rebalancing_enabled
    BY <1>2, <1>3, <1>6, CountedRebalances DEF Rebalances
  <2> QED BY <1>6, <2>1 DEF RebalancedFor
<1>8. ASSUME NEW i \in RebalancedFor
      PROVE  /\ m_path_rebalancing_enabled
             /\ m_interface_congestion[i] # "CONGESTED"
             /\ m_interface_congestion'[i] = "CONGESTED"
  BY <1>2, <1>5, <1>7
<1>9. ASSUME NEW i \in DOMAIN m_path_info, ~RebalanceDue
      PROVE  m_path_info'[i].weight = IF RebalancedFor = {} THEN m_path_info[i].weight
                                      ELSE Weight[m_interface_congestion[i]]
  <2>1. m_path_info' = PathsDetected(states)
    BY <1>2, <1>9 DEF PathsRebalanced
  <2>2. PathsDetected(states) =
          WithStates(IF RebalancedFor # {} THEN Rebalanced(m_path_info) ELSE m_path_info, states)
    <3>1. RebalancedFor # {} <=> (\E j \in ChangedIn(states) : states[j] = "CONGESTED")
                                 /\ m_path_rebalancing_enabled
      BY <1>7 DEF changed
    <3> QED BY <3>1 DEF PathsDetected
  <2>3. ASSUME NEW paths, IsMap(paths, Interfaces, Paths), i \in DOMAIN paths
        PROVE  WithStates(paths, states)[i].weight = paths[i].weight
    BY <2>3 DEF WithStates, IsMap, Paths
  <2>4. CASE RebalancedFor = {}
    BY <1>3, <2>1, <2>2, <2>3, <2>4
  <2>5. CASE RebalancedFor # {}
    <3>1. /\ IsMap(Rebalanced(m_path_info), Interfaces, Paths)
          /\ i \in DOMAIN Rebalanced(m_path_info)
          /\ Rebalanced(m_path_info)[i].weight = Weight[m_path_info[i].congestion_state]
      BY <1>3, RebalancedPaths
    <3>2. m_path_info'[i].weight = Rebalanced(m_path_info)[i].weight
      BY <2>1, <2>2, <2>3, <2>5, <3>1
    <3> QED BY <1>3, <2>5, <3>1, <3>2 DEF PathsKnowStates
  <2> QED BY <2>4, <2>5
<1> QED BY <1>8, <1>9 DEF AsCounted

(***************************************************************************)
(* A rebalancing is counted only when it is allowed and an interface has   *)
(* become congested, and the weights change only with one that is counted, *)
(* on the states of the detection before, or with the periodic one.        *)
(***************************************************************************)
THEOREM RebalancesAsCountedHolds == Spec => RebalancesAsCounted
<1>1. ASSUME CongestionInv, Next PROVE AsCounted
  <2>0. IsMap(m_congestion_stats, Interfaces, Stats)
        /\ DOMAIN m_path_info = DOMAIN m_interface_congestion
    BY <1>1 DEF CongestionInv, TypeOK, KeysOK
  <2>1. ASSUME NEW i \in Interfaces, ProcessInterfaceConfig(i) PROVE AsCounted
    <3>1. /\ m_path_info' = Put(m_path_info, i, NewPath) /\ i \notin DOMAIN m_path_info
          /\ RebalancedFor = {}
      BY <2>0, <2>1, NothingRebalanced DEF ProcessInterfaceConfig
    <3>2. \A j \in DOMAIN m_path_info : m_path_info'[j] = m_path_info[j]
      BY <3>1 DEF Put
    <3> QED BY <3>1, <3>2 DEF AsCounted
  <2>2. CASE ClockStep \/ \E ecn \in EcnEntries, rebalancing \in BOOLEAN :
                            ProcessCongestionConfig(ecn, rebalancing)
    <3>1. UNCHANGED <<m_path_info, m_congestion_stats>>
      BY <2>2 DEF ClockStep, ProcessCongestionConfig
    <3>2. RebalancedFor = {}
      BY <2>0, <3>1, NothingRebalanced
    <3> QED BY <3>1, <3>2 DEF AsCounted
  <2>3. CASE Restart
    <3>1. m_path_info' = EmptyMap /\ m_congestion_stats' = EmptyMap
      BY <2>3 DEF Restart
    <3>2. RebalancedFor = {} /\ DOMAIN m_path_info' = {}
      BY <2>0, <3>1, NothingRebalanced, EmptyMapType
    <3> QED BY <3>2 DEF AsCounted
  <2>4. CASE DoPeriodicTask
    <3>1. CASE "check" \in due
      BY <1>1, <2>4, <3>1, DetectionCounts
    <3>2. CASE "check" \notin due
      <4>1. m_path_info' = PathsRebalanced(m_path_info)
            /\ m_congestion_stats' = m_congestion_stats
        BY <2>4, <3>2 DEF DoPeriodicTask
      <4>2. RebalancedFor = {} /\ (~RebalanceDue => m_path_info' = m_path_info)
        BY <2>0, <4>1, NothingRebalanced DEF PathsRebalanced
      <4> QED BY <4>2 DEF AsCounted
    <3> QED BY <3>1, <3>2
  <2> QED BY <1>1, <2>1, <2>2, <2>3, <2>4 DEF Next
<1>2. CongestionInv /\ [Next]_vars => [AsCounted]_vars
  BY <1>1
<1> QED BY <1>2, CongestionInductive, PTL DEF Spec, RebalancesAsCounted, AsCounted
=============================================================================
