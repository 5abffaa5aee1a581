--------------------------- MODULE UEDataPlaneProofs ---------------------------
(***************************************************************************)
(* The three parts of the data plane that run by themselves, and their     *)
(* types where they run side by side.                                      *)
(*                                                                         *)
(* Connections: for every range of the clock, every timeout below half of  *)
(* it, and any number of senders and connections, what the look-up offers  *)
(* was used within the timeout.  The invariant ties the clock's reading of *)
(* an age, which wraps, to the age itself.                                 *)
(*                                                                         *)
(* PRI: for every set of ratios, every word and any number of interfaces   *)
(* and updates, the bytes reported saved grow with the square of the       *)
(* packets.                                                                *)
(*                                                                         *)
(* P4: on routes without a circle, for any switches and tables, a packet   *)
(* comes to no switch twice.                                               *)
(***************************************************************************)
EXTENDS MCDataPlane, UEMapsProofs, SequenceTheorems, FiniteSetTheorems,
        WellFoundedInduction, TLAPS

-----------------------------------------------------------------------------
(* Connections.                                                            *)

\* On the clock, the time since a connection was used is its age.
Dated(c) == c.idle # Lapsed => Elapsed(jiffies, c.last_activity) = c.idle

PoolInv ==
  /\ jiffies \in Clock
  /\ active_conns \in Seq(Conns)
  /\ \A n \in DOMAIN active_conns : Dated(active_conns[n])

\* The specification without its fairness.
PoolSafety == Init /\ [][Next]_vars

(***************************************************************************)
(* One tick adds one to every time elapsed, short of the whole range.      *)
(***************************************************************************)
LEMMA TickAddsOne ==
  ASSUME NEW j \in Clock, NEW l \in Clock, Elapsed(j, l) < 2 * HalfRange - 1
  PROVE  /\ Later(j, 1) \in Clock
         /\ Elapsed(Later(j, 1), l) = Elapsed(j, l) + 1
BY PoolAssumption DEF Clock, Later, Elapsed

LEMMA LaterInClock ==
  ASSUME NEW j \in Clock
  PROVE  Later(j, 1) \in Clock
BY PoolAssumption DEF Clock, Later

(***************************************************************************)
(* time_before on the clock that wraps is "less" on the time elapsed, as   *)
(* long as that is below half the range and the timeout.                   *)
(***************************************************************************)
LEMMA BeforeIsRecent ==
  ASSUME NEW j \in Clock, NEW l \in Clock, Elapsed(j, l) < HalfRange + ConnTimeout
  PROVE  TimeBefore(j, Later(l, ConnTimeout)) <=> Elapsed(j, l) < ConnTimeout
BY PoolAssumption DEF Clock, Later, Elapsed, TimeBefore

LEMMA ConnFields ==
  ASSUME NEW c \in Conns
  PROVE  c.last_activity \in Clock /\ c.idle \in 0..Lapsed /\ c.remote \in Destinations
BY DEF Conns

LEMMA StampedIsDated ==
  ASSUME NEW c \in Conns, jiffies \in Clock
  PROVE  /\ Stamped(c) \in Conns
         /\ Stamped(c).idle # Lapsed =>
              Elapsed(jiffies, Stamped(c).last_activity) = Stamped(c).idle
<1>1. Stamped(c) \in Conns
  <2> DEFINE age == IF c.idle = Lapsed THEN Lapsed ELSE 0
  <2>1. age \in 0..Lapsed
    BY PoolAssumption DEF Lapsed
  <2>2. Stamped(c) = [[c EXCEPT !.last_activity = jiffies] EXCEPT !.idle = age]
    BY DEF Stamped, Conns
  <2> HIDE DEF age
  <2>3. [c EXCEPT !.last_activity = jiffies] \in Conns
    BY DEF Conns
  <2> QED BY <2>1, <2>2, <2>3 DEF Conns
<1>2. ASSUME Stamped(c).idle # Lapsed
      PROVE  Stamped(c).idle = 0 /\ Stamped(c).last_activity = jiffies
  BY <1>2 DEF Stamped, Conns
<1>3. Elapsed(jiffies, jiffies) = 0
  BY PoolAssumption DEF Clock, Elapsed
<1> QED BY <1>1, <1>2, <1>3

LEMMA AgedIsDated ==
  ASSUME NEW c \in Conns, jiffies \in Clock, Dated(c), jiffies' = Later(jiffies, 1)
  PROVE  /\ Aged(c) \in Conns
         /\ Aged(c).idle # Lapsed =>
              Elapsed(jiffies', Aged(c).last_activity) = Aged(c).idle
<1>1. Aged(c) \in Conns
  BY PoolAssumption DEF Conns, Aged, Lapsed
<1>2. ASSUME Aged(c).idle # Lapsed
      PROVE  Elapsed(jiffies', Aged(c).last_activity) = Aged(c).idle
  <2>1. c.idle # Lapsed /\ Aged(c).idle = c.idle + 1
        /\ Aged(c).last_activity = c.last_activity
    BY <1>2 DEF Aged, Conns
  <2>2. Elapsed(jiffies, c.last_activity) = c.idle
    BY <2>1 DEF Dated
  <2>3. c.idle < 2 * HalfRange - 1
    BY <1>2, <2>1, ConnFields, PoolAssumption DEF Lapsed
  <2> QED BY <2>1, <2>2, <2>3, ConnFields, TickAddsOne
<1> QED BY <1>1, <1>2

-----------------------------------------------------------------------------
LEMMA PoolInvHolds == PoolSafety => []PoolInv
<1>1. Init => PoolInv
  BY DEF Init, PoolInv
<1>2. PoolInv /\ [Next]_vars => PoolInv'
  <2> SUFFICES ASSUME PoolInv, [Next]_vars PROVE PoolInv'
    OBVIOUS
  <2>1. ASSUME UNCHANGED <<jiffies, active_conns>> PROVE PoolInv'
    BY <2>1 DEF PoolInv, Dated
  <2>2. ASSUME NEW s \in Senders, StampActivity(s) PROVE PoolInv'
    <3>1. PICK id : active_conns' = [n \in DOMAIN active_conns |->
            IF n \in ToStamp(id) THEN Stamped(active_conns[n]) ELSE active_conns[n]]
      BY <2>2 DEF StampActivity
    <3>2. \A n \in DOMAIN active_conns :
            active_conns[n] \in Conns /\ Stamped(active_conns[n]) \in Conns
      BY StampedIsDated DEF PoolInv
    <3>3. active_conns' \in Seq(Conns) /\ DOMAIN active_conns' = DOMAIN active_conns
      BY <3>1, <3>2 DEF PoolInv
    <3>4. jiffies' = jiffies
      BY <2>2 DEF StampActivity
    <3>5. ASSUME NEW n \in DOMAIN active_conns PROVE Dated(active_conns[n])'
      BY <3>1, <3>2, <3>3, <3>4, StampedIsDated DEF PoolInv, Dated
    <3> QED BY <3>3, <3>4, <3>5 DEF PoolInv
  <2>3. ASSUME NEW s \in Senders, CreateTempConnection(s) PROVE PoolInv'
    <3>1. PICK d \in Destinations :
            active_conns' \in {<<NewConn(d)>> \o active_conns, Append(active_conns, NewConn(d))}
      BY <2>3 DEF CreateTempConnection
    <3>2. jiffies' = jiffies
      BY <2>3 DEF CreateTempConnection
    <3>3. NewConn(d) \in Conns /\ NewConn(d).idle = 0 /\ NewConn(d).last_activity = jiffies
      BY PoolAssumption DEF NewConn, Conns, PoolInv, Lapsed
    <3>4. active_conns' \in Seq(Conns)
      <4>1. active_conns \in Seq(Conns) /\ <<NewConn(d)>> \in Seq(Conns)
        BY <3>3 DEF PoolInv
      <4>2. <<NewConn(d)>> \o active_conns \in Seq(Conns)
        BY <4>1, ConcatProperties
      <4>3. Append(active_conns, NewConn(d)) \in Seq(Conns)
        BY <4>1, <3>3
      <4> QED BY <3>1, <4>2, <4>3
    <3>5. ASSUME NEW n \in DOMAIN active_conns'
          PROVE  active_conns'[n] = NewConn(d)
                 \/ \E k \in DOMAIN active_conns : active_conns'[n] = active_conns[k]
      <4> DEFINE new == NewConn(d)
      <4>1. active_conns \in Seq(Conns) /\ new \in Conns
        BY <3>3 DEF PoolInv
      <4> HIDE DEF new
      <4>2. CASE active_conns' = <<new>> \o active_conns
        <5>1. <<new>> \in Seq(Conns) /\ Len(<<new>>) = 1 /\ <<new>>[1] = new
          BY <4>1
        <5>2. /\ DOMAIN active_conns' = 1..(1 + Len(active_conns))
              /\ \A m \in 1..(1 + Len(active_conns)) :
                   active_conns'[m] = IF m <= 1 THEN <<new>>[m] ELSE active_conns[m - 1]
          BY <4>1, <4>2, <5>1, ConcatProperties, LenProperties
        <5>3. Len(active_conns) \in Nat /\ DOMAIN active_conns = 1..Len(active_conns)
          BY <4>1, LenProperties
        <5>4. n = 1 \/ (~(n <= 1) /\ n - 1 \in DOMAIN active_conns)
          BY <3>5, <5>2, <5>3
        <5> QED BY <3>5, <5>1, <5>2, <5>4 DEF new
      <4>3. CASE active_conns' = Append(active_conns, new)
        <5>1. /\ Len(active_conns) \in Nat /\ DOMAIN active_conns = 1..Len(active_conns)
              /\ DOMAIN active_conns' = 1..(Len(active_conns) + 1)
          BY <4>1, <4>3, AppendProperties, LenProperties
        <5>2. /\ \A m \in 1..Len(active_conns) : active_conns'[m] = active_conns[m]
              /\ active_conns'[Len(active_conns) + 1] = new
          BY <4>1, <4>3, AppendProperties
        <5>3. n \in DOMAIN active_conns \/ n = Len(active_conns) + 1
          BY <3>5, <5>1
        <5> QED BY <5>1, <5>2, <5>3 DEF new
      <4> QED BY <3>1, <4>2, <4>3 DEF new
    <3>6. Elapsed(jiffies, jiffies) = 0
      BY PoolAssumption DEF PoolInv, Clock, Elapsed
    <3>7. ASSUME NEW n \in DOMAIN active_conns' PROVE Dated(active_conns[n])'
      BY <3>2, <3>3, <3>5, <3>6 DEF PoolInv, Dated
    <3> QED BY <3>2, <3>4, <3>7 DEF PoolInv
  <2>4. ASSUME NEW s \in Senders, CreateFails(s) PROVE PoolInv'
    <3>1. jiffies' = jiffies /\ (active_conns' = active_conns \/ active_conns' = <<>>)
      BY <2>4 DEF CreateFails
    <3>2. CASE active_conns' = active_conns
      BY <3>1, <3>2 DEF PoolInv, Dated
    <3>3. CASE active_conns' = <<>>
      <4>1. active_conns' \in Seq(Conns) /\ DOMAIN active_conns' = {}
        BY <3>3
      <4> QED BY <3>1, <4>1 DEF PoolInv
    <3> QED BY <3>1, <3>2, <3>3
  <2>5. ASSUME Tick PROVE PoolInv'
    <3>1. jiffies' = Later(jiffies, 1)
          /\ active_conns' = [n \in DOMAIN active_conns |-> Aged(active_conns[n])]
      BY <2>5 DEF Tick
    <3>2. \A n \in DOMAIN active_conns :
            active_conns[n] \in Conns /\ Aged(active_conns[n]) \in Conns
      BY <3>1, AgedIsDated DEF PoolInv
    <3>3. active_conns' \in Seq(Conns) /\ DOMAIN active_conns' = DOMAIN active_conns
      BY <3>1, <3>2 DEF PoolInv
    <3>4. jiffies' \in Clock
      BY <3>1, LaterInClock DEF PoolInv
    <3>5. ASSUME NEW n \in DOMAIN active_conns PROVE Dated(active_conns[n])'
      BY <3>1, <3>2, <3>3, AgedIsDated DEF PoolInv, Dated
    <3> QED BY <3>3, <3>4, <3>5 DEF PoolInv
  <2> QED BY <2>1, <2>2, <2>3, <2>4, <2>5 DEF Next, vars, GetEphemeralConn, AfterLookUp
<1> QED BY <1>1, <1>2, PTL DEF PoolSafety

LEMMA DatedIsRecent == PoolInv => ActiveIsRecent
<1> SUFFICES ASSUME PoolInv, NEW n \in DOMAIN active_conns,
                    active_conns[n].idle # Lapsed
             PROVE  Offered(active_conns[n]) <=> active_conns[n].idle < ConnTimeout
  BY DEF ActiveIsRecent
<1> DEFINE c == active_conns[n]
<1>1. c \in Conns /\ jiffies \in Clock
  BY DEF PoolInv
<1>2. Elapsed(jiffies, c.last_activity) = c.idle
  BY DEF PoolInv, Dated
<1>3. c.idle < HalfRange + ConnTimeout
  BY <1>1, ConnFields, PoolAssumption DEF Lapsed
<1> QED BY <1>1, <1>2, <1>3, ConnFields, BeforeIsRecent DEF Offered

(***************************************************************************)
(* A connection the look-up offers was used within the timeout, and one    *)
(* used within the timeout is offered, unless it has been idle for half    *)
(* the range of the clock and a timeout: ActiveIsRecent, for every width   *)
(* of jiffies.                                                             *)
(***************************************************************************)
THEOREM OfferedAreRecent == Spec => []ActiveIsRecent
  BY PoolInvHolds, DatedIsRecent, PTL DEF Spec, PoolSafety

-----------------------------------------------------------------------------
(* How many connections are in use.                                        *)

\* A connection is known by its identifier.
UniqueIds ==
  /\ \A n \in DOMAIN active_conns : active_conns[n].id \in 1..Len(active_conns)
  /\ \A n, k \in DOMAIN active_conns : active_conns[n].id = active_conns[k].id => n = k

DoingType ==
  doing \in [Senders -> {Idle} \cup {Finding(id) : id \in Nat}
                        \cup {Creating(d) : d \in Destinations}]

PoolState == PoolInv /\ ActiveIsRecent /\ UniqueIds /\ DoingType

LEMMA DoingDiffers ==
  /\ \A id, d : Finding(id) # Creating(d) /\ Finding(id) # Idle /\ Creating(d) # Idle
  /\ \A id, k : Finding(id) = Finding(k) => id = k
  /\ \A d, e : Creating(d) = Creating(e) => d = e
BY DEF Finding, Creating, Idle

LEMMA SameConn ==
  ASSUME NEW c \in Conns
  PROVE  /\ Stamped(c).id = c.id /\ Stamped(c).remote = c.remote
         /\ Stamped(c).idle = IF c.idle = Lapsed THEN Lapsed ELSE 0
         /\ Aged(c).id = c.id /\ Aged(c).remote = c.remote
         /\ Aged(c).idle = IF c.idle = Lapsed THEN Lapsed ELSE c.idle + 1
BY DEF Conns, Stamped, Aged

LEMMA NewConnIds ==
  ASSUME PoolInv, UniqueIds, NEW d \in Destinations,
         active_conns' \in {<<NewConn(d)>> \o active_conns, Append(active_conns, NewConn(d))}
  PROVE  UniqueIds'
<1> DEFINE x == NewConn(d)
<1>1. active_conns \in Seq(Conns) /\ Len(active_conns) \in Nat
      /\ DOMAIN active_conns = 1..Len(active_conns)
  BY DEF PoolInv
<1>2. x.id = Len(active_conns) + 1
  BY DEF NewConn
<1> HIDE DEF x
<1>3. CASE active_conns' = <<x>> \o active_conns
  <2>1. Len(active_conns') = Len(active_conns) + 1 /\ DOMAIN active_conns' = 1..Len(active_conns')
        /\ active_conns'[1] = x
        /\ \A n \in DOMAIN active_conns' : n # 1 =>
             n - 1 \in DOMAIN active_conns /\ active_conns'[n] = active_conns[n - 1]
    BY <1>1, <1>3
  <2>2. ASSUME NEW n \in DOMAIN active_conns'
        PROVE  active_conns'[n].id \in 1..Len(active_conns')
    BY <1>1, <1>2, <2>1, <2>2 DEF UniqueIds
  <2>3. ASSUME NEW n \in DOMAIN active_conns', NEW k \in DOMAIN active_conns',
               active_conns'[n].id = active_conns'[k].id
        PROVE  n = k
    <3>1. ASSUME NEW l \in DOMAIN active_conns', l # 1
          PROVE  active_conns'[l].id # x.id
      BY <1>1, <1>2, <2>1, <3>1 DEF UniqueIds
    <3>2. CASE n = 1 \/ k = 1
      BY <2>1, <2>3, <3>1, <3>2
    <3>3. CASE n # 1 /\ k # 1
      <4>1. n - 1 = k - 1
        BY <2>1, <2>3, <3>3 DEF UniqueIds
      <4> QED BY <1>1, <2>1, <4>1
    <3> QED BY <3>2, <3>3
  <2> QED BY <2>2, <2>3 DEF UniqueIds
<1>4. CASE active_conns' = Append(active_conns, x)
  <2>1. Len(active_conns') = Len(active_conns) + 1 /\ DOMAIN active_conns' = 1..Len(active_conns')
        /\ active_conns'[Len(active_conns) + 1] = x
        /\ \A n \in DOMAIN active_conns : active_conns'[n] = active_conns[n]
    BY <1>1, <1>4
  <2>2. ASSUME NEW n \in DOMAIN active_conns'
        PROVE  n \in DOMAIN active_conns \/ n = Len(active_conns) + 1
    BY <1>1, <2>1, <2>2
  <2>3. ASSUME NEW n \in DOMAIN active_conns'
        PROVE  active_conns'[n].id \in 1..Len(active_conns')
    BY <1>1, <1>2, <2>1, <2>2 DEF UniqueIds
  <2>4. ASSUME NEW n \in DOMAIN active_conns PROVE active_conns[n].id # x.id
    BY <1>1, <1>2 DEF UniqueIds
  <2>5. ASSUME NEW n \in DOMAIN active_conns', NEW k \in DOMAIN active_conns',
               active_conns'[n].id = active_conns'[k].id
        PROVE  n = k
    BY <2>1, <2>2, <2>4, <2>5 DEF UniqueIds
  <2> QED BY <2>3, <2>5 DEF UniqueIds
<1> QED BY <1>3, <1>4 DEF x

LEMMA PoolStateHolds == PoolSafety => []PoolState
<1>1. Init => UniqueIds /\ DoingType
  BY DEF Init, UniqueIds, DoingType
<1>2. PoolInv /\ UniqueIds /\ DoingType /\ [Next]_vars => UniqueIds' /\ DoingType'
  <2> SUFFICES ASSUME PoolInv, UniqueIds, DoingType, [Next]_vars
               PROVE  UniqueIds' /\ DoingType'
    OBVIOUS
  <2>1. ASSUME NEW s \in Senders, NEW d \in Destinations, GetEphemeralConn(s, d)
        PROVE  UniqueIds' /\ DoingType'
    <3>1. UniqueIds'
      BY <2>1 DEF GetEphemeralConn, AfterLookUp, UniqueIds
    <3>2. \A n \in Found(d) : active_conns[n].id \in Nat
      BY DEF Found, Matching, UniqueIds, PoolInv
    <3>3. DoingType'
      BY <2>1, <3>2 DEF GetEphemeralConn, AfterLookUp, DoingType
    <3> QED BY <3>1, <3>3
  <2>2. ASSUME NEW s \in Senders, StampActivity(s) PROVE UniqueIds' /\ DoingType'
    <3>1. PICK id : active_conns' = [n \in DOMAIN active_conns |->
            IF n \in ToStamp(id) THEN Stamped(active_conns[n]) ELSE active_conns[n]]
      BY <2>2 DEF StampActivity
    <3>2. ASSUME NEW n \in DOMAIN active_conns
          PROVE  active_conns'[n].id = active_conns[n].id
      BY <3>1, SameConn DEF PoolInv
    <3>3. active_conns' \in Seq(Conns) /\ DOMAIN active_conns' = DOMAIN active_conns
          /\ Len(active_conns') = Len(active_conns)
      <4>1. \A n \in DOMAIN active_conns :
              active_conns[n] \in Conns /\ Stamped(active_conns[n]) \in Conns
        BY StampedIsDated DEF PoolInv
      <4> QED BY <3>1, <4>1 DEF PoolInv
    <3>4. UniqueIds'
      BY <3>2, <3>3 DEF UniqueIds
    <3> QED BY <2>2, <3>4 DEF StampActivity, DoingType
  <2>3. ASSUME NEW s \in Senders, CreateTempConnection(s) PROVE UniqueIds' /\ DoingType'
    BY <2>3, NewConnIds DEF CreateTempConnection, DoingType
  <2>4. ASSUME NEW s \in Senders, CreateFails(s) PROVE UniqueIds' /\ DoingType'
    <3>1. CASE active_conns' = active_conns
      BY <2>4, <3>1 DEF CreateFails, DoingType, UniqueIds
    <3>2. CASE active_conns' = <<>>
      BY <2>4, <3>2 DEF CreateFails, DoingType, UniqueIds
    <3> QED BY <2>4, <3>1, <3>2 DEF CreateFails
  <2>5. ASSUME Tick PROVE UniqueIds' /\ DoingType'
    <3>1. jiffies' = Later(jiffies, 1)
          /\ active_conns' = [n \in DOMAIN active_conns |-> Aged(active_conns[n])]
      BY <2>5 DEF Tick
    <3>2. ASSUME NEW n \in DOMAIN active_conns
          PROVE  active_conns'[n].id = active_conns[n].id
      BY <3>1, SameConn DEF PoolInv
    <3>3. active_conns' \in Seq(Conns) /\ DOMAIN active_conns' = DOMAIN active_conns
          /\ Len(active_conns') = Len(active_conns)
      <4>1. \A n \in DOMAIN active_conns :
              active_conns[n] \in Conns /\ Aged(active_conns[n]) \in Conns
        BY <3>1, AgedIsDated DEF PoolInv
      <4> QED BY <3>1, <4>1 DEF PoolInv
    <3>4. UniqueIds'
      BY <3>2, <3>3 DEF UniqueIds
    <3> QED BY <2>5, <3>4 DEF Tick, DoingType
  <2>6. CASE UNCHANGED vars
    BY <2>6 DEF vars, UniqueIds, DoingType
  <2> QED BY <2>1, <2>2, <2>3, <2>4, <2>5, <2>6 DEF Next
<1> QED BY <1>1, <1>2, PoolInvHolds, DatedIsRecent, PTL DEF PoolSafety, PoolState

Active(d, n) ==
  LET c == active_conns[n]
  IN  /\ c.remote = d /\ c.idle # Lapsed
      /\ c.idle < ConnTimeout \/ \E s \in Senders : doing[s] = Finding(c.id)

LEMMA InUseMember ==
  ASSUME NEW d
  PROVE  InUse(d) = {active_conns[n].id : n \in {n \in DOMAIN active_conns : Active(d, n)}}
BY DEF InUse, ToSet, Active

LEMMA InUseMemberNext ==
  ASSUME NEW d
  PROVE  InUse(d)' = {active_conns'[n].id : n \in {n \in DOMAIN active_conns' : Active(d, n)'}}
BY DEF InUse, ToSet, Active

LEMMA InUseFinite ==
  ASSUME PoolState, NEW d
  PROVE  IsFiniteSet(InUse(d)) /\ Cardinality(InUse(d)) \in Nat
<1>1. InUse(d) \subseteq 1..Len(active_conns)
  BY InUseMember DEF PoolState, UniqueIds
<1>2. Len(active_conns) \in Nat
  BY DEF PoolState, PoolInv
<1>3. IsFiniteSet(1..Len(active_conns))
  BY <1>2, FS_Interval
<1>4. IsFiniteSet(InUse(d))
  BY <1>1, <1>3, FS_Subset
<1> QED BY <1>4, FS_CardinalityType

LEMMA SendersFinite ==
  ASSUME NEW S \in SUBSET Senders
  PROVE  IsFiniteSet(S) /\ Cardinality(S) \in Nat /\ Cardinality(S) <= Cardinality(Senders)
         /\ Cardinality(Senders) \in Nat
BY PoolAssumption, FS_Subset, FS_CardinalityType

(***************************************************************************)
(* When no connection to d is young, each one in use is so for a sender of *)
(* its own, which neither creates nor is about to.                         *)
(***************************************************************************)
LEMMA EachForItsSender ==
  ASSUME PoolState, NEW d \in Destinations, NEW s0 \in Senders, doing[s0] = Idle,
         \A n \in DOMAIN active_conns :
           active_conns[n].remote = d /\ active_conns[n].idle # Lapsed
             => ~(active_conns[n].idle < ConnTimeout)
  PROVE  Cardinality(InUse(d)) + Cardinality(Creators(d) \cup {s0}) <= Cardinality(Senders)
<1> DEFINE finders == {s \in Senders : \E id \in InUse(d) : doing[s] = Finding(id)}
           found == [s \in finders |-> CHOOSE id \in InUse(d) : doing[s] = Finding(id)]
           creators == Creators(d) \cup {s0}
<1>1. \A id \in InUse(d) : \E s \in finders : doing[s] = Finding(id)
  BY InUseMember DEF Active
<1>2. \A s \in finders : found[s] \in InUse(d) /\ doing[s] = Finding(found[s])
  OBVIOUS
<1>3. found \in Surjection(finders, InUse(d))
  <2>1. found \in [finders -> InUse(d)]
    BY <1>2
  <2>2. ASSUME NEW id \in InUse(d) PROVE \E s \in finders : found[s] = id
    <3>1. PICK s \in finders : doing[s] = Finding(id)
      BY <1>1
    <3>2. Finding(found[s]) = Finding(id)
      BY <1>2, <3>1
    <3>3. found[s] = id
      BY <3>2, DoingDiffers
    <3> QED BY <3>3
  <2> HIDE DEF found
  <2> QED BY <2>1, <2>2 DEF Surjection
<1>4. finders \subseteq Senders /\ creators \subseteq Senders /\ finders \cap creators = {}
  BY DoingDiffers DEF Creators
<1> HIDE DEF finders, found, creators
<1>5. Cardinality(InUse(d)) <= Cardinality(finders)
  BY <1>3, <1>4, SendersFinite, FS_Surjection
<1>6. Cardinality(finders \cup creators) = Cardinality(finders) + Cardinality(creators)
  BY <1>4, SendersFinite, FS_Union, FS_EmptySet
<1>7. finders \cup creators \subseteq Senders
  BY <1>4
<1>8. Cardinality(InUse(d)) + Cardinality(creators) <= Cardinality(Senders)
  BY <1>4, <1>5, <1>6, <1>7, SendersFinite, InUseFinite
<1> QED BY <1>8 DEF creators

Quiet(d) == InUse(d)' \subseteq InUse(d) /\ Creators(d)' \subseteq Creators(d)

Created(d) ==
  \E s \in Creators(d), x \in Nat :
    Creators(d)' \subseteq Creators(d) \ {s} /\ InUse(d)' \subseteq InUse(d) \cup {x}

Starting(d) ==
  \E s \in Senders :
    /\ doing[s] = Idle
    /\ Creators(d)' = Creators(d) \cup {s}
    /\ InUse(d)' \subseteq InUse(d)
    /\ \A n \in DOMAIN active_conns :
         active_conns[n].remote = d /\ active_conns[n].idle # Lapsed
           => ~(active_conns[n].idle < ConnTimeout)

\* The search finds something if there is something: a least position exists.
LEMMA SmallestFound ==
  ASSUME NEW d, active_conns \in Seq(Conns), Found(d) = {}
  PROVE  Matching(d) = {}
<1> SUFFICES ASSUME Matching(d) # {} PROVE FALSE
  OBVIOUS
<1>1. Matching(d) \in SUBSET Nat
  BY DEF Matching
<1> DEFINE less == OpToRel(<, Nat)
<1>2. IsWellFoundedOn(less, Nat)
  BY NatLessThanWellFounded
<1>3. \A j, k \in Nat : <<j, k>> \in less <=> j < k
  BY DEF OpToRel
<1> HIDE DEF less
<1>4. PICK n \in Matching(d) : \A k \in Matching(d) : ~(<<k, n>> \in less)
  BY <1>1, <1>2, WFMin
<1>5. ASSUME NEW k \in Matching(d) PROVE n <= k
  <2>1. n \in Nat /\ k \in Nat
    BY <1>1
  <2>2. ~(k < n)
    BY <1>3, <1>4, <2>1
  <2> QED BY <2>1, <2>2
<1> QED BY <1>5 DEF Found

(***************************************************************************)
(* A look-up that finds a connection, or finds none.                       *)
(***************************************************************************)
LEMMA LookUpKinds ==
  ASSUME PoolState, NEW d \in Destinations, NEW s \in Senders, NEW e \in Destinations,
         GetEphemeralConn(s, e)
  PROVE  Quiet(d) \/ Starting(d)
<1>1. active_conns' = active_conns /\ doing[s] = Idle
  BY DEF GetEphemeralConn, AfterLookUp
<1>2. ASSUME NEW n \in Found(e), doing' = [doing EXCEPT ![s] = Finding(active_conns[n].id)]
      PROVE  Quiet(d)
  <2>1. n \in DOMAIN active_conns /\ Offered(active_conns[n])
    BY DEF Found, Matching
  <2>2. doing'[s] = Finding(active_conns[n].id) /\ \A r \in Senders \ {s} : doing'[r] = doing[r]
    BY <1>2 DEF PoolState, DoingType
  <2>3. ASSUME NEW m \in DOMAIN active_conns, Active(d, m)' PROVE Active(d, m)
    <3>1. active_conns[m].remote = d /\ active_conns[m].idle # Lapsed
      BY <1>1, <2>3 DEF Active
    <3>2. CASE doing'[s] = Finding(active_conns[m].id)
      <4>1. m = n
        BY <2>1, <2>2, <3>2, DoingDiffers DEF PoolState, UniqueIds
      <4> QED BY <2>1, <3>1, <4>1 DEF PoolState, ActiveIsRecent, Active
    <3>3. CASE doing'[s] # Finding(active_conns[m].id)
      BY <1>1, <2>2, <2>3, <3>1, <3>3 DEF Active
    <3> QED BY <3>2, <3>3
  <2>4. InUse(d)' \subseteq InUse(d)
    BY <1>1, <2>3, InUseMember, InUseMemberNext
  <2>5. Creators(d)' \subseteq Creators(d)
    BY <2>2, DoingDiffers DEF Creators
  <2> QED BY <2>4, <2>5 DEF Quiet
<1>3. ASSUME Found(e) = {}, doing' = [doing EXCEPT ![s] = Creating(e)]
      PROVE  Quiet(d) \/ Starting(d)
  <2>1. doing'[s] = Creating(e) /\ \A r \in Senders \ {s} : doing'[r] = doing[r]
    BY <1>3 DEF PoolState, DoingType
  <2>2. InUse(d)' \subseteq InUse(d)
    <3>1. \A n \in DOMAIN active_conns : Active(d, n)' => Active(d, n)
      BY <1>1, <2>1, DoingDiffers DEF Active
    <3> QED BY <1>1, <3>1, InUseMember, InUseMemberNext
  <2>3. CASE d # e
    BY <2>1, <2>2, <2>3, DoingDiffers DEF Creators, Quiet
  <2>4. CASE d = e
    <3>1. Creators(d)' = Creators(d) \cup {s}
      BY <2>1, <2>4 DEF Creators
    <3>2. Matching(d) = {}
      BY <1>3, <2>4, SmallestFound DEF PoolState, PoolInv
    <3>3. \A n \in DOMAIN active_conns :
            active_conns[n].remote = d /\ active_conns[n].idle # Lapsed
              => ~(active_conns[n].idle < ConnTimeout)
      BY <3>2 DEF Matching, PoolState, ActiveIsRecent
    <3> QED BY <1>1, <2>2, <3>1, <3>3 DEF Starting
  <2> QED BY <2>3, <2>4
<1> QED BY <1>2, <1>3 DEF GetEphemeralConn, AfterLookUp

(***************************************************************************)
(* Stamping, ageing and failing make no connection active that was not.    *)
(***************************************************************************)
LEMMA StillActive ==
  ASSUME NEW d, DOMAIN active_conns' = DOMAIN active_conns,
         \A n \in DOMAIN active_conns : active_conns'[n].id = active_conns[n].id,
         \A n \in DOMAIN active_conns : Active(d, n)' => Active(d, n)
  PROVE  InUse(d)' \subseteq InUse(d)
BY InUseMember, InUseMemberNext

LEMMA StampKinds ==
  ASSUME PoolState, NEW d \in Destinations, NEW s \in Senders, StampActivity(s)
  PROVE  Quiet(d)
<1>1. PICK id : /\ doing[s] = Finding(id)
                /\ active_conns' = [n \in DOMAIN active_conns |->
                     IF n \in ToStamp(id) THEN Stamped(active_conns[n]) ELSE active_conns[n]]
                /\ doing' = [doing EXCEPT ![s] = Idle]
  BY DEF StampActivity
<1>2. doing'[s] = Idle /\ \A r \in Senders \ {s} : doing'[r] = doing[r]
  BY <1>1 DEF PoolState, DoingType
<1>3. \A n \in DOMAIN active_conns : active_conns[n] \in Conns
  BY DEF PoolState, PoolInv
<1>4. ASSUME NEW n \in DOMAIN active_conns
      PROVE  active_conns'[n].id = active_conns[n].id
  BY <1>1, <1>3, SameConn
<1>5. ASSUME NEW n \in DOMAIN active_conns, Active(d, n)' PROVE Active(d, n)
  <2>1. active_conns'[n].remote = active_conns[n].remote
        /\ (active_conns'[n].idle # Lapsed => active_conns[n].idle # Lapsed)
    BY <1>1, <1>3, SameConn
  <2>2. CASE n \in ToStamp(id)
    <3>1. doing[s] = Finding(active_conns[n].id)
      BY <1>1, <2>2 DEF ToStamp
    <3> QED BY <1>5, <2>1, <3>1 DEF Active
  <2>3. CASE n \notin ToStamp(id)
    <3>1. active_conns'[n] = active_conns[n]
      BY <1>1, <2>3
    <3>2. \A r \in Senders : doing'[r] = Finding(active_conns[n].id)
                                => doing[r] = Finding(active_conns[n].id)
      BY <1>2, DoingDiffers
    <3> QED BY <1>5, <3>1, <3>2 DEF Active
  <2> QED BY <2>2, <2>3
<1>6. InUse(d)' \subseteq InUse(d)
  BY <1>1, <1>4, <1>5, StillActive
<1>7. Creators(d)' \subseteq Creators(d)
  BY <1>2, DoingDiffers DEF Creators
<1> QED BY <1>6, <1>7 DEF Quiet

LEMMA TickKinds ==
  ASSUME PoolState, NEW d \in Destinations, Tick
  PROVE  Quiet(d)
<1>1. active_conns' = [n \in DOMAIN active_conns |-> Aged(active_conns[n])]
      /\ doing' = doing
  BY DEF Tick
<1>2. \A n \in DOMAIN active_conns : active_conns[n] \in Conns
  BY DEF PoolState, PoolInv
<1>3. ASSUME NEW n \in DOMAIN active_conns
      PROVE  /\ active_conns'[n].id = active_conns[n].id
             /\ Active(d, n)' => Active(d, n)
  <2> DEFINE c == active_conns[n]
  <2>1. active_conns'[n] = Aged(c) /\ c \in Conns
    BY <1>1, <1>2
  <2> HIDE DEF c
  <2>2. Aged(c).id = c.id /\ Aged(c).remote = c.remote
        /\ Aged(c).idle = IF c.idle = Lapsed THEN Lapsed ELSE c.idle + 1
    BY <2>1, SameConn
  <2>3. Aged(c).idle # Lapsed =>
          c.idle # Lapsed /\ (Aged(c).idle < ConnTimeout => c.idle < ConnTimeout)
    BY <2>1, <2>2, ConnFields, PoolAssumption DEF Lapsed
  <2> QED BY <1>1, <2>1, <2>2, <2>3 DEF Active, c
<1>4. InUse(d)' \subseteq InUse(d)
  BY <1>1, <1>3, StillActive
<1> QED BY <1>1, <1>4 DEF Quiet, Creators

LEMMA FailKinds ==
  ASSUME PoolState, NEW d \in Destinations, NEW s \in Senders, CreateFails(s)
  PROVE  Quiet(d)
<1>1. \A r \in Senders : doing'[r] = Idle \/ doing'[r] = doing[r]
  BY DEF CreateFails, PoolState, DoingType
<1>2. Creators(d)' \subseteq Creators(d)
  BY <1>1, DoingDiffers DEF Creators
<1>3. CASE active_conns' = active_conns
  <2>1. \A n \in DOMAIN active_conns : Active(d, n)' => Active(d, n)
    BY <1>1, <1>3, DoingDiffers DEF Active
  <2> QED BY <1>2, <1>3, <2>1, StillActive DEF Quiet
<1>4. CASE active_conns' = <<>>
  BY <1>2, <1>4, InUseMemberNext DEF Quiet
<1> QED BY <1>3, <1>4 DEF CreateFails

LEMMA CreateKinds ==
  ASSUME PoolState, NEW d \in Destinations, NEW s \in Senders, CreateTempConnection(s)
  PROVE  Quiet(d) \/ Created(d)
<1>1. PICK e \in Destinations :
        /\ doing[s] = Creating(e)
        /\ active_conns' \in {<<NewConn(e)>> \o active_conns, Append(active_conns, NewConn(e))}
        /\ doing' = [doing EXCEPT ![s] = Idle]
  BY DEF CreateTempConnection
<1>2. doing'[s] = Idle /\ \A r \in Senders \ {s} : doing'[r] = doing[r]
  BY <1>1 DEF PoolState, DoingType
<1> DEFINE x == NewConn(e)
<1>3. x.id \in Nat /\ x.remote = e
  BY DEF NewConn, PoolState, PoolInv
<1>4. active_conns \in Seq(Conns) /\ Len(active_conns) \in Nat
  BY DEF PoolState, PoolInv
<1>5. active_conns' \in {<<x>> \o active_conns, Append(active_conns, x)}
  BY <1>1
<1> HIDE DEF x
<1>6. ASSUME NEW n \in DOMAIN active_conns'
      PROVE  active_conns'[n] = x
             \/ \E m \in DOMAIN active_conns : active_conns'[n] = active_conns[m]
  <2>1. CASE active_conns' = <<x>> \o active_conns
    <3>1. n = 1 \/ n - 1 \in DOMAIN active_conns
      BY <1>4, <1>6, <2>1
    <3> QED BY <1>4, <2>1, <3>1
  <2>2. CASE active_conns' = Append(active_conns, x)
    BY <1>4, <1>6, <2>2
  <2> QED BY <1>5, <2>1, <2>2
<1>7. \A r \in Senders : \A id : doing'[r] = Finding(id) => doing[r] = Finding(id)
  BY <1>2, DoingDiffers
<1>8. ASSUME NEW n \in DOMAIN active_conns', Active(d, n)'
      PROVE  (d = e /\ active_conns'[n].id = x.id) \/ active_conns'[n].id \in InUse(d)
  <2>1. CASE active_conns'[n] = x
    BY <1>3, <1>8, <2>1 DEF Active
  <2>2. ASSUME NEW m \in DOMAIN active_conns, active_conns'[n] = active_conns[m]
        PROVE  active_conns'[n].id \in InUse(d)
    <3>1. Active(d, m)
      BY <1>7, <1>8, <2>2 DEF Active
    <3> QED BY <2>2, <3>1, InUseMember
  <2> QED BY <1>6, <2>1, <2>2
<1>9. CASE d # e
  <2>1. InUse(d)' \subseteq InUse(d)
    BY <1>8, <1>9, InUseMemberNext
  <2>2. Creators(d)' \subseteq Creators(d)
    BY <1>2, DoingDiffers DEF Creators
  <2> QED BY <2>1, <2>2 DEF Quiet
<1>10. CASE d = e
  <2>1. InUse(d)' \subseteq InUse(d) \cup {x.id}
    BY <1>8, InUseMemberNext
  <2>2. s \in Creators(d) /\ Creators(d)' \subseteq Creators(d) \ {s}
    BY <1>1, <1>2, <1>10, DoingDiffers DEF Creators
  <2> QED BY <1>3, <2>1, <2>2 DEF Created
<1> QED BY <1>9, <1>10

-----------------------------------------------------------------------------
(***************************************************************************)
(* However many senders look connections up, stamp them and create them at *)
(* the same time, no more connections to a destination are in use or being *)
(* created than there are senders: InUseWithinSenders, for any number of   *)
(* senders, destinations and connections.                                  *)
(***************************************************************************)
THEOREM ConnectionsWithinSenders == Spec => []InUseWithinSenders
<1>1. Init => InUseWithinSenders
  <2> SUFFICES ASSUME Init, NEW d \in Destinations
               PROVE  Cardinality(InUse(d)) + Cardinality(Creators(d)) <= Cardinality(Senders)
    BY DEF InUseWithinSenders
  <2>1. InUse(d) = {} /\ Creators(d) = {}
    BY InUseMember, DoingDiffers DEF Init, Creators
  <2> QED BY <2>1, FS_EmptySet, SendersFinite
<1>2. PoolState /\ PoolState' /\ InUseWithinSenders /\ [Next]_vars => InUseWithinSenders'
  <2> SUFFICES ASSUME PoolState, PoolState', InUseWithinSenders, [Next]_vars,
                      NEW d \in Destinations
               PROVE  Cardinality(InUse(d)') + Cardinality(Creators(d)')
                        <= Cardinality(Senders)
    BY DEF InUseWithinSenders
  <2>1. Quiet(d) \/ Created(d) \/ Starting(d)
    <3>1. CASE UNCHANGED vars
      BY <3>1 DEF vars, Quiet, InUse, Creators
    <3> QED BY <3>1, LookUpKinds, StampKinds, CreateKinds, FailKinds, TickKinds DEF Next
  <2>2. Cardinality(InUse(d)) + Cardinality(Creators(d)) <= Cardinality(Senders)
    BY DEF InUseWithinSenders
  <2>3. IsFiniteSet(InUse(d)) /\ Cardinality(InUse(d)) \in Nat
    BY InUseFinite
  <2>4. Creators(d) \subseteq Senders /\ Creators(d)' \subseteq Senders
    BY DEF Creators
  <2>5. /\ IsFiniteSet(Creators(d)) /\ Cardinality(Creators(d)) \in Nat
        /\ IsFiniteSet(Creators(d)') /\ Cardinality(Creators(d)') \in Nat
        /\ Cardinality(Senders) \in Nat
    BY <2>4, SendersFinite
  <2>6. ASSUME InUse(d)' \subseteq InUse(d)
        PROVE  Cardinality(InUse(d)') \in Nat /\ Cardinality(InUse(d)') <= Cardinality(InUse(d))
    BY <2>3, <2>6, FS_Subset, FS_CardinalityType
  <2>7. CASE Quiet(d)
    <3>1. Cardinality(Creators(d)') <= Cardinality(Creators(d))
      BY <2>5, <2>7, FS_Subset DEF Quiet
    <3> QED BY <2>2, <2>3, <2>5, <2>6, <2>7, <3>1 DEF Quiet
  <2>8. CASE Created(d)
    <3>1. PICK s \in Creators(d), x \in Nat :
            /\ Creators(d)' \subseteq Creators(d) \ {s}
            /\ InUse(d)' \subseteq InUse(d) \cup {x}
      BY <2>8 DEF Created
    <3>2. IsFiniteSet(Creators(d) \ {s})
          /\ Cardinality(Creators(d) \ {s}) = Cardinality(Creators(d)) - 1
      BY <2>5, <3>1, FS_RemoveElement
    <3>3. Cardinality(Creators(d)') <= Cardinality(Creators(d)) - 1
      BY <3>1, <3>2, FS_Subset
    <3>4. IsFiniteSet(InUse(d) \cup {x})
          /\ Cardinality(InUse(d) \cup {x}) <= Cardinality(InUse(d)) + 1
      <4> DEFINE S == InUse(d)
      <4>1. IsFiniteSet(S) /\ Cardinality(S) \in Nat
        BY <2>3
      <4> HIDE DEF S
      <4>2. IsFiniteSet(S \cup {x})
            /\ Cardinality(S \cup {x}) = IF x \in S THEN Cardinality(S) ELSE Cardinality(S) + 1
        BY <4>1, FS_AddElement
      <4> QED BY <4>1, <4>2 DEF S
    <3>5. Cardinality(InUse(d) \cup {x}) \in Nat
      BY <3>4, FS_CardinalityType
    <3>6. IsFiniteSet(InUse(d)') /\ Cardinality(InUse(d)') <= Cardinality(InUse(d) \cup {x})
      BY <3>1, <3>4, FS_Subset
    <3>7. Cardinality(InUse(d)') \in Nat
      BY <3>6, FS_CardinalityType
    <3> QED BY <2>2, <2>3, <2>5, <3>3, <3>4, <3>5, <3>6, <3>7
  <2>9. CASE Starting(d)
    <3>1. PICK s \in Senders :
            /\ doing[s] = Idle
            /\ Creators(d)' = Creators(d) \cup {s}
            /\ InUse(d)' \subseteq InUse(d)
            /\ \A n \in DOMAIN active_conns :
                 active_conns[n].remote = d /\ active_conns[n].idle # Lapsed
                   => ~(active_conns[n].idle < ConnTimeout)
      BY <2>9 DEF Starting
    <3>2. Cardinality(InUse(d)) + Cardinality(Creators(d) \cup {s}) <= Cardinality(Senders)
      BY <3>1, EachForItsSender
    <3>3. Cardinality(InUse(d)) + Cardinality(Creators(d)') <= Cardinality(Senders)
      BY <3>1, <3>2
    <3> QED BY <2>3, <2>5, <2>6, <3>1, <3>3
  <2> QED BY <2>1, <2>7, <2>8, <2>9
<1> QED BY <1>1, <1>2, PoolStateHolds, PTL DEF Spec, PoolSafety

-----------------------------------------------------------------------------
(* The PRI manager.                                                        *)

\* What the step uses of the state: a ratio is configured, and the statistics
\* are numbers whose sums are triangular.
Counts == [thousands : Nat, bytes_saved : Nat, ratio_actual : Nat]
Good(s) == s \in Counts /\ Triangular(s)

SavingsInv ==
  /\ m_global_pri_config \in Configs
  /\ \A i \in DOMAIN m_pri_stats : Good(m_pri_stats[i])
  /\ \A i \in DOMAIN state_rows : Good(state_rows[i])

LEMMA ReductionIsNatural ==
  ASSUME NEW r \in Ratios
  PROVE  Reduction(r) \in Nat
<1>1. r * 42 \in Nat /\ Word \in Nat /\ Word > 0
  BY PriAssumption
<1>2. (r * 42) % Word \in Nat
  BY <1>1
<1> QED BY <1>2 DEF Reduction

(***************************************************************************)
(* Adding n + 1 thousand times a reduction takes a triangular sum of n     *)
(* terms to one of n + 1, from below and from above.                       *)
(***************************************************************************)
LEMMA NextTriangle ==
  ASSUME NEW n \in Nat, NEW b \in Nat, NEW q \in Nat, NEW c \in Nat
  PROVE  /\ q <= c /\ 2 * b >= (1000 * n * (n + 1)) * q =>
              2 * (b + 1000 * (n + 1) * c) >= (1000 * (n + 1) * (n + 2)) * q
         /\ c <= q /\ 2 * b <= (1000 * n * (n + 1)) * q =>
              2 * (b + 1000 * (n + 1) * c) <= (1000 * (n + 1) * (n + 2)) * q
<1> DEFINE m == n + 1
           x == m * q
           y == m * c
<1>1. m \in Nat /\ x \in Nat /\ y \in Nat
  OBVIOUS
<1>2. (1000 * m * (n + 2)) * q = (1000 * n * m) * q + 2000 * x
  OBVIOUS
<1>3. 1000 * m * c = 1000 * y
  OBVIOUS
<1>4. (q <= c => x <= y) /\ (c <= q => y <= x)
  OBVIOUS
<1> DEFINE t == (1000 * n * m) * q
<1>5. t \in Nat
  OBVIOUS
<1>6. (1000 * m * (n + 2)) * q = t + 2000 * x
  BY <1>2
<1> HIDE DEF x, y, t
<1>7. /\ q <= c /\ 2 * b >= t => 2 * (b + 1000 * y) >= t + 2000 * x
      /\ c <= q /\ 2 * b <= t => 2 * (b + 1000 * y) <= t + 2000 * x
  BY <1>1, <1>4, <1>5
<1> QED BY <1>3, <1>6, <1>7 DEF t

LEMMA ZeroIsGood ==
  ASSUME m_global_pri_config \in Configs
  PROVE  Good(ZeroStats)
<1> DEFINE c == m_global_pri_config.compression_ratio
<1>1. c \in Ratios /\ Reduction(c) \in Nat
  BY ReductionIsNatural DEF Configs
<1>2. 1000 * 0 * (0 + 1) * Reduction(c) = 0
  BY <1>1
<1> QED BY <1>1, <1>2 DEF Good, Counts, ZeroStats, Triangular

(***************************************************************************)
(* One update keeps the sum triangular: below, the smaller of the          *)
(* reduction so far and the one in force bounds it, above the greater.     *)
(***************************************************************************)
LEMMA UpdatedIsGood ==
  ASSUME NEW s, Good(s), m_global_pri_config \in Configs
  PROVE  Good(Updated(s))
<1> DEFINE n == s.thousands
           b == s.bytes_saved
           ratio == m_global_pri_config.compression_ratio
           c == Reduction(ratio)
           saved == b + 1000 * (n + 1) * c
<1>1. n \in Nat /\ b \in Nat /\ ratio \in Ratios /\ c \in Nat
  BY ReductionIsNatural DEF Good, Counts, Configs
<1>2. Updated(s).thousands = n + 1 /\ Updated(s).bytes_saved = saved
  BY DEF Updated, SavedOn
<1>3. Updated(s) \in Counts
  <2>1. saved \in Nat /\ n + 1 \in Nat /\ 1000 * (n + 1) * 42 > 0
    BY <1>1
  <2> HIDE DEF saved
  <2>2. (saved * 100) \div (1000 * (n + 1) * 42) \in Nat
    BY <2>1
  <2>3. Updated(s) = [thousands |-> n + 1, bytes_saved |-> saved,
                      ratio_actual |-> (saved * 100) \div (1000 * (n + 1) * 42)]
    BY DEF Updated, SavedOn, saved
  <2> QED BY <2>1, <2>2, <2>3 DEF Counts
<1>4. \E r \in Ratios : 2 * saved >= (1000 * (n + 1) * (n + 2)) * Reduction(r)
  <2>1. PICK r \in Ratios : 2 * b >= (1000 * n * (n + 1)) * Reduction(r)
    BY DEF Good, Triangular
  <2>2. Reduction(r) \in Nat
    BY ReductionIsNatural
  <2>3. CASE Reduction(r) <= c
    BY <1>1, <2>1, <2>2, <2>3, NextTriangle
  <2>4. CASE c <= Reduction(r)
    <3>1. 2 * b >= (1000 * n * (n + 1)) * c
      <4>1. 1000 * n * (n + 1) \in Nat
        BY <1>1
      <4> DEFINE k == 1000 * n * (n + 1)
      <4> HIDE DEF k
      <4>2. k * c <= k * Reduction(r)
        BY <1>1, <2>2, <2>4, <4>1 DEF k
      <4>3. k * c \in Nat /\ k * Reduction(r) \in Nat
        BY <1>1, <2>2, <4>1 DEF k
      <4> QED BY <1>1, <2>1, <4>2, <4>3 DEF k
    <3> QED BY <1>1, <3>1, NextTriangle
  <2> QED BY <1>1, <2>2, <2>3, <2>4
<1>5. \E r \in Ratios : 2 * saved <= (1000 * (n + 1) * (n + 2)) * Reduction(r)
  <2>1. PICK r \in Ratios : 2 * b <= (1000 * n * (n + 1)) * Reduction(r)
    BY DEF Good, Triangular
  <2>2. Reduction(r) \in Nat
    BY ReductionIsNatural
  <2>3. CASE c <= Reduction(r)
    BY <1>1, <2>1, <2>2, <2>3, NextTriangle
  <2>4. CASE Reduction(r) <= c
    <3>1. 2 * b <= (1000 * n * (n + 1)) * c
      <4>1. 1000 * n * (n + 1) \in Nat
        BY <1>1
      <4> DEFINE k == 1000 * n * (n + 1)
      <4> HIDE DEF k
      <4>2. k * Reduction(r) <= k * c
        BY <1>1, <2>2, <2>4, <4>1 DEF k
      <4>3. k * c \in Nat /\ k * Reduction(r) \in Nat
        BY <1>1, <2>2, <4>1 DEF k
      <4> QED BY <1>1, <2>1, <4>2, <4>3 DEF k
    <3> QED BY <1>1, <3>1, NextTriangle
  <2> QED BY <1>1, <2>2, <2>3, <2>4
<1>6. (n + 1) + 1 = n + 2
  BY <1>1
<1> HIDE DEF saved
<1> QED BY <1>2, <1>3, <1>4, <1>5, <1>6 DEF Good, Triangular

(***************************************************************************)
(* Writing good statistics over good ones, and erasing some.               *)
(***************************************************************************)
LEMMA MapsStayGood ==
  ASSUME NEW m, NEW n, NEW ks, \A i \in DOMAIN m : Good(m[i])
  PROVE  /\ (\A i \in DOMAIN n : Good(n[i])) =>
              \A i \in DOMAIN PutAll(m, n) : Good(PutAll(m, n)[i])
         /\ \A i \in DOMAIN Without(m, ks) : Good(Without(m, ks)[i])
<1>1. ASSUME \A i \in DOMAIN n : Good(n[i]), NEW i \in DOMAIN PutAll(m, n)
      PROVE  Good(PutAll(m, n)[i])
  <2>1. PutAll(m, n)[i] = IF i \in DOMAIN n THEN n[i] ELSE m[i]
    BY <1>1 DEF PutAll
  <2>2. i \in DOMAIN n \/ i \in DOMAIN m
    BY <1>1 DEF PutAll
  <2> QED BY <1>1, <2>1, <2>2
<1>2. ASSUME NEW i \in DOMAIN Without(m, ks) PROVE Good(Without(m, ks)[i])
  <2>1. i \in DOMAIN m /\ Without(m, ks)[i] = m[i]
    BY <1>2 DEF Without, Restrict
  <2> QED BY <2>1
<1> QED BY <1>1, <1>2

(***************************************************************************)
(* SavingsTriangular, however ratios, deconfigurations and restarts come   *)
(* between the updates.                                                    *)
(***************************************************************************)
THEOREM SavingsStayTriangular == PriSpec => []SavingsTriangular
<1>1. PriInit => SavingsInv
  BY EmptyMapType DEF PriInit, SavingsInv
<1>2. SavingsInv /\ [PriNext]_pri_vars => SavingsInv'
  <2> SUFFICES ASSUME SavingsInv, [PriNext]_pri_vars PROVE SavingsInv'
    OBVIOUS
  <2>1. ASSUME NEW ratio \in Ratios, EnableGlobalPRI(ratio) PROVE SavingsInv'
    BY <2>1 DEF EnableGlobalPRI, SavingsInv, Configs
  <2>2. ASSUME DisableGlobalPRI PROVE SavingsInv'
    BY <2>2 DEF DisableGlobalPRI, SavingsInv, Configs
  <2>3. ASSUME Restart PROVE SavingsInv'
    BY <2>3, EmptyMapType DEF Restart, SavingsInv
  <2>4. ASSUME NEW i \in Interfaces, ProcessInterfaceConfig(i) PROVE SavingsInv'
    <3>1. m_pri_stats' \in {m_pri_stats, Without(m_pri_stats, {i})}
      BY <2>4 DEF ProcessInterfaceConfig
    <3>2. \A k \in DOMAIN Without(m_pri_stats, {i}) : Good(Without(m_pri_stats, {i})[k])
      BY MapsStayGood DEF SavingsInv
    <3>3. \A k \in DOMAIN m_pri_stats' : Good(m_pri_stats'[k])
      BY <3>1, <3>2 DEF SavingsInv
    <3> QED BY <2>4, <3>3 DEF ProcessInterfaceConfig, SavingsInv
  <2>5. ASSUME DoPeriodicTask PROVE SavingsInv'
    <3> DEFINE old(i)  == IF i \in DOMAIN m_pri_stats THEN m_pri_stats[i] ELSE ZeroStats
               updated == [i \in m_pri_interfaces |-> Updated(old(i))]
    <3>1. m_pri_stats' = PutAll(m_pri_stats, updated) /\ state_rows' = PutAll(state_rows, updated)
          /\ m_global_pri_config' = m_global_pri_config
      BY <2>5 DEF DoPeriodicTask
    <3>2. \A i \in DOMAIN updated : Good(updated[i])
      BY UpdatedIsGood, ZeroIsGood DEF SavingsInv
    <3> HIDE DEF updated
    <3>3. \A i \in DOMAIN m_pri_stats' : Good(m_pri_stats'[i])
      BY <3>1, <3>2, MapsStayGood DEF SavingsInv
    <3>4. \A i \in DOMAIN state_rows' : Good(state_rows'[i])
      BY <3>1, <3>2, MapsStayGood DEF SavingsInv
    <3>5. \A s : Good(s)' <=> Good(s)
      BY DEF Good, Triangular, Reduction
    <3> QED BY <3>1, <3>3, <3>4, <3>5 DEF SavingsInv
  <2>6. CASE ClockStep \/ UNCHANGED pri_vars
    BY <2>6 DEF ClockStep, pri_vars, pri_memory, SavingsInv
  <2> QED BY <2>1, <2>2, <2>3, <2>4, <2>5, <2>6 DEF PriNext, ProcessPRIConfig
<1>3. SavingsInv => SavingsTriangular
  BY DEF SavingsInv, SavingsTriangular, Good
<1> QED BY <1>1, <1>2, <1>3, PTL DEF PriSpec

-----------------------------------------------------------------------------
(* Types.                                                                  *)

\* The pool's type invariant follows once its list is bounded and what a
\* sender has found is in the list.
PoolTypes ==
  /\ Len(active_conns) <= MaxConns
  /\ \A s \in Senders : \A id \in Nat :
       doing[s] = Finding(id) => \E n \in DOMAIN active_conns : active_conns[n].id = id

LEMMA PoolTypeCorrect == PoolSafety => []TypeOK
<1>1. Init => PoolTypes
  BY DoingDiffers, PoolAssumption DEF Init, PoolTypes
<1>2. PoolState /\ PoolState' /\ PoolTypes /\ [Next]_vars => PoolTypes'
  <2> SUFFICES ASSUME PoolState, PoolState', PoolTypes, [Next]_vars PROVE PoolTypes'
    OBVIOUS
  <2>1. /\ active_conns \in Seq(Conns) /\ Len(active_conns) \in Nat
        /\ DOMAIN active_conns = 1..Len(active_conns)
    BY DEF PoolState, PoolInv
  <2>2. doing \in [Senders -> {Idle} \cup {Finding(id) : id \in Nat}
                              \cup {Creating(d) : d \in Destinations}]
    BY DEF PoolState, DoingType
  <2>3. ASSUME NEW s \in Senders, NEW d \in Destinations, GetEphemeralConn(s, d)
        PROVE  PoolTypes'
    <3>1. active_conns' = active_conns
      BY <2>3 DEF GetEphemeralConn, AfterLookUp
    <3>2. ASSUME NEW r \in Senders, NEW id \in Nat, doing'[r] = Finding(id)
          PROVE  \E n \in DOMAIN active_conns : active_conns[n].id = id
      <4>1. CASE doing[r] = Finding(id)
        BY <4>1 DEF PoolTypes
      <4>2. CASE doing[r] # Finding(id)
        BY <2>2, <2>3, <3>2, <4>2, DoingDiffers DEF GetEphemeralConn, AfterLookUp, Found, Matching
      <4> QED BY <4>1, <4>2
    <3> QED BY <3>1, <3>2 DEF PoolTypes
  <2>4. ASSUME DOMAIN active_conns' = DOMAIN active_conns, Len(active_conns') = Len(active_conns),
               \A n \in DOMAIN active_conns : active_conns'[n].id = active_conns[n].id,
               \A r \in Senders, id \in Nat : doing'[r] = Finding(id) => doing[r] = Finding(id)
        PROVE  PoolTypes'
    BY <2>4 DEF PoolTypes
  <2>5. ASSUME NEW s \in Senders, StampActivity(s) PROVE PoolTypes'
    <3>1. PICK id : active_conns' = [n \in DOMAIN active_conns |->
            IF n \in ToStamp(id) THEN Stamped(active_conns[n]) ELSE active_conns[n]]
      BY <2>5 DEF StampActivity
    <3>2. DOMAIN active_conns' = DOMAIN active_conns
          /\ \A n \in DOMAIN active_conns : active_conns'[n].id = active_conns[n].id
      BY <2>1, <3>1, SameConn
    <3>3. Len(active_conns') = Len(active_conns)
      BY <2>1, <3>2 DEF PoolState, PoolInv
    <3>4. doing' = [doing EXCEPT ![s] = Idle]
      BY <2>5 DEF StampActivity
    <3> QED BY <2>2, <2>4, <3>2, <3>3, <3>4, DoingDiffers
  <2>6. ASSUME NEW s \in Senders, CreateTempConnection(s) PROVE PoolTypes'
    <3>1. PICK d \in Destinations :
            /\ Len(active_conns) < MaxConns
            /\ active_conns' \in {<<NewConn(d)>> \o active_conns, Append(active_conns, NewConn(d))}
      BY <2>6 DEF CreateTempConnection
    <3>2. /\ Len(active_conns') = Len(active_conns) + 1
          /\ \A n \in DOMAIN active_conns : \E m \in DOMAIN active_conns' :
               active_conns'[m] = active_conns[n]
      <4> DEFINE x == NewConn(d)
      <4> HIDE DEF x
      <4>1. CASE active_conns' = <<x>> \o active_conns
        <5>1. Len(active_conns') = Len(active_conns) + 1
              /\ DOMAIN active_conns' = 1..(Len(active_conns) + 1)
              /\ \A n \in DOMAIN active_conns : active_conns'[n + 1] = active_conns[n]
          BY <2>1, <4>1
        <5>2. \A n \in DOMAIN active_conns : n + 1 \in DOMAIN active_conns'
          BY <2>1, <5>1
        <5> QED BY <5>1, <5>2
      <4>2. CASE active_conns' = Append(active_conns, x)
        BY <2>1, <4>2
      <4> QED BY <3>1, <4>1, <4>2 DEF x
    <3>3. Len(active_conns') <= MaxConns
      BY <2>1, <3>1, <3>2, PoolAssumption
    <3>4. doing' = [doing EXCEPT ![s] = Idle]
      BY <2>6 DEF CreateTempConnection
    <3>5. \A r \in Senders, id \in Nat : doing'[r] = Finding(id) => doing[r] = Finding(id)
      BY <2>2, <3>4, DoingDiffers
    <3> QED BY <3>2, <3>3, <3>5 DEF PoolTypes
  <2>7. ASSUME NEW s \in Senders, CreateFails(s) PROVE PoolTypes'
    <3>1. CASE active_conns' = active_conns /\ doing' = [doing EXCEPT ![s] = Idle]
      <4>1. \A r \in Senders, id \in Nat : doing'[r] = Finding(id) => doing[r] = Finding(id)
        BY <2>2, <3>1, DoingDiffers
      <4> QED BY <3>1, <4>1 DEF PoolTypes
    <3>2. CASE active_conns' = <<>> /\ doing' = [r \in Senders |-> Idle]
      BY <3>2, DoingDiffers, PoolAssumption DEF PoolTypes
    <3> QED BY <2>7, <3>1, <3>2 DEF CreateFails
  <2>8. ASSUME Tick PROVE PoolTypes'
    <3>1. active_conns' = [n \in DOMAIN active_conns |-> Aged(active_conns[n])] /\ doing' = doing
      BY <2>8 DEF Tick
    <3>2. DOMAIN active_conns' = DOMAIN active_conns
          /\ \A n \in DOMAIN active_conns : active_conns'[n].id = active_conns[n].id
      BY <2>1, <3>1, SameConn
    <3>3. Len(active_conns') = Len(active_conns)
      BY <2>1, <3>2 DEF PoolState, PoolInv
    <3> QED BY <2>4, <3>1, <3>2, <3>3
  <2>9. CASE UNCHANGED vars
    BY <2>9 DEF vars, PoolTypes
  <2> QED BY <2>3, <2>5, <2>6, <2>7, <2>8, <2>9 DEF Next
<1>3. PoolState /\ PoolTypes => TypeOK
  <2> SUFFICES ASSUME PoolState, PoolTypes, NEW s \in Senders
               PROVE  \/ doing[s] = Idle
                      \/ \E d \in Destinations : doing[s] = Creating(d)
                      \/ \E c \in ToSet(active_conns) : doing[s] = Finding(c.id)
    BY DEF TypeOK, PoolState, PoolInv, PoolTypes
  <2>1. ASSUME NEW id \in Nat, doing[s] = Finding(id)
        PROVE  \E c \in ToSet(active_conns) : doing[s] = Finding(c.id)
    <3>1. PICK n \in DOMAIN active_conns : active_conns[n].id = id
      BY <2>1 DEF PoolTypes
    <3>2. active_conns[n] \in ToSet(active_conns)
      BY DEF ToSet
    <3> QED BY <2>1, <3>1, <3>2
  <2> QED BY <2>1 DEF PoolState, DoingType
<1> QED BY <1>1, <1>2, <1>3, PoolStateHolds, PTL DEF PoolSafety

\* An update within the bound keeps the statistics numbers.
LEMMA UpdatedType ==
  ASSUME m_global_pri_config \in Configs, NEW s \in PriStats, s.thousands < MaxUpdates
  PROVE  Updated(s) \in PriStats
<1> DEFINE n == s.thousands
           ratio == m_global_pri_config.compression_ratio
           c == Reduction(ratio)
           saved == s.bytes_saved + 1000 * (n + 1) * c
<1>1. n \in Nat /\ n + 1 \in 0..MaxUpdates /\ s.bytes_saved \in Nat /\ c \in Nat
  <2>1. n \in 0..MaxUpdates /\ s.bytes_saved \in Nat /\ ratio \in Ratios
    BY DEF PriStats, Configs
  <2>2. c \in Nat
    BY <2>1, ReductionIsNatural
  <2>3. n + 1 \in 0..MaxUpdates
    BY <2>1, PriAssumption
  <2> QED BY <2>1, <2>2, <2>3
<1>2. saved \in Nat /\ 1000 * (n + 1) * 42 \in Nat /\ 1000 * (n + 1) * 42 > 0
  <2> HIDE DEF n, c
  <2> QED BY <1>1
<1>3. Updated(s) = [thousands |-> n + 1, bytes_saved |-> saved,
                    ratio_actual |-> (saved * 100) \div (1000 * (n + 1) * 42)]
  BY DEF Updated, SavedOn
<1> HIDE DEF saved
<1>4. (saved * 100) \div (1000 * (n + 1) * 42) \in Nat
  BY <1>2
<1> QED BY <1>1, <1>2, <1>3, <1>4 DEF PriStats

LEMMA PriTypeCorrect == PriSpec => []PriTypeOK
<1>1. PriInit => PriTypeOK
  BY EmptyMapType DEF PriInit, PriTypeOK
<1>2. PriTypeOK /\ [PriNext]_pri_vars => PriTypeOK'
  <2> SUFFICES ASSUME PriTypeOK, [PriNext]_pri_vars PROVE PriTypeOK'
    OBVIOUS
  <2>1. ASSUME NEW ratio \in Ratios, EnableGlobalPRI(ratio) PROVE PriTypeOK'
    BY <2>1, PutType DEF EnableGlobalPRI, PriTypeOK, Configs
  <2>2. ASSUME DisableGlobalPRI PROVE PriTypeOK'
    BY <2>2 DEF DisableGlobalPRI, PriTypeOK, Configs
  <2>3. ASSUME Restart PROVE PriTypeOK'
    BY <2>3, EmptyMapType DEF Restart, PriTypeOK
  <2>4. ASSUME NEW i \in Interfaces, ProcessInterfaceConfig(i) PROVE PriTypeOK'
    <3>1. IsMap(m_pri_stats', Interfaces, PriStats)
      BY <2>4, WithoutType DEF ProcessInterfaceConfig, PriTypeOK
    <3> QED BY <2>4, <3>1 DEF ProcessInterfaceConfig, PriTypeOK
  <2>5. ASSUME DoPeriodicTask PROVE PriTypeOK'
    <3> DEFINE old(i)  == IF i \in DOMAIN m_pri_stats THEN m_pri_stats[i] ELSE ZeroStats
               updated == [i \in m_pri_interfaces |-> Updated(old(i))]
    <3>1. /\ m_pri_stats' = PutAll(m_pri_stats, updated)
          /\ state_rows' = PutAll(state_rows, updated)
          /\ \A i \in m_pri_interfaces : old(i).thousands < MaxUpdates
      BY <2>5 DEF DoPeriodicTask
    <3>2. ZeroStats \in PriStats
      BY PriAssumption DEF ZeroStats, PriStats
    <3>3. \A i \in m_pri_interfaces : old(i) \in PriStats
      BY <3>2 DEF PriTypeOK, IsMap
    <3> HIDE DEF old
    <3>4. \A i \in m_pri_interfaces : Updated(old(i)) \in PriStats
      BY <3>1, <3>3, UpdatedType DEF PriTypeOK
    <3>5. IsMap(updated, Interfaces, PriStats)
      BY <3>4 DEF IsMap, PriTypeOK
    <3> HIDE DEF updated
    <3>6. IsMap(m_pri_stats', Interfaces, PriStats) /\ IsMap(state_rows', Interfaces, PriStats)
      BY <3>1, <3>5, PutAllType DEF PriTypeOK
    <3> QED BY <2>5, <3>6 DEF DoPeriodicTask, PriTypeOK
  <2>6. CASE ClockStep
    BY <2>6 DEF ClockStep, PriTypeOK
  <2>7. CASE UNCHANGED pri_vars
    BY <2>7 DEF pri_vars, pri_memory, PriTypeOK
  <2> QED BY <2>1, <2>2, <2>3, <2>4, <2>5, <2>6, <2>7 DEF PriNext, ProcessPRIConfig
<1> QED BY <1>1, <1>2, PTL DEF PriSpec

\* The switches' tables name ports and addresses, and nothing changes them.
LEMMA P4TypeCorrect == P4!Init /\ [][P4!Next]_p4_vars => []P4!TypeOK
<1>1. P4!Init => P4!TypeOK
  BY DEF P4!Init, P4!TypeOK
<1>2. P4!TypeOK /\ [P4!Next]_p4_vars => P4!TypeOK'
  <2> SUFFICES ASSUME P4!TypeOK, [P4!Next]_p4_vars PROVE P4!TypeOK'
    OBVIOUS
  <2>1. CASE P4!Gone \/ UNCHANGED p4_vars
    BY <2>1 DEF P4!Gone, P4!vars, p4_vars, P4!TypeOK
  <2>2. CASE P4!Ingress
    <3>1. /\ UNCHANGED <<tables, links>>
          /\ at \in Switches
          /\ tables[at] \in Tables /\ links[at] \in [Ports -> Switches \cup {"out"}]
      BY <2>2, ForwardingAssumption DEF P4!Ingress, P4!IngressOther, P4!IngressIPv4, P4!TypeOK
    <3>2. ASSUME P4!IngressOther
          PROVE  packet' \in P4!Packets /\ at' \in Switches \cup {"out", "dropped"}
      BY <3>1, <3>2, ForwardingAssumption DEF P4!IngressOther, P4!NoPort, P4!TypeOK
    <3>3. ASSUME P4!IngressIPv4
          PROVE  packet' \in P4!Packets /\ at' \in Switches \cup {"out", "dropped"}
      <4>1. CASE packet' = packet /\ at' = "dropped"
        BY <4>1 DEF P4!TypeOK
      <4>2. ASSUME NEW k \in DOMAIN tables[at].path_select,
                   P4!SetNhop(at, tables[at].path_select[k])
            PROVE  packet' \in P4!Packets /\ at' \in Switches \cup {"out", "dropped"}
        <5> DEFINE entry == tables[at].path_select[k]
        <5>1. entry.port \in Ports /\ entry.nhop_ipv4 \in Addresses
          BY <3>1, ForwardingAssumption
        <5> HIDE DEF entry
        <5>2. at' = links[at][entry.port]
          BY <4>2 DEF P4!SetNhop, entry
        <5>3. packet' = [packet EXCEPT !.dst = entry.nhop_ipv4,
                                       !.ttl = IF @ = 0 THEN Ttls - 1 ELSE @ - 1,
                                       !.ce = @ \/ P4!Marked(at, entry.port)]
          BY <4>2 DEF P4!SetNhop, entry
        <5> DEFINE ttl == IF packet.ttl = 0 THEN Ttls - 1 ELSE packet.ttl - 1
                   ce  == packet.ce \/ P4!Marked(at, entry.port)
        <5>4. packet.kind \in {"ipv4", "other"} /\ packet.ttl \in 0..(Ttls - 1)
          BY DEF P4!TypeOK, P4!Packets
        <5>5. ttl \in 0..(Ttls - 1) /\ ce \in BOOLEAN
          BY <5>4, ForwardingAssumption
        <5>6. packet' = [kind |-> packet.kind, dst |-> entry.nhop_ipv4, ttl |-> ttl, ce |-> ce]
          BY <5>3 DEF P4!TypeOK, P4!Packets
        <5> HIDE DEF ttl, ce
        <5>7. packet' \in P4!Packets
          BY <5>1, <5>4, <5>5, <5>6 DEF P4!Packets
        <5> QED BY <3>1, <5>1, <5>2, <5>7
      <4> QED BY <3>3, <4>1, <4>2 DEF P4!IngressIPv4, P4!Missed
    <3> QED BY <2>2, <3>1, <3>2, <3>3 DEF P4!Ingress, P4!TypeOK
  <2> QED BY <2>1, <2>2 DEF P4!Next
<1> QED BY <1>1, <1>2, PTL

-----------------------------------------------------------------------------
(* Packets.                                                                *)

\* What LoopFree asks of a ranking of the switches, for the packet there is.
Descending(rank) ==
  \A w \in Switches : \A p \in P4!Exits(w, packet.kind) :
    links[w][p] \in Switches => rank[links[w][p]] < rank[w]

(***************************************************************************)
(* If the exits a packet may take descend in any ranking of the switches,  *)
(* every hop descends: whatever the hash picks, and although set_nhop      *)
(* changes the address that the next switch looks up, a packet comes to no *)
(* switch twice, which is the safety that PacketsLeave rests on.           *)
(***************************************************************************)
THEOREM HopsDescend ==
  ASSUME NEW CONSTANT rank
  PROVE  P4!Init /\ Descending(rank) /\ [][P4!Next]_p4_vars
           => [][at' \in Switches => rank[at'] < rank[at]]_p4_vars
<1> DEFINE Hop == at' \in Switches => rank[at'] < rank[at]
<1>1. P4!TypeOK /\ Descending(rank) /\ [P4!Next]_p4_vars => Descending(rank)' /\ [Hop]_p4_vars
  <2> SUFFICES ASSUME P4!TypeOK, Descending(rank), [P4!Next]_p4_vars
               PROVE  Descending(rank)' /\ [Hop]_p4_vars
    OBVIOUS
  <2>1. CASE P4!Gone \/ UNCHANGED p4_vars
    BY <2>1 DEF P4!Gone, P4!vars, p4_vars, Descending, P4!Exits
  <2>2. CASE P4!Ingress
    <3>1. UNCHANGED <<tables, links>> /\ at \in Switches
      BY <2>2 DEF P4!Ingress, P4!IngressOther, P4!IngressIPv4
    <3>2. packet'.kind = packet.kind
      BY <2>2 DEF P4!Ingress, P4!IngressOther, P4!IngressIPv4, P4!SetNhop, P4!TypeOK, P4!Packets
    <3>3. Descending(rank)'
      BY <3>1, <3>2 DEF Descending, P4!Exits
    <3>4. ASSUME at' \in Switches
          PROVE  \E p \in P4!Exits(at, packet.kind) : at' = links[at][p]
      <4>1. CASE P4!IngressOther
        BY <4>1 DEF P4!IngressOther, P4!Exits
      <4>2. CASE P4!IngressIPv4
        <5>1. PICK n \in P4!Selected(at, packet.dst) :
                \/ /\ <<0, n>> \in DOMAIN tables[at].path_select
                   /\ P4!SetNhop(at, tables[at].path_select[<<0, n>>])
                \/ at' = "dropped"
          BY <4>2 DEF P4!IngressIPv4, P4!Missed
        <5>2. CASE at' = "dropped"
          BY <3>4, <5>2, ForwardingAssumption
        <5>3. CASE /\ <<0, n>> \in DOMAIN tables[at].path_select
                   /\ P4!SetNhop(at, tables[at].path_select[<<0, n>>])
          <6>1. at' = links[at][tables[at].path_select[<<0, n>>].port]
            BY <5>3 DEF P4!SetNhop
          <6>2. tables[at].path_select[<<0, n>>].port \in P4!Exits(at, packet.kind)
            BY <4>2, <5>3 DEF P4!Exits, P4!IngressIPv4
          <6> QED BY <6>1, <6>2
        <5> QED BY <5>1, <5>2, <5>3
      <4> QED BY <2>2, <4>1, <4>2 DEF P4!Ingress
    <3>5. Hop
      BY <3>1, <3>4 DEF Descending
    <3> QED BY <3>3, <3>5
  <2> QED BY <2>1, <2>2 DEF P4!Next
<1> QED BY <1>1, P4TypeCorrect, PTL

(***************************************************************************)
(* Side by side, each part has the types it has by itself: a step of one   *)
(* is a step or a stutter of each.  The counters of packets and bytes stay *)
(* numbers, the list of connections within its capacity, a connection      *)
(* found is one of the list, and a packet names a switch and an address.   *)
(***************************************************************************)
THEOREM AllTypesCorrect == AllSpec => []AllTypesOK
<1>1. AllInit => Init /\ PriInit /\ P4!Init
  BY DEF AllInit, PoolRests, PriRests, P4Rests
<1>2. [AllNext]_all_vars => [Next]_vars /\ [PriNext]_pri_vars /\ [P4!Next]_p4_vars
  BY DEF AllNext, PoolRuns, P4Runs, all_vars
<1> QED BY <1>1, <1>2, PoolTypeCorrect, PriTypeCorrect, P4TypeCorrect, PTL
        DEF AllSpec, PoolSafety, PriSpec, AllTypesOK

=============================================================================
