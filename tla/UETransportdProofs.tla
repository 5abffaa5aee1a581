-------------------------- MODULE UETransportdProofs --------------------------
(***************************************************************************)
(* The loop of the transport daemon for any set of flows, any timeout and  *)
(* any cleanup period: what a second of quiet guarantees, and what an      *)
(* entry that does not parse does.                                         *)
(***************************************************************************)
EXTENDS UETransportd, UEMapsProofs, TLAPS

Ages == 0..Bound + 1

\* Numbers.
LEMMA Periods ==
  /\ FlowTimeout \in Nat /\ CleanupPeriod \in Nat /\ CleanupPeriod >= 1
  /\ Bound = FlowTimeout + CleanupPeriod /\ LongAgo = CleanupPeriod + 1
BY PeriodsAssumption DEF Bound, LongAgo

\* One more second, on the ages of flows.
LEMMA Ageing ==
  ASSUME IsMap(idle, Flows, Ages), idle' = [f \in DOMAIN idle |-> Older(idle[f])]
  PROVE  /\ IsMap(idle', Flows, Ages)
         /\ DOMAIN idle' = DOMAIN idle
         /\ \A f \in DOMAIN idle : idle[f] \in Nat /\ idle'[f] <= idle[f] + 1
<1>1. \A f \in DOMAIN idle : idle[f] \in Ages
  BY DEF IsMap
<1>2. \A age \in Ages : Older(age) \in Ages /\ Older(age) <= age + 1
  BY Periods DEF Older, Ages
<1>3. \A f \in DOMAIN idle : idle'[f] = Older(idle[f])
  OBVIOUS
<1>4. Ages \subseteq Nat
  BY Periods DEF Ages
<1> QED BY <1>1, <1>2, <1>3, <1>4 DEF IsMap

-----------------------------------------------------------------------------
(* The inductive invariant.                                                *)

\* A cleanup within the last CleanupPeriod seconds left nothing that had
\* expired, and time has passed since for all flows alike.
CleanedLately ==
  since_cleanup < LongAgo =>
    \A f \in DOMAIN idle : idle[f] <= FlowTimeout + since_cleanup

\* A timeout leaves no cleanup overdue; the next comes within a second, or an
\* entry does.
QuietIsOnTime ==
  quiet =>
    /\ ~interrupted
    /\ since_cleanup <= CleanupPeriod
    /\ ~waited => since_cleanup < CleanupPeriod

\* The second that ends in a timeout is one without an entry.
WaitedInFull == waited => ~interrupted

DaemonInv == TypeOK /\ CleanedLately /\ QuietIsOnTime /\ WaitedInFull /\ BadEntryIsFatal

\* The first process on an empty CONFIG_DB.
LEMMA InitDaemon == Init => DaemonInv
<1> SUFFICES ASSUME Init PROVE DaemonInv
  OBVIOUS
<1>1. IsMap(idle, Flows, Ages)
  BY EmptyMapType DEF Init, InitialMemory
<1>2. LongAgo \in 0..LongAgo /\ ~(LongAgo < LongAgo)
  BY Periods
<1>3. TypeOK
  BY <1>1, <1>2 DEF Init, InitialMemory, TypeOK, Ages
<1>4. CleanedLately /\ QuietIsOnTime /\ WaitedInFull /\ BadEntryIsFatal
  BY <1>2 DEF Init, InitialMemory, CleanedLately, QuietIsOnTime, WaitedInFull, BadEntryIsFatal
<1> QED BY <1>3, <1>4 DEF DaemonInv

\* Steps that have nothing to do with time: they move the thread, bring an
\* entry, or start a quiet that has yet to come.
LEMMA TimelessSteps ==
  ASSUME DaemonInv, MainLoop \/ SelectObject \/ MendConfig \/ Signal
                      \/ (\E kind \in {"good", "bad"} : StoreConfig(kind))
  PROVE  DaemonInv'
<1>1. UNCHANGED <<idle, since_cleanup>>
  BY DEF MainLoop, SelectObject, MendConfig, Signal, StoreConfig, clock
<1>2. TypeOK'
  BY <1>1 DEF DaemonInv, TypeOK, MainLoop, SelectObject, MendConfig, Signal, StoreConfig, clock,
     LoopStep, Outcome
<1>3. CleanedLately'
  BY <1>1 DEF DaemonInv, CleanedLately
<1>4. QuietIsOnTime' /\ WaitedInFull'
  BY <1>1 DEF DaemonInv, QuietIsOnTime, WaitedInFull, MainLoop, SelectObject, MendConfig, Signal, StoreConfig,
     clock
<1>5. BadEntryIsFatal'
  BY DEF DaemonInv, BadEntryIsFatal, MainLoop, SelectObject, MendConfig, Signal, StoreConfig,
     LoopStep, Outcome, Up
<1> QED BY <1>2, <1>3, <1>4, <1>5 DEF DaemonInv

\* The cleanup removes every flow that has expired; without it, none was due.
LEMMA TimeoutStep ==
  ASSUME DaemonInv, SelectTimeout
  PROVE  DaemonInv'
<1>1. /\ pc = "select" /\ pc' = "loop" /\ quiet' = TRUE
      /\ waited = TRUE /\ waited' = FALSE
      /\ UNCHANGED <<g_running, waiting, stored_bad, interrupted>>
  BY DEF SelectTimeout, DaemonInv, TypeOK
<1>2. since_cleanup \in 0..LongAgo /\ IsMap(idle, Flows, Ages)
  BY DEF DaemonInv, TypeOK, Ages
<1>3. interrupted = FALSE
  BY <1>1 DEF DaemonInv, WaitedInFull, TypeOK
<1>4. CASE CleanupDue
  <2>1. idle' = Without(idle, ExpiredFlows) /\ since_cleanup' = 0
    BY <1>4 DEF SelectTimeout, CleanedUp, JustNow
  <2>2. IsMap(idle', Flows, Ages)
    BY <1>2, <2>1, WithoutType
  <2>3. \A f \in DOMAIN idle' : idle'[f] <= FlowTimeout
    <3>1. \A f \in DOMAIN idle \ ExpiredFlows : idle[f] \in Nat /\ ~(idle[f] > FlowTimeout)
      BY <1>2, Periods DEF ExpiredFlows, Expired, IsMap, Ages
    <3>2. \A f \in DOMAIN idle' : f \in DOMAIN idle \ ExpiredFlows /\ idle'[f] = idle[f]
      BY <2>1 DEF Without, Restrict
    <3> QED BY <3>1, <3>2, Periods
  <2>4. CleanedLately' /\ QuietIsOnTime'
    BY <1>1, <1>3, <2>1, <2>3, Periods DEF CleanedLately, QuietIsOnTime
  <2>5. since_cleanup' \in 0..LongAgo
    BY <2>1, Periods
  <2>6. TypeOK'
    BY <1>1, <2>2, <2>5 DEF DaemonInv, TypeOK, Ages
  <2>7. WaitedInFull' /\ BadEntryIsFatal'
    BY <1>1 DEF DaemonInv, WaitedInFull, BadEntryIsFatal, Up
  <2> QED BY <2>4, <2>6, <2>7 DEF DaemonInv
<1>5. CASE ~CleanupDue
  <2>1. UNCHANGED <<idle, since_cleanup>> /\ ~(since_cleanup >= CleanupPeriod)
    BY <1>5 DEF SelectTimeout, CleanupDue
  <2>2. CleanedLately' /\ QuietIsOnTime'
    BY <1>1, <1>2, <1>3, <2>1, Periods DEF DaemonInv, CleanedLately, QuietIsOnTime
  <2> QED BY <1>1, <2>1, <2>2 DEF DaemonInv, TypeOK, WaitedInFull, BadEntryIsFatal, Up
<1> QED BY <1>4, <1>5

\* A second makes every flow one older, and the cleanup too.
LEMMA TickStep ==
  ASSUME DaemonInv, Tick
  PROVE  DaemonInv'
<1>1. /\ waited = FALSE /\ waited' = ~interrupted /\ interrupted' = FALSE
      /\ UNCHANGED <<pc, g_running, waiting, stored_bad, quiet>>
  BY DEF Tick, DaemonInv, TypeOK
<1>2. /\ IsMap(idle, Flows, Ages) /\ since_cleanup \in 0..LongAgo /\ interrupted \in BOOLEAN
      /\ idle' = [f \in DOMAIN idle |-> Older(idle[f])]
      /\ since_cleanup' = IF since_cleanup < LongAgo THEN since_cleanup + 1 ELSE since_cleanup
  BY DEF Tick, DaemonInv, TypeOK, Ages
<1>3. /\ IsMap(idle', Flows, Ages) /\ DOMAIN idle' = DOMAIN idle
      /\ \A f \in DOMAIN idle : idle[f] \in Nat /\ idle'[f] <= idle[f] + 1
  BY <1>2, Ageing
<1>4. since_cleanup' \in 0..LongAgo
  BY <1>2, Periods
<1>5. TypeOK'
  BY <1>1, <1>2, <1>3, <1>4 DEF DaemonInv, TypeOK, Ages
<1>6. CleanedLately'
  <2> SUFFICES ASSUME since_cleanup' < LongAgo, NEW f \in DOMAIN idle'
               PROVE  idle'[f] <= FlowTimeout + since_cleanup'
    BY DEF CleanedLately
  <2>1. since_cleanup < LongAgo /\ since_cleanup' = since_cleanup + 1
    BY <1>2, Periods
  <2>2. idle[f] <= FlowTimeout + since_cleanup
    BY <1>3, <2>1 DEF DaemonInv, CleanedLately
  <2>3. idle'[f] \in Nat
    BY <1>3, Periods DEF IsMap, Ages
  <2> QED BY <1>2, <1>3, <2>1, <2>2, <2>3, Periods
<1>7. QuietIsOnTime'
  <2> SUFFICES ASSUME quiet
               PROVE  ~interrupted' /\ waited' /\ since_cleanup' <= CleanupPeriod
    BY <1>1 DEF QuietIsOnTime
  <2>1. ~interrupted /\ since_cleanup < CleanupPeriod
    BY <1>1 DEF DaemonInv, QuietIsOnTime
  <2>2. since_cleanup' <= CleanupPeriod
    BY <1>2, <2>1, Periods
  <2> QED BY <1>1, <2>1, <2>2
<1>8. WaitedInFull' /\ BadEntryIsFatal'
  BY <1>1 DEF DaemonInv, WaitedInFull, BadEntryIsFatal, Up
<1> QED BY <1>5, <1>6, <1>7, <1>8 DEF DaemonInv

\* A packet makes its flow young.
LEMMA ActivityStep ==
  ASSUME DaemonInv, NEW f \in Flows, Activity(f)
  PROVE  DaemonInv'
<1>1. /\ UNCHANGED <<pc, g_running, waiting, stored_bad, interrupted, waited, since_cleanup,
                     quiet>>
      /\ idle' = Put(idle, f, 0) /\ IsMap(idle, Flows, Ages) /\ since_cleanup \in 0..LongAgo
  BY DEF Activity, clock, DaemonInv, TypeOK, Ages
<1>2. 0 \in Ages
  BY Periods DEF Ages
<1>3. IsMap(idle', Flows, Ages)
  BY <1>1, <1>2, PutType
<1>4. \A g \in DOMAIN idle' : idle'[g] = 0 \/ (g \in DOMAIN idle /\ idle'[g] = idle[g])
  BY <1>1 DEF Put
<1>5. CleanedLately'
  BY <1>1, <1>4, Periods DEF DaemonInv, CleanedLately
<1> QED BY <1>1, <1>3, <1>5 DEF DaemonInv, TypeOK, Ages, QuietIsOnTime, WaitedInFull,
           BadEntryIsFatal, Up

\* A new process knows no flow, and begins with a bad entry if there is one.
LEMMA StartStep ==
  ASSUME DaemonInv, Start
  PROVE  DaemonInv'
<1>1. IsMap(idle', Flows, Ages)
  BY EmptyMapType DEF Start
<1>2. LongAgo \in 0..LongAgo /\ ~(LongAgo < LongAgo)
  BY Periods
<1>3. TypeOK'
  BY <1>1, <1>2 DEF Start, DaemonInv, TypeOK, Ages
<1>4. CleanedLately' /\ QuietIsOnTime' /\ WaitedInFull' /\ BadEntryIsFatal'
  BY <1>2 DEF Start, CleanedLately, QuietIsOnTime, WaitedInFull, BadEntryIsFatal
<1> QED BY <1>3, <1>4 DEF DaemonInv

\* Every step keeps the invariant.
LEMMA NextDaemon == DaemonInv /\ [Next]_vars => DaemonInv'
<1> SUFFICES ASSUME DaemonInv, [Next]_vars PROVE DaemonInv'
  OBVIOUS
<1>1. CASE UNCHANGED vars
  BY <1>1 DEF vars, clock, DaemonInv, TypeOK, CleanedLately, QuietIsOnTime, WaitedInFull,
     BadEntryIsFatal, Up
<1>2. CASE Next
  BY <1>2, TimelessSteps, TimeoutStep, TickStep, ActivityStep, StartStep DEF Next, Main
<1> QED BY <1>1, <1>2

\* Hence it holds of every reachable state.
LEMMA DaemonInvHolds == Spec => []DaemonInv
BY InitDaemon, NextDaemon, PTL DEF Spec

-----------------------------------------------------------------------------
(* The properties.                                                         *)

(***************************************************************************)
(* The flags, the flows' ages and the time since the cleanup keep their    *)
(* types, however entries, seconds, packets and restarts follow each other.*)
(***************************************************************************)
THEOREM TypeCorrect == Spec => []TypeOK
BY DaemonInvHolds, PTL DEF DaemonInv

(***************************************************************************)
(* For any timeout and any cleanup period, one second without an entry is  *)
(* enough to be rid of every flow that has been idle for longer than the   *)
(* two together, until the next entry is handled.                          *)
(***************************************************************************)
THEOREM QuietExpiresFlows == Spec => []StaleOnlyUnderLoad
<1>1. DaemonInv => StaleOnlyUnderLoad
  <2> SUFFICES ASSUME DaemonInv, quiet, NEW f \in DOMAIN idle PROVE idle[f] <= Bound
    BY DEF StaleOnlyUnderLoad
  <2>1. since_cleanup \in 0..LongAgo /\ idle[f] \in Nat
    BY Periods DEF DaemonInv, TypeOK, IsMap
  <2>2. since_cleanup <= CleanupPeriod
    BY <2>1, Periods DEF DaemonInv, QuietIsOnTime
  <2>3. idle[f] <= FlowTimeout + since_cleanup
    BY <2>1, <2>2, Periods DEF DaemonInv, CleanedLately
  <2> QED BY <2>1, <2>2, <2>3, Periods
<1> QED BY <1>1, DaemonInvHolds, PTL

(***************************************************************************)
(* A stored number that does not parse is still to be handled, or the      *)
(* process has ended: no restart gets past it.                             *)
(***************************************************************************)
THEOREM BadEntriesAreFatal == Spec => []BadEntryIsFatal
BY DaemonInvHolds, PTL DEF DaemonInv
=============================================================================
