---------------------------- MODULE UETransportd -----------------------------
(***************************************************************************)
(* The main loop of ue-transportd (ue_transportd.cpp) and the time it      *)
(* gives to its two managers: select returns an object and a configuration *)
(* entry is handled, or it returns a timeout after a second without one    *)
(* and the periodic tasks run.                                             *)
(*                                                                         *)
(* Of the flow manager only what time does to it is kept: how long each    *)
(* flow has been idle and how long ago the last cleanup ran; UEFlowManager *)
(* has the rest.  Of an entry it matters whether handling it throws out of *)
(* doTask: a number of the congestion table that std::stoi cannot parse.   *)
(*                                                                         *)
(* The main thread is prompt: a second passes only while it is blocked in  *)
(* select.  At most one entry arrives per second.                          *)
(***************************************************************************)
EXTENDS Integers, UEMaps

CONSTANTS
  Flows,          \* flow ids
  FlowTimeout,    \* m_flow_timeout_sec, in seconds
  CleanupPeriod   \* seconds between cleanups (60 in the code)

ASSUME PeriodsAssumption ==
  FlowTimeout \in Nat \ {0} /\ CleanupPeriod \in Nat \ {0}

VARIABLES
  pc,             \* "loop", "select", or "exited" and "failed" for main's returns
  g_running,
  waiting,        \* the entry select will return: "good", "bad" or "none"
  stored_bad,     \* CONFIG_DB holds a congestion number that does not parse
  interrupted,    \* an entry was handled since the second began
  waited,         \* select has waited for its full second
  idle,           \* map from active flow to seconds since its last activity
  since_cleanup,  \* now - last_cleanup
  quiet           \* history: the last select to return timed out

clock == <<interrupted, waited, since_cleanup>>
vars == <<pc, g_running, waiting, stored_bad, clock, idle, quiet>>

\* Ages are not told apart beyond the bound the properties speak of.
Bound == FlowTimeout + CleanupPeriod
Older(age) == IF age <= Bound THEN age + 1 ELSE age
LongAgo == CleanupPeriod + 1

Up == pc \in {"loop", "select"}

Expired(f) == idle[f] > FlowTimeout
ExpiredFlows == {f \in DOMAIN idle : Expired(f)}

\* Each with a slip for mutation: a cleanup one second late, a cleanup that
\* removes nothing, one dated a second ahead, an exception caught.
CleanupOverdue == since_cleanup > CleanupPeriod
CleanupDue == since_cleanup >= CleanupPeriod
NothingCleaned == idle
CleanedUp == Without(idle, ExpiredFlows)
NextSecond == -1
JustNow == 0
Survives(kind) == "loop"
Outcome(kind) == IF kind = "bad" THEN "failed" ELSE "loop"
LoopStep == IF g_running THEN "select" ELSE "exited"

InitialMemory ==
  /\ pc = "loop"
  /\ g_running = TRUE
  /\ interrupted = TRUE
  /\ waited = FALSE
  /\ idle = EmptyMap
  /\ since_cleanup = LongAgo
  /\ quiet = FALSE

Init == InitialMemory /\ waiting = "none" /\ stored_bad = FALSE

-----------------------------------------------------------------------------
(* The main thread.                                                        *)

MainLoop ==
  /\ pc = "loop"
  /\ pc' = LoopStep
  /\ UNCHANGED <<g_running, waiting, stored_bad, clock, idle, quiet>>

\* sel->readData(): an entry is handled; a bad one throws into main's catch.
SelectObject ==
  /\ pc = "select"
  /\ waiting # "none"
  /\ pc' = Outcome(waiting)
  /\ waiting' = "none"
  /\ interrupted' = TRUE
  /\ waited' = FALSE
  /\ quiet' = FALSE
  /\ UNCHANGED <<g_running, stored_bad, idle, since_cleanup>>

\* The periodic tasks, of which the flow manager's cleanup is kept.
SelectTimeout ==
  /\ pc = "select"
  /\ waiting = "none"
  /\ waited
  /\ pc' = "loop"
  /\ waited' = FALSE
  /\ quiet' = TRUE
  /\ IF CleanupDue
     THEN idle' = CleanedUp /\ since_cleanup' = JustNow
     ELSE UNCHANGED <<idle, since_cleanup>>
  /\ UNCHANGED <<g_running, waiting, stored_bad, interrupted>>

Main == MainLoop \/ SelectObject \/ SelectTimeout

-----------------------------------------------------------------------------
(* The environment.                                                        *)

\* A second passes.  It is the second select waits for only if select was
\* waiting for all of it.
Tick ==
  /\ pc = "select"
  /\ waiting = "none"
  /\ ~waited
  /\ waited' = ~interrupted
  /\ interrupted' = FALSE
  /\ idle' = [f \in DOMAIN idle |-> Older(idle[f])]
  /\ since_cleanup' = IF since_cleanup < LongAgo THEN since_cleanup + 1
                      ELSE since_cleanup
  /\ UNCHANGED <<pc, g_running, waiting, stored_bad, quiet>>

\* An operator writes an entry, of either table, parsable or not; not at the
\* very end of select's second, when the timeout comes first.
StoreConfig(kind) ==
  /\ Up
  /\ ~interrupted
  /\ ~waited
  /\ waiting = "none"
  /\ waiting' = kind
  /\ stored_bad' = (kind = "bad")
  /\ UNCHANGED <<pc, g_running, clock, idle, quiet>>

\* While the daemon is gone, the operator may mend the entry.
MendConfig ==
  /\ ~Up
  /\ stored_bad
  /\ stored_bad' = FALSE
  /\ UNCHANGED <<pc, g_running, waiting, clock, idle, quiet>>

\* A flow is created, or a packet of it arrives.
Activity(f) ==
  /\ Up
  /\ idle' = Put(idle, f, 0)
  /\ UNCHANGED <<pc, g_running, waiting, stored_bad, clock, quiet>>

Signal ==
  /\ Up
  /\ g_running
  /\ g_running' = FALSE
  /\ UNCHANGED <<pc, waiting, stored_bad, clock, idle, quiet>>

\* Started again, by hand or by a supervisor: what CONFIG_DB holds comes first.
Start ==
  /\ ~Up
  /\ pc' = "loop"
  /\ g_running' = TRUE
  /\ waiting' = IF stored_bad THEN "bad" ELSE "none"
  /\ interrupted' = TRUE
  /\ waited' = FALSE
  /\ idle' = EmptyMap
  /\ since_cleanup' = LongAgo
  /\ quiet' = FALSE
  /\ UNCHANGED stored_bad

Next ==
  \/ Main
  \/ Tick
  \/ \E kind \in {"good", "bad"} : StoreConfig(kind)
  \/ MendConfig
  \/ \E f \in Flows : Activity(f)
  \/ Signal
  \/ Start

\* The system runs the thread and time passes; nobody has to configure,
\* send, signal or restart.
Spec == Init /\ [][Next]_vars /\ WF_vars(Main) /\ WF_vars(Tick)

-----------------------------------------------------------------------------
(* Properties.                                                             *)

(***************************************************************************)
(* Every variable has its type.                                            *)
(***************************************************************************)
TypeOK ==
  /\ pc \in {"loop", "select", "exited", "failed"}
  /\ g_running \in BOOLEAN
  /\ waiting \in {"good", "bad", "none"}
  /\ stored_bad \in BOOLEAN
  /\ interrupted \in BOOLEAN
  /\ waited \in BOOLEAN
  /\ IsMap(idle, Flows, 0..Bound + 1)
  /\ since_cleanup \in 0..LongAgo
  /\ quiet \in BOOLEAN

(***************************************************************************)
(* One second without an entry is enough: since then, and until the next   *)
(* entry is handled, every flow in the table was active within the last    *)
(* FlowTimeout + CleanupPeriod seconds.  Under load there is no bound.     *)
(***************************************************************************)
StaleOnlyUnderLoad == quiet => \A f \in DOMAIN idle : idle[f] <= Bound

(***************************************************************************)
(* A daemon that cannot parse what CONFIG_DB holds does not come up to     *)
(* serve: as long as a bad entry is stored it has it still before it, or   *)
(* has failed on it.                                                       *)
(***************************************************************************)
BadEntryIsFatal == stored_bad => waiting = "bad" \/ ~Up

(***************************************************************************)
(* If configuration stops arriving, every expired flow is removed or       *)
(* active again, unless the process ends.                                  *)
(***************************************************************************)
QuietCleansUp ==
  <>[](waiting = "none") => \A f \in Flows :
    (Up /\ f \in ExpiredFlows) ~> (f \notin ExpiredFlows \/ ~Up)

(***************************************************************************)
(* "Cleanup expired flows every 60 seconds" (doPeriodicTask), while the    *)
(* daemon runs: an expired flow is removed, active again, or its process   *)
(* ends.                                                                   *)
(***************************************************************************)
CleanupEvery60Seconds ==
  \A f \in Flows : (Up /\ f \in ExpiredFlows) ~> (f \notin ExpiredFlows \/ ~Up)
=============================================================================
