------------------------------- MODULE UELinkD -------------------------------
(***************************************************************************)
(* The link daemon (ue_linkd.cpp): the main thread, which turns entries of *)
(* CONFIG_DB into rows of APPL_DB, STATE_DB and COUNTERS_DB one write at a *)
(* time; the detached threads that monitor FEC, one more for every SET     *)
(* with a FEC mode; the signal handler; and the death of the process       *)
(* between any two writes, with its restart on whatever the databases then *)
(* hold.                                                                   *)
(*                                                                         *)
(* A database command is atomic.  Of a FEC row only total_codewords is     *)
(* kept, in units of the 1000 one update adds.  Steps of a monitor after   *)
(* delete g_ueLinkD use freed memory; their outcome, the death of the      *)
(* process, is that of the exit that follows anyway.                       *)
(***************************************************************************)
EXTENDS Integers, Sequences, FiniteSets, UEMaps

CONSTANTS
  Ports,      \* port names
  Entries,    \* the field lists an entry of CONFIG_DB may hold
  FecModes,   \* FEC modes other than "none"
  MaxEdits,   \* bound: edits of CONFIG_DB
  MaxTotal    \* bound: a monitor does not count beyond this many updates

ASSUME BoundsAssumption == MaxEdits \in Nat /\ MaxTotal \in Nat

ASSUME EntriesAssumption ==
  \A entry \in Entries :
    "fec_mode" \in DOMAIN entry => entry.fec_mode \in FecModes \cup {"none"}

VARIABLES
  config,      \* CONFIG_DB, UE_LINK_TABLE: map from port to fields
  edits,       \* number of edits so far
  events,      \* notifications the subscriber has not been asked for yet
  pc,          \* where the main thread is
  job,         \* the entry processLinkConfig works on
  m_running,   \* the flag the signal handler clears
  app_rows,    \* APPL_DB, UE_LINK_TABLE: map from port to its row
  state_rows,  \* pairs <<kind, port>>: LLR and PRI rows of STATE_DB, LLDP rows
  fec_rows,    \* COUNTERS_DB: map from port to updates counted
  monitors,    \* the FEC threads, in the order they were started
  orphans      \* history: rows whose removal was missed while the daemon was down

databases == <<app_rows, state_rows, fec_rows, orphans>>
vars == <<config, edits, events, pc, job, m_running, databases, monitors>>

-----------------------------------------------------------------------------
(* Values.                                                                 *)

Rows == [llr_enabled : BOOLEAN, pri_enabled : BOOLEAN,
         fec_mode : FecModes \cup {"none"}]

\* processLinkConfig reads each field it knows, or its default.  The slip for
\* mutation has no default for the FEC mode.
ProcessedWithoutDefault(entry) ==
  [llr_enabled |-> "llr_enable" \in DOMAIN entry /\ entry.llr_enable = "true",
   pri_enabled |-> "pri_enable" \in DOMAIN entry /\ entry.pri_enable = "true",
   fec_mode    |-> IF "fec_mode" \in DOMAIN entry THEN entry.fec_mode ELSE ""]
Processed(entry) ==
  [llr_enabled |-> "llr_enable" \in DOMAIN entry /\ entry.llr_enable = "true",
   pri_enabled |-> "pri_enable" \in DOMAIN entry /\ entry.pri_enable = "true",
   fec_mode    |-> IF "fec_mode" \in DOMAIN entry THEN entry.fec_mode ELSE "none"]

NoJob == [port |-> "none"]
Jobs == {NoJob} \cup [port : Ports, row : Rows]

\* Every key of CONFIG_DB as a SET event, in some order: what a new
\* subscriber is given.
Snapshots ==
  {s \in [1..Cardinality(DOMAIN config) -> [port : DOMAIN config, op : {"SET"}]] :
     \A p \in DOMAIN config : \E i \in DOMAIN s : s[i].port = p}

MonitorPlaces == {"start", "read", "write", "sleep", "done"}
NewMonitor(p) == [port |-> p, at |-> "start", seen |-> 0]

\* The steps of processLinkConfig after each write.  The slips for mutation:
\* a thread before there is a row to read, a thread only for a port that has
\* no counters yet, and PRI forgotten.
FecThreadFirst(row) == IF row.fec_mode # "none" THEN "spawn" ELSE "loop"
FecOnlyOnce(row) ==
  IF row.fec_mode # "none" /\ job.port \notin DOMAIN fec_rows THEN "fec" ELSE "loop"
FecStep(row) == IF row.fec_mode # "none" THEN "fec" ELSE "loop"
PriForgotten(row) == FecStep(row)
PriStep(row) == IF row.pri_enabled THEN "pri" ELSE FecStep(row)
LlrStep(row) == IF row.llr_enabled THEN "llr" ELSE PriStep(row)

\* The step of the main loop, and a slip that does not look at the flag.
LoopForever == "select"
LoopStep == IF m_running THEN "select" ELSE "deleted"

\* cfgTable->pop, and a slip that only peeks.
Peeked(queue) == queue
Popped(queue) == Tail(queue)

\* m_appUeLinkTable->del, and a slip that leaves it out.
KeptRows(p) == app_rows
RemainingRows(p) == Without(app_rows, {p})

\* total_codewords + 1000, and a slip that wraps it.
WrappedCount(seen) == (seen + 1) % 2
NextCount(seen) == seen + 1

Up == pc # "down"

-----------------------------------------------------------------------------
(* CONFIG_DB.  An edit made while the daemon is down notifies nobody.      *)

Init ==
  /\ config = EmptyMap
  /\ edits = 0
  /\ events = <<>>
  /\ pc = "loop"
  /\ job = NoJob
  /\ m_running = TRUE
  /\ app_rows = EmptyMap
  /\ state_rows = {}
  /\ fec_rows = EmptyMap
  /\ monitors = <<>>
  /\ orphans = {}

Notify(p, op) ==
  events' = IF Up THEN Append(events, [port |-> p, op |-> op]) ELSE events

EditConfig(p, entry) ==
  /\ edits < MaxEdits
  /\ edits' = edits + 1
  /\ config' = Put(config, p, entry)
  /\ Notify(p, "SET")
  /\ UNCHANGED <<pc, job, m_running, databases, monitors>>

DeleteConfig(p) ==
  /\ edits < MaxEdits
  /\ edits' = edits + 1
  /\ p \in DOMAIN config
  /\ config' = Without(config, {p})
  /\ Notify(p, "DEL")
  /\ UNCHANGED <<pc, job, m_running, databases, monitors>>

-----------------------------------------------------------------------------
(* The main thread.                                                        *)

Goto(place) == pc' = place /\ UNCHANGED <<config, edits, m_running>>

\* while (m_running), and after the loop delete g_ueLinkD.
MainLoop ==
  /\ pc = "loop"
  /\ Goto(LoopStep)
  /\ UNCHANGED <<events, job, databases, monitors>>

SelectTimeout ==
  /\ pc = "select"
  /\ events = <<>>
  /\ Goto("loop")
  /\ UNCHANGED <<events, job, databases, monitors>>

\* A SET event reads the entry as it is now, and is dropped if it is gone.
SelectPop ==
  /\ pc = "select"
  /\ events # <<>>
  /\ events' = Popped(events)
  /\ LET e == Head(events)
     IN  \/ /\ e.op = "SET"
            /\ e.port \in DOMAIN config
            /\ job' = [port |-> e.port, row |-> Processed(config[e.port])]
            /\ Goto("appl")
         \/ /\ e.op = "SET"
            /\ e.port \notin DOMAIN config
            /\ job' = NoJob
            /\ Goto("loop")
         \/ /\ e.op = "DEL"
            /\ job' = [port |-> e.port, row |-> Processed(<<>>)]
            /\ Goto("del")
  /\ UNCHANGED <<databases, monitors>>

\* m_appUeLinkTable->del(key): the only row a DEL removes.
DeleteAppl ==
  /\ pc = "del"
  /\ app_rows' = RemainingRows(job.port)
  /\ orphans' = orphans \ {job.port}
  /\ job' = NoJob
  /\ Goto("loop")
  /\ UNCHANGED <<events, state_rows, fec_rows, monitors>>

WriteAppl ==
  /\ pc = "appl"
  /\ app_rows' = Put(app_rows, job.port, job.row)
  /\ orphans' = orphans \ {job.port}
  /\ Goto(LlrStep(job.row))
  /\ UNCHANGED <<events, job, state_rows, fec_rows, monitors>>

WriteStateRow(kind, next) ==
  /\ state_rows' = state_rows \cup {<<kind, job.port>>}
  /\ Goto(next)
  /\ UNCHANGED <<events, job, app_rows, fec_rows, orphans, monitors>>

InitializeLLR == pc = "llr" /\ WriteStateRow("LLR", PriStep(job.row))
InitializePRI == pc = "pri" /\ WriteStateRow("PRI", "lldp")
TriggerLLDPNegotiation == pc = "lldp" /\ WriteStateRow("LLDP", FecStep(job.row))

\* setupFECMonitoring: reset the counters, then start a thread.
ResetFECCounters ==
  /\ pc = "fec"
  /\ fec_rows' = Put(fec_rows, job.port, 0)
  /\ Goto("spawn")
  /\ UNCHANGED <<events, job, app_rows, state_rows, orphans, monitors>>

StartFECMonitor ==
  /\ pc = "spawn"
  /\ monitors' = Append(monitors, NewMonitor(job.port))
  /\ Goto("loop")
  /\ UNCHANGED <<events, job, databases>>

Die ==
  /\ pc' = "down"
  /\ job' = NoJob
  /\ events' = <<>>
  /\ monitors' = <<>>
  /\ UNCHANGED <<config, edits, m_running, databases>>

\* main returns: the detached threads go with the process.
Exit == pc = "deleted" /\ Die

Main ==
  \/ MainLoop \/ SelectTimeout \/ SelectPop \/ DeleteAppl
  \/ WriteAppl \/ InitializeLLR \/ InitializePRI \/ TriggerLLDPNegotiation
  \/ ResetFECCounters \/ StartFECMonitor \/ Exit

-----------------------------------------------------------------------------
(* The FEC monitors, the signal, the death and the start of the process.   *)

MonitorStep(m, place) ==
  /\ monitors' = [monitors EXCEPT ![m].at = place]
  /\ UNCHANGED <<config, edits, events, pc, job, m_running, databases>>

\* while (m_running), on starting and after each sleep(10).
MonitorLoop(m) ==
  /\ monitors[m].at \in {"start", "sleep"}
  /\ MonitorStep(m, IF m_running THEN "read" ELSE "done")

MonitorRead(m) ==
  /\ monitors[m].at = "read"
  /\ monitors[m].port \in DOMAIN fec_rows
  /\ fec_rows[monitors[m].port] < MaxTotal
  /\ monitors' = [monitors EXCEPT ![m].at = "write",
                                  ![m].seen = fec_rows[monitors[m].port]]
  /\ UNCHANGED <<config, edits, events, pc, job, m_running, databases>>

MonitorWrite(m) ==
  /\ monitors[m].at = "write"
  /\ fec_rows' = Put(fec_rows, monitors[m].port, NextCount(monitors[m].seen))
  /\ monitors' = [monitors EXCEPT ![m].at = "sleep", ![m].seen = 0]
  /\ UNCHANGED <<config, edits, events, pc, job, m_running, app_rows, state_rows,
                 orphans>>

Monitor(m) ==
  pc \notin {"deleted", "down"} /\ (MonitorLoop(m) \/ MonitorRead(m) \/ MonitorWrite(m))

\* SIGTERM or SIGINT.
Signal ==
  /\ pc \notin {"deleted", "down"}
  /\ m_running
  /\ m_running' = FALSE
  /\ UNCHANGED <<config, edits, events, pc, job, databases, monitors>>

Crash == Up /\ Die

\* main: a new UELinkD, whose subscriber begins with what CONFIG_DB holds.
Start ==
  /\ pc = "down"
  /\ pc' = "loop"
  /\ m_running' = TRUE
  /\ events' \in Snapshots
  /\ orphans' = DOMAIN app_rows \ DOMAIN config
  /\ UNCHANGED <<config, edits, job, app_rows, state_rows, fec_rows, monitors>>

Next ==
  \/ \E p \in Ports, entry \in Entries : EditConfig(p, entry)
  \/ \E p \in Ports : DeleteConfig(p)
  \/ Main
  \/ \E m \in DOMAIN monitors : Monitor(m)
  \/ Signal
  \/ Crash
  \/ Start

\* The operating system runs the main thread; nothing obliges an operator to
\* edit, a process to die, or a dead one to be started again.
Spec == Init /\ [][Next]_vars /\ WF_vars(Main)

-----------------------------------------------------------------------------
(* Properties.                                                             *)

(***************************************************************************)
(* Every variable has its type.                                            *)
(***************************************************************************)
TypeOK ==
  /\ DOMAIN config \subseteq Ports /\ \A p \in DOMAIN config : config[p] \in Entries
  /\ edits \in 0..MaxEdits
  /\ \A i \in DOMAIN events : events[i] \in [port : Ports, op : {"SET", "DEL"}]
  /\ pc \in {"loop", "select", "appl", "llr", "pri", "lldp", "fec", "spawn", "del",
             "deleted", "down"}
  /\ job \in Jobs
  /\ m_running \in BOOLEAN
  /\ IsMap(app_rows, Ports, Rows)
  /\ state_rows \subseteq {"LLR", "PRI", "LLDP"} \X Ports
  /\ IsMap(fec_rows, Ports, Nat)
  /\ \A m \in DOMAIN monitors :
       monitors[m] \in [port : Ports, at : MonitorPlaces, seen : Nat]
  /\ orphans \subseteq DOMAIN app_rows

\* The daemon has work left for port p.
Pending(p) ==
  \/ \E i \in DOMAIN events : events[i].port = p
  \/ pc \notin {"loop", "select", "deleted", "down"} /\ job.port = p

\* The daemon is up and believes it is done with port p.
Settled(p) == pc \notin {"deleted", "down"} /\ ~Pending(p) /\ p \notin orphans

(***************************************************************************)
(* No edit is lost: whenever the daemon has nothing left to do for a port, *)
(* APPL_DB shows exactly what CONFIG_DB asks for, however edits, writes,   *)
(* crashes and restarts interleaved.  The one exception is an entry        *)
(* deleted while the daemon was down or about to be told.                  *)
(***************************************************************************)
ConfigMirrored ==
  \A p \in Ports : Settled(p) =>
    /\ p \in DOMAIN app_rows <=> p \in DOMAIN config
    /\ p \in DOMAIN config => app_rows[p] = Processed(config[p])

(***************************************************************************)
(* What a row of APPL_DB announces has been initialised by the time the    *)
(* daemon is done with the port, even if it died between the two writes:   *)
(* LLR state, PRI state with its LLDP negotiation, and FEC counters.       *)
(***************************************************************************)
InitialisationComplete ==
  \A p \in DOMAIN app_rows : Settled(p) =>
    /\ app_rows[p].llr_enabled => <<"LLR", p>> \in state_rows
    /\ app_rows[p].pri_enabled => {<<"PRI", p>>, <<"LLDP", p>>} \subseteq state_rows
    /\ app_rows[p].fec_mode # "none" => p \in DOMAIN fec_rows

(***************************************************************************)
(* A port configured for FEC, with the daemon done and not shutting down,  *)
(* has a thread that monitors it, after a restart too.                     *)
(***************************************************************************)
FecIsMonitored ==
  \A p \in DOMAIN app_rows :
    Settled(p) /\ m_running /\ app_rows[p].fec_mode # "none" =>
      \E m \in DOMAIN monitors : monitors[m].port = p /\ monitors[m].at # "done"

(***************************************************************************)
(* A monitor always finds the counters it is about to parse: values[2] in  *)
(* monitorFEC is in bounds.                                                *)
(***************************************************************************)
MonitorsFindCounters ==
  \A m \in DOMAIN monitors :
    monitors[m].at \in {"start", "read"} => monitors[m].port \in DOMAIN fec_rows

(***************************************************************************)
(* A port with a single monitor never loses counts: total_codewords goes   *)
(* down only when the main thread resets it, or when two monitors of one   *)
(* port race from reading to writing.                                      *)
(***************************************************************************)
CountsLostOnlyToRaces ==
  [][\A p \in DOMAIN fec_rows :
       fec_rows'[p] < fec_rows[p] =>
         \/ pc = "fec"
         \/ Cardinality({m \in DOMAIN monitors : monitors[m].port = p}) > 1]_vars

(***************************************************************************)
(* Unless it stops, the daemon catches up: it is infinitely often done     *)
(* with every port.                                                        *)
(***************************************************************************)
CatchesUp ==
  []<>(~m_running \/ ~Up \/ \A p \in Ports : ~Pending(p))

(***************************************************************************)
(* A signal stops the daemon, from wherever it was and whatever is queued. *)
(***************************************************************************)
SignalStops == (Up /\ ~m_running) ~> ~Up

(***************************************************************************)
(* "Update every 10 seconds" (monitorFEC): when a monitor writes a port's  *)
(* counters, no other update of them is less than a sleep(10) old.         *)
(***************************************************************************)
UpdatedEveryTenSeconds ==
  [][\A m \in DOMAIN monitors \cap DOMAIN monitors' :
       monitors[m].at = "write" /\ monitors'[m].at = "sleep" =>
         ~ \E n \in DOMAIN monitors :
             monitors[n].port = monitors[m].port /\ monitors[n].at = "sleep"]_vars
=============================================================================
