---------------------------- MODULE UELinkDProofs -----------------------------
(***************************************************************************)
(* For any number of ports, entries, edits and monitors, with deaths and   *)
(* restarts between any two writes: no edit is lost, what a row announces  *)
(* is initialised, FEC is monitored, and monitors find their counters.     *)
(***************************************************************************)
EXTENDS UELinkD, UEMapsProofs, SequenceTheorems, FiniteSetTheorems, TLAPS

Events == [port : Ports, op : {"SET", "DEL"}]
RealJobs == [port : Ports, row : Rows]
Monitors == [port : Ports, at : MonitorPlaces, seen : Nat]
Busy == {"appl", "llr", "pri", "lldp", "fec", "spawn", "del"}

\* The type invariant in parts, with what the steps need besides: queues are
\* sequences, CONFIG_DB is finite, a thread at work has a job, and nothing is
\* queued for a daemon that is down.
ConfigType ==
  /\ DOMAIN config \subseteq Ports
  /\ \A p \in DOMAIN config : config[p] \in Entries
  /\ IsFiniteSet(DOMAIN config)
  /\ edits \in 0..MaxEdits
EventsType == events \in Seq(Events) /\ (pc = "down" => events = <<>>)
MainType ==
  /\ pc \in Busy \cup {"loop", "select", "deleted", "down"}
  /\ job \in Jobs
  /\ pc \in Busy => job \in RealJobs
  /\ m_running \in BOOLEAN
RowsType ==
  /\ IsMap(app_rows, Ports, Rows)
  /\ state_rows \subseteq {"LLR", "PRI", "LLDP"} \X Ports
  /\ orphans \subseteq DOMAIN app_rows
CountsType == IsMap(fec_rows, Ports, Nat)
MonitorsType == monitors \in Seq(Monitors)

Types == ConfigType /\ EventsType /\ MainType /\ RowsType /\ CountsType /\ MonitorsType

\* What processLinkConfig makes of any entry, the empty one included, is a row.
LEMMA ProcessedIsRow ==
  /\ \A entry \in Entries : Processed(entry) \in Rows
  /\ Processed(<<>>) \in Rows
BY EntriesAssumption DEF Processed, Rows

\* Where the steps of a job may lead.
LEMMA StepsOfJob ==
  ASSUME NEW row
  PROVE  /\ FecStep(row) = IF row.fec_mode # "none" THEN "fec" ELSE "loop"
         /\ FecStep(row) \in {"fec", "loop"}
         /\ PriStep(row) \in {"pri", "fec", "loop"}
         /\ LlrStep(row) \in {"llr", "pri", "fec", "loop"}
BY DEF FecStep, PriStep, LlrStep

\* What leaves a part of the state alone leaves its type.
LEMMA Unmoved ==
  /\ UNCHANGED <<config, edits>> /\ ConfigType => ConfigType'
  /\ UNCHANGED <<app_rows, state_rows, orphans>> /\ RowsType => RowsType'
  /\ UNCHANGED fec_rows /\ CountsType => CountsType'
  /\ UNCHANGED monitors /\ MonitorsType => MonitorsType'
  /\ UNCHANGED <<pc, job, m_running>> /\ MainType => MainType'
  /\ UNCHANGED events /\ EventsType /\ pc' # "down" => EventsType'
BY DEF ConfigType, RowsType, CountsType, MonitorsType, MainType, EventsType

-----------------------------------------------------------------------------
(* Types, one lemma for each group of actions.                             *)

LEMMA EditTypes ==
  ASSUME Types, NEW p \in Ports,
         (\E entry \in Entries : EditConfig(p, entry)) \/ DeleteConfig(p)
  PROVE  Types'
<1>1. UNCHANGED <<pc, job, m_running, databases, monitors>>
  BY DEF EditConfig, DeleteConfig
<1>2. edits' \in 0..MaxEdits
  BY BoundsAssumption DEF EditConfig, DeleteConfig, Types, ConfigType
<1>3. ConfigType'
  <2>1. ASSUME NEW entry \in Entries, config' = Put(config, p, entry) PROVE ConfigType'
    <3>1. DOMAIN config' = DOMAIN config \cup {p}
          /\ \A q \in DOMAIN config' : config'[q] = IF q = p THEN entry ELSE config[q]
      BY <2>1 DEF Put
    <3>2. IsFiniteSet(DOMAIN config')
      BY <3>1, FS_AddElement DEF Types, ConfigType
    <3> QED BY <1>2, <3>1, <3>2 DEF Types, ConfigType
  <2>2. ASSUME config' = Without(config, {p}) PROVE ConfigType'
    <3>1. DOMAIN config' = DOMAIN config \ {p}
          /\ \A q \in DOMAIN config' : config'[q] = config[q]
      BY <2>2 DEF Without, Restrict
    <3>2. IsFiniteSet(DOMAIN config')
      BY <3>1, FS_Subset DEF Types, ConfigType
    <3> QED BY <1>2, <3>1, <3>2 DEF Types, ConfigType
  <2> QED BY <2>1, <2>2 DEF EditConfig, DeleteConfig
<1>4. EventsType'
  <2>1. PICK op \in {"SET", "DEL"} : Notify(p, op)
    BY DEF EditConfig, DeleteConfig
  <2>2. [port |-> p, op |-> op] \in Events
    BY DEF Events
  <2> QED BY <1>1, <2>1, <2>2 DEF Notify, Up, Types, EventsType
<1> QED BY <1>1, <1>3, <1>4, Unmoved DEF Types, databases

\* The main loop: a popped notification becomes a job, or none.
LEMMA LoopTypes ==
  ASSUME Types, MainLoop \/ SelectTimeout \/ SelectPop
  PROVE  Types'
<1>1. UNCHANGED <<config, edits, m_running, databases, monitors>>
  BY DEF MainLoop, SelectTimeout, SelectPop, Goto
<1>2. CASE MainLoop \/ SelectTimeout
  <2>1. pc' \in {"select", "deleted", "loop"} /\ UNCHANGED <<events, job>>
    BY <1>2 DEF MainLoop, SelectTimeout, Goto, LoopStep
  <2>2. MainType'
    BY <1>1, <2>1 DEF Types, MainType, Busy
  <2> QED BY <1>1, <2>1, <2>2, Unmoved DEF Types, databases
<1>3. CASE SelectPop
  <2>1. events # <<>> /\ events' = Tail(events) /\ events \in Seq(Events)
    BY <1>3 DEF SelectPop, Popped, Types, EventsType
  <2>2. Head(events) \in Events /\ events' \in Seq(Events)
    BY <2>1
  <2>3. MainType' /\ pc' # "down"
    <3>1. CASE pc' = "appl" /\ \E p \in DOMAIN config :
                 job' = [port |-> p, row |-> Processed(config[p])]
      <4>1. job' \in RealJobs
        BY <3>1, ProcessedIsRow DEF Types, ConfigType, RealJobs
      <4> QED BY <1>1, <3>1, <4>1 DEF Types, MainType, Busy, Jobs, RealJobs
    <3>2. CASE pc' = "loop" /\ job' = NoJob
      BY <1>1, <3>2 DEF Types, MainType, Busy, Jobs
    <3>3. CASE pc' = "del" /\ job' = [port |-> Head(events).port, row |-> Processed(<<>>)]
      <4>1. job' \in RealJobs
        BY <2>2, <3>3, ProcessedIsRow DEF Events, RealJobs
      <4> QED BY <1>1, <3>3, <4>1 DEF Types, MainType, Busy, Jobs, RealJobs
    <3> QED BY <1>3, <3>1, <3>2, <3>3 DEF SelectPop, Goto
  <2> QED BY <1>1, <2>2, <2>3, Unmoved DEF Types, EventsType, databases
<1> QED BY <1>2, <1>3

\* The writes of a job.
LEMMA JobTypes ==
  ASSUME Types,
         DeleteAppl \/ WriteAppl \/ InitializeLLR \/ InitializePRI
           \/ TriggerLLDPNegotiation \/ ResetFECCounters \/ StartFECMonitor
  PROVE  Types'
<1>1. UNCHANGED <<config, edits, m_running, events>> /\ pc \in Busy
  BY DEF DeleteAppl, WriteAppl, InitializeLLR, InitializePRI, TriggerLLDPNegotiation,
         ResetFECCounters, StartFECMonitor, WriteStateRow, Goto, Busy
<1>2. job \in RealJobs /\ job.port \in Ports /\ job.row \in Rows
  BY <1>1 DEF Types, MainType, RealJobs
<1>3. /\ pc' \in {"llr", "pri", "lldp", "fec", "spawn", "loop"}
      /\ job' # job => pc' = "loop" /\ job' = NoJob
  <2>1. CASE DeleteAppl
    BY <2>1 DEF DeleteAppl, Goto
  <2>2. CASE WriteAppl
    BY <2>2, StepsOfJob DEF WriteAppl, Goto
  <2>3. CASE InitializeLLR
    BY <2>3, StepsOfJob DEF InitializeLLR, WriteStateRow, Goto
  <2>4. CASE InitializePRI
    BY <2>4 DEF InitializePRI, WriteStateRow, Goto
  <2>5. CASE TriggerLLDPNegotiation
    BY <2>5, StepsOfJob DEF TriggerLLDPNegotiation, WriteStateRow, Goto
  <2>6. CASE ResetFECCounters \/ StartFECMonitor
    BY <2>6 DEF ResetFECCounters, StartFECMonitor, Goto
  <2> QED BY <2>1, <2>2, <2>3, <2>4, <2>5, <2>6
<1>4. MainType' /\ EventsType' /\ ConfigType'
  <2>1. job' \in Jobs /\ (pc' \in Busy => job' \in RealJobs)
    BY <1>2, <1>3 DEF Jobs, RealJobs, Busy
  <2>2. MainType'
    BY <1>1, <1>3, <2>1 DEF Types, MainType, Busy
  <2> QED BY <1>1, <1>3, <2>2, Unmoved DEF Types
<1>5. RowsType'
  <2>1. CASE DeleteAppl
    <3>1. IsMap(app_rows', Ports, Rows) /\ DOMAIN app_rows' = DOMAIN app_rows \ {job.port}
      BY <2>1, WithoutType, WithoutDomain DEF DeleteAppl, RemainingRows, Types, RowsType
    <3> QED BY <2>1, <3>1 DEF DeleteAppl, Types, RowsType
  <2>2. CASE WriteAppl
    <3>1. app_rows' = Put(app_rows, job.port, job.row) /\ IsMap(app_rows, Ports, Rows)
      BY <2>2 DEF WriteAppl, Types, RowsType
    <3>2. IsMap(app_rows', Ports, Rows)
      BY <1>2, <3>1, PutType
    <3>3. DOMAIN app_rows' = DOMAIN app_rows \cup {job.port}
      BY <3>1 DEF Put
    <3> QED BY <2>2, <3>2, <3>3 DEF WriteAppl, Types, RowsType
  <2>3. ASSUME NEW kind \in {"LLR", "PRI", "LLDP"}, NEW next, WriteStateRow(kind, next)
        PROVE  RowsType'
    BY <1>2, <2>3 DEF WriteStateRow, Types, RowsType
  <2>4. CASE ResetFECCounters \/ StartFECMonitor
    BY <2>4, Unmoved DEF ResetFECCounters, StartFECMonitor, databases, Types
  <2> QED BY <2>1, <2>2, <2>3, <2>4 DEF InitializeLLR, InitializePRI, TriggerLLDPNegotiation
<1>6. CountsType'
  <2>1. CASE ResetFECCounters
    <3>1. fec_rows' = Put(fec_rows, job.port, 0) /\ IsMap(fec_rows, Ports, Nat) /\ 0 \in Nat
      BY <2>1 DEF ResetFECCounters, Types, CountsType
    <3> QED BY <1>2, <3>1, PutType DEF CountsType
  <2>2. CASE UNCHANGED fec_rows
    BY <2>2, Unmoved DEF Types
  <2> QED BY <2>1, <2>2 DEF DeleteAppl, WriteAppl, InitializeLLR, InitializePRI,
             TriggerLLDPNegotiation, StartFECMonitor, WriteStateRow, databases
<1>7. MonitorsType'
  <2>1. CASE StartFECMonitor
    <3>1. NewMonitor(job.port) \in Monitors
      BY <1>2 DEF NewMonitor, Monitors, MonitorPlaces
    <3> QED BY <2>1, <3>1 DEF StartFECMonitor, Types, MonitorsType
  <2>2. CASE UNCHANGED monitors
    BY <2>2, Unmoved DEF Types
  <2> QED BY <2>1, <2>2 DEF DeleteAppl, WriteAppl, InitializeLLR, InitializePRI,
             TriggerLLDPNegotiation, ResetFECCounters, WriteStateRow
<1> QED BY <1>4, <1>5, <1>6, <1>7 DEF Types

\* Death, from main or from anywhere.
LEMMA DieTypes ==
  ASSUME Types, Exit \/ Crash
  PROVE  Types'
<1>1. /\ UNCHANGED <<config, edits, m_running, app_rows, state_rows, fec_rows, orphans>>
      /\ pc' = "down" /\ job' = NoJob /\ events' = <<>> /\ monitors' = <<>>
  BY DEF Exit, Crash, Die, databases
<1>2. MainType' /\ EventsType' /\ MonitorsType'
  BY <1>1 DEF Types, MainType, EventsType, MonitorsType, Busy, Jobs
<1> QED BY <1>1, <1>2, Unmoved DEF Types

\* A monitor that moves on, alone among the monitors, keeps its port.
LEMMA MonitorSteps ==
  ASSUME monitors \in Seq(Monitors), NEW m \in DOMAIN monitors, NEW place \in MonitorPlaces,
         NEW count \in Nat,
         \/ monitors' = [monitors EXCEPT ![m].at = place]
         \/ monitors' = [monitors EXCEPT ![m].at = place, ![m].seen = count]
  PROVE  /\ monitors' \in Seq(Monitors)
         /\ DOMAIN monitors' = DOMAIN monitors
         /\ \A n \in DOMAIN monitors : monitors'[n].port = monitors[n].port
         /\ \A n \in DOMAIN monitors : n # m => monitors'[n] = monitors[n]
         /\ monitors'[m].at = place
<1>1. PICK c \in Monitors : c = monitors[m]
  OBVIOUS
<1> DEFINE at   == [c EXCEPT !.at = place]
           both == [c EXCEPT !.at = place, !.seen = count]
<1>2. /\ at \in Monitors /\ at.port = c.port /\ at.at = place
      /\ both \in Monitors /\ both.port = c.port /\ both.at = place
  BY DEF Monitors
<1>3. PICK new \in Monitors :
        /\ new.port = c.port /\ new.at = place
        /\ monitors' = [monitors EXCEPT ![m] = new]
  <2>1. CASE monitors' = [monitors EXCEPT ![m].at = place]
    <3>1. monitors' = [monitors EXCEPT ![m] = at]
      BY <1>1, <2>1
    <3> QED BY <1>2, <3>1
  <2>2. CASE monitors' = [monitors EXCEPT ![m].at = place, ![m].seen = count]
    <3>1. monitors' = [monitors EXCEPT ![m] = both]
      BY <1>1, <2>2
    <3> QED BY <1>2, <3>1
  <2> QED BY <2>1, <2>2
<1> HIDE DEF at, both
<1> QED BY <1>1, <1>3

\* One step of one monitor.
LEMMA MonitorTypes ==
  ASSUME Types, NEW m \in DOMAIN monitors, Monitor(m)
  PROVE  Types'
<1>1. UNCHANGED <<config, edits, events, pc, job, m_running, app_rows, state_rows, orphans>>
  BY DEF Monitor, MonitorLoop, MonitorRead, MonitorWrite, MonitorStep, databases
<1>2. pc' # "down"
  BY <1>1 DEF Monitor
<1>3. /\ monitors \in Seq(Monitors) /\ monitors[m] \in Monitors
      /\ monitors[m].port \in Ports /\ monitors[m].seen \in Nat
  <2>1. monitors \in Seq(Monitors) /\ monitors[m] \in Monitors
    BY DEF Types, MonitorsType
  <2> QED BY <2>1 DEF Monitors
<1>4. "write" \in MonitorPlaces /\ "sleep" \in MonitorPlaces /\ 0 \in Nat
  BY DEF MonitorPlaces
<1>5. CASE MonitorLoop(m)
  <2>1. monitors' = [monitors EXCEPT ![m].at = IF m_running THEN "read" ELSE "done"]
        /\ fec_rows' = fec_rows
    BY <1>5 DEF MonitorLoop, MonitorStep, databases
  <2>2. (IF m_running THEN "read" ELSE "done") \in MonitorPlaces
    BY DEF MonitorPlaces
  <2>3. MonitorsType'
    BY <1>3, <2>1, <2>2, MonitorSteps DEF MonitorsType
  <2> QED BY <1>1, <1>2, <2>1, <2>3, Unmoved DEF Types
<1>6. CASE MonitorRead(m)
  <2>1. /\ monitors' = [monitors EXCEPT ![m].at = "write",
                                        ![m].seen = fec_rows[monitors[m].port]]
        /\ fec_rows' = fec_rows /\ monitors[m].port \in DOMAIN fec_rows
    BY <1>6 DEF MonitorRead, databases
  <2>2. fec_rows[monitors[m].port] \in Nat
    BY <2>1 DEF Types, CountsType, IsMap
  <2>3. MonitorsType'
    BY <1>3, <2>1, <2>2, <1>4, MonitorSteps DEF MonitorsType
  <2> QED BY <1>1, <1>2, <2>1, <2>3, Unmoved DEF Types
<1>7. CASE MonitorWrite(m)
  <2>1. /\ fec_rows' = Put(fec_rows, monitors[m].port, monitors[m].seen + 1)
        /\ monitors' = [monitors EXCEPT ![m].at = "sleep", ![m].seen = 0]
    BY <1>7 DEF MonitorWrite, NextCount
  <2>2. IsMap(fec_rows, Ports, Nat) /\ monitors[m].seen + 1 \in Nat
    BY <1>3 DEF Types, CountsType
  <2>3. CountsType'
    BY <1>3, <2>1, <2>2, PutType DEF CountsType
  <2>4. MonitorsType'
    BY <1>3, <2>1, <1>4, MonitorSteps DEF MonitorsType
  <2> QED BY <1>1, <1>2, <2>3, <2>4, Unmoved DEF Types
<1> QED BY <1>5, <1>6, <1>7 DEF Monitor

\* The signal handler.
LEMMA SignalTypes ==
  ASSUME Types, Signal
  PROVE  Types'
<1>1. /\ UNCHANGED <<config, edits, events, pc, job, databases, monitors>>
      /\ m_running' = FALSE /\ pc # "down"
  BY DEF Signal
<1>2. MainType'
  BY <1>1 DEF Types, MainType
<1> QED BY <1>1, <1>2, Unmoved DEF Types, databases

\* What a new subscriber is given: a SET for every key, and nothing else.
LEMMA SnapshotFacts ==
  ASSUME ConfigType, NEW s \in Snapshots
  PROVE  /\ s \in Seq(Events)
         /\ \A i \in DOMAIN s : s[i].op = "SET" /\ s[i].port \in DOMAIN config
         /\ \A p \in DOMAIN config : \E i \in DOMAIN s : s[i].port = p
<1>1. Cardinality(DOMAIN config) \in Nat
  BY FS_CardinalityType DEF ConfigType
<1>2. s \in [1..Cardinality(DOMAIN config) -> [port : DOMAIN config, op : {"SET"}]]
  BY DEF Snapshots
<1>3. [port : DOMAIN config, op : {"SET"}] \subseteq Events
  BY DEF ConfigType, Events
<1>4. s \in Seq(Events)
  BY <1>1, <1>2, <1>3
<1> QED BY <1>2, <1>4 DEF Snapshots

\* A new process on what the databases hold.
LEMMA StartTypes ==
  ASSUME Types, Start
  PROVE  Types'
<1>1. /\ UNCHANGED <<config, edits, job, app_rows, state_rows, fec_rows, monitors>>
      /\ pc' = "loop" /\ m_running' = TRUE /\ orphans' = DOMAIN app_rows \ DOMAIN config
      /\ events' \in Snapshots
  BY DEF Start
<1>2. events' \in Seq(Events)
  BY <1>1, SnapshotFacts DEF Types, ConfigType
<1>3. MainType' /\ EventsType' /\ RowsType'
  BY <1>1, <1>2 DEF Types, MainType, EventsType, RowsType, Busy
<1> QED BY <1>1, <1>3, Unmoved DEF Types

\* Types are inductive.
LEMMA NextTypes == Types /\ [Next]_vars => Types'
<1> SUFFICES ASSUME Types, [Next]_vars PROVE Types'
  OBVIOUS
<1>1. CASE UNCHANGED vars
  BY <1>1 DEF vars, databases, Types, ConfigType, EventsType, MainType, RowsType,
     CountsType, MonitorsType
<1>2. CASE Next
  BY <1>2, EditTypes, LoopTypes, JobTypes, DieTypes, MonitorTypes, SignalTypes, StartTypes
     DEF Next, Main
<1> QED BY <1>1, <1>2

\* Types hold of the first process on empty databases.
LEMMA InitTypes == Init => Types
<1> SUFFICES ASSUME Init PROVE Types
  OBVIOUS
<1>1. IsMap(app_rows, Ports, Rows) /\ IsMap(fec_rows, Ports, Nat)
      /\ DOMAIN config = {} /\ DOMAIN app_rows = {}
  BY EmptyMapType DEF Init
<1>2. IsFiniteSet(DOMAIN config)
  BY <1>1, FS_EmptySet
<1> QED BY <1>1, <1>2, BoundsAssumption DEF Init, Types, ConfigType, EventsType, MainType,
           RowsType, CountsType, MonitorsType, Jobs, Busy

(***************************************************************************)
(* Every variable of the daemon and of the databases it shares keeps its   *)
(* type, whatever is edited and wherever the process dies.                 *)
(***************************************************************************)
THEOREM TypeCorrect == Spec => []TypeOK
<1>1. Types => TypeOK
  <2> SUFFICES ASSUME Types PROVE TypeOK
    OBVIOUS
  <2>1. \A i \in DOMAIN events : events[i] \in Events
    BY DEF Types, EventsType
  <2>2. \A m \in DOMAIN monitors : monitors[m] \in Monitors
    BY DEF Types, MonitorsType
  <2> QED BY <2>1, <2>2 DEF TypeOK, Types, ConfigType, MainType, RowsType, CountsType, Busy,
             Events, Monitors
<1> QED BY <1>1, InitTypes, NextTypes, PTL DEF Spec

-----------------------------------------------------------------------------
(* The inductive invariant.                                                *)

Queued(p) == \E i \in DOMAIN events : events[i].port = p
LastOf(i) == \A j \in DOMAIN events : j > i => events[j].port # events[i].port
Working(p) == pc \in Busy /\ job.port = p

\* The last notification of a port says whether the port has an entry.
QueueInv ==
  Up => \A i \in DOMAIN events :
    LastOf(i) => (events[i].op = "SET" <=> events[i].port \in DOMAIN config)

\* With nothing queued for it, a port is about to be written as configured, or
\* about to be removed as it should, or is an orphan, or is as configured.
Matches(p) ==
  /\ p \in DOMAIN app_rows <=> p \in DOMAIN config
  /\ p \in DOMAIN config => app_rows[p] = Processed(config[p])
MirrorInv ==
  Up => \A p \in Ports : ~Queued(p) =>
    /\ pc = "appl" /\ job.port = p =>
         p \in DOMAIN config /\ job.row = Processed(config[p])
    /\ pc = "del" /\ job.port = p => p \notin DOMAIN config
    /\ p \notin orphans /\ ~(pc \in {"appl", "del"} /\ job.port = p) => Matches(p)

\* What processLinkConfig has done so far for its row.
WrittenLlr(p, row) == row.llr_enabled => <<"LLR", p>> \in state_rows
WrittenPri(p, row) ==
  row.pri_enabled => <<"PRI", p>> \in state_rows /\ <<"LLDP", p>> \in state_rows
JobInv ==
  /\ pc \in {"llr", "pri", "lldp", "fec", "spawn"} =>
       job.port \in DOMAIN app_rows /\ app_rows[job.port] = job.row
  /\ pc \in {"pri", "lldp", "fec", "spawn"} => WrittenLlr(job.port, job.row)
  /\ pc = "lldp" => <<"PRI", job.port>> \in state_rows
  /\ pc \in {"fec", "spawn"} => WrittenPri(job.port, job.row)
  /\ pc = "spawn" => job.port \in DOMAIN fec_rows

\* A port with nothing queued and nobody at work on it has all its row asks for.
Monitored(p) ==
  \E m \in DOMAIN monitors : monitors[m].port = p /\ monitors[m].at # "done"
Served(p) ==
  /\ WrittenLlr(p, app_rows[p])
  /\ WrittenPri(p, app_rows[p])
  /\ app_rows[p].fec_mode # "none" =>
       p \in DOMAIN fec_rows /\ (m_running => Monitored(p))
ServedInv ==
  Up => \A p \in DOMAIN app_rows :
    ~Queued(p) /\ p \notin orphans /\ ~Working(p) => Served(p)

CountInv == \A m \in DOMAIN monitors : monitors[m].port \in DOMAIN fec_rows

Invs == QueueInv /\ MirrorInv /\ JobInv /\ ServedInv /\ CountInv
LinkInv == Types /\ Invs

-----------------------------------------------------------------------------
(* The queue of notifications.                                             *)

\* Without a notification, an edit or a death, the queue says what it said.
LEMMA QuietQueue ==
  ASSUME QueueInv, Up, UNCHANGED <<config, events>>
  PROVE  QueueInv' /\ \A p : Queued(p)' <=> Queued(p)
BY DEF QueueInv, LastOf, Queued

\* An edit of one port tells of it last, and touches no other.
LEMMA EditQueue ==
  ASSUME Types, QueueInv, Up, NEW p \in Ports,
         (\E entry \in Entries : EditConfig(p, entry)) \/ DeleteConfig(p)
  PROVE  /\ QueueInv'
         /\ \A q : ~Queued(q)' =>
              /\ q # p /\ ~Queued(q)
              /\ q \in DOMAIN config' <=> q \in DOMAIN config
              /\ q \in DOMAIN config => config'[q] = config[q]
<1>1. PICK op \in {"SET", "DEL"} :
        /\ events' = Append(events, [port |-> p, op |-> op])
        /\ op = "SET" <=> p \in DOMAIN config'
        /\ \A q : q # p =>
             /\ q \in DOMAIN config' <=> q \in DOMAIN config
             /\ q \in DOMAIN config => config'[q] = config[q]
  <2>1. ASSUME NEW entry \in Entries, EditConfig(p, entry)
        PROVE  /\ events' = Append(events, [port |-> p, op |-> "SET"])
               /\ p \in DOMAIN config'
               /\ \A q : q # p =>
                    /\ q \in DOMAIN config' <=> q \in DOMAIN config
                    /\ q \in DOMAIN config => config'[q] = config[q]
    BY <2>1 DEF EditConfig, Notify, Put
  <2>2. ASSUME DeleteConfig(p)
        PROVE  /\ events' = Append(events, [port |-> p, op |-> "DEL"])
               /\ p \notin DOMAIN config'
               /\ \A q : q # p =>
                    /\ q \in DOMAIN config' <=> q \in DOMAIN config
                    /\ q \in DOMAIN config => config'[q] = config[q]
    BY <2>2 DEF DeleteConfig, Notify, Without, Restrict
  <2> QED BY <2>1, <2>2
<1>2. events \in Seq(Events) /\ [port |-> p, op |-> op] \in Events
  BY DEF Types, EventsType, Events
<1>3. /\ Len(events) \in Nat /\ DOMAIN events = 1..Len(events)
      /\ DOMAIN events' = 1..(Len(events) + 1)
      /\ \A i \in DOMAIN events : events'[i] = events[i]
      /\ events'[Len(events) + 1] = [port |-> p, op |-> op]
  BY <1>1, <1>2
<1>4. QueueInv'
  <2> SUFFICES ASSUME NEW i \in DOMAIN events', LastOf(i)'
               PROVE  events'[i].op = "SET" <=> events'[i].port \in DOMAIN config'
    BY DEF QueueInv
  <2>1. CASE i = Len(events) + 1
    BY <1>1, <1>3, <2>1
  <2>2. CASE i \in DOMAIN events
    <3>1. events[i].port # p
      BY <1>3, <2>2 DEF LastOf
    <3>2. LastOf(i)
      BY <1>3, <2>2 DEF LastOf
    <3>3. events[i].op = "SET" <=> events[i].port \in DOMAIN config
      BY <2>2, <3>2 DEF QueueInv
    <3> QED BY <1>1, <1>3, <2>2, <3>1, <3>3
  <2> QED BY <1>3, <2>1, <2>2
<1>5. ASSUME NEW q, ~Queued(q)'
      PROVE  q # p /\ ~Queued(q)
  BY <1>3, <1>5 DEF Queued
<1> QED BY <1>1, <1>4, <1>5

\* A port that leaves the queue leaves it with its last notification.
LEMMA PopQueue ==
  ASSUME Types, QueueInv, SelectPop
  PROVE  /\ QueueInv'
         /\ Head(events) \in Events
         /\ \A q : ~Queued(q)' =>
              \/ ~Queued(q)
              \/ /\ Head(events).port = q
                 /\ Head(events).op = "SET" <=> q \in DOMAIN config
<1>1. /\ events # <<>> /\ events' = Tail(events) /\ Up
      /\ config' = config
  BY DEF SelectPop, Popped, Goto, Up
<1>2. events \in Seq(Events)
  BY DEF Types, EventsType
<1>3. /\ Len(events) \in Nat /\ Len(events) >= 1 /\ DOMAIN events = 1..Len(events)
      /\ Head(events) = events[1] /\ Head(events) \in Events
      /\ DOMAIN events' = 1..(Len(events) - 1)
      /\ \A i \in DOMAIN events' : events'[i] = events[i + 1]
  BY <1>1, <1>2
<1>4. QueueInv'
  <2> SUFFICES ASSUME NEW i \in DOMAIN events', LastOf(i)'
               PROVE  events'[i].op = "SET" <=> events'[i].port \in DOMAIN config'
    BY DEF QueueInv
  <2>1. i + 1 \in DOMAIN events /\ events'[i] = events[i + 1]
    BY <1>3
  <2>2. LastOf(i + 1)
    <3> SUFFICES ASSUME NEW j \in DOMAIN events, j > i + 1
                 PROVE  events[j].port # events[i + 1].port
      BY DEF LastOf
    <3>1. j - 1 \in DOMAIN events' /\ j - 1 > i /\ events'[j - 1] = events[j]
      BY <1>3
    <3> QED BY <2>1, <3>1 DEF LastOf
  <2> QED BY <1>1, <2>1, <2>2 DEF QueueInv
<1>5. ASSUME NEW q, ~Queued(q)', Queued(q)
      PROVE  Head(events).port = q /\ (Head(events).op = "SET" <=> q \in DOMAIN config)
  <2>1. \A j \in DOMAIN events : j > 1 => events[j].port # q
    <3> SUFFICES ASSUME NEW j \in DOMAIN events, j > 1 PROVE events[j].port # q
      OBVIOUS
    <3>1. j - 1 \in DOMAIN events' /\ events'[j - 1] = events[j]
      BY <1>3
    <3> QED BY <1>5, <3>1 DEF Queued
  <2>2. events[1].port = q
    BY <1>3, <1>5, <2>1 DEF Queued
  <2>3. LastOf(1) /\ 1 \in DOMAIN events
    BY <1>3, <2>1, <2>2 DEF LastOf
  <2> QED BY <1>1, <1>3, <2>2, <2>3 DEF QueueInv
<1> QED BY <1>3, <1>4, <1>5

\* A new subscriber is told of every port that has an entry.
LEMMA StartQueue ==
  ASSUME Types, Start
  PROVE  QueueInv' /\ \A q : ~Queued(q)' => q \notin DOMAIN config
<1>1. events' \in Snapshots /\ config' = config
  BY DEF Start
<1>2. /\ \A i \in DOMAIN events' : events'[i].op = "SET" /\ events'[i].port \in DOMAIN config
      /\ \A q \in DOMAIN config : \E i \in DOMAIN events' : events'[i].port = q
  BY <1>1, SnapshotFacts DEF Types
<1> QED BY <1>1, <1>2 DEF QueueInv, Queued

-----------------------------------------------------------------------------
(* The rest of the invariant, one lemma for each kind of step.             *)

\* Edits reach the queue, and nothing else but CONFIG_DB.
LEMMA EditInv ==
  ASSUME LinkInv, NEW p \in Ports,
         (\E entry \in Entries : EditConfig(p, entry)) \/ DeleteConfig(p)
  PROVE  Invs'
<1>1. UNCHANGED <<pc, job, m_running, app_rows, state_rows, fec_rows, orphans, monitors>>
  BY DEF EditConfig, DeleteConfig, databases
<1>2. JobInv' /\ CountInv'
  BY <1>1 DEF LinkInv, Invs, JobInv, CountInv, WrittenLlr, WrittenPri
<1>3. CASE ~Up
  BY <1>1, <1>2, <1>3 DEF Up, Invs, QueueInv, MirrorInv, ServedInv
<1>4. CASE Up
  <2>1. /\ QueueInv'
        /\ \A q : ~Queued(q)' =>
             /\ q # p /\ ~Queued(q)
             /\ q \in DOMAIN config' <=> q \in DOMAIN config
             /\ q \in DOMAIN config => config'[q] = config[q]
    BY <1>4, EditQueue DEF LinkInv, Invs
  <2>2. MirrorInv'
    <3> SUFFICES ASSUME NEW q \in Ports, ~Queued(q)'
                 PROVE  /\ pc = "appl" /\ job.port = q =>
                             q \in DOMAIN config' /\ job.row = Processed(config'[q])
                        /\ pc = "del" /\ job.port = q => q \notin DOMAIN config'
                        /\ q \notin orphans /\ ~(pc \in {"appl", "del"} /\ job.port = q) =>
                             Matches(q)'
      BY <1>1 DEF MirrorInv
    <3> QED BY <1>1, <1>4, <2>1 DEF LinkInv, Invs, MirrorInv, Matches
  <2>3. ServedInv'
    BY <1>1, <1>4, <2>1 DEF LinkInv, Invs, ServedInv, Working, Served, WrittenLlr, WrittenPri,
       Monitored, Up
  <2> QED BY <1>2, <2>1, <2>2, <2>3 DEF Invs
<1> QED BY <1>3, <1>4

\* Steps that move the main thread between places where it has no job.
LEMMA IdleInv ==
  ASSUME LinkInv, MainLoop \/ SelectTimeout
  PROVE  Invs'
<1>1. /\ UNCHANGED <<config, events, job, m_running, app_rows, state_rows, fec_rows,
                     orphans, monitors>>
      /\ pc \in {"loop", "select"} /\ pc' \in {"loop", "select", "deleted"}
  BY DEF MainLoop, SelectTimeout, Goto, LoopStep, databases
<1>2. Up
  BY <1>1 DEF Up
<1>3. QueueInv' /\ \A q : Queued(q)' <=> Queued(q)
  BY <1>1, <1>2, QuietQueue DEF LinkInv, Invs
<1>4. MirrorInv'
  BY <1>1, <1>2, <1>3 DEF LinkInv, Invs, MirrorInv, Matches
<1>5. JobInv' /\ CountInv'
  BY <1>1 DEF LinkInv, Invs, JobInv, CountInv
<1>6. ServedInv'
  BY <1>1, <1>2, <1>3 DEF LinkInv, Invs, ServedInv, Working, Busy, Served, WrittenLlr,
     WrittenPri, Monitored
<1> QED BY <1>3, <1>4, <1>5, <1>6 DEF Invs

\* A death empties the queue and ends the threads: nothing is claimed of a
\* daemon that is down.
LEMMA DieInv ==
  ASSUME LinkInv, Exit \/ Crash
  PROVE  Invs'
<1>1. pc' = "down" /\ monitors' = <<>>
  BY DEF Exit, Crash, Die
<1> QED BY <1>1 DEF Invs, QueueInv, MirrorInv, JobInv, ServedInv, CountInv, Up

\* A signal only clears the flag.
LEMMA SignalInv ==
  ASSUME LinkInv, Signal
  PROVE  Invs'
<1>1. /\ UNCHANGED <<config, events, pc, job, app_rows, state_rows, fec_rows,
                     orphans, monitors>>
      /\ m_running' = FALSE /\ Up
  BY DEF Signal, databases, Up
<1>2. QueueInv' /\ \A q : Queued(q)' <=> Queued(q)
  BY <1>1, QuietQueue DEF LinkInv, Invs
<1>3. MirrorInv'
  BY <1>1, <1>2 DEF LinkInv, Invs, MirrorInv, Matches
<1>4. JobInv' /\ CountInv'
  BY <1>1 DEF LinkInv, Invs, JobInv, CountInv, WrittenLlr, WrittenPri
<1>5. ServedInv'
  BY <1>1, <1>2 DEF LinkInv, Invs, ServedInv, Working, Served, WrittenLlr, WrittenPri
<1> QED BY <1>2, <1>3, <1>4, <1>5 DEF Invs

\* A restart queues every port that has an entry, and the rows of the others
\* are orphans.
LEMMA StartInv ==
  ASSUME LinkInv, Start
  PROVE  Invs'
<1>1. /\ UNCHANGED <<config, job, app_rows, state_rows, fec_rows, monitors>>
      /\ pc' = "loop" /\ orphans' = DOMAIN app_rows \ DOMAIN config
  BY DEF Start
<1>2. QueueInv' /\ \A q : ~Queued(q)' => q \notin DOMAIN config
  BY StartQueue DEF LinkInv
<1>3. MirrorInv'
  BY <1>1, <1>2 DEF MirrorInv, Matches
<1>4. JobInv' /\ CountInv'
  BY <1>1 DEF LinkInv, Invs, JobInv, CountInv
<1>5. ServedInv'
  BY <1>1, <1>2 DEF ServedInv
<1> QED BY <1>2, <1>3, <1>4, <1>5 DEF Invs

\* A monitor keeps its port, writes counters that exist already, and ends only
\* when the flag is clear.
LEMMA MonitorInv ==
  ASSUME LinkInv, NEW m \in DOMAIN monitors, Monitor(m)
  PROVE  Invs'
<1>1. /\ UNCHANGED <<config, events, pc, job, m_running, app_rows, state_rows, orphans>>
      /\ Up
  BY DEF Monitor, MonitorLoop, MonitorRead, MonitorWrite, MonitorStep, databases, Up
<1>2. monitors \in Seq(Monitors) /\ monitors[m].port \in DOMAIN fec_rows
  BY DEF LinkInv, Invs, CountInv, Types, MonitorsType
<1>3. DOMAIN fec_rows' = DOMAIN fec_rows
  <2>1. CASE MonitorWrite(m)
    <3>1. fec_rows' = Put(fec_rows, monitors[m].port, NextCount(monitors[m].seen))
      BY <2>1 DEF MonitorWrite
    <3> QED BY <1>2, <3>1 DEF Put
  <2>2. CASE MonitorLoop(m) \/ MonitorRead(m)
    BY <2>2 DEF MonitorLoop, MonitorRead, MonitorStep, databases
  <2> QED BY <2>1, <2>2 DEF Monitor
<1>4. /\ DOMAIN monitors' = DOMAIN monitors
      /\ \A n \in DOMAIN monitors : monitors'[n].port = monitors[n].port
      /\ \A n \in DOMAIN monitors : n # m => monitors'[n] = monitors[n]
      /\ m_running => monitors'[m].at # "done"
  <2>1. CASE MonitorLoop(m)
    <3>1. /\ monitors' = [monitors EXCEPT ![m].at = IF m_running THEN "read" ELSE "done"]
          /\ (IF m_running THEN "read" ELSE "done") \in MonitorPlaces
      BY <2>1 DEF MonitorLoop, MonitorStep, MonitorPlaces
    <3>2. monitors'[m].at = IF m_running THEN "read" ELSE "done"
      BY <1>2, <3>1, MonitorSteps
    <3> QED BY <1>2, <3>1, <3>2, MonitorSteps
  <2>2. CASE MonitorRead(m)
    <3>1. /\ monitors' = [monitors EXCEPT ![m].at = "write",
                                          ![m].seen = fec_rows[monitors[m].port]]
          /\ "write" \in MonitorPlaces
      BY <2>2 DEF MonitorRead, MonitorPlaces
    <3>2. fec_rows[monitors[m].port] \in Nat
      BY <1>2 DEF LinkInv, Types, CountsType, IsMap
    <3> QED BY <1>2, <3>1, <3>2, MonitorSteps
  <2>3. CASE MonitorWrite(m)
    <3>1. /\ monitors' = [monitors EXCEPT ![m].at = "sleep", ![m].seen = 0]
          /\ "sleep" \in MonitorPlaces /\ 0 \in Nat
      BY <2>3 DEF MonitorWrite, MonitorPlaces
    <3> QED BY <1>2, <3>1, MonitorSteps
  <2> QED BY <2>1, <2>2, <2>3 DEF Monitor
<1>5. QueueInv' /\ \A q : Queued(q)' <=> Queued(q)
  BY <1>1, QuietQueue DEF LinkInv, Invs
<1>6. MirrorInv'
  BY <1>1, <1>5 DEF LinkInv, Invs, MirrorInv, Matches
<1>7. JobInv' /\ CountInv'
  BY <1>1, <1>3, <1>4 DEF LinkInv, Invs, JobInv, CountInv, WrittenLlr, WrittenPri
<1>8. ServedInv'
  <2>1. \A q : m_running /\ Monitored(q) => Monitored(q)'
    BY <1>4 DEF Monitored
  <2> QED BY <1>1, <1>3, <1>5, <2>1 DEF LinkInv, Invs, ServedInv, Working, Served, WrittenLlr,
             WrittenPri
<1> QED BY <1>5, <1>6, <1>7, <1>8 DEF Invs

\* The last notification of a port becomes the job the port needs.
LEMMA PopInv ==
  ASSUME LinkInv, SelectPop
  PROVE  Invs'
<1>1. /\ UNCHANGED <<config, m_running, app_rows, state_rows, fec_rows, orphans, monitors>>
      /\ pc = "select"
  BY DEF SelectPop, Goto, databases
<1>2. /\ QueueInv'
      /\ \A q : ~Queued(q)' =>
           \/ ~Queued(q)
           \/ /\ Head(events).port = q
              /\ Head(events).op = "SET" <=> q \in DOMAIN config
  BY PopQueue DEF LinkInv, Invs
<1> DEFINE h == Head(events)
<1>3. \/ /\ pc' = "appl" /\ h.op = "SET" /\ h.port \in DOMAIN config
         /\ job' = [port |-> h.port, row |-> Processed(config[h.port])]
      \/ pc' = "loop" /\ h.op = "SET" /\ h.port \notin DOMAIN config
      \/ pc' = "del" /\ h.op = "DEL" /\ job'.port = h.port
  BY DEF SelectPop, Goto
<1> HIDE DEF h
<1>4. MirrorInv'
  <2> SUFFICES ASSUME NEW q \in Ports, ~Queued(q)'
               PROVE  /\ pc' = "appl" /\ job'.port = q =>
                           q \in DOMAIN config /\ job'.row = Processed(config[q])
                      /\ pc' = "del" /\ job'.port = q => q \notin DOMAIN config
                      /\ q \notin orphans /\ ~(pc' \in {"appl", "del"} /\ job'.port = q) =>
                           Matches(q)
    BY <1>1 DEF MirrorInv, Matches
  <2>1. CASE ~Queued(q) /\ h.port # q
    BY <1>1, <1>3, <2>1 DEF LinkInv, Invs, MirrorInv, Up
  <2>2. CASE h.port = q
    <3>1. h.op = "SET" <=> q \in DOMAIN config
      <4>1. Queued(q)
        <5>1. events # <<>> /\ events \in Seq(Events)
          BY DEF SelectPop, LinkInv, Types, EventsType
        <5>2. 1 \in DOMAIN events /\ events[1] = Head(events)
          BY <5>1
        <5> QED BY <2>2, <5>2 DEF Queued, h
      <4> QED BY <1>2, <4>1 DEF h
    <3> QED BY <1>3, <2>2, <3>1
  <2> QED BY <1>2, <2>1, <2>2 DEF h
<1>5. JobInv' /\ CountInv'
  BY <1>1, <1>3 DEF LinkInv, Invs, JobInv, CountInv
<1>6. ServedInv'
  <2> SUFFICES ASSUME NEW q \in DOMAIN app_rows, ~Queued(q)', q \notin orphans, ~Working(q)'
               PROVE  Served(q)
    BY <1>1 DEF ServedInv, Served, WrittenLlr, WrittenPri, Monitored
  <2>1. ~Queued(q)
    <3> SUFFICES ASSUME h.port = q, h.op = "SET" <=> q \in DOMAIN config PROVE FALSE
      BY <1>2 DEF h
    <3>1. pc' \in {"appl", "del"} /\ job'.port = q
      BY <1>3
    <3> QED BY <3>1 DEF Working, Busy
  <2>2. ~Working(q) /\ Up
    BY <1>1 DEF Working, Busy, Up
  <2> QED BY <2>1, <2>2 DEF LinkInv, Invs, ServedInv
<1> QED BY <1>2, <1>4, <1>5, <1>6 DEF Invs

\* A row goes, and with it what was owed to the port.
LEMMA DeleteInv ==
  ASSUME LinkInv, DeleteAppl
  PROVE  Invs'
<1>1. /\ UNCHANGED <<config, events, m_running, state_rows, fec_rows, monitors>>
      /\ pc = "del" /\ pc' = "loop" /\ Up
      /\ orphans' = orphans \ {job.port}
  BY DEF DeleteAppl, Goto, Up
<1>2. /\ DOMAIN app_rows' = DOMAIN app_rows \ {job.port}
      /\ \A q \in DOMAIN app_rows : q # job.port => app_rows'[q] = app_rows[q]
  BY DEF DeleteAppl, RemainingRows, Without, Restrict
<1>3. QueueInv' /\ \A q : Queued(q)' <=> Queued(q)
  BY <1>1, QuietQueue DEF LinkInv, Invs
<1>4. MirrorInv'
  <2> SUFFICES ASSUME NEW q \in Ports, ~Queued(q), q \notin orphans'
               PROVE  Matches(q)'
    BY <1>1, <1>3 DEF MirrorInv
  <2>1. CASE q = job.port
    BY <1>1, <1>2, <2>1 DEF LinkInv, Invs, MirrorInv, Matches
  <2>2. CASE q # job.port
    BY <1>1, <1>2, <2>2 DEF LinkInv, Invs, MirrorInv, Matches
  <2> QED BY <2>1, <2>2
<1>5. JobInv' /\ CountInv'
  BY <1>1 DEF LinkInv, Invs, JobInv, CountInv
<1>6. ServedInv'
  BY <1>1, <1>2, <1>3 DEF LinkInv, Invs, ServedInv, Working, Served, WrittenLlr, WrittenPri,
     Monitored
<1> QED BY <1>3, <1>4, <1>5, <1>6 DEF Invs

\* The row of a job is written as configured; what the row does not ask for is
\* not owed.
LEMMA WriteInv ==
  ASSUME LinkInv, WriteAppl
  PROVE  Invs'
<1>1. /\ UNCHANGED <<config, events, job, m_running, state_rows, fec_rows, monitors>>
      /\ pc = "appl" /\ pc' = LlrStep(job.row) /\ Up
      /\ orphans' = orphans \ {job.port}
  BY DEF WriteAppl, Goto, Up
<1>2. /\ DOMAIN app_rows' = DOMAIN app_rows \cup {job.port}
      /\ app_rows'[job.port] = job.row
      /\ \A q \in DOMAIN app_rows : q # job.port => app_rows'[q] = app_rows[q]
  BY DEF WriteAppl, Put
<1>3. /\ pc' \in {"llr", "pri", "fec", "loop"}
      /\ pc' # "llr" => ~job.row.llr_enabled
      /\ pc' \in {"fec", "loop"} => ~job.row.pri_enabled
      /\ pc' = "loop" => job.row.fec_mode = "none"
  BY <1>1 DEF LlrStep, PriStep, FecStep
<1>4. QueueInv' /\ \A q : Queued(q)' <=> Queued(q)
  BY <1>1, QuietQueue DEF LinkInv, Invs
<1>5. MirrorInv'
  <2> SUFFICES ASSUME NEW q \in Ports, ~Queued(q), q \notin orphans'
               PROVE  Matches(q)'
    BY <1>3, <1>4 DEF MirrorInv
  <2>1. CASE q = job.port
    BY <1>1, <1>2, <2>1 DEF LinkInv, Invs, MirrorInv, Matches
  <2>2. CASE q # job.port
    BY <1>1, <1>2, <2>2 DEF LinkInv, Invs, MirrorInv, Matches
  <2> QED BY <2>1, <2>2
<1>6. JobInv' /\ CountInv'
  BY <1>1, <1>2, <1>3 DEF LinkInv, Invs, JobInv, CountInv, WrittenLlr, WrittenPri
<1>7. ServedInv'
  <2> SUFFICES ASSUME NEW q \in DOMAIN app_rows', ~Queued(q), q \notin orphans', ~Working(q)'
               PROVE  Served(q)'
    BY <1>4 DEF ServedInv
  <2>1. CASE q = job.port
    <3>1. pc' = "loop"
      BY <1>1, <1>3, <2>1 DEF Working, Busy
    <3> QED BY <1>2, <1>3, <2>1, <3>1 DEF Served, WrittenLlr, WrittenPri
  <2>2. CASE q # job.port
    BY <1>1, <1>2, <2>2 DEF LinkInv, Invs, ServedInv, Working, Served, WrittenLlr, WrittenPri,
       Monitored
  <2> QED BY <2>1, <2>2
<1> QED BY <1>4, <1>5, <1>6, <1>7 DEF Invs

\* A step that initialises more of a port, and is done with it only when the
\* port has all its row asks for.
LEMMA InitialiseMore ==
  ASSUME LinkInv,
         UNCHANGED <<config, events, job, m_running, app_rows, orphans>>,
         pc \in {"llr", "pri", "lldp", "fec", "spawn"},
         pc' \in {"pri", "lldp", "fec", "spawn", "loop"},
         state_rows \subseteq state_rows', DOMAIN fec_rows \subseteq DOMAIN fec_rows',
         \A q : Monitored(q) => Monitored(q)',
         pc' = "loop" => Served(job.port)'
  PROVE  QueueInv' /\ MirrorInv' /\ ServedInv'
<1>1. QueueInv' /\ \A q : Queued(q)' <=> Queued(q)
  BY QuietQueue DEF LinkInv, Invs, Up
<1>2. MirrorInv'
  BY <1>1 DEF LinkInv, Invs, MirrorInv, Matches, Up
<1>3. ServedInv'
  <2> SUFFICES ASSUME NEW q \in DOMAIN app_rows, ~Queued(q), q \notin orphans, ~Working(q)'
               PROVE  Served(q)'
    BY <1>1 DEF ServedInv
  <2>1. CASE q = job.port
    BY <2>1 DEF Working, Busy
  <2>2. CASE q # job.port
    <3>1. Served(q)
      BY <2>2 DEF LinkInv, Invs, ServedInv, Working, Up
    <3> QED BY <3>1 DEF Served, WrittenLlr, WrittenPri
  <2> QED BY <2>1, <2>2
<1> QED BY <1>1, <1>2, <1>3

\* The rows of LLR, PRI and LLDP, each before the step that relies on it.
LEMMA StateRowInv ==
  ASSUME LinkInv, InitializeLLR \/ InitializePRI \/ TriggerLLDPNegotiation
  PROVE  Invs'
<1> DEFINE row == job.row
           p   == job.port
<1>1. /\ UNCHANGED <<config, events, job, m_running, app_rows, fec_rows, orphans, monitors>>
      /\ pc \in {"llr", "pri", "lldp"} /\ state_rows \subseteq state_rows'
      /\ pc = "llr" => <<"LLR", p>> \in state_rows' /\ pc' = PriStep(row)
      /\ pc = "pri" => <<"PRI", p>> \in state_rows' /\ pc' = "lldp"
      /\ pc = "lldp" => <<"LLDP", p>> \in state_rows' /\ pc' = FecStep(row)
  BY DEF InitializeLLR, InitializePRI, TriggerLLDPNegotiation, WriteStateRow, Goto
<1>2. /\ pc' \in {"pri", "lldp", "fec", "loop"}
      /\ pc = "llr" /\ pc' # "pri" => ~row.pri_enabled
      /\ pc' = "loop" => row.fec_mode = "none"
      /\ pc' = "pri" => pc = "llr"
      /\ pc' = "lldp" => pc = "pri"
  BY <1>1 DEF PriStep, FecStep
<1>3. p \in DOMAIN app_rows /\ app_rows[p] = row
  BY <1>1 DEF LinkInv, Invs, JobInv
<1>4. WrittenLlr(p, row)'
  BY <1>1 DEF LinkInv, Invs, JobInv, WrittenLlr
<1>5. pc' \in {"fec", "loop"} => WrittenPri(p, row)'
  BY <1>1, <1>2 DEF LinkInv, Invs, JobInv, WrittenPri
<1>6. JobInv' /\ CountInv'
  BY <1>1, <1>2, <1>3, <1>4, <1>5 DEF LinkInv, Invs, JobInv, CountInv
<1>7. pc' = "loop" => Served(p)'
  BY <1>1, <1>2, <1>3, <1>4, <1>5 DEF Served
<1>8. \A q : Monitored(q) => Monitored(q)'
  BY <1>1 DEF Monitored
<1> HIDE DEF row, p
<1>9. QueueInv' /\ MirrorInv' /\ ServedInv'
  BY <1>1, <1>2, <1>7, <1>8, InitialiseMore DEF p
<1> QED BY <1>6, <1>9 DEF Invs

\* The counters of a port exist before the thread that reads them.
LEMMA FecInv ==
  ASSUME LinkInv, ResetFECCounters \/ StartFECMonitor
  PROVE  Invs'
<1>1. /\ UNCHANGED <<config, events, job, m_running, app_rows, state_rows, orphans>>
      /\ pc \in {"fec", "spawn"}
      /\ job.port \in DOMAIN app_rows /\ app_rows[job.port] = job.row
      /\ WrittenLlr(job.port, job.row) /\ WrittenPri(job.port, job.row)
  BY DEF ResetFECCounters, StartFECMonitor, Goto, databases, LinkInv, Invs, JobInv
<1>2. CASE ResetFECCounters
  <2>1. /\ DOMAIN fec_rows' = DOMAIN fec_rows \cup {job.port}
        /\ pc' = "spawn" /\ monitors' = monitors
    BY <1>2 DEF ResetFECCounters, Goto, Put
  <2>2. JobInv' /\ CountInv'
    BY <1>1, <2>1 DEF LinkInv, Invs, JobInv, CountInv, WrittenLlr, WrittenPri
  <2>3. \A q : Monitored(q) => Monitored(q)'
    BY <2>1 DEF Monitored
  <2>4. QueueInv' /\ MirrorInv' /\ ServedInv'
    BY <1>1, <2>1, <2>3, InitialiseMore
  <2> QED BY <2>2, <2>4 DEF Invs
<1>3. CASE StartFECMonitor
  <2>1. /\ monitors' = Append(monitors, NewMonitor(job.port))
        /\ pc' = "loop" /\ fec_rows' = fec_rows
        /\ job.port \in DOMAIN fec_rows
    BY <1>3 DEF StartFECMonitor, Goto, databases, LinkInv, Invs, JobInv
  <2>2. monitors \in Seq(Monitors)
    BY DEF LinkInv, Types, MonitorsType
  <2>3. /\ DOMAIN monitors' = DOMAIN monitors \cup {Len(monitors) + 1}
        /\ \A n \in DOMAIN monitors : monitors'[n] = monitors[n]
        /\ monitors'[Len(monitors) + 1] = NewMonitor(job.port)
    BY <2>1, <2>2
  <2>4. JobInv' /\ CountInv'
    BY <2>1, <2>3 DEF LinkInv, Invs, JobInv, CountInv, NewMonitor
  <2>5. /\ \A q : Monitored(q) => Monitored(q)'
        /\ Monitored(job.port)'
    BY <1>1, <2>3 DEF Monitored, NewMonitor
  <2>6. Served(job.port)'
    BY <1>1, <2>1, <2>5 DEF Served, WrittenLlr, WrittenPri
  <2>7. QueueInv' /\ MirrorInv' /\ ServedInv'
    BY <1>1, <2>1, <2>5, <2>6, InitialiseMore
  <2> QED BY <2>4, <2>7 DEF Invs
<1> QED BY <1>2, <1>3

\* The invariant holds initially.
LEMMA InitLink == Init => LinkInv
<1> SUFFICES ASSUME Init PROVE LinkInv
  OBVIOUS
<1>1. /\ DOMAIN config = {} /\ DOMAIN app_rows = {} /\ events = <<>> /\ monitors = <<>>
      /\ pc = "loop"
  BY EmptyMapType DEF Init
<1> QED BY <1>1, InitTypes DEF LinkInv, Invs, QueueInv, MirrorInv, Matches, JobInv, ServedInv,
           CountInv

\* Every step keeps the invariant.
LEMMA NextLink == LinkInv /\ [Next]_vars => LinkInv'
<1> SUFFICES ASSUME LinkInv, [Next]_vars PROVE LinkInv'
  OBVIOUS
<1>1. Types'
  BY NextTypes DEF LinkInv
<1>2. CASE UNCHANGED vars
  BY <1>1, <1>2 DEF vars, databases, LinkInv, Invs, QueueInv, LastOf, MirrorInv, Matches,
     Queued, JobInv, ServedInv, Working, Served, WrittenLlr, WrittenPri, Monitored, CountInv, Up
<1>3. CASE Next
  BY <1>1, <1>3, EditInv, IdleInv, PopInv, DeleteInv, WriteInv, StateRowInv, FecInv, DieInv,
     MonitorInv, SignalInv, StartInv DEF Next, Main, LinkInv
<1> QED BY <1>2, <1>3

\* Hence it holds of every reachable state.
LEMMA LinkInvHolds == Spec => []LinkInv
BY InitLink, NextLink, PTL DEF Spec

-----------------------------------------------------------------------------
(* The properties.                                                         *)

\* With the main thread in one of its places, a port is pending when it is
\* queued or worked on.
LEMMA PendingIs ==
  ASSUME LinkInv, NEW p
  PROVE  Settled(p) <=> Up /\ pc # "deleted" /\ ~Queued(p) /\ ~Working(p) /\ p \notin orphans
BY DEF LinkInv, Types, MainType, Settled, Pending, Queued, Working, Busy, Up

(***************************************************************************)
(* No edit of CONFIG_DB is lost for any number of ports and edits, with    *)
(* deaths and restarts between any two writes: a port with nothing left to *)
(* do shows in APPL_DB what was asked for, or is an orphan.                *)
(***************************************************************************)
THEOREM EditsAreMirrored == Spec => []ConfigMirrored
<1>1. LinkInv => ConfigMirrored
  <2> SUFFICES ASSUME LinkInv, NEW p \in Ports, Settled(p)
               PROVE  /\ p \in DOMAIN app_rows <=> p \in DOMAIN config
                      /\ p \in DOMAIN config => app_rows[p] = Processed(config[p])
    BY DEF ConfigMirrored
  <2> QED BY PendingIs DEF LinkInv, Invs, MirrorInv, Matches, Working, Busy
<1> QED BY <1>1, LinkInvHolds, PTL

(***************************************************************************)
(* Whatever a row of APPL_DB announces has been initialised once the       *)
(* daemon is done with the port, wherever an earlier process died.         *)
(***************************************************************************)
THEOREM AnnouncedIsInitialised == Spec => []InitialisationComplete
<1>1. LinkInv => InitialisationComplete
  BY PendingIs DEF InitialisationComplete, LinkInv, Invs, ServedInv, Served, WrittenLlr,
     WrittenPri
<1> QED BY <1>1, LinkInvHolds, PTL

(***************************************************************************)
(* FEC of a settled port is monitored by a live thread, after a restart    *)
(* too, for any number of threads.                                         *)
(***************************************************************************)
THEOREM SettledFecIsMonitored == Spec => []FecIsMonitored
<1>1. LinkInv => FecIsMonitored
  BY PendingIs DEF FecIsMonitored, LinkInv, Invs, ServedInv, Served, Monitored
<1> QED BY <1>1, LinkInvHolds, PTL

(***************************************************************************)
(* No monitor ever parses the counters of a port that has none.            *)
(***************************************************************************)
THEOREM CountersAreThere == Spec => []MonitorsFindCounters
<1>1. LinkInv => MonitorsFindCounters
  BY DEF MonitorsFindCounters, LinkInv, Invs, CountInv
<1> QED BY <1>1, LinkInvHolds, PTL
-----------------------------------------------------------------------------
(* Lost counts.                                                            *)

\* What a monitor has read is out of date only if it shares its port.
Alone(m) == \A n \in DOMAIN monitors : monitors[n].port = monitors[m].port => n = m
SeenInv ==
  \A m \in DOMAIN monitors :
    monitors[m].at = "write" /\ Alone(m) => fec_rows[monitors[m].port] <= monitors[m].seen

\* What a step of a monitor leaves of the others, and of its own port.
LEMMA MonitorChanges ==
  ASSUME LinkInv, NEW m \in DOMAIN monitors, Monitor(m)
  PROVE  /\ DOMAIN monitors' = DOMAIN monitors
         /\ monitors'[m].port = monitors[m].port
         /\ \A n \in DOMAIN monitors : n # m => monitors'[n] = monitors[n]
         /\ MonitorLoop(m) => monitors'[m].at # "write" /\ fec_rows' = fec_rows
         /\ MonitorRead(m) =>
              monitors'[m].seen = fec_rows[monitors[m].port] /\ fec_rows' = fec_rows
         /\ MonitorWrite(m) =>
              /\ monitors[m].at = "write" /\ monitors'[m].at = "sleep"
              /\ fec_rows' = Put(fec_rows, monitors[m].port, monitors[m].seen + 1)
<1>1. monitors \in Seq(Monitors) /\ monitors[m] \in Monitors
  BY DEF LinkInv, Types, MonitorsType
<1>2. CASE MonitorLoop(m)
  BY <1>1, <1>2 DEF MonitorLoop, MonitorRead, MonitorWrite, MonitorStep, databases, Monitors
<1>3. CASE MonitorRead(m)
  BY <1>1, <1>3 DEF MonitorLoop, MonitorRead, MonitorWrite, databases, Monitors
<1>4. CASE MonitorWrite(m)
  BY <1>1, <1>4 DEF MonitorLoop, MonitorRead, MonitorWrite, NextCount, Monitors
<1> QED BY <1>2, <1>3, <1>4 DEF Monitor

LEMMA SeenStep ==
  ASSUME LinkInv, SeenInv, [Next]_vars
  PROVE  SeenInv'
<1>1. CASE UNCHANGED <<fec_rows, monitors>>
  BY <1>1 DEF SeenInv, Alone
<1>2. CASE ResetFECCounters
  <2>1. fec_rows' = Put(fec_rows, job.port, 0) /\ monitors' = monitors
    BY <1>2 DEF ResetFECCounters
  <2>2. ASSUME NEW m \in DOMAIN monitors
        PROVE  monitors[m].seen \in Nat /\ monitors[m].port \in DOMAIN fec_rows
    <3>1. monitors \in Seq(Monitors) /\ monitors[m] \in Monitors
      BY DEF LinkInv, Types, MonitorsType
    <3>2. monitors[m].seen \in Nat
      BY <3>1 DEF Monitors
    <3>3. monitors[m].port \in DOMAIN fec_rows
      BY DEF LinkInv, Invs, CountInv
    <3> QED BY <3>2, <3>3
  <2>3. ASSUME NEW m \in DOMAIN monitors,
               fec_rows[monitors[m].port] <= monitors[m].seen \/ monitors[m].port = job.port
        PROVE  fec_rows'[monitors[m].port] <= monitors[m].seen
    <3>1. CASE monitors[m].port = job.port
      <4>1. fec_rows'[monitors[m].port] = 0
        BY <2>1, <3>1 DEF Put
      <4> QED BY <2>2, <4>1
    <3>2. CASE monitors[m].port # job.port
      <4>1. fec_rows'[monitors[m].port] = fec_rows[monitors[m].port]
        BY <2>1, <2>2, <3>2 DEF Put
      <4> QED BY <2>3, <3>2, <4>1
    <3> QED BY <3>1, <3>2
  <2> QED BY <2>1, <2>3 DEF SeenInv, Alone
<1>3. CASE StartFECMonitor
  <2>1. fec_rows' = fec_rows /\ monitors' = Append(monitors, NewMonitor(job.port))
    BY <1>3 DEF StartFECMonitor, databases
  <2>2. monitors \in Seq(Monitors)
    BY DEF LinkInv, Types, MonitorsType
  <2>3. NewMonitor(job.port).at = "start"
    BY DEF NewMonitor
  <2>4. ASSUME NEW m \in DOMAIN monitors', monitors'[m].at = "write"
        PROVE  m \in DOMAIN monitors /\ monitors'[m] = monitors[m]
    BY <2>1, <2>2, <2>3, <2>4
  <2>5. \A n \in DOMAIN monitors : n \in DOMAIN monitors' /\ monitors'[n] = monitors[n]
    BY <2>1, <2>2
  <2> QED BY <2>1, <2>4, <2>5 DEF SeenInv, Alone
<1>4. CASE Exit \/ Crash
  BY <1>4 DEF Exit, Crash, Die, SeenInv
<1>5. ASSUME NEW m \in DOMAIN monitors, Monitor(m)
      PROVE  SeenInv'
  <2>1. /\ DOMAIN monitors' = DOMAIN monitors
        /\ \A n \in DOMAIN monitors : monitors'[n].port = monitors[n].port
        /\ \A n \in DOMAIN monitors : n # m => monitors'[n] = monitors[n]
    BY <1>5, MonitorChanges
  <2>2. \A n \in DOMAIN monitors : Alone(n)' <=> Alone(n)
    BY <2>1 DEF Alone
  <2>3. ASSUME NEW n \in DOMAIN monitors, monitors'[n].at = "write", Alone(n)
        PROVE  fec_rows'[monitors[n].port] <= monitors'[n].seen
    <3>1. /\ fec_rows[monitors[n].port] \in Nat /\ monitors[n].port \in DOMAIN fec_rows
      BY DEF LinkInv, Types, CountsType, IsMap, Invs, CountInv
    <3>2. CASE n = m
      BY <1>5, <2>3, <3>1, <3>2, MonitorChanges DEF Monitor
    <3>3. CASE n # m
      <4>1. fec_rows[monitors[n].port] <= monitors'[n].seen
        BY <2>1, <2>3, <3>3 DEF SeenInv
      <4>2. monitors[m].port # monitors[n].port
        BY <2>3, <3>3 DEF Alone
      <4>3. fec_rows'[monitors[n].port] = fec_rows[monitors[n].port]
        <5>1. fec_rows' = fec_rows \/ fec_rows' = Put(fec_rows, monitors[m].port, monitors[m].seen + 1)
          BY <1>5, MonitorChanges DEF Monitor
        <5> QED BY <3>1, <4>2, <5>1 DEF Put
      <4> QED BY <4>1, <4>3
    <3> QED BY <3>2, <3>3
  <2> QED BY <2>1, <2>2, <2>3 DEF SeenInv
<1> QED BY <1>1, <1>2, <1>3, <1>4, <1>5 DEF Next, Main, vars, databases, EditConfig, DeleteConfig,
           MainLoop, SelectTimeout, SelectPop, DeleteAppl, WriteAppl, InitializeLLR, InitializePRI,
           TriggerLLDPNegotiation, WriteStateRow, Signal, Start

(***************************************************************************)
(* A count falls only by a reset or between two monitors of one port: the  *)
(* read and the write of a monitor that is alone are as good as atomic.    *)
(***************************************************************************)
THEOREM CountsFallOnlyInRaces == Spec => CountsLostOnlyToRaces
<1> DEFINE Step == \A p \in DOMAIN fec_rows :
                     fec_rows'[p] < fec_rows[p] =>
                       \/ pc = "fec"
                       \/ Cardinality({m \in DOMAIN monitors : monitors[m].port = p}) > 1
<1>1. Init => SeenInv
  BY DEF Init, SeenInv
<1>2. LinkInv /\ SeenInv /\ [Next]_vars => SeenInv'
  BY SeenStep
<1>3. LinkInv /\ SeenInv /\ [Next]_vars => [Step]_vars
  <2> SUFFICES ASSUME LinkInv, SeenInv, [Next]_vars, NEW p \in DOMAIN fec_rows,
                      fec_rows'[p] < fec_rows[p], pc # "fec"
               PROVE  Cardinality({m \in DOMAIN monitors : monitors[m].port = p}) > 1
    OBVIOUS
  <2>1. fec_rows[p] \in Nat
    BY DEF LinkInv, Types, CountsType, IsMap
  <2>2. fec_rows' # fec_rows
    BY <2>1
  <2>3. PICK m \in DOMAIN monitors : Monitor(m)
    BY <2>2 DEF Next, Main, vars, databases, EditConfig, DeleteConfig, MainLoop, SelectTimeout,
       SelectPop, DeleteAppl, WriteAppl, InitializeLLR, InitializePRI, TriggerLLDPNegotiation,
       WriteStateRow, Signal, Start, Exit, Crash, Die, ResetFECCounters, StartFECMonitor
  <2>4. /\ monitors[m].at = "write"
        /\ fec_rows' = Put(fec_rows, monitors[m].port, monitors[m].seen + 1)
    BY <2>2, <2>3, MonitorChanges DEF Monitor
  <2>5. p = monitors[m].port /\ monitors[m].seen + 1 < fec_rows[p]
    <3>1. p = monitors[m].port
      BY <2>1, <2>4 DEF Put
    <3> QED BY <2>4, <3>1 DEF Put
  <2>6. monitors[m].seen \in Nat /\ monitors \in Seq(Monitors)
    <3>1. monitors \in Seq(Monitors) /\ monitors[m] \in Monitors
      BY DEF LinkInv, Types, MonitorsType
    <3>2. monitors[m].seen \in Nat
      BY <3>1 DEF Monitors
    <3> QED BY <3>1, <3>2
  <2>7. ~Alone(m)
    BY <2>1, <2>4, <2>5, <2>6 DEF SeenInv
  <2>8. PICK n \in DOMAIN monitors : monitors[n].port = p /\ n # m
    BY <2>5, <2>7 DEF Alone
  <2> DEFINE S == {k \in DOMAIN monitors : monitors[k].port = p}
  <2>9. DOMAIN monitors = 1..Len(monitors) /\ Len(monitors) \in Nat
    BY <2>6
  <2>10. IsFiniteSet(S)
    <3>1. IsFiniteSet(1..Len(monitors))
      BY <2>9, FS_Interval
    <3>2. S \subseteq 1..Len(monitors)
      BY <2>9
    <3> QED BY <3>1, <3>2, FS_Subset
  <2>11. {m, n} \subseteq S
    BY <2>5, <2>8
  <2>12. IsFiniteSet({n}) /\ Cardinality({n}) = 1
    BY FS_Singleton
  <2>13. Cardinality({n} \cup {m}) = 2
    <3> DEFINE One == {n}
    <3>1. IsFiniteSet(One) /\ Cardinality(One) = 1 /\ m \notin One
      BY <2>8, <2>12
    <3> HIDE DEF One
    <3>2. Cardinality(One \cup {m}) = Cardinality(One) + 1
      BY <3>1, FS_AddElement
    <3>3. Cardinality(One \cup {m}) = 2
      BY <3>1, <3>2
    <3> QED BY <3>3 DEF One
  <2> HIDE DEF S
  <2>14. {n} \cup {m} \subseteq S
    BY <2>11
  <2>15. Cardinality({n} \cup {m}) <= Cardinality(S) /\ Cardinality(S) \in Nat
    BY <2>10, <2>14, FS_Subset, FS_CardinalityType
  <2>16. Cardinality(S) > 1
    BY <2>13, <2>15
  <2> QED BY <2>16 DEF S
<1> QED BY <1>1, <1>2, <1>3, LinkInvHolds, PTL DEF Spec, CountsLostOnlyToRaces

=============================================================================
