---------------------------- MODULE UELLRManager -----------------------------
(***************************************************************************)
(* The Link-Level Retry manager of ue-linkd (ue_llr_manager.cpp): the      *)
(* global LLR configuration, the interfaces LLR is enabled on, their       *)
(* statistics, and the copies of all three in APPL_DB and STATE_DB.        *)
(*                                                                         *)
(* One action is one entry a consumer hands to doTask, or one periodic     *)
(* task.  disableGlobalLLR erases the element its range-for loop stands    *)
(* on and goes on using a reference to the erased key: undefined behaviour *)
(* whenever an interface is configured, modelled by its plausible outcomes *)
(* (the process dies, or the loop visits only some interfaces and some of  *)
(* the later deletions act on an unreadable key).                          *)
(*                                                                         *)
(* Abstracted: an interface's enabled and stats_enable flags are true and  *)
(* its buffer size is 1024 whenever it is in the map; m_llr_sai_objects is *)
(* never filled and the selective-repeat flag never read; getPortOid is a  *)
(* function of the name and never fails; a number that does not parse, or  *)
(* wraps out of range, reads as its default.                               *)
(***************************************************************************)
EXTENDS Integers, UEMaps

CONSTANTS
  Interfaces,     \* interface names
  GlobalEntries,  \* field values a SET of the key "global" may carry
  RetryDraws,     \* simulated new retries per update (0..10 in the code)
  SuccessDraws,   \* simulated new successes per update (90..100 in the code)
  MaxFrames,      \* bound: statistics are not updated beyond this many frames
  NoRow           \* stands for a database entry that does not exist

ASSUME DrawsAssumption ==
  /\ RetryDraws \subseteq Nat
  /\ SuccessDraws \subseteq Nat \ {0}
  /\ MaxFrames \in Nat

VARIABLES
  m_global_llr_config,
  m_llr_interfaces,   \* map from interface to the retries and timeout copied
  m_llr_stats,        \* map from interface to its statistics
  stats_due,          \* now - last_stats_update >= 5
  appl_global,        \* APPL_DB, the LLR table's ":global" entry
  appl_rows,          \* APPL_DB, the LLR table's entry of each interface
  state_rows,         \* STATE_DB, the published statistics
  untended            \* history: interfaces whose entries a previous process
                      \* or an unreadable key left behind

memory == <<m_global_llr_config, m_llr_interfaces, m_llr_stats, stats_due>>
databases == <<appl_global, appl_rows, state_rows, untended>>
vars == <<memory, databases>>

-----------------------------------------------------------------------------
(* Values.                                                                 *)

RetriesRange == 1..10
TimeoutRange == 1..100
WindowSizes  == {16, 32, 64, 128, 256, 512, 1024}

GlobalConfigs == [enabled : BOOLEAN, max_retries : RetriesRange,
                  timeout_ms : TimeoutRange, window_size : WindowSizes]

DefaultConfig == [enabled |-> FALSE, max_retries |-> 3, timeout_ms |-> 5,
                  window_size |-> 256]

\* The validation of processLLRConfig.  The slip for mutation forgets it.
Unvalidated(entry) ==
  [f \in DOMAIN DefaultConfig |->
     IF f \in DOMAIN entry THEN entry[f] ELSE DefaultConfig[f]]
Validated(entry) ==
  LET valid == [enabled |-> BOOLEAN, max_retries |-> RetriesRange,
                timeout_ms |-> TimeoutRange, window_size |-> WindowSizes]
  IN  [f \in DOMAIN DefaultConfig |->
         IF f \in DOMAIN entry /\ entry[f] \in valid[f]
         THEN entry[f] ELSE DefaultConfig[f]]

InterfaceConfigs == [max_retries : RetriesRange, timeout_ms : TimeoutRange]

\* An interface copies the retries and the timeout in force when it is set.
CopiedConfig == [max_retries |-> m_global_llr_config.max_retries,
                 timeout_ms  |-> m_global_llr_config.timeout_ms]

LLRStats == [retry_count : Nat, success_count : Nat,
             frames_transmitted : Nat, frames_retransmitted : Nat]
ZeroStats == [retry_count |-> 0, success_count |-> 0,
              frames_transmitted |-> 0, frames_retransmitted |-> 0]

\* One update of one interface's statistics.
UpdatedStats(s, retries, successes) ==
  [retry_count          |-> s.retry_count + retries,
   success_count        |-> s.success_count + successes,
   frames_transmitted   |-> s.frames_transmitted + retries + successes,
   frames_retransmitted |-> s.frames_retransmitted + retries]

\* The rows applyLLRToInterface writes for the interfaces ifs, unless LLR is
\* globally disabled.  The slip for mutation applies what is new only.
AppliedOnce(enabled, ifs) ==
  IF enabled THEN PutAll(ifs, appl_rows) ELSE appl_rows
Applied(enabled, ifs) ==
  IF enabled THEN PutAll(appl_rows, ifs) ELSE appl_rows

\* m_appl_db->del and m_state_db->del of disableInterfaceLLR.
RowsKept(rows, ifs) == rows
RowsWithout(rows, ifs) == Without(rows, ifs)

\* m_llr_stats[interface] = {}.
StatsReset(i) == Put(m_llr_stats, i, ZeroStats)

-----------------------------------------------------------------------------
(* The state machine.                                                      *)

Init ==
  /\ m_global_llr_config = DefaultConfig
  /\ m_llr_interfaces = EmptyMap
  /\ m_llr_stats = EmptyMap
  /\ stats_due = TRUE
  /\ appl_global = NoRow
  /\ appl_rows = EmptyMap
  /\ state_rows = EmptyMap
  /\ untended = {}

\* The process is gone and starts again: the databases keep what they held.
ForgetMemory ==
  /\ m_global_llr_config' = DefaultConfig
  /\ m_llr_interfaces' = EmptyMap
  /\ m_llr_stats' = EmptyMap
  /\ stats_due' = TRUE
  /\ untended' = DOMAIN appl_rows' \cup DOMAIN state_rows'

Restart == UNCHANGED <<appl_global, appl_rows, state_rows>> /\ ForgetMemory

Written(config) == config

EnableGlobalLLR(config) ==
  /\ m_global_llr_config' = config
  /\ appl_global' = Written(config)
  /\ appl_rows' = Applied(TRUE, m_llr_interfaces)
  /\ UNCHANGED <<m_llr_interfaces, m_llr_stats, stats_due, state_rows, untended>>

\* Only "enabled" is overwritten in APPL_DB; the parameters stay in both copies.
GlobalDisabled ==
  appl_global' = IF appl_global = NoRow THEN [enabled |-> FALSE]
                 ELSE [appl_global EXCEPT !.enabled = FALSE]

\* The loop erases the interfaces visited; rows and statistics go for those
\* whose key could still be read.
LoopSurvives(visited, readable) ==
  /\ readable \subseteq visited
  /\ m_global_llr_config' = [m_global_llr_config EXCEPT !.enabled = FALSE]
  /\ m_llr_interfaces' = Without(m_llr_interfaces, visited)
  /\ m_llr_stats' = Without(m_llr_stats, readable)
  /\ appl_rows' = RowsWithout(appl_rows, readable)
  /\ state_rows' = RowsWithout(state_rows, readable)
  /\ untended' = untended \cup (visited \ readable)
  /\ UNCHANGED stats_due

\* The process dies in the loop, some rows deleted: the APPL_DB row goes first.
LoopDies(appl_deleted, state_deleted) ==
  /\ state_deleted \subseteq appl_deleted
  /\ appl_rows' = Without(appl_rows, appl_deleted)
  /\ state_rows' = Without(state_rows, state_deleted)
  /\ ForgetMemory

DisableGlobalLLR ==
  LET configured == DOMAIN m_llr_interfaces
  IN  /\ GlobalDisabled
      /\ \/ configured = {} /\ LoopSurvives({}, {})
         \/ \E visited \in (SUBSET configured) \ {{}} :
              \E readable \in SUBSET visited : LoopSurvives(visited, readable)

\* SET of "global"; a DEL of it disables, and so does a SET without llr_enable.
ProcessLLRConfig(entry) ==
  LET config == Validated(entry)
  IN  IF config.enabled THEN EnableGlobalLLR(config) ELSE DisableGlobalLLR

\* The same entry, when the loop of disableGlobalLLR is the end of the process.
DieInLLRConfig(entry) ==
  /\ ~Validated(entry).enabled
  /\ GlobalDisabled
  /\ m_llr_interfaces # EmptyMap
  /\ \E appl_deleted, state_deleted \in SUBSET DOMAIN m_llr_interfaces :
       LoopDies(appl_deleted, state_deleted)

\* Stored whether or not LLR is globally enabled, applied only if it is.
EnableInterfaceLLR(i) ==
  /\ m_llr_interfaces' = Put(m_llr_interfaces, i, CopiedConfig)
  /\ appl_rows' = Applied(m_global_llr_config.enabled, [x \in {i} |-> CopiedConfig])
  /\ m_llr_stats' = StatsReset(i)
  /\ untended' = untended \ {i}
  /\ UNCHANGED <<m_global_llr_config, stats_due, appl_global, state_rows>>

\* Also for an interface that is not configured.
DisableInterfaceLLR(i) ==
  /\ m_llr_interfaces' = Without(m_llr_interfaces, {i})
  /\ m_llr_stats' = Without(m_llr_stats, {i})
  /\ appl_rows' = RowsWithout(appl_rows, {i})
  /\ state_rows' = RowsWithout(state_rows, {i})
  /\ untended' = untended \ {i}
  /\ UNCHANGED <<m_global_llr_config, stats_due, appl_global>>

\* SET: llr_enable ("absent" when the field is missing) decides; ue_enable =
\* "true" alone counts as configuration and disables; neither does nothing.
\* A DEL disables, like llr_enable = "false".
ProcessInterfaceConfig(i, llr_enable, ue_enable) ==
  /\ llr_enable # "absent" \/ ue_enable
  /\ IF llr_enable = "true" THEN EnableInterfaceLLR(i) ELSE DisableInterfaceLLR(i)

\* updateLLRStatistics, for every interface, whatever the global setting.
DoPeriodicTask ==
  /\ stats_due = TRUE
  /\ stats_due' = FALSE
  /\ \A i \in DOMAIN m_llr_stats : m_llr_stats[i].frames_transmitted < MaxFrames
  /\ \E retries \in [DOMAIN m_llr_interfaces -> RetryDraws],
        successes \in [DOMAIN m_llr_interfaces -> SuccessDraws] :
       LET old(i)  == IF i \in DOMAIN m_llr_stats THEN m_llr_stats[i] ELSE ZeroStats
           updated == [i \in DOMAIN m_llr_interfaces |->
                         UpdatedStats(old(i), retries[i], successes[i])]
       IN  /\ m_llr_stats' = PutAll(m_llr_stats, updated)
           /\ state_rows' = PutAll(state_rows, updated)
  /\ UNCHANGED <<m_global_llr_config, m_llr_interfaces, appl_global, appl_rows,
                 untended>>

\* Five seconds pass.
ClockStep ==
  /\ ~stats_due
  /\ stats_due' = TRUE
  /\ UNCHANGED <<m_global_llr_config, m_llr_interfaces, m_llr_stats, databases>>

Next ==
  \/ \E entry \in GlobalEntries : ProcessLLRConfig(entry) \/ DieInLLRConfig(entry)
  \/ \E i \in Interfaces, llr \in {"true", "false", "absent"}, ue \in BOOLEAN :
       ProcessInterfaceConfig(i, llr, ue)
  \/ DoPeriodicTask
  \/ ClockStep
  \/ Restart

Spec == Init /\ [][Next]_vars

-----------------------------------------------------------------------------
(* Properties.                                                             *)

(***************************************************************************)
(* Every variable has its type; in particular the configuration in force   *)
(* passed the validation of processLLRConfig.                              *)
(***************************************************************************)
TypeOK ==
  /\ m_global_llr_config \in GlobalConfigs
  /\ IsMap(m_llr_interfaces, Interfaces, InterfaceConfigs)
  /\ IsMap(m_llr_stats, Interfaces, LLRStats)
  /\ stats_due \in BOOLEAN
  /\ appl_global \in GlobalConfigs \cup {NoRow, [enabled |-> FALSE]}
  /\ IsMap(appl_rows, Interfaces, InterfaceConfigs)
  /\ IsMap(state_rows, Interfaces, LLRStats)
  /\ untended \subseteq Interfaces

(***************************************************************************)
(* While LLR is globally enabled, APPL_DB holds exactly the configuration  *)
(* stored for every configured interface: whether the interface or the     *)
(* global switch came first, and even after a disable that went wrong.     *)
(***************************************************************************)
AppliedWhenEnabled ==
  m_global_llr_config.enabled =>
    \A i \in DOMAIN m_llr_interfaces :
      i \in DOMAIN appl_rows /\ appl_rows[i] = m_llr_interfaces[i]

(***************************************************************************)
(* Database entries of an interface that is not configured come from a     *)
(* previous process or from the undefined loop of disableGlobalLLR, never  *)
(* from an ordinary sequence of SETs and DELs.                             *)
(***************************************************************************)
OrphansExplained ==
  DOMAIN appl_rows \cup DOMAIN state_rows \cup DOMAIN m_llr_stats
    \subseteq DOMAIN m_llr_interfaces \cup untended

(***************************************************************************)
(* Every configured interface has statistics, so that operator[] in the    *)
(* update never starts a second count.                                     *)
(***************************************************************************)
ConfiguredHaveStats == DOMAIN m_llr_interfaces \subseteq DOMAIN m_llr_stats

(***************************************************************************)
(* In memory and in STATE_DB, a frame is a success or a retry and the      *)
(* successes do not fall below nine in ten, across resets and restarts.    *)
(***************************************************************************)
Balanced(s) ==
  /\ s.frames_transmitted = s.retry_count + s.success_count
  /\ s.frames_retransmitted = s.retry_count
  /\ 10 * s.success_count >= 9 * s.frames_transmitted
CountersBalance ==
  /\ \A i \in DOMAIN m_llr_stats : Balanced(m_llr_stats[i])
  /\ \A i \in DOMAIN state_rows : Balanced(state_rows[i])

(***************************************************************************)
(* While LLR is enabled, APPL_DB shows the configuration in force, across  *)
(* any number of disables and restarts before.                             *)
(***************************************************************************)
GlobalPublished ==
  m_global_llr_config.enabled => appl_global = m_global_llr_config

(***************************************************************************)
(* "Disable on all interfaces" (disableGlobalLLR): when a running manager  *)
(* writes enabled = false to APPL_DB, no interface is configured and no    *)
(* APPL_DB row is left of those that were.                                 *)
(***************************************************************************)
DisablesOnAllInterfaces ==
  [][m_global_llr_config.enabled /\ ~appl_global'.enabled
       => /\ m_llr_interfaces' = EmptyMap
          /\ DOMAIN m_llr_interfaces \cap DOMAIN appl_rows' = {}
     ]_vars
=============================================================================
