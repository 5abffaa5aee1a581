------------------------- MODULE UELLRManagerProofs -------------------------
(***************************************************************************)
(* The safety properties of the Link-Level Retry manager, for every set of *)
(* interfaces, configurations and simulated draws.  They hold also after   *)
(* the undefined loop of disableGlobalLLR, in every outcome the model has. *)
(***************************************************************************)
EXTENDS UELLRManager, UEMapsProofs, TLAPS

-----------------------------------------------------------------------------
(* Values.                                                                 *)

(***************************************************************************)
(* processLLRConfig's validation leaves a configuration within the ranges, *)
(* whatever the entry holds.                                               *)
(***************************************************************************)
LEMMA ValidatedType ==
  ASSUME NEW entry
  PROVE  Validated(entry) \in GlobalConfigs
<1> DEFINE v     == Validated(entry)
           valid == [enabled |-> BOOLEAN, max_retries |-> RetriesRange,
                     timeout_ms |-> TimeoutRange, window_size |-> WindowSizes]
           names == {"enabled", "max_retries", "timeout_ms", "window_size"}
<1>1. /\ DOMAIN DefaultConfig = names
      /\ DefaultConfig.enabled \in BOOLEAN
      /\ DefaultConfig.max_retries \in RetriesRange
      /\ DefaultConfig.timeout_ms \in TimeoutRange
      /\ DefaultConfig.window_size \in WindowSizes
  BY DEF DefaultConfig, RetriesRange, TimeoutRange, WindowSizes
<1>2. /\ valid["enabled"] = BOOLEAN
      /\ valid["max_retries"] = RetriesRange
      /\ valid["timeout_ms"] = TimeoutRange
      /\ valid["window_size"] = WindowSizes
  OBVIOUS
<1>3. v = [f \in names |-> IF f \in DOMAIN entry /\ entry[f] \in valid[f]
                           THEN entry[f] ELSE DefaultConfig[f]]
  BY <1>1 DEF Validated
<1> HIDE DEF v, valid
<1>4. \A f \in names : v[f] \in valid[f] \/ v[f] = DefaultConfig[f]
  BY <1>3
<1>5. /\ v["enabled"] \in BOOLEAN
      /\ v["max_retries"] \in RetriesRange
      /\ v["timeout_ms"] \in TimeoutRange
      /\ v["window_size"] \in WindowSizes
  BY <1>1, <1>2, <1>4
<1>6. v = [enabled |-> v["enabled"], max_retries |-> v["max_retries"],
           timeout_ms |-> v["timeout_ms"], window_size |-> v["window_size"]]
  BY <1>3
<1>7. v \in GlobalConfigs
  BY <1>5, <1>6 DEF GlobalConfigs
<1> QED
  BY <1>7 DEF v

LEMMA DefaultConfigType == DefaultConfig \in GlobalConfigs
  BY DEF DefaultConfig, GlobalConfigs, RetriesRange, TimeoutRange, WindowSizes

LEMMA CopiedConfigType ==
  ASSUME m_global_llr_config \in GlobalConfigs
  PROVE  CopiedConfig \in InterfaceConfigs
  BY DEF CopiedConfig, GlobalConfigs, InterfaceConfigs

(***************************************************************************)
(* Statistics start and stay well formed and balanced when the draws are   *)
(* those of the simulation: at most 10 retries, at least 90 successes.     *)
(***************************************************************************)
LEMMA ZeroStatsType == ZeroStats \in LLRStats /\ Balanced(ZeroStats)
  BY DEF ZeroStats, LLRStats, Balanced

LEMMA UpdatedStatsType ==
  ASSUME NEW s \in LLRStats, NEW r \in Nat, NEW k \in Nat
  PROVE  UpdatedStats(s, r, k) \in LLRStats
  BY DEF UpdatedStats, LLRStats

LEMMA UpdatedStatsBalanced ==
  ASSUME NEW s \in LLRStats, Balanced(s), NEW r \in Nat, NEW k \in Nat, 9 * r <= k
  PROVE  Balanced(UpdatedStats(s, r, k))
  BY DEF UpdatedStats, LLRStats, Balanced

-----------------------------------------------------------------------------
(* Steps.                                                                  *)

\* The process dies in the loop of disableGlobalLLR.
Dies ==
  /\ ForgetMemory
  /\ \E appl_deleted, state_deleted \in SUBSET DOMAIN m_llr_interfaces :
       /\ appl_rows' = Without(appl_rows, appl_deleted)
       /\ state_rows' = Without(state_rows, state_deleted)
  /\ GlobalDisabled

Waits == UNCHANGED <<m_global_llr_config, m_llr_interfaces, m_llr_stats, databases>>

(***************************************************************************)
(* Every step is one of these, a death included wherever it may strike.    *)
(***************************************************************************)
LEMMA KindsOfSteps ==
  ASSUME [Next]_vars
  PROVE  \/ \E config \in GlobalConfigs : config.enabled /\ EnableGlobalLLR(config)
         \/ /\ GlobalDisabled
            /\ \E visited \in SUBSET DOMAIN m_llr_interfaces :
                 \E readable \in SUBSET visited : LoopSurvives(visited, readable)
         \/ Dies
         \/ Restart
         \/ \E i \in Interfaces : EnableInterfaceLLR(i) \/ DisableInterfaceLLR(i)
         \/ DoPeriodicTask
         \/ Waits /\ stats_due' \in {stats_due, TRUE}
<1>1. ASSUME NEW entry \in GlobalEntries, ProcessLLRConfig(entry)
      PROVE  \/ \E config \in GlobalConfigs : config.enabled /\ EnableGlobalLLR(config)
             \/ DisableGlobalLLR
  BY <1>1, ValidatedType DEF ProcessLLRConfig
<1>2. ASSUME DisableGlobalLLR
      PROVE  /\ GlobalDisabled
             /\ \E visited \in SUBSET DOMAIN m_llr_interfaces :
                  \E readable \in SUBSET visited : LoopSurvives(visited, readable)
  <2>1. CASE LoopSurvives({}, {})
    BY <1>2, <2>1 DEF DisableGlobalLLR
  <2>2. CASE \E visited \in (SUBSET DOMAIN m_llr_interfaces) \ {{}} :
               \E readable \in SUBSET visited : LoopSurvives(visited, readable)
    BY <1>2, <2>2 DEF DisableGlobalLLR
  <2> QED
    BY <1>2, <2>1, <2>2 DEF DisableGlobalLLR
<1>3. ASSUME NEW i \in Interfaces, NEW llr, NEW ue, ProcessInterfaceConfig(i, llr, ue)
      PROVE  EnableInterfaceLLR(i) \/ DisableInterfaceLLR(i)
  BY <1>3 DEF ProcessInterfaceConfig
<1>4. CASE ClockStep
  BY <1>4 DEF ClockStep, Waits
<1>5. CASE UNCHANGED vars
  BY <1>5 DEF vars, memory, databases, Waits
<1>6. ASSUME NEW entry \in GlobalEntries, DieInLLRConfig(entry) PROVE Dies
  BY <1>6 DEF DieInLLRConfig, LoopDies, Dies
<1> QED
  BY <1>1, <1>2, <1>3, <1>4, <1>5, <1>6 DEF Next

-----------------------------------------------------------------------------
(* Types.                                                                  *)

(***************************************************************************)
(* A periodic task gives every configured interface, and only those, new   *)
(* statistics, the same in memory and in STATE_DB.                         *)
(***************************************************************************)
LEMMA PeriodicUpdates ==
  ASSUME TypeOK, DoPeriodicTask
  PROVE  \E updated :
           /\ IsMap(updated, Interfaces, LLRStats)
           /\ DOMAIN updated = DOMAIN m_llr_interfaces
           /\ \A i \in DOMAIN updated :
                \E s \in LLRStats, r \in RetryDraws, k \in SuccessDraws :
                  /\ s = (IF i \in DOMAIN m_llr_stats THEN m_llr_stats[i] ELSE ZeroStats)
                  /\ updated[i] = UpdatedStats(s, r, k)
           /\ m_llr_stats' = PutAll(m_llr_stats, updated)
           /\ state_rows' = PutAll(state_rows, updated)
<1> DEFINE old(i) == IF i \in DOMAIN m_llr_stats THEN m_llr_stats[i] ELSE ZeroStats
<1>1. PICK retries \in [DOMAIN m_llr_interfaces -> RetryDraws],
           successes \in [DOMAIN m_llr_interfaces -> SuccessDraws] :
        LET updated == [i \in DOMAIN m_llr_interfaces |->
                          UpdatedStats(old(i), retries[i], successes[i])]
        IN  /\ m_llr_stats' = PutAll(m_llr_stats, updated)
            /\ state_rows' = PutAll(state_rows, updated)
  BY DEF DoPeriodicTask
<1> DEFINE updated == [i \in DOMAIN m_llr_interfaces |->
                         UpdatedStats(old(i), retries[i], successes[i])]
<1>2. /\ m_llr_stats' = PutAll(m_llr_stats, updated)
      /\ state_rows' = PutAll(state_rows, updated)
  BY <1>1
<1>3. \A i : old(i) \in LLRStats
  BY ZeroStatsType DEF TypeOK, IsMap
<1>4. /\ DOMAIN updated = DOMAIN m_llr_interfaces
      /\ updated = [i \in DOMAIN updated |-> updated[i]]
      /\ \A i \in DOMAIN updated : updated[i] = UpdatedStats(old(i), retries[i], successes[i])
  OBVIOUS
<1> HIDE DEF old, updated
<1>5. \A i \in DOMAIN updated :
        retries[i] \in RetryDraws /\ successes[i] \in SuccessDraws
  BY <1>1, <1>4
<1>6. \A i \in DOMAIN updated : updated[i] \in LLRStats
  <2> SUFFICES ASSUME NEW i \in DOMAIN updated
               PROVE  UpdatedStats(old(i), retries[i], successes[i]) \in LLRStats
    BY <1>4
  <2>1. retries[i] \in Nat /\ successes[i] \in Nat
    BY <1>5, DrawsAssumption
  <2> QED
    BY <1>3, <2>1, UpdatedStatsType
<1>7. IsMap(updated, Interfaces, LLRStats)
  BY <1>4, <1>6 DEF IsMap, TypeOK
<1>8. \A i \in DOMAIN updated :
        \E s \in LLRStats, r \in RetryDraws, k \in SuccessDraws :
          /\ s = (IF i \in DOMAIN m_llr_stats THEN m_llr_stats[i] ELSE ZeroStats)
          /\ updated[i] = UpdatedStats(s, r, k)
  BY <1>3, <1>4, <1>5 DEF old
<1> QED
  BY <1>2, <1>4, <1>7, <1>8

(***************************************************************************)
(* The types of what APPL_DB and STATE_DB hold for the interfaces.         *)
(***************************************************************************)
LEMMA RowsWithoutType ==
  ASSUME TypeOK, NEW ks, NEW ls
  PROVE  /\ IsMap(Without(appl_rows, ks), Interfaces, InterfaceConfigs)
         /\ IsMap(Without(state_rows, ls), Interfaces, LLRStats)
         /\ IsMap(Without(m_llr_interfaces, ks), Interfaces, InterfaceConfigs)
         /\ IsMap(Without(m_llr_stats, ls), Interfaces, LLRStats)
  BY WithoutType DEF TypeOK

LEMMA GlobalRowType ==
  ASSUME TypeOK, GlobalDisabled
  PROVE  appl_global' \in GlobalConfigs \cup {NoRow, [enabled |-> FALSE]}
<1>1. CASE appl_global = NoRow
  BY <1>1 DEF GlobalDisabled
<1>2. CASE appl_global \in GlobalConfigs /\ appl_global # NoRow
  BY <1>2 DEF GlobalDisabled, GlobalConfigs
<1>3. CASE appl_global = [enabled |-> FALSE] /\ appl_global # NoRow
  BY <1>3 DEF GlobalDisabled
<1> QED
  BY <1>1, <1>2, <1>3 DEF TypeOK

LEMMA ForgettingType ==
  ASSUME ForgetMemory, NEW K, IsMap(appl_rows', Interfaces, K),
         IsMap(state_rows', Interfaces, LLRStats)
  PROVE  /\ m_global_llr_config' \in GlobalConfigs
         /\ IsMap(m_llr_interfaces', Interfaces, InterfaceConfigs)
         /\ IsMap(m_llr_stats', Interfaces, LLRStats)
         /\ stats_due' \in BOOLEAN
         /\ untended' \subseteq Interfaces
<1>1. /\ IsMap(m_llr_interfaces', Interfaces, InterfaceConfigs)
      /\ IsMap(m_llr_stats', Interfaces, LLRStats)
  BY EmptyMapType DEF ForgetMemory
<1>2. untended' \subseteq Interfaces
  BY DEF ForgetMemory, IsMap
<1> QED
  BY <1>1, <1>2, DefaultConfigType DEF ForgetMemory

(***************************************************************************)
(* The type invariant: in particular no SET, however malformed, puts a     *)
(* configuration out of its ranges in memory or in APPL_DB.                *)
(***************************************************************************)
THEOREM TypeCorrect == Spec => []TypeOK
<1>1. Init => TypeOK
  BY EmptyMapType, DefaultConfigType DEF Init, TypeOK
<1>2. TypeOK /\ [Next]_vars => TypeOK'
  <2> SUFFICES ASSUME TypeOK, [Next]_vars
               PROVE  TypeOK'
    OBVIOUS
  <2>1. ASSUME NEW config \in GlobalConfigs, EnableGlobalLLR(config)
        PROVE  TypeOK'
    <3>1. IsMap(appl_rows', Interfaces, InterfaceConfigs)
      BY <2>1, PutAllType DEF EnableGlobalLLR, Applied, TypeOK
    <3> QED
      BY <2>1, <3>1 DEF EnableGlobalLLR, Written, TypeOK
  <2>2. ASSUME NEW visited \in SUBSET DOMAIN m_llr_interfaces,
               NEW readable \in SUBSET visited,
               GlobalDisabled, LoopSurvives(visited, readable)
        PROVE  TypeOK'
    <3>1. [m_global_llr_config EXCEPT !.enabled = FALSE] \in GlobalConfigs
      BY DEF TypeOK, GlobalConfigs
    <3>2. /\ IsMap(m_llr_interfaces', Interfaces, InterfaceConfigs)
          /\ IsMap(m_llr_stats', Interfaces, LLRStats)
          /\ IsMap(appl_rows', Interfaces, InterfaceConfigs)
          /\ IsMap(state_rows', Interfaces, LLRStats)
      BY <2>2, RowsWithoutType DEF LoopSurvives, RowsWithout
    <3>3. untended' \subseteq Interfaces
      BY <2>2 DEF LoopSurvives, TypeOK, IsMap
    <3> QED
      BY <2>2, <3>1, <3>2, <3>3, GlobalRowType DEF LoopSurvives, TypeOK
  <2>3. CASE Dies
    <3>1. /\ IsMap(appl_rows', Interfaces, InterfaceConfigs)
          /\ IsMap(state_rows', Interfaces, LLRStats)
      BY <2>3, RowsWithoutType DEF Dies
    <3> QED
      BY <2>3, <3>1, ForgettingType, GlobalRowType DEF Dies, TypeOK
  <2>4. CASE Restart
    <3>1. /\ IsMap(appl_rows', Interfaces, InterfaceConfigs)
          /\ IsMap(state_rows', Interfaces, LLRStats)
      BY <2>4 DEF Restart, TypeOK
    <3> QED
      BY <2>4, <3>1, ForgettingType DEF Restart, TypeOK
  <2>5. ASSUME NEW i \in Interfaces, EnableInterfaceLLR(i)
        PROVE  TypeOK'
    <3>1. CopiedConfig \in InterfaceConfigs
      BY CopiedConfigType DEF TypeOK
    <3>2. IsMap([x \in {i} |-> CopiedConfig], Interfaces, InterfaceConfigs)
      BY <3>1 DEF IsMap
    <3>3. IsMap(appl_rows', Interfaces, InterfaceConfigs)
      BY <2>5, <3>2, PutAllType DEF EnableInterfaceLLR, Applied, TypeOK
    <3>4. IsMap(m_llr_interfaces', Interfaces, InterfaceConfigs)
      BY <2>5, <3>1, PutType DEF EnableInterfaceLLR, TypeOK
    <3>5. IsMap(m_llr_stats', Interfaces, LLRStats)
      BY <2>5, ZeroStatsType, PutType DEF EnableInterfaceLLR, StatsReset, TypeOK
    <3> QED
      BY <2>5, <3>3, <3>4, <3>5 DEF EnableInterfaceLLR, TypeOK
  <2>6. ASSUME NEW i \in Interfaces, DisableInterfaceLLR(i)
        PROVE  TypeOK'
    <3>1. /\ IsMap(m_llr_interfaces', Interfaces, InterfaceConfigs)
          /\ IsMap(m_llr_stats', Interfaces, LLRStats)
          /\ IsMap(appl_rows', Interfaces, InterfaceConfigs)
          /\ IsMap(state_rows', Interfaces, LLRStats)
      BY <2>6, RowsWithoutType DEF DisableInterfaceLLR, RowsWithout
    <3> QED
      BY <2>6, <3>1 DEF DisableInterfaceLLR, TypeOK
  <2>7. CASE DoPeriodicTask
    <3>1. PICK updated :
            /\ IsMap(updated, Interfaces, LLRStats)
            /\ m_llr_stats' = PutAll(m_llr_stats, updated)
            /\ state_rows' = PutAll(state_rows, updated)
      BY <2>7, PeriodicUpdates
    <3>2. IsMap(m_llr_stats', Interfaces, LLRStats) /\ IsMap(state_rows', Interfaces, LLRStats)
      BY <3>1, PutAllType DEF TypeOK
    <3> QED
      BY <2>7, <3>2 DEF DoPeriodicTask, TypeOK
  <2>8. CASE Waits /\ stats_due' \in {stats_due, TRUE}
    BY <2>8 DEF Waits, databases, TypeOK
  <2> QED
    BY <2>1, <2>2, <2>3, <2>4, <2>5, <2>6, <2>7, <2>8, KindsOfSteps
<1> QED
  BY <1>1, <1>2, PTL DEF Spec

-----------------------------------------------------------------------------
(* Safety.                                                                 *)

(***************************************************************************)
(* While LLR is globally enabled, every configured interface has its       *)
(* configuration in APPL_DB, whichever of the two was set first.           *)
(***************************************************************************)
THEOREM EnabledIsApplied == Spec => []AppliedWhenEnabled
<1>1. Init => AppliedWhenEnabled
  BY DEF Init, DefaultConfig, AppliedWhenEnabled
<1>2. TypeOK /\ AppliedWhenEnabled /\ [Next]_vars => AppliedWhenEnabled'
  <2> SUFFICES ASSUME TypeOK, AppliedWhenEnabled, [Next]_vars
               PROVE  AppliedWhenEnabled'
    OBVIOUS
  <2>1. ASSUME NEW config \in GlobalConfigs, EnableGlobalLLR(config)
        PROVE  AppliedWhenEnabled'
    BY <2>1 DEF EnableGlobalLLR, Applied, PutAll, AppliedWhenEnabled
  <2>2. ASSUME NEW visited, NEW readable, LoopSurvives(visited, readable)
        PROVE  AppliedWhenEnabled'
    <3>1. m_global_llr_config'.enabled = FALSE
      BY <2>2 DEF LoopSurvives, TypeOK, GlobalConfigs
    <3> QED
      BY <3>1 DEF AppliedWhenEnabled
  <2>3. CASE ForgetMemory
    BY <2>3 DEF ForgetMemory, DefaultConfig, AppliedWhenEnabled
  <2>4. ASSUME NEW i \in Interfaces, EnableInterfaceLLR(i)
        PROVE  AppliedWhenEnabled'
    <3>1. /\ m_global_llr_config' = m_global_llr_config
          /\ m_llr_interfaces' = Put(m_llr_interfaces, i, CopiedConfig)
          /\ appl_rows' = Applied(m_global_llr_config.enabled, [x \in {i} |-> CopiedConfig])
      BY <2>4 DEF EnableInterfaceLLR
    <3> SUFFICES ASSUME m_global_llr_config.enabled, NEW j \in DOMAIN m_llr_interfaces'
                 PROVE  j \in DOMAIN appl_rows' /\ appl_rows'[j] = m_llr_interfaces'[j]
      BY <3>1 DEF AppliedWhenEnabled
    <3>2. appl_rows' = PutAll(appl_rows, [x \in {i} |-> CopiedConfig])
      BY <3>1 DEF Applied
    <3> QED
      BY <3>1, <3>2 DEF AppliedWhenEnabled, Put, PutAll
  <2>5. ASSUME NEW i \in Interfaces, DisableInterfaceLLR(i)
        PROVE  AppliedWhenEnabled'
    BY <2>5 DEF DisableInterfaceLLR, RowsWithout, Without, Restrict, AppliedWhenEnabled
  <2>6. CASE UNCHANGED <<m_global_llr_config, m_llr_interfaces, appl_rows>>
    BY <2>6 DEF AppliedWhenEnabled
  <2> QED
    BY <2>1, <2>2, <2>3, <2>4, <2>5, <2>6, KindsOfSteps
       DEF Dies, Restart, DoPeriodicTask, Waits, databases
<1> QED
  BY <1>1, <1>2, TypeCorrect, PTL DEF Spec

(***************************************************************************)
(* While LLR is globally enabled, APPL_DB shows the configuration used.    *)
(***************************************************************************)
THEOREM EnabledIsPublished == Spec => []GlobalPublished
<1>1. Init => GlobalPublished
  BY DEF Init, DefaultConfig, GlobalPublished
<1>2. TypeOK /\ GlobalPublished /\ [Next]_vars => GlobalPublished'
  <2> SUFFICES ASSUME TypeOK, GlobalPublished, [Next]_vars
               PROVE  GlobalPublished'
    OBVIOUS
  <2>1. ASSUME NEW config, EnableGlobalLLR(config)
        PROVE  GlobalPublished'
    BY <2>1 DEF EnableGlobalLLR, Written, GlobalPublished
  <2>2. ASSUME NEW visited, NEW readable, LoopSurvives(visited, readable)
        PROVE  GlobalPublished'
    <3>1. m_global_llr_config'.enabled = FALSE
      BY <2>2 DEF LoopSurvives, TypeOK, GlobalConfigs
    <3> QED
      BY <3>1 DEF GlobalPublished
  <2>3. CASE ForgetMemory
    BY <2>3 DEF ForgetMemory, DefaultConfig, GlobalPublished
  <2>4. CASE UNCHANGED <<m_global_llr_config, appl_global>>
    BY <2>4 DEF GlobalPublished
  <2> QED
    BY <2>1, <2>2, <2>3, <2>4, KindsOfSteps
       DEF Dies, Restart, EnableInterfaceLLR, DisableInterfaceLLR, DoPeriodicTask,
           Waits, databases
<1> QED
  BY <1>1, <1>2, TypeCorrect, PTL DEF Spec

(***************************************************************************)
(* Statistics are kept for every configured interface.                     *)
(***************************************************************************)
THEOREM StatsAreKept == Spec => []ConfiguredHaveStats
<1>1. Init => ConfiguredHaveStats
  BY EmptyMapType DEF Init, ConfiguredHaveStats
<1>2. TypeOK /\ ConfiguredHaveStats /\ [Next]_vars => ConfiguredHaveStats'
  <2> SUFFICES ASSUME TypeOK, ConfiguredHaveStats, [Next]_vars
               PROVE  ConfiguredHaveStats'
    OBVIOUS
  <2>1. ASSUME NEW visited, NEW readable \in SUBSET visited,
               LoopSurvives(visited, readable)
        PROVE  ConfiguredHaveStats'
    BY <2>1 DEF LoopSurvives, Without, Restrict, ConfiguredHaveStats
  <2>2. CASE ForgetMemory
    BY <2>2, EmptyMapType DEF ForgetMemory, ConfiguredHaveStats
  <2>3. ASSUME NEW i, EnableInterfaceLLR(i)
        PROVE  ConfiguredHaveStats'
    BY <2>3 DEF EnableInterfaceLLR, StatsReset, Put, ConfiguredHaveStats
  <2>4. ASSUME NEW i, DisableInterfaceLLR(i)
        PROVE  ConfiguredHaveStats'
    BY <2>4 DEF DisableInterfaceLLR, Without, Restrict, ConfiguredHaveStats
  <2>5. CASE DoPeriodicTask
    <3>1. PICK updated : m_llr_stats' = PutAll(m_llr_stats, updated)
      BY <2>5, PeriodicUpdates
    <3>2. m_llr_interfaces' = m_llr_interfaces
      BY <2>5 DEF DoPeriodicTask
    <3> QED
      BY <3>1, <3>2 DEF PutAll, ConfiguredHaveStats
  <2>6. CASE UNCHANGED <<m_llr_interfaces, m_llr_stats>>
    BY <2>6 DEF ConfiguredHaveStats
  <2> QED
    BY <2>1, <2>2, <2>3, <2>4, <2>5, <2>6, KindsOfSteps
       DEF Dies, Restart, EnableGlobalLLR, Waits, databases
<1> QED
  BY <1>1, <1>2, TypeCorrect, PTL DEF Spec

(***************************************************************************)
(* An interface with entries anywhere is configured, or its entries are    *)
(* left from a previous process or from the undefined loop.                *)
(***************************************************************************)
THEOREM NoUnexplainedOrphans == Spec => []OrphansExplained
<1>1. Init => OrphansExplained
  BY EmptyMapType DEF Init, OrphansExplained
<1>2. TypeOK /\ OrphansExplained /\ [Next]_vars => OrphansExplained'
  <2> SUFFICES ASSUME TypeOK, OrphansExplained, [Next]_vars
               PROVE  OrphansExplained'
    OBVIOUS
  <2>1. ASSUME NEW config, EnableGlobalLLR(config)
        PROVE  OrphansExplained'
    BY <2>1 DEF EnableGlobalLLR, Applied, PutAll, OrphansExplained
  <2>2. ASSUME NEW visited, NEW readable \in SUBSET visited,
               LoopSurvives(visited, readable)
        PROVE  OrphansExplained'
    BY <2>2 DEF LoopSurvives, RowsWithout, Without, Restrict, OrphansExplained
  <2>3. CASE ForgetMemory
    BY <2>3, EmptyMapType DEF ForgetMemory, OrphansExplained
  <2>4. ASSUME NEW i, EnableInterfaceLLR(i)
        PROVE  OrphansExplained'
    <3>1. DOMAIN appl_rows' \subseteq DOMAIN appl_rows \cup {i}
      BY <2>4 DEF EnableInterfaceLLR, Applied, PutAll
    <3>2. /\ DOMAIN m_llr_interfaces' = DOMAIN m_llr_interfaces \cup {i}
          /\ DOMAIN m_llr_stats' = DOMAIN m_llr_stats \cup {i}
          /\ state_rows' = state_rows
          /\ untended' = untended \ {i}
      BY <2>4 DEF EnableInterfaceLLR, StatsReset, Put
    <3> QED
      BY <3>1, <3>2 DEF OrphansExplained
  <2>5. ASSUME NEW i, DisableInterfaceLLR(i)
        PROVE  OrphansExplained'
    BY <2>5 DEF DisableInterfaceLLR, RowsWithout, Without, Restrict, OrphansExplained
  <2>6. CASE DoPeriodicTask
    <3>1. PICK updated :
            /\ DOMAIN updated = DOMAIN m_llr_interfaces
            /\ m_llr_stats' = PutAll(m_llr_stats, updated)
            /\ state_rows' = PutAll(state_rows, updated)
      BY <2>6, PeriodicUpdates
    <3>2. UNCHANGED <<m_llr_interfaces, appl_rows, untended>>
      BY <2>6 DEF DoPeriodicTask
    <3> QED
      BY <3>1, <3>2 DEF PutAll, OrphansExplained
  <2>7. CASE UNCHANGED <<m_llr_interfaces, m_llr_stats, appl_rows, state_rows, untended>>
    BY <2>7 DEF OrphansExplained
  <2> QED
    BY <2>1, <2>2, <2>3, <2>4, <2>5, <2>6, <2>7, KindsOfSteps
       DEF Dies, Restart, Waits, databases
<1> QED
  BY <1>1, <1>2, TypeCorrect, PTL DEF Spec

(***************************************************************************)
(* If a draw never brings more than one retry for nine successes, as 0..10 *)
(* and 90..100 do not, every count in memory and in STATE_DB balances.     *)
(***************************************************************************)
THEOREM CountsBalance ==
  ASSUME \A r \in RetryDraws, k \in SuccessDraws : 9 * r <= k
  PROVE  Spec => []CountersBalance
<1>1. Init => CountersBalance
  BY EmptyMapType DEF Init, CountersBalance
<1>2. TypeOK /\ CountersBalance /\ [Next]_vars => CountersBalance'
  <2> SUFFICES ASSUME TypeOK, CountersBalance, [Next]_vars
               PROVE  CountersBalance'
    OBVIOUS
  <2>1. ASSUME NEW ks, NEW ls,
               m_llr_stats' = Without(m_llr_stats, ks) \/ m_llr_stats' = EmptyMap,
               state_rows' = Without(state_rows, ls) \/ state_rows' = state_rows
        PROVE  CountersBalance'
    <3>1. \A i \in DOMAIN m_llr_stats' :
            i \in DOMAIN m_llr_stats /\ m_llr_stats'[i] = m_llr_stats[i]
      BY <2>1, EmptyMapType DEF Without, Restrict
    <3>2. \A i \in DOMAIN state_rows' :
            i \in DOMAIN state_rows /\ state_rows'[i] = state_rows[i]
      BY <2>1 DEF Without, Restrict
    <3> QED
      BY <3>1, <3>2 DEF CountersBalance
  <2>2. ASSUME NEW i, EnableInterfaceLLR(i)
        PROVE  CountersBalance'
    BY <2>2, ZeroStatsType DEF EnableInterfaceLLR, StatsReset, Put, CountersBalance
  <2>3. CASE DoPeriodicTask
    <3>1. PICK updated :
            /\ \A i \in DOMAIN updated :
                 \E s \in LLRStats, r \in RetryDraws, k \in SuccessDraws :
                   /\ s = (IF i \in DOMAIN m_llr_stats THEN m_llr_stats[i] ELSE ZeroStats)
                   /\ updated[i] = UpdatedStats(s, r, k)
            /\ m_llr_stats' = PutAll(m_llr_stats, updated)
            /\ state_rows' = PutAll(state_rows, updated)
      BY <2>3, PeriodicUpdates
    <3>2. ASSUME NEW i \in DOMAIN updated
          PROVE  Balanced(updated[i])
      <4>1. PICK s \in LLRStats, r \in RetryDraws, k \in SuccessDraws :
              /\ s = (IF i \in DOMAIN m_llr_stats THEN m_llr_stats[i] ELSE ZeroStats)
              /\ updated[i] = UpdatedStats(s, r, k)
        BY <3>1
      <4>2. Balanced(s)
        BY <4>1, ZeroStatsType DEF CountersBalance
      <4>3. r \in Nat /\ k \in Nat /\ 9 * r <= k
        BY DrawsAssumption
      <4> QED
        BY <4>1, <4>2, <4>3, UpdatedStatsBalanced
    <3> QED
      BY <3>1, <3>2 DEF PutAll, CountersBalance
  <2>4. CASE UNCHANGED <<m_llr_stats, state_rows>>
    BY <2>4 DEF CountersBalance
  <2>5. ASSUME NEW visited, NEW readable, LoopSurvives(visited, readable)
        PROVE  /\ m_llr_stats' = Without(m_llr_stats, readable)
               /\ state_rows' = Without(state_rows, readable)
    BY <2>5 DEF LoopSurvives, RowsWithout
  <2>6. ASSUME NEW i, DisableInterfaceLLR(i)
        PROVE  /\ m_llr_stats' = Without(m_llr_stats, {i})
               /\ state_rows' = Without(state_rows, {i})
    BY <2>6 DEF DisableInterfaceLLR, RowsWithout
  <2>7. ASSUME Dies \/ Restart
        PROVE  /\ m_llr_stats' = EmptyMap
               /\ \/ \E ls : state_rows' = Without(state_rows, ls)
                  \/ state_rows' = state_rows
    BY <2>7 DEF Dies, Restart, ForgetMemory
  <2> QED
    BY <2>1, <2>2, <2>3, <2>4, <2>5, <2>6, <2>7, KindsOfSteps
       DEF EnableGlobalLLR, Waits, databases
<1> QED
  BY <1>1, <1>2, TypeCorrect, PTL DEF Spec
=============================================================================
