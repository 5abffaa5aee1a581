---------------------------- MODULE UEConfigPlane -----------------------------
(***************************************************************************)
(* The table UE_INTERFACE and its two readers: the dual-stack manager,     *)
(* which loads it, and the LLR manager of ue-linkd, which is notified of   *)
(* changes.  The command line writes entries for the first and, replacing  *)
(* all the fields of an entry, decides about LLR in the second.            *)
(*                                                                         *)
(* The two readers share nothing else, so that a behaviour runs one of     *)
(* them against the edits and leaves the other alone.  Notifications of an *)
(* interface coalesce, and the entry is read when one is handled.  A       *)
(* consumer delivers every key that exists when it starts, as in UELinkD   *)
(* and UETransportd.                                                       *)
(***************************************************************************)
EXTENDS UEDualStackConfig

CONSTANTS LlrEntries, RetryDraws, SuccessDraws, MaxFrames, NoRow

ASSUME LlrAssumption ==
  /\ RetryDraws \subseteq Nat
  /\ SuccessDraws \subseteq Nat \ {0}
  /\ MaxFrames \in Nat

VARIABLES
  reader,      \* which of the two runs
  m_global_llr_config, m_llr_interfaces, m_llr_stats, stats_due,
  appl_global, appl_rows, state_rows, untended,
  pending,     \* interfaces whose notification has not been handled
  forgotten    \* history: interfaces whose LLR a global disable has dropped
               \* since they were last handled

LLR == INSTANCE UELLRManager WITH GlobalEntries <- LlrEntries

llr_state == <<m_global_llr_config, m_llr_interfaces, m_llr_stats, stats_due,
               appl_global, appl_rows, state_rows, untended>>
llr_vars == <<llr_state, pending, forgotten>>
vars == <<reader, ds_vars, llr_vars>>

Init ==
  /\ DsInit
  /\ LLR!Init
  /\ reader \in {"dual-stack", "llr"}
  /\ pending = {}
  /\ forgotten = {}

Edits ==
  \/ \E i \in Interfaces : EditInterface(i) /\ pending' = pending \cup {i}
  \/ reader = "dual-stack" /\ EditGlobal /\ UNCHANGED pending

\* What makes processInterfaceConfig act on an entry (found_llr_config): llr_enable, or
\* ue_enable = "true", which then counts as a no.  The slip for mutation looks
\* at llr_enable only.
NamesLlr(entry) == entry.llr_enable # "absent"
Decides(entry) == entry.llr_enable # "absent" \/ entry.ue_enable = "true"

\* doTask on one key of UE_INTERFACE.
HandleInterface(i) ==
  /\ i \in pending
  /\ pending' = pending \ {i}
  /\ forgotten' = forgotten \ {i}
  /\ IF i \in DOMAIN interface_table
     THEN LET entry == interface_table[i]
          IN  IF Decides(entry)
              THEN LLR!ProcessInterfaceConfig(i, entry.llr_enable,
                                              entry.ue_enable = "true")
              ELSE UNCHANGED llr_state
     ELSE LLR!DisableInterfaceLLR(i)
  /\ UNCHANGED ds_vars

Dropped == DOMAIN m_llr_interfaces \ DOMAIN m_llr_interfaces'

\* doTask on the key "global" of UE_LLR.
HandleGlobal ==
  /\ \E entry \in LlrEntries : LLR!ProcessLLRConfig(entry)
  /\ forgotten' = forgotten \cup Dropped
  /\ UNCHANGED <<ds_vars, pending>>

\* The end of the process, in the loop of disableGlobalLLR or anywhere else, and
\* its start: the entries of the table are delivered again.
RestartLlr ==
  /\ LLR!Restart \/ \E entry \in LlrEntries : LLR!DieInLLRConfig(entry)
  /\ pending' = DOMAIN interface_table
  /\ forgotten' = {}
  /\ UNCHANGED ds_vars

Next ==
  \/ Edits /\ UNCHANGED <<reader, llr_state, forgotten>>
  \/ reader = "dual-stack" /\ Load /\ UNCHANGED <<reader, llr_vars>>
  \/ reader = "llr" /\ UNCHANGED reader
     /\ (HandleGlobal \/ RestartLlr \/ \E i \in Interfaces : HandleInterface(i))

Spec == Init /\ [][Next]_vars

-----------------------------------------------------------------------------
(* Properties.                                                             *)

(***************************************************************************)
(* Every variable has its type.                                            *)
(***************************************************************************)
TypeOK ==
  /\ DsTypeOK
  /\ LLR!TypeOK
  /\ pending \cup forgotten \subseteq Interfaces

(***************************************************************************)
(* Once its notification is handled, an entry that says something about    *)
(* LLR is obeyed: LLR is configured where llr_enable is "true" and nowhere *)
(* else, whatever was written in between, in whichever order it was        *)
(* handled, and however often the process has died since.  Two exceptions: *)
(* a global disable forgets the interfaces, and only a new notification of *)
(* one brings it back; and an entry that says nothing (the command line,   *)
(* disabling Ultra Ethernet) leaves LLR as it was.  In particular the      *)
(* command line, enabling Ultra Ethernet, turns LLR off.                   *)
(***************************************************************************)
LlrFollowsTable ==
  \A i \in Interfaces \ pending :
    /\ i \notin DOMAIN interface_table => i \notin DOMAIN m_llr_interfaces
    /\ i \in DOMAIN interface_table =>
         LET entry == interface_table[i]
         IN  /\ entry.llr_enable = "true" => i \in DOMAIN m_llr_interfaces \cup forgotten
             /\ entry.llr_enable # "true" /\ (entry.llr_enable = "false" \/ entry.ue_enable = "true")
                  => i \notin DOMAIN m_llr_interfaces
=============================================================================
