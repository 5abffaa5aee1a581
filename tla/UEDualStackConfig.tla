-------------------------- MODULE UEDualStackConfig --------------------------
(***************************************************************************)
(* The dual-stack configuration manager (ue_dual_stack_config_mgr.py): one *)
(* run reads the tables of CONFIG_DB one after the other and turns each    *)
(* entry into commands to APPL_DB, and for an interface a notification to  *)
(* orchagent.  Whatever raises ends the load where it is; the rest is      *)
(* skipped, and nothing is taken back.  Meanwhile the command line         *)
(* rewrites entries.  Each run of the program is one load.                 *)
(*                                                                         *)
(* A list of IP versions is the set of its parts, split at the commas and  *)
(* not stripped: " 6" is not "6".  Of the settings copied without a look   *)
(* one stands for all those of a key, and one ECMP group for those of a    *)
(* family: it has a good prefix, a bad one, or is a value with no .get,    *)
(* which is what a field of a CONFIG_DB entry is.                          *)
(***************************************************************************)
EXTENDS Integers, Sequences, UEMaps

CONSTANTS
  Interfaces,         \* interface names
  OperatorEntries,    \* entries of UE_INTERFACE not written by the command line
  OperatorGlobals,    \* entries of UE_GLOBAL not written by the command line
  OtherTables,        \* contents of the three tables nobody edits meanwhile
  MaxEdits            \* bound: edits of CONFIG_DB

VARIABLES
  interface_table,    \* CONFIG_DB, UE_INTERFACE: map from interface to entry
  global_table,       \* CONFIG_DB, UE_GLOBAL: map from "global" to entry
  other_tables,       \* CONFIG_DB: [af, groups, rdma]
  edits,              \* edits so far
  stage,              \* the table being applied, or "idle"
  todo,               \* entries of that table still to be applied
  commands,           \* database commands of the entry being applied
  appl_db,            \* APPL_DB: map from <<key, field>> to value
  notified,           \* map from interface to the capabilities last published
  whole               \* history: the entry last applied to an interface from
                      \* the first command to the last

config_db == <<interface_table, global_table, other_tables, edits>>
load == <<stage, todo, commands>>
ds_vars == <<config_db, load, appl_db, notified, whole>>

-----------------------------------------------------------------------------
(* Entries.                                                                *)

Versions == {"4", "6"}
VersionLists == (SUBSET {"4", "6", " 6"}) \ {{}}

\* The versions found in the list.  The slip for mutation believes the list.
AllListed(entry) == entry.versions
Enabled(entry) == entry.versions \cap Versions

Entries == [ue_enable : {"true", "false", "absent"}, versions : VersionLists,
            max_paths : SUBSET Versions, llr_enable : {"true", "false", "absent"}]
Globals == [enable : {"true", "false"}, versions : VersionLists]

\* Tables are keyed by family, or hold the one entry "global".
Families == {"ipv4", "ipv6"}
Contents == [af : SUBSET Families,
             groups : UNION {[fs -> {"good", "bad", "flat"}] : fs \in SUBSET Families},
             rdma : SUBSET {"global"}]

\* Keys of APPL_DB; those of interfaces have a prefix of their own in the code.
OtherKeys == {"UE_GLOBAL_STATE", "UE_TRANSPORT_MODE", "UE_RDMA_CONFIG"} \cup Families
Keys == Interfaces \cup OtherKeys

ASSUME DualStackAssumption ==
  /\ OperatorEntries \subseteq Entries
  /\ OperatorGlobals \subseteq Globals
  /\ OtherTables \subseteq Contents
  /\ Interfaces \cap OtherKeys = {}
  /\ MaxEdits \in Nat

\* cli_ue_dual_stack_interface and _global: without a flag, both versions; paths
\* only for a version whose flag is given.  set_entry replaces all fields.
CliVersions(flags) == IF flags = {} THEN Versions ELSE flags
CliEntry(enable, flags) ==
  [ue_enable |-> enable, versions |-> CliVersions(flags), max_paths |-> flags,
   llr_enable |-> "absent"]
CliGlobal(enable, flags) == [enable |-> enable, versions |-> CliVersions(flags)]

\* The versions of an interface validate_dual_stack_config complains about.
MissingPaths(entry) == Enabled(entry) \ entry.max_paths

-----------------------------------------------------------------------------
(* The commands each entry is turned into.                                 *)

Hset(key, field, value) == [op |-> "hset", row |-> <<key, field>>, value |-> value]
Raise == <<[op |-> "raise"]>>

GlobalCommands(entry) ==
  IF entry.enable = "true"
  THEN <<Hset("UE_GLOBAL_STATE", "enabled", TRUE),
         Hset("UE_GLOBAL_STATE", "4", "4" \in Enabled(entry)),
         Hset("UE_GLOBAL_STATE", "6", "6" \in Enabled(entry)),
         Hset("UE_TRANSPORT_MODE", "mode", TRUE)>>
  ELSE <<Hset("UE_GLOBAL_STATE", "enabled", FALSE)>>

PathsField(v) == IF v = "4" THEN "max_paths_v4" ELSE "max_paths_v6"
PathCommands(i, entry, v) ==
  IF v \in Enabled(entry)
  THEN <<Hset(i, PathsField(v), v \in entry.max_paths)>>  \* or the default
  ELSE <<>>

Notification(i, entry) ==
  <<[op |-> "publish", interface |-> i, entry |-> entry]>>

\* The slip for mutation publishes before the paths are written.
EagerCommands(i, entry) ==
  IF entry.ue_enable = "true"
  THEN <<Hset(i, "enabled", TRUE), Hset(i, "4", "4" \in Enabled(entry)),
         Hset(i, "6", "6" \in Enabled(entry))>> \o Notification(i, entry)
       \o PathCommands(i, entry, "4") \o PathCommands(i, entry, "6")
  ELSE <<>>
InterfaceCommands(i, entry) ==
  IF entry.ue_enable = "true"
  THEN <<Hset(i, "enabled", TRUE), Hset(i, "4", "4" \in Enabled(entry)),
         Hset(i, "6", "6" \in Enabled(entry))>>
       \o PathCommands(i, entry, "4") \o PathCommands(i, entry, "6")
       \o <<Hset(i, "load_balance_mode", TRUE)>> \o Notification(i, entry)
  ELSE <<>>

GroupCommands(family, kind) ==
  CASE kind = "good" -> <<Hset(family, "prefix", TRUE)>>
    [] kind = "bad"  -> <<>>
    [] kind = "flat" -> Raise

FamilyCommands(family) == <<Hset(family, "enabled", TRUE)>>
RdmaCommands == <<Hset("UE_RDMA_CONFIG", "mode", TRUE)>>

CommandsOf(key, entry) ==
  CASE stage = "global"    -> GlobalCommands(entry)
    [] stage = "af"        -> FamilyCommands(key)
    [] stage = "interface" -> InterfaceCommands(key, entry)
    [] stage = "ecmp"      -> GroupCommands(key, entry)
    [] stage = "rdma"      -> RdmaCommands

\* The order of load_ue_dual_stack_config, and one with the last two swapped.
StagesSwapped == [idle |-> "global", global |-> "af", af |-> "interface",
                  interface |-> "rdma", rdma |-> "ecmp", ecmp |-> "idle"]
Stages == [idle |-> "global", global |-> "af", af |-> "interface",
           interface |-> "ecmp", ecmp |-> "rdma", rdma |-> "idle"]

\* config_db.get_table of a stage: what to apply, by key.
Table(s) ==
  CASE s = "global"    -> global_table
    [] s = "af"        -> [family \in other_tables.af |-> "enabled"]
    [] s = "interface" -> interface_table
    [] s = "ecmp"      -> other_tables.groups
    [] s = "rdma"      -> [key \in other_tables.rdma |-> "global"]
    [] s = "idle"      -> EmptyMap

-----------------------------------------------------------------------------
(* CONFIG_DB.                                                              *)

Edit ==
  /\ edits < MaxEdits
  /\ edits' = edits + 1
  /\ UNCHANGED <<other_tables, load, appl_db, notified, whole>>

SetInterface(i, entry) ==
  Edit /\ interface_table' = Put(interface_table, i, entry) /\ UNCHANGED global_table

DeleteInterface(i) ==
  /\ i \in DOMAIN interface_table
  /\ Edit
  /\ interface_table' = Without(interface_table, {i})
  /\ UNCHANGED global_table

SetGlobal(entry) ==
  /\ Edit
  /\ global_table' = Put(global_table, "global", entry)
  /\ UNCHANGED interface_table

\* What anybody may do to UE_INTERFACE: an operator, or the command line.
EditInterface(i) ==
  \/ \E entry \in OperatorEntries : SetInterface(i, entry)
  \/ \E enable \in {"true", "false"}, flags \in SUBSET Versions :
       SetInterface(i, CliEntry(enable, flags))
  \/ DeleteInterface(i)

EditGlobal ==
  \/ \E entry \in OperatorGlobals : SetGlobal(entry)
  \/ \E enable \in {"true", "false"}, flags \in SUBSET Versions :
       SetGlobal(CliGlobal(enable, flags))

-----------------------------------------------------------------------------
(* The load.                                                               *)

DsInit ==
  /\ interface_table = EmptyMap
  /\ global_table = EmptyMap
  /\ other_tables \in OtherTables
  /\ edits = 0
  /\ stage = "idle" /\ todo = EmptyMap /\ commands = <<>>
  /\ appl_db = EmptyMap
  /\ notified = EmptyMap
  /\ whole = EmptyMap

\* The load starts, or comes to the next table and reads it; or is done.
GetTable ==
  /\ todo = EmptyMap /\ commands = <<>>
  /\ stage' = Stages[stage]
  /\ todo' = Table(stage')
  /\ UNCHANGED <<commands, config_db, appl_db, notified, whole>>

\* The next entry, in the order of the dictionary, IPv4 groups before IPv6.
ApplyEntry(key) ==
  /\ commands = <<>>
  /\ key \in DOMAIN todo
  /\ stage = "ecmp" /\ key = "ipv6" => "ipv4" \notin DOMAIN todo
  /\ commands' = CommandsOf(key, todo[key])
  /\ todo' = Without(todo, {key})
  /\ whole' = IF stage = "interface" /\ commands' # <<>> THEN Without(whole, {key}) ELSE whole
  /\ UNCHANGED <<stage, config_db, appl_db, notified>>

Abandon == stage' = "idle" /\ todo' = EmptyMap /\ commands' = <<>>

Command ==
  /\ commands # <<>>
  /\ LET c == Head(commands)
     IN  \/ /\ c.op = "hset"
            /\ appl_db' = Put(appl_db, c.row, c.value)
            /\ commands' = Tail(commands)
            /\ UNCHANGED <<stage, todo, notified, whole>>
         \/ /\ c.op = "publish"
            /\ notified' = Put(notified, c.interface, Enabled(c.entry))
            /\ whole' = Put(whole, c.interface, c.entry)
            /\ commands' = Tail(commands)
            /\ UNCHANGED <<stage, todo, appl_db>>
         \/ /\ c.op = "raise"
            /\ Abandon
            /\ UNCHANGED <<appl_db, notified, whole>>
  /\ UNCHANGED config_db

\* A database command raises, or the process dies.
Fail ==
  /\ stage # "idle"
  /\ Abandon
  /\ UNCHANGED <<config_db, appl_db, notified, whole>>

Load == GetTable \/ (\E key \in DOMAIN todo : ApplyEntry(key)) \/ Command \/ Fail

-----------------------------------------------------------------------------
(* Properties.                                                             *)

(***************************************************************************)
(* Every variable has its type; only known versions are ever announced,    *)
(* however the lists in CONFIG_DB are written.                             *)
(***************************************************************************)
DsTypeOK ==
  /\ IsMap(interface_table, Interfaces, Entries)
  /\ IsMap(global_table, {"global"}, Globals)
  /\ other_tables \in OtherTables
  /\ edits \in 0..MaxEdits
  /\ stage \in DOMAIN Stages
  /\ stage = "idle" => todo = EmptyMap /\ commands = <<>>
  /\ \A row \in DOMAIN appl_db : row[1] \in Keys /\ appl_db[row] \in BOOLEAN
  /\ IsMap(notified, Interfaces, SUBSET Versions)
  /\ IsMap(whole, Interfaces, Entries)

Has(key, field, value) ==
  <<key, field>> \in DOMAIN appl_db /\ appl_db[<<key, field>>] = value

(***************************************************************************)
(* A row of APPL_DB that no load is rewriting, and none has left torn, is  *)
(* what orchagent was last told of it: enabled, with the versions          *)
(* announced and a number of paths for each, and not a default number if   *)
(* the validator accepts the entry; over any number of loads that fail,    *)
(* start again, or read a table that has changed meanwhile.                *)
(***************************************************************************)
AnnouncedRowsWhole ==
  \A i \in DOMAIN whole :
    /\ Has(i, "enabled", TRUE)
    /\ \A v \in Versions : Has(i, v, v \in notified[i])
    /\ \A v \in notified[i] : <<i, PathsField(v)>> \in DOMAIN appl_db
    /\ MissingPaths(whole[i]) = {} =>
         \A v \in notified[i] : Has(i, PathsField(v), TRUE)
    /\ Has(i, "load_balance_mode", TRUE)

(***************************************************************************)
(* However loads end, what they have applied is a prefix: RDMA             *)
(* settings are never there without every good ECMP group, nor groups      *)
(* without the address families.  In particular an ECMP group that raises  *)
(* keeps the RDMA settings from ever being applied.                        *)
(***************************************************************************)
PartialLoadIsPrefix ==
  LET groups == other_tables.groups
  IN  /\ <<"UE_RDMA_CONFIG", "mode">> \in DOMAIN appl_db =>
           \A f \in DOMAIN groups :
             groups[f] # "flat" /\ (groups[f] = "good" => Has(f, "prefix", TRUE))
      /\ (\E row \in DOMAIN appl_db : row[1] \in Interfaces \/ row[2] = "prefix") =>
           \A f \in other_tables.af : Has(f, "enabled", TRUE)
=============================================================================
