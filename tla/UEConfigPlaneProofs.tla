------------------------- MODULE UEConfigPlaneProofs -------------------------
(***************************************************************************)
(* The safety properties of the configuration plane, for every set of      *)
(* interfaces and of entries, every content of the other tables and any    *)
(* number of loads, failures and edits; and its implementation of the LLR  *)
(* manager, which carries the theorems about that over.                    *)
(*                                                                         *)
(* The invariant of the dual-stack load says of every row it will vouch    *)
(* for that it is written or still among the commands; of every table,     *)
(* that what is not among the entries or the commands any more is done.    *)
(***************************************************************************)
EXTENDS UEConfigPlane, UEMapsProofs, SequenceTheorems

LP == INSTANCE UELLRManagerProofs WITH GlobalEntries <- LlrEntries

-----------------------------------------------------------------------------
(* The invariant.                                                          *)

Fields == {"enabled", "4", "6", "mode", "max_paths_v4", "max_paths_v6",
           "load_balance_mode", "prefix"}

\* What the load of an entry leaves of an interface.
Rows(i, entry) ==
  {Hset(i, "enabled", TRUE), Hset(i, "4", "4" \in Enabled(entry)),
   Hset(i, "6", "6" \in Enabled(entry)), Hset(i, "load_balance_mode", TRUE)}
  \cup {Hset(i, PathsField(v), v \in entry.max_paths) : v \in Enabled(entry)}

Written(c) == c.row \in DOMAIN appl_db /\ appl_db[c.row] = c.value

\* The commands of the tables without interfaces.
StageCommands(s) ==
  CASE s = "global" -> {Hset(key, field, value) :
                          key \in {"UE_GLOBAL_STATE", "UE_TRANSPORT_MODE"},
                          field \in Fields \ {"prefix"}, value \in BOOLEAN}
    [] s = "af"     -> {Hset(family, "enabled", TRUE) : family \in Families}
    [] s = "ecmp"   -> {Hset(family, "prefix", TRUE) : family \in Families}
                         \cup {[op |-> "raise"]}
    [] s = "rdma"   -> {Hset("UE_RDMA_CONFIG", "mode", TRUE)}
    [] OTHER        -> {}

\* The entries still to be applied are of the table of the stage.
TodoOK ==
  /\ stage = "global" => IsMap(todo, {"global"}, Globals)
  /\ stage = "af" => DOMAIN todo \subseteq other_tables.af
  /\ stage = "interface" => IsMap(todo, Interfaces, Entries)
  /\ stage = "ecmp" =>
       /\ DOMAIN todo \subseteq DOMAIN other_tables.groups
       /\ \A f \in DOMAIN todo : todo[f] = other_tables.groups[f]

\* The entry of i is being applied: body, then the notification, are to come.
Applying(i, entry, body) ==
  /\ commands = body \o Notification(i, entry)
  /\ i \notin DOMAIN whole
  /\ \A c \in Rows(i, entry) : Written(c) \/ c \in Range(body)

CommandsOK ==
  /\ stage # "interface" => commands \in Seq(StageCommands(stage))
  /\ stage = "interface" =>
       \/ commands = <<>>
       \/ \E i \in Interfaces, entry \in Entries :
            \E body \in Seq(Rows(i, entry)) : Applying(i, entry, body)

\* What was announced is written.
WholeOK ==
  \A i \in DOMAIN whole :
    /\ i \in DOMAIN notified
    /\ notified[i] = Enabled(whole[i])
    /\ \A c \in Rows(i, whole[i]) : Written(c)

FamilyDone(f) == Has(f, "enabled", TRUE)
GroupDone(f) ==
  /\ other_tables.groups[f] # "flat"
  /\ other_tables.groups[f] = "good" => Has(f, "prefix", TRUE)

\* The tables behind the stage are done, and that of the stage but for what is
\* still to come.
Progress ==
  /\ stage = "af" =>
       \A f \in other_tables.af :
         f \in DOMAIN todo \/ FamilyDone(f) \/ Hset(f, "enabled", TRUE) \in Range(commands)
  /\ stage \in {"interface", "ecmp", "rdma"} => \A f \in other_tables.af : FamilyDone(f)
  /\ stage = "ecmp" =>
       \A f \in DOMAIN other_tables.groups :
         \/ f \in DOMAIN todo
         \/ GroupDone(f)
         \/ other_tables.groups[f] = "good" /\ Hset(f, "prefix", TRUE) \in Range(commands)
         \/ [op |-> "raise"] \in Range(commands)
  /\ stage = "rdma" => \A f \in DOMAIN other_tables.groups : GroupDone(f)

DsInv == DsTypeOK /\ TodoOK /\ CommandsOK /\ WholeOK /\ Progress /\ PartialLoadIsPrefix

-----------------------------------------------------------------------------
(* Sequences of commands.                                                  *)

(***************************************************************************)
(* The elements of a sequence are its head and those of its tail; those of *)
(* two sequences after each other are those of both.                       *)
(***************************************************************************)
LEMMA HeadAndTail ==
  ASSUME NEW S, NEW s \in Seq(S), s # <<>>
  PROVE  /\ Head(s) \in S /\ Tail(s) \in Seq(S)
         /\ Range(s) = {Head(s)} \cup Range(Tail(s))
<1>1. Len(s) \in Nat \ {0} /\ DOMAIN s = 1..Len(s)
  BY EmptySeq, LenProperties
<1>2. Head(s) = s[1] /\ Head(s) \in S /\ Tail(s) \in Seq(S) /\ Len(Tail(s)) = Len(s) - 1
      /\ \A n \in 1..(Len(s) - 1) : Tail(s)[n] = s[n + 1]
  BY <1>1
<1>3. DOMAIN Tail(s) = 1..(Len(s) - 1)
  BY <1>2, LenProperties
<1>4. Range(s) \subseteq {Head(s)} \cup Range(Tail(s))
  <2> SUFFICES ASSUME NEW n \in 1..Len(s), n # 1 PROVE s[n] \in Range(Tail(s))
    BY <1>1, <1>2 DEF Range
  <2>1. n - 1 \in 1..(Len(s) - 1) /\ (n - 1) + 1 = n
    BY <1>1
  <2>2. s[n] = Tail(s)[n - 1]
    BY <1>2, <2>1
  <2> QED BY <1>3, <2>1, <2>2 DEF Range
<1>5. {Head(s)} \cup Range(Tail(s)) \subseteq Range(s)
  <2>1. 1 \in DOMAIN s /\ \A n \in 1..(Len(s) - 1) : n + 1 \in DOMAIN s
    BY <1>1
  <2> QED BY <1>2, <1>3, <2>1 DEF Range
<1> QED BY <1>2, <1>4, <1>5

LEMMA RangeOfConcat ==
  ASSUME NEW S, NEW s \in Seq(S), NEW t \in Seq(S)
  PROVE  s \o t \in Seq(S) /\ Range(s \o t) = Range(s) \cup Range(t)
<1> DEFINE r == s \o t
<1>1. /\ Len(s) \in Nat /\ Len(t) \in Nat
      /\ DOMAIN s = 1..Len(s) /\ DOMAIN t = 1..Len(t)
  BY LenProperties
<1>2. r \in Seq(S) /\ Len(r) = Len(s) + Len(t) /\ DOMAIN r = 1..(Len(s) + Len(t))
  BY <1>1, ConcatProperties, LenProperties
<1>3. \A n \in 1..(Len(s) + Len(t)) : r[n] = IF n <= Len(s) THEN s[n] ELSE t[n - Len(s)]
  BY ConcatProperties
<1> HIDE DEF r
<1>4. \A n \in 1..Len(s) : n \in DOMAIN r /\ r[n] = s[n]
  BY <1>1, <1>2, <1>3
<1>5. \A n \in 1..Len(t) : Len(s) + n \in DOMAIN r /\ r[Len(s) + n] = t[n]
  BY <1>1, <1>2, <1>3
<1>6. \A n \in DOMAIN r : n \in 1..Len(s) \/ (n - Len(s) \in 1..Len(t) /\ r[n] = t[n - Len(s)])
  BY <1>1, <1>2, <1>3
<1>7. Range(r) \subseteq Range(s) \cup Range(t)
  BY <1>1, <1>4, <1>6 DEF Range
<1>8. Range(s) \cup Range(t) \subseteq Range(r)
  BY <1>1, <1>4, <1>5 DEF Range
<1> QED BY <1>2, <1>7, <1>8 DEF r

LEMMA RangeOfSequence ==
  ASSUME NEW S, NEW s \in Seq(S)
  PROVE  Range(s) \subseteq S /\ (s = <<>> => Range(s) = {}) /\ (Range(s) = {} => s = <<>>)
<1>1. Len(s) \in Nat /\ DOMAIN s = 1..Len(s) /\ \A n \in 1..Len(s) : s[n] \in S
  BY LenProperties
<1>2. Range(s) = {} => Len(s) = 0
  <2> SUFFICES ASSUME Len(s) # 0 PROVE Range(s) # {}
    OBVIOUS
  <2>1. 1 \in DOMAIN s
    BY <1>1
  <2> QED BY <2>1 DEF Range
<1>3. s = <<>> => Len(s) = 0
  OBVIOUS
<1>4. Len(s) = 0 => s = <<>> /\ DOMAIN s = {}
  BY <1>1
<1> QED BY <1>1, <1>2, <1>3, <1>4 DEF Range

\* A sequence followed by one element more, taken apart at its head.
LEMMA HeadBeforeLast ==
  ASSUME NEW S, NEW body \in Seq(S), NEW p, NEW s, s = body \o <<p>>
  PROVE  \/ body = <<>> /\ Head(s) = p /\ Tail(s) = <<>>
         \/ /\ body # <<>>
            /\ Head(s) = Head(body) /\ Head(body) \in S
            /\ Tail(body) \in Seq(S) /\ Tail(s) = Tail(body) \o <<p>>
            /\ Range(body) = {Head(body)} \cup Range(Tail(body))
<1>1. CASE body = <<>>
  <2>1. s = <<p>>
    BY <1>1
  <2> QED BY <1>1, <2>1
<1>2. CASE body # <<>>
  <2> DEFINE T == S \cup {p}
  <2>1. body \in Seq(T) /\ <<p>> \in Seq(T) /\ Len(<<p>>) = 1
    BY SeqMonotonic
  <2>2. Len(body) \in Nat \ {0}
    BY <1>2, EmptySeq
  <2>3. /\ s \in Seq(T) /\ Len(s) = Len(body) + 1
        /\ \A n \in 1..(Len(body) + 1) : s[n] = IF n <= Len(body) THEN body[n] ELSE <<p>>[n - Len(body)]
    BY <2>1, ConcatProperties
  <2>4. /\ Head(body) \in S /\ Tail(body) \in Seq(S)
        /\ Range(body) = {Head(body)} \cup Range(Tail(body))
    BY <1>2, HeadAndTail
  <2>5. Head(s) = Head(body)
    <3>1. s # <<>> /\ Head(s) = s[1] /\ Head(body) = body[1]
      BY <1>2, <2>2, <2>3
    <3>2. 1 \in 1..(Len(body) + 1) /\ 1 <= Len(body)
      BY <2>2
    <3> QED BY <2>3, <3>1, <3>2
  <2>6. Tail(s) = Tail(body) \o <<p>>
    <3> DEFINE u == Tail(body) \o <<p>>
    <3>1. /\ Tail(body) \in Seq(T) /\ Len(Tail(body)) = Len(body) - 1
          /\ \A n \in 1..(Len(body) - 1) : Tail(body)[n] = body[n + 1]
      BY <2>1, <2>2
    <3>2. /\ u \in Seq(T) /\ Len(u) = Len(body)
          /\ \A n \in 1..Len(body) : u[n] = IF n <= Len(body) - 1 THEN Tail(body)[n]
                                            ELSE <<p>>[n - (Len(body) - 1)]
      <4>1. /\ u \in Seq(T) /\ Len(u) = Len(Tail(body)) + Len(<<p>>)
            /\ \A n \in 1..(Len(Tail(body)) + Len(<<p>>)) :
                 u[n] = IF n <= Len(Tail(body)) THEN Tail(body)[n]
                        ELSE <<p>>[n - Len(Tail(body))]
        BY <2>1, <3>1, ConcatProperties
      <4>2. Len(Tail(body)) + Len(<<p>>) = Len(body)
        BY <2>1, <2>2, <3>1
      <4> QED BY <3>1, <4>1, <4>2
    <3>3. /\ Tail(s) \in Seq(T) /\ Len(Tail(s)) = Len(body)
          /\ \A n \in 1..Len(body) : Tail(s)[n] = s[n + 1]
      BY <2>2, <2>3
    <3> HIDE DEF u
    <3>4. ASSUME NEW n \in 1..Len(body) PROVE Tail(s)[n] = u[n]
      <4>1. CASE n <= Len(body) - 1
        <5>1. n + 1 \in 1..(Len(body) + 1) /\ n + 1 <= Len(body) /\ n \in 1..(Len(body) - 1)
          BY <2>2, <4>1
        <5> QED BY <2>3, <3>1, <3>2, <3>3, <4>1, <5>1
      <4>2. CASE ~(n <= Len(body) - 1)
        <5>1. n = Len(body) /\ n + 1 \in 1..(Len(body) + 1) /\ ~(n + 1 <= Len(body))
              /\ (n + 1) - Len(body) = 1 /\ n - (Len(body) - 1) = 1
          BY <2>2, <4>2
        <5> QED BY <2>3, <3>2, <3>3, <4>2, <5>1
      <4> QED BY <4>1, <4>2
    <3> QED BY <3>2, <3>3, <3>4, SeqEqual DEF u
  <2> QED BY <1>2, <2>4, <2>5, <2>6
<1> QED BY <1>1, <1>2
-----------------------------------------------------------------------------
(* The commands of an entry.                                               *)

\* A row has one value to be written, and belongs to its interface.
LEMMA RowsAgree ==
  ASSUME NEW i, NEW entry, NEW c \in Rows(i, entry)
  PROVE  /\ c.op = "hset" /\ c.row[1] = i /\ c.row[2] \in Fields \ {"prefix"}
         /\ c.row = <<c.row[1], c.row[2]>> /\ c.value \in BOOLEAN
         /\ \A d \in Rows(i, entry) : d.row = c.row => d.value = c.value
<1> DEFINE four == "4" \in Enabled(entry)
           six  == "6" \in Enabled(entry)
           paths(v) == v \in entry.max_paths
<1>1. Enabled(entry) \subseteq {"4", "6"}
  BY DEF Enabled, Versions
<1>2. four \in BOOLEAN /\ six \in BOOLEAN /\ paths("4") \in BOOLEAN /\ paths("6") \in BOOLEAN
  OBVIOUS
<1>3. Rows(i, entry) \subseteq
        {Hset(i, "enabled", TRUE), Hset(i, "4", four), Hset(i, "6", six),
         Hset(i, "load_balance_mode", TRUE),
         Hset(i, "max_paths_v4", paths("4")), Hset(i, "max_paths_v6", paths("6"))}
  BY <1>1 DEF Rows, PathsField
<1> HIDE DEF four, six, paths
<1> DEFINE values == [f \in Fields |->
                        IF f = "4" THEN four ELSE IF f = "6" THEN six
                        ELSE IF f = "max_paths_v4" THEN paths("4")
                        ELSE IF f = "max_paths_v6" THEN paths("6") ELSE TRUE]
<1>4. ASSUME NEW d \in Rows(i, entry)
      PROVE  \E f \in Fields \ {"prefix"}, v \in BOOLEAN : d = Hset(i, f, v) /\ v = values[f]
  <2>1. {"enabled", "4", "6", "load_balance_mode", "max_paths_v4", "max_paths_v6"}
          \subseteq Fields \ {"prefix"}
    BY DEF Fields
  <2>2. /\ values["enabled"] = TRUE /\ values["load_balance_mode"] = TRUE
        /\ values["4"] = four /\ values["6"] = six
        /\ values["max_paths_v4"] = paths("4") /\ values["max_paths_v6"] = paths("6")
    BY <2>1, Zenon
  <2> HIDE DEF values
  <2> QED BY <1>2, <1>3, <2>1, <2>2, Zenon
<1> HIDE DEF values
<1>5. ASSUME NEW f, NEW v PROVE
        /\ Hset(i, f, v).op = "hset" /\ Hset(i, f, v).row = <<i, f>> /\ Hset(i, f, v).value = v
  BY DEF Hset
<1>6. PICK f \in Fields \ {"prefix"}, v \in BOOLEAN : c = Hset(i, f, v) /\ v = values[f]
  BY <1>4
<1>7. c.op = "hset" /\ c.row = <<i, f>> /\ c.value = values[f]
  BY <1>5, <1>6
<1>8. ASSUME NEW d \in Rows(i, entry), d.row = c.row PROVE d.value = c.value
  <2>1. PICK g \in Fields \ {"prefix"}, w \in BOOLEAN : d = Hset(i, g, w) /\ w = values[g]
    BY <1>4
  <2>2. d.row = <<i, g>> /\ d.value = values[g]
    BY <1>5, <2>1
  <2>3. g = f
    BY <1>7, <1>8, <2>2
  <2> QED BY <1>7, <2>2, <2>3
<1> QED BY <1>6, <1>7, <1>8

(***************************************************************************)
(* What apply_interface_dual_stack_config does of an enabled interface: it *)
(* writes its rows, all of them, and notifies last.                        *)
(***************************************************************************)
LEMMA InterfaceCommandsAre ==
  ASSUME NEW i, NEW entry
  PROVE  \/ InterfaceCommands(i, entry) = <<>>
         \/ \E body \in Seq(Rows(i, entry)) :
              /\ InterfaceCommands(i, entry) = body \o Notification(i, entry)
              /\ Range(body) = Rows(i, entry)
<1> DEFINE first == <<Hset(i, "enabled", TRUE), Hset(i, "4", "4" \in Enabled(entry)),
                      Hset(i, "6", "6" \in Enabled(entry))>>
           four  == PathCommands(i, entry, "4")
           six   == PathCommands(i, entry, "6")
           last  == <<Hset(i, "load_balance_mode", TRUE)>>
           path(v) == Hset(i, PathsField(v), v \in entry.max_paths)
           R == Rows(i, entry)
<1>1. InterfaceCommands(i, entry) # <<>> =>
        InterfaceCommands(i, entry) = (((first \o four) \o six) \o last) \o Notification(i, entry)
  BY DEF InterfaceCommands
<1>2. first \in Seq(R) /\ Range(first) =
        {Hset(i, "enabled", TRUE), Hset(i, "4", "4" \in Enabled(entry)),
         Hset(i, "6", "6" \in Enabled(entry))}
  <2> DEFINE a == Hset(i, "enabled", TRUE)
             b == Hset(i, "4", "4" \in Enabled(entry))
             c == Hset(i, "6", "6" \in Enabled(entry))
  <2>1. a \in R /\ b \in R /\ c \in R
    BY DEF Rows
  <2> HIDE DEF a, b, c, R
  <2>2. <<a, b, c>> \in Seq(R) /\ DOMAIN <<a, b, c>> = {1, 2, 3}
    BY <2>1
  <2>3. Range(<<a, b, c>>) = {a, b, c}
    BY <2>2 DEF Range
  <2> QED BY <2>2, <2>3 DEF a, b, c
<1>3. last \in Seq(R) /\ Range(last) = {Hset(i, "load_balance_mode", TRUE)}
  <2> DEFINE a == Hset(i, "load_balance_mode", TRUE)
  <2>1. a \in R
    BY DEF Rows
  <2> HIDE DEF a, R
  <2>2. <<a>> \in Seq(R) /\ DOMAIN <<a>> = {1}
    BY <2>1
  <2>3. Range(<<a>>) = {a}
    BY <2>2 DEF Range
  <2> QED BY <2>2, <2>3 DEF a
<1>4. ASSUME NEW v \in Versions
      PROVE  /\ PathCommands(i, entry, v) \in Seq(R)
             /\ Range(PathCommands(i, entry, v)) = {path(w) : w \in Enabled(entry) \cap {v}}
  <2>1. CASE v \in Enabled(entry)
    <3> DEFINE a == path(v)
    <3>1. PathCommands(i, entry, v) = <<a>> /\ a \in R
      BY <2>1 DEF PathCommands, Rows
    <3>2. {path(w) : w \in Enabled(entry) \cap {v}} = {a}
      BY <2>1
    <3> HIDE DEF a, R
    <3>3. <<a>> \in Seq(R) /\ DOMAIN <<a>> = {1}
      BY <3>1
    <3>4. Range(<<a>>) = {a}
      BY <3>3 DEF Range
    <3> QED BY <3>1, <3>2, <3>3, <3>4
  <2>2. CASE v \notin Enabled(entry)
    <3>1. PathCommands(i, entry, v) = <<>>
      BY <2>2 DEF PathCommands
    <3>2. Range(<<>>) = {} /\ <<>> \in Seq(R)
      BY RangeOfSequence, EmptySeq
    <3> QED BY <2>2, <3>1, <3>2
  <2> QED BY <2>1, <2>2
<1>5. /\ four \in Seq(R) /\ six \in Seq(R)
      /\ Range(four) = {path(w) : w \in Enabled(entry) \cap {"4"}}
      /\ Range(six) = {path(w) : w \in Enabled(entry) \cap {"6"}}
  BY <1>4 DEF Versions
<1>6. Range(four) \cup Range(six) = {path(w) : w \in Enabled(entry)}
  BY <1>5 DEF Enabled, Versions
<1> DEFINE body == ((first \o four) \o six) \o last
<1>7. body \in Seq(R) /\ Range(body) = ((Range(first) \cup Range(four)) \cup Range(six)) \cup Range(last)
  <2> HIDE DEF first, four, six, last, R
  <2> DEFINE two   == first \o four
             three == two \o six
  <2> HIDE DEF body
  <2>1. two \in Seq(R) /\ Range(two) = Range(first) \cup Range(four)
    <3>1. first \in Seq(R) /\ four \in Seq(R)
      BY <1>2, <1>5
    <3> QED BY <3>1, RangeOfConcat
  <2> HIDE DEF two
  <2>2. three \in Seq(R) /\ Range(three) = Range(two) \cup Range(six)
    BY <1>5, <2>1, RangeOfConcat
  <2> HIDE DEF three
  <2>3. three \in Seq(R) /\ last \in Seq(R)
    BY <1>3, <2>2
  <2>4. three \o last \in Seq(R) /\ Range(three \o last) = Range(three) \cup Range(last)
    BY <2>3, RangeOfConcat
  <2>5. body = three \o last
    BY DEF body, three, two
  <2> QED BY <2>1, <2>2, <2>4, <2>5
<1>8. Range(body) = R
  <2> HIDE DEF body, four, six
  <2> QED BY <1>2, <1>3, <1>6, <1>7 DEF Rows
<1> QED BY <1>1, <1>7, <1>8

\* The cases of StageCommands and CommandsOf, one by one.
LEMMA CasesOfStages ==
  /\ StageCommands("global") = {Hset(key, field, value) :
                                  key \in {"UE_GLOBAL_STATE", "UE_TRANSPORT_MODE"},
                                  field \in Fields \ {"prefix"}, value \in BOOLEAN}
  /\ StageCommands("af") = {Hset(family, "enabled", TRUE) : family \in Families}
  /\ StageCommands("ecmp") = {Hset(family, "prefix", TRUE) : family \in Families}
                                \cup {[op |-> "raise"]}
  /\ StageCommands("rdma") = {Hset("UE_RDMA_CONFIG", "mode", TRUE)}
  /\ StageCommands("idle") = {}
  BY DEF StageCommands

LEMMA CasesOfCommands ==
  ASSUME NEW key, NEW entry
  PROVE  /\ stage = "global" => CommandsOf(key, entry) = GlobalCommands(entry)
         /\ stage = "af" => CommandsOf(key, entry) = FamilyCommands(key)
         /\ stage = "interface" => CommandsOf(key, entry) = InterfaceCommands(key, entry)
         /\ stage = "ecmp" => CommandsOf(key, entry) = GroupCommands(key, entry)
         /\ stage = "rdma" => CommandsOf(key, entry) = RdmaCommands
  BY DEF CommandsOf

\* The commands of the other tables are of their stage, and those of a family
\* or a group include the one that completes it.
LEMMA OtherCommandsAre ==
  ASSUME DsInv, stage \notin {"idle", "interface"}, NEW key \in DOMAIN todo
  PROVE  /\ CommandsOf(key, todo[key]) \in Seq(StageCommands(stage))
         /\ stage = "af" => Hset(key, "enabled", TRUE) \in Range(CommandsOf(key, todo[key]))
         /\ stage = "ecmp" =>
              \/ other_tables.groups[key] = "bad"
              \/ /\ other_tables.groups[key] = "good"
                 /\ Hset(key, "prefix", TRUE) \in Range(CommandsOf(key, todo[key]))
              \/ [op |-> "raise"] \in Range(CommandsOf(key, todo[key]))
<1>1. other_tables \in Contents
  BY DualStackAssumption DEF DsInv, DsTypeOK
<1>2. CASE stage = "global"
  <2> DEFINE S == StageCommands(stage)
             a == Hset("UE_GLOBAL_STATE", "enabled", TRUE)
             b == Hset("UE_GLOBAL_STATE", "4", "4" \in Enabled(todo[key]))
             c == Hset("UE_GLOBAL_STATE", "6", "6" \in Enabled(todo[key]))
             d == Hset("UE_TRANSPORT_MODE", "mode", TRUE)
             e == Hset("UE_GLOBAL_STATE", "enabled", FALSE)
  <2>1. S = {Hset(k, field, value) : k \in {"UE_GLOBAL_STATE", "UE_TRANSPORT_MODE"},
                                     field \in Fields \ {"prefix"}, value \in BOOLEAN}
    BY <1>2, CasesOfStages
  <2>2. ("4" \in Enabled(todo[key])) \in BOOLEAN /\ ("6" \in Enabled(todo[key])) \in BOOLEAN
    OBVIOUS
  <2>3. a \in S /\ b \in S /\ c \in S /\ d \in S /\ e \in S
    <3>1. \A k \in {"UE_GLOBAL_STATE", "UE_TRANSPORT_MODE"},
             field \in Fields \ {"prefix"}, value \in BOOLEAN : Hset(k, field, value) \in S
      BY <2>1
    <3>2. {"enabled", "4", "6", "mode"} \subseteq Fields \ {"prefix"}
      BY DEF Fields
    <3> DEFINE four == "4" \in Enabled(todo[key])
               six  == "6" \in Enabled(todo[key])
    <3>3. four \in BOOLEAN /\ six \in BOOLEAN
      OBVIOUS
    <3> HIDE DEF four, six, S
    <3>4. b = Hset("UE_GLOBAL_STATE", "4", four) /\ c = Hset("UE_GLOBAL_STATE", "6", six)
      BY DEF four, six
    <3> HIDE DEF b, c
    <3> QED BY <3>1, <3>2, <3>3, <3>4
  <2>4. CommandsOf(key, todo[key]) \in {<<a, b, c, d>>, <<e>>}
    BY <1>2, CasesOfCommands DEF GlobalCommands
  <2> HIDE DEF a, b, c, d, e, S
  <2>5. <<a, b, c, d>> \in Seq(S) /\ <<e>> \in Seq(S)
    BY <2>3
  <2> QED BY <1>2, <2>4, <2>5 DEF S
<1>3. CASE stage = "af"
  <2>1. key \in Families
    BY <1>1, <1>3 DEF DsInv, TodoOK, Contents
  <2> DEFINE a == Hset(key, "enabled", TRUE)
  <2>2. a \in StageCommands(stage) /\ CommandsOf(key, todo[key]) = <<a>>
    BY <1>3, <2>1, CasesOfStages, CasesOfCommands DEF FamilyCommands
  <2> HIDE DEF a
  <2>3. <<a>> \in Seq(StageCommands(stage)) /\ 1 \in DOMAIN <<a>> /\ <<a>>[1] = a
    BY <2>2
  <2> QED BY <1>3, <2>2, <2>3 DEF Range, a
<1>4. CASE stage = "ecmp"
  <2>1. key \in Families /\ todo[key] = other_tables.groups[key]
        /\ todo[key] \in {"good", "bad", "flat"}
    <3>1. key \in DOMAIN other_tables.groups /\ todo[key] = other_tables.groups[key]
      BY <1>4 DEF DsInv, TodoOK
    <3>2. PICK fs \in SUBSET Families : other_tables.groups \in [fs -> {"good", "bad", "flat"}]
      BY <1>1 DEF Contents
    <3> QED BY <3>1, <3>2
  <2> DEFINE a == Hset(key, "prefix", TRUE)
             r == [op |-> "raise"]
             S == StageCommands(stage)
  <2>2. a \in S /\ r \in S
    BY <1>4, <2>1, CasesOfStages
  <2>3. /\ todo[key] = "good" => CommandsOf(key, todo[key]) = <<a>>
        /\ todo[key] = "bad" => CommandsOf(key, todo[key]) = <<>>
        /\ todo[key] = "flat" => CommandsOf(key, todo[key]) = <<r>>
    BY <1>4, CasesOfCommands DEF GroupCommands, Raise
  <2> HIDE DEF a, r, S
  <2>4. /\ <<a>> \in Seq(S) /\ 1 \in DOMAIN <<a>> /\ <<a>>[1] = a
        /\ <<r>> \in Seq(S) /\ 1 \in DOMAIN <<r>> /\ <<r>>[1] = r
        /\ <<>> \in Seq(S)
    BY <2>2
  <2>5. a \in Range(<<a>>) /\ r \in Range(<<r>>)
    BY <2>4 DEF Range
  <2> QED BY <1>4, <2>1, <2>3, <2>4, <2>5 DEF a, r, S
<1>5. CASE stage = "rdma"
  <2> DEFINE a == Hset("UE_RDMA_CONFIG", "mode", TRUE)
  <2>1. a \in StageCommands(stage) /\ CommandsOf(key, todo[key]) = <<a>>
    BY <1>5, CasesOfStages, CasesOfCommands DEF RdmaCommands
  <2> HIDE DEF a
  <2> QED BY <1>5, <2>1
<1>6. stage \in {"idle", "global", "af", "interface", "ecmp", "rdma"}
  BY DEF DsInv, DsTypeOK, Stages
<1> QED BY <1>2, <1>3, <1>4, <1>5, <1>6
-----------------------------------------------------------------------------
(* Writes to APPL_DB.                                                      *)

LEMMA RowWritten ==
  ASSUME NEW row, NEW value, appl_db' = Put(appl_db, row, value)
  PROVE  /\ DOMAIN appl_db' = DOMAIN appl_db \cup {row} /\ appl_db'[row] = value
         /\ \A r \in DOMAIN appl_db : r # row => appl_db'[r] = appl_db[r]
  BY DEF Put

\* A row keeps its value unless it is the one written.
LEMMA HasKept ==
  ASSUME NEW k, NEW f, NEW value, appl_db' = Put(appl_db, <<k, f>>, value),
         NEW key, NEW field, NEW v, Has(key, field, v), <<key, field>> # <<k, f>> \/ v = value
  PROVE  Has(key, field, v)'
<1>1. CASE <<key, field>> = <<k, f>>
  BY <1>1, RowWritten DEF Has
<1>2. CASE <<key, field>> # <<k, f>>
  BY <1>2, RowWritten DEF Has
<1> QED BY <1>1, <1>2

\* Families and groups of the tables that nobody edits meanwhile.
LEMMA OtherTablesType ==
  ASSUME DsTypeOK
  PROVE  /\ other_tables.af \subseteq Families
         /\ DOMAIN other_tables.groups \subseteq Families
         /\ \A f \in DOMAIN other_tables.groups : other_tables.groups[f] \in {"good", "bad", "flat"}
<1>1. other_tables \in Contents
  BY DualStackAssumption DEF DsTypeOK
<1>2. PICK fs \in SUBSET Families : other_tables.groups \in [fs -> {"good", "bad", "flat"}]
  BY <1>1 DEF Contents
<1> QED BY <1>1, <1>2 DEF Contents

(***************************************************************************)
(* A write that is in its stage, and never of an interface vouched for,    *)
(* undoes nothing that was done.                                           *)
(***************************************************************************)
LEMMA WriteUndoesNothing ==
  ASSUME DsInv, NEW k \in Keys, NEW f, NEW v \in BOOLEAN,
         appl_db' = Put(appl_db, <<k, f>>, v),
         UNCHANGED <<config_db, stage, notified, whole>>,
         k \notin DOMAIN whole, k \in Families => v = TRUE,
         k = "UE_RDMA_CONFIG" => stage = "rdma", f = "prefix" => stage = "ecmp",
         k \in Interfaces => stage = "interface"
  PROVE  /\ \A row \in DOMAIN appl_db' : row[1] \in Keys /\ appl_db'[row] \in BOOLEAN
         /\ WholeOK' /\ PartialLoadIsPrefix'
         /\ \A g \in Families : (FamilyDone(g) => FamilyDone(g)') /\ (GroupDone(g) => GroupDone(g)')
<1>1. /\ DOMAIN appl_db' = DOMAIN appl_db \cup {<<k, f>>} /\ appl_db'[<<k, f>>] = v
      /\ \A r \in DOMAIN appl_db : r # <<k, f>> => appl_db'[r] = appl_db[r]
  BY RowWritten
<1>2. UNCHANGED other_tables
  BY DEF config_db
<1>3. \A row \in DOMAIN appl_db' : row[1] \in Keys /\ appl_db'[row] \in BOOLEAN
  <2> SUFFICES ASSUME NEW row \in DOMAIN appl_db' PROVE row[1] \in Keys /\ appl_db'[row] \in BOOLEAN
    OBVIOUS
  <2>1. CASE row = <<k, f>>
    BY <1>1, <2>1
  <2>2. CASE row # <<k, f>>
    BY <1>1, <2>2 DEF DsInv, DsTypeOK
  <2> QED BY <2>1, <2>2
<1>4. WholeOK'
  <2> SUFFICES ASSUME NEW i \in DOMAIN whole
               PROVE  /\ i \in DOMAIN notified /\ notified[i] = Enabled(whole[i])
                      /\ \A c \in Rows(i, whole[i]) : Written(c)'
    BY DEF WholeOK
  <2>1. ASSUME NEW c \in Rows(i, whole[i]) PROVE Written(c)'
    <3>1. Written(c) /\ c.row # <<k, f>>
      <4>1. c.row[1] = i
        BY RowsAgree
      <4> QED BY <4>1 DEF DsInv, WholeOK
    <3> QED BY <1>1, <3>1 DEF Written
  <2> QED BY <2>1 DEF DsInv, WholeOK
<1>5. ASSUME NEW g \in Families
      PROVE  (FamilyDone(g) => FamilyDone(g)') /\ (GroupDone(g) => GroupDone(g)')
  <2>1. \A field : Has(g, field, TRUE) => Has(g, field, TRUE)'
    <3> SUFFICES ASSUME NEW field, Has(g, field, TRUE) PROVE Has(g, field, TRUE)'
      OBVIOUS
    <3>1. <<g, field>> # <<k, f>> \/ v = TRUE
      OBVIOUS
    <3> QED BY <3>1, HasKept
  <2> QED BY <1>2, <2>1 DEF FamilyDone, GroupDone
<1>6. PartialLoadIsPrefix'
  <2>1. /\ other_tables.af \subseteq Families /\ DOMAIN other_tables.groups \subseteq Families
    BY OtherTablesType DEF DsInv
  <2>2. <<"UE_RDMA_CONFIG", "mode">> \in DOMAIN appl_db' =>
          \A g \in DOMAIN other_tables.groups : GroupDone(g)
    <3>1. CASE k = "UE_RDMA_CONFIG"
      BY <3>1 DEF DsInv, Progress
    <3>2. CASE k # "UE_RDMA_CONFIG"
      <4>1. <<"UE_RDMA_CONFIG", "mode">> # <<k, f>>
        BY <3>2
      <4> QED BY <1>1, <4>1 DEF DsInv, PartialLoadIsPrefix, GroupDone
    <3> QED BY <3>1, <3>2
  <2>3. (\E row \in DOMAIN appl_db' : row[1] \in Interfaces \/ row[2] = "prefix") =>
          \A g \in other_tables.af : FamilyDone(g)
    <3> SUFFICES ASSUME NEW row \in DOMAIN appl_db', row[1] \in Interfaces \/ row[2] = "prefix",
                        NEW g \in other_tables.af
                 PROVE  FamilyDone(g)
      OBVIOUS
    <3>1. CASE row = <<k, f>>
      <4>1. stage \in {"interface", "ecmp"}
        BY <3>1
      <4> QED BY <4>1 DEF DsInv, Progress
    <3>2. CASE row # <<k, f>>
      BY <1>1, <3>2 DEF DsInv, PartialLoadIsPrefix, FamilyDone
    <3> QED BY <3>1, <3>2
  <2>4. /\ <<"UE_RDMA_CONFIG", "mode">> \in DOMAIN appl_db' =>
             \A g \in DOMAIN other_tables.groups : GroupDone(g)'
        /\ (\E row \in DOMAIN appl_db' : row[1] \in Interfaces \/ row[2] = "prefix") =>
             \A g \in other_tables.af : FamilyDone(g)'
    BY <1>5, <2>1, <2>2, <2>3
  <2> QED BY <1>2, <2>4 DEF PartialLoadIsPrefix, GroupDone, FamilyDone
<1> QED BY <1>3, <1>4, <1>5, <1>6

\* What the commands of the tables without interfaces write.
LEMMA OtherWrites ==
  ASSUME DsTypeOK, stage # "interface", NEW c \in StageCommands(stage), c.op # "raise"
  PROVE  \E k \in OtherKeys, f \in Fields, v \in BOOLEAN :
           /\ c = Hset(k, f, v)
           /\ k \in Families => v = TRUE
           /\ k = "UE_RDMA_CONFIG" => stage = "rdma"
           /\ f = "prefix" => stage = "ecmp"
<1> USE DEF OtherKeys, Families, Fields
<1>1. stage \in {"idle", "global", "af", "ecmp", "rdma"}
  BY DEF DsTypeOK, Stages
<1>2. CASE stage = "global"
  <2>1. PICK k \in {"UE_GLOBAL_STATE", "UE_TRANSPORT_MODE"}, f \in Fields \ {"prefix"},
             v \in BOOLEAN : c = Hset(k, f, v)
    BY <1>2, CasesOfStages
  <2> QED BY <2>1
<1>3. CASE stage = "af"
  <2>1. PICK family \in Families : c = Hset(family, "enabled", TRUE)
    BY <1>3, CasesOfStages
  <2> QED BY <2>1
<1>4. CASE stage = "ecmp"
  <2>1. c # [op |-> "raise"]
    OBVIOUS
  <2>2. PICK family \in Families : c = Hset(family, "prefix", TRUE)
    BY <1>4, <2>1, CasesOfStages
  <2> QED BY <1>4, <2>2
<1>5. CASE stage = "rdma"
  BY <1>5, CasesOfStages
<1>6. CASE stage = "idle"
  BY <1>6, CasesOfStages
<1> QED BY <1>1, <1>2, <1>3, <1>4, <1>5, <1>6

-----------------------------------------------------------------------------
(* Steps of the load.                                                      *)

LEMMA DsInitially == DsInit => DsInv
<1> SUFFICES ASSUME DsInit PROVE DsInv
  OBVIOUS
<1>1. DsTypeOK
  <2>1. stage \in DOMAIN Stages
    BY DEF DsInit, Stages
  <2>2. 0 \in 0..MaxEdits
    BY DualStackAssumption
  <2> QED BY <2>1, <2>2, EmptyMapType DEF DsInit, DsTypeOK
<1>2. TodoOK /\ WholeOK /\ Progress /\ PartialLoadIsPrefix
  BY EmptyMapType DEF DsInit, TodoOK, WholeOK, Progress, PartialLoadIsPrefix
<1>3. CommandsOK
  BY DEF DsInit, CommandsOK
<1> QED BY <1>1, <1>2, <1>3 DEF DsInv

\* An edit touches nothing the load holds.
LEMMA EditsKeep ==
  ASSUME DsInv, EditGlobal \/ \E i \in Interfaces : EditInterface(i)
  PROVE  DsInv'
<1>1. /\ edits' \in 0..MaxEdits
      /\ UNCHANGED <<other_tables, stage, todo, commands, appl_db, notified, whole>>
  <2>1. Edit
    BY DEF EditInterface, EditGlobal, SetInterface, DeleteInterface, SetGlobal
  <2> QED BY <2>1, DualStackAssumption DEF Edit, load, DsInv, DsTypeOK
<1>2. \A enable \in {"true", "false"}, flags \in SUBSET Versions :
        CliEntry(enable, flags) \in Entries /\ CliGlobal(enable, flags) \in Globals
  <2> SUFFICES ASSUME NEW enable \in {"true", "false"}, NEW flags \in SUBSET Versions
               PROVE  CliEntry(enable, flags) \in Entries /\ CliGlobal(enable, flags) \in Globals
    OBVIOUS
  <2>1. CliVersions(flags) \in VersionLists
    BY DEF CliVersions, VersionLists, Versions
  <2> QED BY <2>1 DEF CliEntry, CliGlobal, Entries, Globals
<1>3. IsMap(interface_table', Interfaces, Entries) /\ IsMap(global_table', {"global"}, Globals)
  <2>1. IsMap(interface_table, Interfaces, Entries) /\ IsMap(global_table, {"global"}, Globals)
    BY DEF DsInv, DsTypeOK
  <2>2. ASSUME NEW i \in Interfaces, NEW entry \in Entries, SetInterface(i, entry)
        PROVE  <1>3!:
    BY <2>1, <2>2, PutType DEF SetInterface
  <2>3. ASSUME NEW i \in Interfaces, DeleteInterface(i) PROVE <1>3!:
    BY <2>1, <2>3, WithoutType DEF DeleteInterface
  <2>4. ASSUME NEW entry \in Globals, SetGlobal(entry) PROVE <1>3!:
    BY <2>1, <2>4, PutType DEF SetGlobal
  <2> QED BY <1>2, <2>2, <2>3, <2>4, DualStackAssumption DEF EditInterface, EditGlobal
<1>4. DsTypeOK'
  BY <1>1, <1>3 DEF DsInv, DsTypeOK
<1> QED BY <1>1, <1>4 DEF DsInv, TodoOK, CommandsOK, Applying, WholeOK, Written, Progress,
           FamilyDone, GroupDone, Has, PartialLoadIsPrefix

\* The cases of Table.
LEMMA CasesOfTables ==
  /\ Table("global") = global_table
  /\ Table("af") = [family \in other_tables.af |-> "enabled"]
  /\ Table("interface") = interface_table
  /\ Table("ecmp") = other_tables.groups
  /\ Table("idle") = EmptyMap
  BY DEF Table

\* With no entry and no command left, a table is done.
LEMMA GetTableKeeps ==
  ASSUME DsInv, GetTable
  PROVE  DsInv'
<1>1. /\ todo = EmptyMap /\ commands = <<>> /\ commands' = <<>>
      /\ stage' = Stages[stage] /\ todo' = Table(stage')
      /\ UNCHANGED <<interface_table, global_table, other_tables, edits, appl_db, notified, whole>>
  BY DEF GetTable, config_db
<1>2. \/ stage = "idle" /\ stage' = "global"
      \/ stage = "global" /\ stage' = "af"
      \/ stage = "af" /\ stage' = "interface"
      \/ stage = "interface" /\ stage' = "ecmp"
      \/ stage = "ecmp" /\ stage' = "rdma"
      \/ stage = "rdma" /\ stage' = "idle"
  BY <1>1 DEF DsInv, DsTypeOK, Stages
<1>3. DsTypeOK'
  <2>1. stage' \in DOMAIN Stages
    BY <1>2 DEF Stages
  <2> QED BY <1>1, <2>1, CasesOfTables DEF DsInv, DsTypeOK
<1>4. TodoOK'
  BY <1>1, <1>2, CasesOfTables DEF DsInv, DsTypeOK, TodoOK
<1>5. CommandsOK'
  BY <1>1 DEF CommandsOK
<1>6. WholeOK' /\ PartialLoadIsPrefix'
  BY <1>1 DEF DsInv, WholeOK, Written, PartialLoadIsPrefix, Has
<1>7. Progress'
  <2>1. Range(commands) = {}
    BY <1>1, RangeOfSequence, EmptySeq
  <2>2. DOMAIN todo = {}
    BY <1>1, EmptyMapType
  <2>3. /\ stage \in {"af", "interface", "ecmp"} => \A f \in other_tables.af : FamilyDone(f)
        /\ stage = "ecmp" => \A f \in DOMAIN other_tables.groups : GroupDone(f)
    BY <2>1, <2>2 DEF DsInv, Progress
  <2>4. \A f : (FamilyDone(f) => FamilyDone(f)') /\ (GroupDone(f) => GroupDone(f)')
    BY <1>1 DEF FamilyDone, GroupDone, Has
  <2>5. /\ stage' = "af" => DOMAIN todo' = other_tables'.af
        /\ stage' = "ecmp" => DOMAIN todo' = DOMAIN other_tables'.groups
    BY <1>1, CasesOfTables
  <2> QED BY <1>1, <1>2, <2>3, <2>4, <2>5 DEF Progress
<1> QED BY <1>3, <1>4, <1>5, <1>6, <1>7 DEF DsInv

\* A load that fails leaves what it has written.
LEMMA AbandonKeeps ==
  ASSUME DsInv, Abandon, UNCHANGED <<config_db, appl_db, notified, whole>>
  PROVE  DsInv'
<1>1. /\ stage' = "idle" /\ todo' = EmptyMap /\ commands' = <<>>
      /\ UNCHANGED <<interface_table, global_table, other_tables, edits, appl_db, notified, whole>>
  BY DEF Abandon, config_db
<1>2. DsTypeOK'
  BY <1>1 DEF DsInv, DsTypeOK, Stages
<1>3. TodoOK' /\ CommandsOK' /\ Progress'
  BY <1>1 DEF TodoOK, CommandsOK, Progress
<1>4. WholeOK' /\ PartialLoadIsPrefix'
  BY <1>1 DEF DsInv, WholeOK, Written, PartialLoadIsPrefix, Has
<1> QED BY <1>2, <1>3, <1>4 DEF DsInv

\* The commands of an entry stand for it among what is still to be done.
LEMMA ApplyEntryKeeps ==
  ASSUME DsInv, NEW key \in DOMAIN todo, ApplyEntry(key)
  PROVE  DsInv'
<1> DEFINE applied == CommandsOf(key, todo[key])
<1>1. /\ commands = <<>> /\ commands' = applied /\ todo' = Without(todo, {key})
      /\ UNCHANGED <<stage, interface_table, global_table, other_tables, edits, appl_db, notified>>
  BY DEF ApplyEntry, config_db
<1>2. /\ DOMAIN todo' = DOMAIN todo \ {key}
      /\ \A k \in DOMAIN todo' : todo'[k] = todo[k]
  BY <1>1 DEF Without, Restrict
<1>3. stage # "idle" /\ stage \in DOMAIN Stages
  BY EmptyMapType DEF DsInv, DsTypeOK
<1>4. /\ DOMAIN whole' \subseteq DOMAIN whole
      /\ \A i \in DOMAIN whole' : whole'[i] = whole[i]
      /\ stage = "interface" /\ commands' # <<>> => key \notin DOMAIN whole'
      /\ IsMap(whole', Interfaces, Entries)
  <2>1. whole' = whole \/ whole' = Without(whole, {key})
    BY DEF ApplyEntry
  <2>2. stage = "interface" /\ commands' # <<>> => whole' = Without(whole, {key})
    BY DEF ApplyEntry
  <2>3. IsMap(whole, Interfaces, Entries)
    BY DEF DsInv, DsTypeOK
  <2>4. IsMap(whole', Interfaces, Entries)
    BY <2>1, <2>3, WithoutType
  <2> HIDE DEF applied
  <2> QED BY <2>1, <2>2, <2>4 DEF Without, Restrict
<1>5. DsTypeOK'
  BY <1>1, <1>3, <1>4 DEF DsInv, DsTypeOK
<1>6. TodoOK'
  <2>1. \A K, V : IsMap(todo, K, V) => IsMap(todo', K, V)
    BY <1>1, WithoutType
  <2> QED BY <1>1, <1>2, <2>1 DEF DsInv, TodoOK
<1>7. WholeOK' /\ PartialLoadIsPrefix'
  BY <1>1, <1>4 DEF DsInv, WholeOK, Written, PartialLoadIsPrefix, Has
<1>8. CASE stage = "interface"
  <2>1. PICK entry \in Entries : entry = todo[key]
    BY <1>8 DEF DsInv, TodoOK, IsMap
  <2>2. key \in Interfaces /\ applied = InterfaceCommands(key, entry)
    BY <1>8, <2>1, CasesOfCommands DEF DsInv, TodoOK, IsMap
  <2> HIDE DEF applied
  <2>3. ASSUME applied = <<>> PROVE CommandsOK'
    BY <1>1, <1>8, <2>3 DEF CommandsOK
  <2>4. ASSUME applied # <<>> PROVE CommandsOK'
    <3>1. PICK body \in Seq(Rows(key, entry)) :
            applied = body \o Notification(key, entry) /\ Range(body) = Rows(key, entry)
      BY <2>2, <2>4, InterfaceCommandsAre
    <3>2. commands' = body \o Notification(key, entry)
      BY <1>1, <3>1
    <3>3. key \notin DOMAIN whole'
      BY <1>1, <1>4, <1>8, <2>4
    <3>4. Applying(key, entry, body)'
      BY <3>1, <3>2, <3>3 DEF Applying
    <3> QED BY <1>1, <1>8, <2>2, <3>4 DEF CommandsOK
  <2>5. CommandsOK'
    BY <2>3, <2>4
  <2>6. Progress'
    BY <1>1, <1>8 DEF DsInv, Progress, FamilyDone, Has
  <2> QED BY <1>5, <1>6, <1>7, <2>5, <2>6 DEF DsInv
<1>9. CASE stage # "interface"
  <2>1. /\ applied \in Seq(StageCommands(stage))
        /\ stage = "af" => Hset(key, "enabled", TRUE) \in Range(applied)
        /\ stage = "ecmp" =>
             \/ other_tables.groups[key] = "bad"
             \/ other_tables.groups[key] = "good" /\ Hset(key, "prefix", TRUE) \in Range(applied)
             \/ [op |-> "raise"] \in Range(applied)
    BY <1>3, <1>9, OtherCommandsAre
  <2>2. CommandsOK'
    BY <1>1, <1>9, <2>1 DEF CommandsOK
  <2>3. Range(commands) = {}
    BY <1>1, RangeOfSequence, EmptySeq
  <2>4. \A f : (FamilyDone(f) => FamilyDone(f)') /\ (GroupDone(f) => GroupDone(f)')
    BY <1>1 DEF FamilyDone, GroupDone, Has
  <2>5. other_tables.groups[key] = "bad" => GroupDone(key)
    BY DEF GroupDone
  <2> HIDE DEF applied
  <2>6. stage = "af" =>
          \A f \in other_tables.af :
            f \in DOMAIN todo' \/ FamilyDone(f)' \/ Hset(f, "enabled", TRUE) \in Range(applied)
    BY <1>2, <2>1, <2>3, <2>4 DEF DsInv, Progress
  <2>7. stage = "ecmp" =>
          \A f \in DOMAIN other_tables.groups :
            \/ f \in DOMAIN todo' \/ GroupDone(f)'
            \/ other_tables.groups[f] = "good" /\ Hset(f, "prefix", TRUE) \in Range(applied)
            \/ [op |-> "raise"] \in Range(applied)
    BY <1>2, <2>1, <2>3, <2>4, <2>5 DEF DsInv, Progress
  <2>8. /\ stage \in {"interface", "ecmp", "rdma"} => \A f \in other_tables.af : FamilyDone(f)'
        /\ stage = "rdma" => \A f \in DOMAIN other_tables.groups : GroupDone(f)'
    BY <2>4 DEF DsInv, Progress
  <2>9. Progress'
    BY <1>1, <2>6, <2>7, <2>8 DEF Progress, applied
  <2> QED BY <1>5, <1>6, <1>7, <2>2, <2>9 DEF DsInv
<1> QED BY <1>8, <1>9

\* One command of an interface: a row, or when all are written the notification.
LEMMA InterfaceCommandKeeps ==
  ASSUME DsInv, stage = "interface", Command
  PROVE  DsInv'
<1>1. commands # <<>> /\ UNCHANGED <<interface_table, global_table, other_tables, edits>>
  BY DEF Command, config_db
<1>2. PICK i \in Interfaces, entry \in Entries : \E b \in Seq(Rows(i, entry)) : Applying(i, entry, b)
  BY <1>1 DEF DsInv, CommandsOK
<1>3. PICK body \in Seq(Rows(i, entry)) : Applying(i, entry, body)
  BY <1>2
<1> DEFINE p == [op |-> "publish", interface |-> i, entry |-> entry]
<1>4. /\ commands = body \o <<p>> /\ i \notin DOMAIN whole
      /\ \A c \in Rows(i, entry) : Written(c) \/ c \in Range(body)
  BY <1>3 DEF Applying, Notification
<1>5. p.op = "publish" /\ p.interface = i /\ p.entry = entry
  OBVIOUS
<1>6. DsTypeOK
  BY DEF DsInv
<1>7. CASE body = <<>>
  <2>1. Head(commands) = p /\ Tail(commands) = <<>>
    <3> HIDE DEF p
    <3> QED BY <1>4, <1>7, HeadBeforeLast
  <2>2. /\ notified' = Put(notified, i, Enabled(entry))
        /\ whole' = Put(whole, i, entry)
        /\ commands' = <<>>
        /\ UNCHANGED <<stage, todo, appl_db>>
    BY <1>5, <2>1 DEF Command
  <2>3. Enabled(entry) \in SUBSET Versions
    BY DEF Enabled
  <2>4. IsMap(notified', Interfaces, SUBSET Versions) /\ IsMap(whole', Interfaces, Entries)
    BY <1>6, <2>2, <2>3, PutType DEF DsTypeOK
  <2>5. DsTypeOK'
    BY <1>1, <1>6, <2>2, <2>4 DEF DsTypeOK
  <2>6. TodoOK' /\ CommandsOK' /\ Progress' /\ PartialLoadIsPrefix'
    BY <1>1, <2>2 DEF DsInv, TodoOK, CommandsOK, Progress, PartialLoadIsPrefix, FamilyDone, Has
  <2>7. WholeOK'
    <3>1. \A c \in Rows(i, entry) : Written(c)'
      <4>1. Range(body) = {}
        BY <1>7, RangeOfSequence
      <4> QED BY <1>4, <2>2, <4>1 DEF Written
    <3>2. ASSUME NEW j \in DOMAIN whole'
          PROVE  /\ j \in DOMAIN notified' /\ notified'[j] = Enabled(whole'[j])
                 /\ \A c \in Rows(j, whole'[j]) : Written(c)'
      <4>1. CASE j = i
        <5>1. whole'[j] = entry /\ notified'[j] = Enabled(entry) /\ j \in DOMAIN notified'
          BY <2>2, <4>1 DEF Put
        <5> QED BY <3>1, <4>1, <5>1
      <4>2. CASE j # i
        <5>1. j \in DOMAIN whole /\ whole'[j] = whole[j]
          BY <2>2, <4>2 DEF Put
        <5>2. /\ j \in DOMAIN notified /\ notified[j] = Enabled(whole[j])
              /\ \A c \in Rows(j, whole[j]) : Written(c)
          BY <5>1 DEF DsInv, WholeOK
        <5>3. j \in DOMAIN notified' /\ notified'[j] = notified[j]
          BY <2>2, <4>2, <5>2 DEF Put
        <5>4. \A c : Written(c) => Written(c)'
          BY <2>2 DEF Written
        <5> QED BY <5>1, <5>2, <5>3, <5>4
      <4> QED BY <4>1, <4>2
    <3> QED BY <3>2 DEF WholeOK
  <2> QED BY <2>5, <2>6, <2>7 DEF DsInv
<1>8. CASE body # <<>>
  <2> DEFINE c == Head(body)
  <2>1. /\ Head(commands) = c /\ c \in Rows(i, entry)
        /\ Tail(body) \in Seq(Rows(i, entry)) /\ Tail(commands) = Tail(body) \o <<p>>
        /\ Range(body) = {c} \cup Range(Tail(body))
    <3> HIDE DEF p
    <3> QED BY <1>4, <1>8, HeadBeforeLast
  <2> HIDE DEF c
  <2>2. /\ c.op = "hset" /\ c.row[1] = i /\ c.row[2] \in Fields \ {"prefix"}
        /\ c.row = <<c.row[1], c.row[2]>> /\ c.value \in BOOLEAN
        /\ \A d \in Rows(i, entry) : d.row = c.row => d.value = c.value
    BY <2>1, RowsAgree
  <2>3. /\ appl_db' = Put(appl_db, c.row, c.value) /\ commands' = Tail(commands)
        /\ UNCHANGED <<stage, todo, notified, whole>>
    BY <2>1, <2>2 DEF Command
  <2>4. PICK f : c.row = <<i, f>> /\ f # "prefix"
    BY <2>2
  <2>5. i \in Keys /\ i \notin Families /\ i # "UE_RDMA_CONFIG"
    BY DualStackAssumption DEF Keys, OtherKeys
  <2>6. /\ \A row \in DOMAIN appl_db' : row[1] \in Keys /\ appl_db'[row] \in BOOLEAN
        /\ WholeOK' /\ PartialLoadIsPrefix'
        /\ \A g \in Families : (FamilyDone(g) => FamilyDone(g)') /\ (GroupDone(g) => GroupDone(g)')
    <3>1. appl_db' = Put(appl_db, <<i, f>>, c.value)
      BY <2>3, <2>4
    <3>2. UNCHANGED <<config_db, stage, notified, whole>>
      BY <1>1, <2>3 DEF config_db
    <3> QED BY <1>4, <2>2, <2>4, <2>5, <3>1, <3>2, WriteUndoesNothing
  <2>7. DsTypeOK'
    BY <1>1, <1>6, <2>3, <2>6 DEF DsTypeOK
  <2>8. TodoOK'
    BY <1>1, <2>3 DEF DsInv, TodoOK
  <2>9. Progress'
    <3>1. other_tables.af \subseteq Families
      BY <1>6, OtherTablesType
    <3> QED BY <1>1, <2>3, <2>6, <3>1 DEF DsInv, Progress
  <2>10. CommandsOK'
    <3>1. (commands = Tail(body) \o Notification(i, entry))'
      BY <2>1, <2>3 DEF Notification
    <3>2. ASSUME NEW d \in Rows(i, entry) PROVE Written(d)' \/ d \in Range(Tail(body))
      <4>1. CASE d.row = c.row
        <5>1. d.value = c.value
          BY <2>2, <4>1
        <5>2. c.row \in DOMAIN appl_db' /\ appl_db'[c.row] = c.value
          BY <2>3 DEF Put
        <5> QED BY <4>1, <5>1, <5>2 DEF Written
      <4>2. CASE d.row # c.row
        <5>1. Written(d) \/ d \in Range(Tail(body))
          BY <1>4, <2>1, <4>2
        <5>2. ASSUME Written(d) PROVE Written(d)'
          BY <2>3, <4>2, <5>2, RowWritten DEF Written
        <5> QED BY <5>1, <5>2
      <4> QED BY <4>1, <4>2
    <3>3. Applying(i, entry, Tail(body))'
      BY <1>4, <2>3, <3>1, <3>2 DEF Applying
    <3> QED BY <2>1, <2>3, <3>3 DEF CommandsOK
  <2> QED BY <2>6, <2>7, <2>8, <2>9, <2>10 DEF DsInv
<1> QED BY <1>7, <1>8

\* One command of another table: what it writes, its entry is done with.
LEMMA OtherCommandKeeps ==
  ASSUME DsInv, stage # "interface", Command
  PROVE  DsInv'
<1> DEFINE c == Head(commands)
           S == StageCommands(stage)
<1>1. commands # <<>> /\ UNCHANGED config_db
  BY DEF Command
<1>2. /\ c \in S /\ Tail(commands) \in Seq(S)
      /\ Range(commands) = {c} \cup Range(Tail(commands))
  <2>1. commands \in Seq(S)
    BY DEF DsInv, CommandsOK
  <2> QED BY <1>1, <2>1, HeadAndTail
<1>3. DsTypeOK /\ stage # "idle"
  BY <1>1 DEF DsInv, DsTypeOK
<1>4. CASE c.op = "raise"
  <2>1. Abandon /\ UNCHANGED <<appl_db, notified, whole>>
    BY <1>4 DEF Command
  <2> QED BY <1>1, <2>1, AbandonKeeps
<1>5. CASE c.op # "raise"
  <2>1. PICK k \in OtherKeys, f \in Fields, v \in BOOLEAN :
          /\ c = Hset(k, f, v)
          /\ k \in Families => v = TRUE
          /\ k = "UE_RDMA_CONFIG" => stage = "rdma"
          /\ f = "prefix" => stage = "ecmp"
    <3> HIDE DEF c
    <3> QED BY <1>2, <1>3, <1>5, OtherWrites
  <2>2. c.op = "hset" /\ c.row = <<k, f>> /\ c.value = v
    <3> HIDE DEF c
    <3> QED BY <2>1 DEF Hset
  <2>3. /\ appl_db' = Put(appl_db, <<k, f>>, v) /\ commands' = Tail(commands)
        /\ UNCHANGED <<stage, todo, notified, whole>>
    BY <2>2 DEF Command
  <2> HIDE DEF c
  <2>4. k \in Keys /\ k \notin Interfaces
    BY DualStackAssumption DEF Keys
  <2>5. k \notin DOMAIN whole
    BY <1>3, <2>4 DEF DsTypeOK, IsMap
  <2>6. /\ \A row \in DOMAIN appl_db' : row[1] \in Keys /\ appl_db'[row] \in BOOLEAN
        /\ WholeOK' /\ PartialLoadIsPrefix'
        /\ \A g \in Families : (FamilyDone(g) => FamilyDone(g)') /\ (GroupDone(g) => GroupDone(g)')
    <3>1. UNCHANGED <<config_db, stage, notified, whole>>
      BY <1>1, <2>3
    <3> QED BY <2>1, <2>3, <2>4, <2>5, <3>1, WriteUndoesNothing
  <2>7. UNCHANGED <<interface_table, global_table, other_tables, edits>>
    BY <1>1 DEF config_db
  <2>8. DsTypeOK'
    BY <1>3, <2>3, <2>6, <2>7 DEF DsTypeOK
  <2>9. TodoOK'
    BY <2>3, <2>7 DEF DsInv, TodoOK
  <2>10. CommandsOK'
    BY <1>2, <2>3 DEF CommandsOK
  <2>11. \A g, field : c = Hset(g, field, TRUE) => Has(g, field, TRUE)'
    <3> SUFFICES ASSUME NEW g, NEW field, c = Hset(g, field, TRUE) PROVE Has(g, field, TRUE)'
      OBVIOUS
    <3>1. <<g, field>> = <<k, f>> /\ v = TRUE
      BY <2>2 DEF Hset
    <3> QED BY <2>3, <3>1 DEF Has, Put
  <2>12. c # [op |-> "raise"]
    BY <1>5
  <2>13. other_tables.af \subseteq Families /\ DOMAIN other_tables.groups \subseteq Families
    BY <1>3, OtherTablesType
  <2>14. stage = "af" =>
           \A g \in other_tables.af :
             g \in DOMAIN todo \/ FamilyDone(g)' \/ Hset(g, "enabled", TRUE) \in Range(Tail(commands))
    BY <1>2, <2>6, <2>11, <2>13 DEF DsInv, Progress, FamilyDone
  <2>15. stage = "ecmp" =>
           \A g \in DOMAIN other_tables.groups :
             \/ g \in DOMAIN todo \/ GroupDone(g)'
             \/ other_tables.groups[g] = "good"
                /\ Hset(g, "prefix", TRUE) \in Range(Tail(commands))
             \/ [op |-> "raise"] \in Range(Tail(commands))
    <3> SUFFICES ASSUME stage = "ecmp", NEW g \in DOMAIN other_tables.groups,
                        g \notin DOMAIN todo, ~GroupDone(g),
                        [op |-> "raise"] \notin Range(Tail(commands))
                 PROVE  \/ GroupDone(g)'
                        \/ other_tables.groups[g] = "good"
                           /\ Hset(g, "prefix", TRUE) \in Range(Tail(commands))
      BY <2>6, <2>13
    <3>1. other_tables.groups[g] = "good" /\ Hset(g, "prefix", TRUE) \in Range(commands)
      BY <1>2, <2>12 DEF DsInv, Progress
    <3>2. CASE Hset(g, "prefix", TRUE) = c
      BY <2>7, <2>11, <3>1, <3>2 DEF GroupDone
    <3> QED BY <1>2, <3>1, <3>2
  <2>16. /\ stage \in {"ecmp", "rdma"} => \A g \in other_tables.af : FamilyDone(g)'
         /\ stage = "rdma" => \A g \in DOMAIN other_tables.groups : GroupDone(g)'
    BY <2>6, <2>13 DEF DsInv, Progress
  <2>17. Progress'
    BY <2>3, <2>7, <2>14, <2>15, <2>16 DEF Progress
  <2> QED BY <2>6, <2>8, <2>9, <2>10, <2>17 DEF DsInv
<1> QED BY <1>4, <1>5

(***************************************************************************)
(* The dual-stack manager, its database and the edits, together.           *)
(***************************************************************************)
LEMMA DsStep ==
  ASSUME DsInv, [Next]_vars
  PROVE  DsInv'
<1>1. ASSUME Edits PROVE DsInv'
  BY <1>1, EditsKeep DEF Edits
<1>2. ASSUME Load PROVE DsInv'
  <2>1. CASE Fail
    BY <2>1, AbandonKeeps DEF Fail
  <2> QED BY <1>2, <2>1, GetTableKeeps, ApplyEntryKeeps, InterfaceCommandKeeps,
             OtherCommandKeeps DEF Load
<1>3. ASSUME UNCHANGED ds_vars PROVE DsInv'
  <2>1. /\ UNCHANGED <<interface_table, global_table, other_tables, edits>>
        /\ UNCHANGED <<stage, todo, commands, appl_db, notified, whole>>
    BY <1>3 DEF ds_vars, config_db, load
  <2> QED BY <2>1 DEF DsInv, DsTypeOK, TodoOK, CommandsOK, Applying, WholeOK, Written,
             Progress, FamilyDone, GroupDone, Has, PartialLoadIsPrefix
<1> QED BY <1>1, <1>2, <1>3 DEF Next, vars, HandleGlobal, RestartLlr, HandleInterface

(***************************************************************************)
(* In every reachable state the rows a load vouches for are written or     *)
(* among its commands, and the tables behind its stage are done.           *)
(***************************************************************************)
THEOREM DsInvariant == Spec => []DsInv
<1>1. Init => DsInv
  BY DsInitially DEF Init
<1>2. DsInv /\ [Next]_vars => DsInv'
  BY DsStep
<1> QED BY <1>1, <1>2, PTL DEF Spec

(***************************************************************************)
(* A row of APPL_DB that no load is rewriting is what orchagent was told.  *)
(***************************************************************************)
THEOREM AnnouncedRowsWholeHolds == Spec => []AnnouncedRowsWhole
<1>1. DsInv => AnnouncedRowsWhole
  <2> SUFFICES ASSUME DsInv, NEW i \in DOMAIN whole
               PROVE  /\ Has(i, "enabled", TRUE)
                      /\ \A v \in Versions : Has(i, v, v \in notified[i])
                      /\ \A v \in notified[i] : <<i, PathsField(v)>> \in DOMAIN appl_db
                      /\ MissingPaths(whole[i]) = {} =>
                           \A v \in notified[i] : Has(i, PathsField(v), TRUE)
                      /\ Has(i, "load_balance_mode", TRUE)
    BY DEF AnnouncedRowsWhole
  <2> DEFINE entry == whole[i]
  <2>1. /\ notified[i] = Enabled(entry)
        /\ \A c \in Rows(i, entry) : Written(c)
    BY DEF DsInv, WholeOK
  <2> HIDE DEF entry
  <2>2. \A field, value : Hset(i, field, value) \in Rows(i, entry) => Has(i, field, value)
    <3> SUFFICES ASSUME NEW field, NEW value, Hset(i, field, value) \in Rows(i, entry)
                 PROVE  Has(i, field, value)
      OBVIOUS
    <3>1. Written(Hset(i, field, value))
      BY <2>1
    <3> QED BY <3>1 DEF Written, Hset, Has
  <2>3. Has(i, "enabled", TRUE) /\ Has(i, "load_balance_mode", TRUE)
    BY <2>2 DEF Rows
  <2>4. Has(i, "4", "4" \in Enabled(entry)) /\ Has(i, "6", "6" \in Enabled(entry))
    BY <2>2 DEF Rows
  <2>5. ASSUME NEW v \in Enabled(entry) PROVE Has(i, PathsField(v), v \in entry.max_paths)
    BY <2>2 DEF Rows
  <2>6. \A v \in Versions : Has(i, v, v \in notified[i])
    BY <2>1, <2>4 DEF Versions
  <2>7. \A v \in notified[i] : <<i, PathsField(v)>> \in DOMAIN appl_db
    BY <2>1, <2>5 DEF Has
  <2>8. ASSUME MissingPaths(whole[i]) = {}, NEW v \in notified[i]
        PROVE  Has(i, PathsField(v), TRUE)
    <3>1. v \in Enabled(entry) /\ v \in entry.max_paths
      BY <2>1, <2>8 DEF MissingPaths, entry
    <3>2. (v \in entry.max_paths) = TRUE
      BY <3>1
    <3> QED BY <2>5, <3>1, <3>2
  <2> QED BY <2>3, <2>6, <2>7, <2>8
<1> QED BY <1>1, DsInvariant, PTL

(***************************************************************************)
(* What loads have applied is a prefix of their order, however they end.   *)
(***************************************************************************)
THEOREM PartialLoadIsPrefixHolds == Spec => []PartialLoadIsPrefix
<1>1. DsInv => PartialLoadIsPrefix
  BY DEF DsInv
<1> QED BY <1>1, DsInvariant, PTL
-----------------------------------------------------------------------------
(* The LLR manager.                                                        *)

\* What the model says of the LLR manager and what was proved of it are two
\* instances of one module: their definitions agree.
LEMMA SameOperators ==
  /\ LP!DefaultConfig = LLR!DefaultConfig
  /\ \A entry : LP!Validated(entry) = LLR!Validated(entry)
  /\ LP!CopiedConfig = LLR!CopiedConfig
  /\ LP!ZeroStats = LLR!ZeroStats
  /\ \A s, r, k : LP!UpdatedStats(s, r, k) = LLR!UpdatedStats(s, r, k)
  BY DEF LP!DefaultConfig, LLR!DefaultConfig, LP!Validated, LLR!Validated,
         LP!CopiedConfig, LLR!CopiedConfig, LP!ZeroStats, LLR!ZeroStats,
         LP!UpdatedStats, LLR!UpdatedStats, LP!RetriesRange, LLR!RetriesRange,
         LP!TimeoutRange, LLR!TimeoutRange, LP!WindowSizes, LLR!WindowSizes

LEMMA SameType == LP!TypeOK <=> LLR!TypeOK
  BY DEF LP!TypeOK, LLR!TypeOK, LP!IsMap, LLR!IsMap, LP!GlobalConfigs, LLR!GlobalConfigs,
         LP!InterfaceConfigs, LLR!InterfaceConfigs, LP!LLRStats, LLR!LLRStats,
         LP!RetriesRange, LLR!RetriesRange, LP!TimeoutRange, LLR!TimeoutRange,
         LP!WindowSizes, LLR!WindowSizes

LEMMA SameInit == LP!Init <=> LLR!Init
  BY DEF LP!Init, LLR!Init, LP!DefaultConfig, LLR!DefaultConfig, LP!EmptyMap, LLR!EmptyMap

LEMMA SameForget == (LP!ForgetMemory <=> LLR!ForgetMemory) /\ (LP!Restart <=> LLR!Restart)
  BY SameOperators DEF LP!ForgetMemory, LLR!ForgetMemory, LP!Restart, LLR!Restart,
     LP!EmptyMap, LLR!EmptyMap

LEMMA SameInterfaceActions ==
  ASSUME NEW i
  PROVE  /\ LP!EnableInterfaceLLR(i) <=> LLR!EnableInterfaceLLR(i)
         /\ LP!DisableInterfaceLLR(i) <=> LLR!DisableInterfaceLLR(i)
         /\ \A llr, ue : LP!ProcessInterfaceConfig(i, llr, ue) <=> LLR!ProcessInterfaceConfig(i, llr, ue)
<1>1. \A m, k, v : LP!Put(m, k, v) = LLR!Put(m, k, v)
  BY DEF LP!Put, LLR!Put
<1>2. \A m, n : LP!PutAll(m, n) = LLR!PutAll(m, n)
  BY DEF LP!PutAll, LLR!PutAll
<1>3. \A m, keys : LP!Without(m, keys) = LLR!Without(m, keys)
  BY DEF LP!Without, LLR!Without, LP!Restrict, LLR!Restrict
<1>4. LP!EnableInterfaceLLR(i) <=> LLR!EnableInterfaceLLR(i)
  BY <1>1, <1>2, SameOperators DEF LP!EnableInterfaceLLR, LLR!EnableInterfaceLLR,
     LP!Applied, LLR!Applied, LP!StatsReset, LLR!StatsReset
<1>5. LP!DisableInterfaceLLR(i) <=> LLR!DisableInterfaceLLR(i)
  BY <1>3 DEF LP!DisableInterfaceLLR, LLR!DisableInterfaceLLR, LP!RowsWithout, LLR!RowsWithout
<1> QED BY <1>4, <1>5 DEF LP!ProcessInterfaceConfig, LLR!ProcessInterfaceConfig
LEMMA SameGlobalActions ==
  ASSUME NEW entry
  PROVE  /\ LP!ProcessLLRConfig(entry) <=> LLR!ProcessLLRConfig(entry)
         /\ LP!DieInLLRConfig(entry) <=> LLR!DieInLLRConfig(entry)
<1>1. \A m, n : LP!PutAll(m, n) = LLR!PutAll(m, n)
  BY DEF LP!PutAll, LLR!PutAll
<1>2. \A m, keys : LP!Without(m, keys) = LLR!Without(m, keys)
  BY DEF LP!Without, LLR!Without, LP!Restrict, LLR!Restrict
<1>3. \A config : LP!EnableGlobalLLR(config) <=> LLR!EnableGlobalLLR(config)
  BY <1>1 DEF LP!EnableGlobalLLR, LLR!EnableGlobalLLR, LP!Applied, LLR!Applied,
     LP!Written, LLR!Written
<1>4. LP!GlobalDisabled <=> LLR!GlobalDisabled
  BY DEF LP!GlobalDisabled, LLR!GlobalDisabled
<1>5. \A visited, readable : LP!LoopSurvives(visited, readable) <=> LLR!LoopSurvives(visited, readable)
  BY <1>2 DEF LP!LoopSurvives, LLR!LoopSurvives, LP!RowsWithout, LLR!RowsWithout
<1>6. \A deleted, gone : LP!LoopDies(deleted, gone) <=> LLR!LoopDies(deleted, gone)
  BY <1>2, SameForget DEF LP!LoopDies, LLR!LoopDies
<1>7. LP!DisableGlobalLLR <=> LLR!DisableGlobalLLR
  BY <1>4, <1>5, Zenon DEF LP!DisableGlobalLLR, LLR!DisableGlobalLLR
<1>8. LP!ProcessLLRConfig(entry) <=> LLR!ProcessLLRConfig(entry)
  BY <1>3, <1>7, SameOperators DEF LP!ProcessLLRConfig, LLR!ProcessLLRConfig
<1>9. LP!DieInLLRConfig(entry) <=> LLR!DieInLLRConfig(entry)
  <2>1. LP!EmptyMap = LLR!EmptyMap
    BY DEF LP!EmptyMap, LLR!EmptyMap
  <2> QED BY <1>4, <1>6, <2>1, SameOperators DEF LP!DieInLLRConfig, LLR!DieInLLRConfig
<1> QED BY <1>8, <1>9

LEMMA SamePeriodicTask == LP!DoPeriodicTask <=> LLR!DoPeriodicTask
<1>1. \A m, n : LP!PutAll(m, n) = LLR!PutAll(m, n)
  BY DEF LP!PutAll, LLR!PutAll
<1> QED BY <1>1, SameOperators, Zenon DEF LP!DoPeriodicTask, LLR!DoPeriodicTask

LEMMA SameStep == [LP!Next]_(LP!vars) <=> [LLR!Next]_(LLR!vars)
<1>1. LP!vars = LLR!vars
  BY DEF LP!vars, LLR!vars, LP!memory, LLR!memory, LP!databases, LLR!databases
<1>2. LP!ClockStep <=> LLR!ClockStep
  BY DEF LP!ClockStep, LLR!ClockStep, LP!databases, LLR!databases
<1>3. LP!Next <=> LLR!Next
  BY <1>2, SameGlobalActions, SameInterfaceActions, SamePeriodicTask, SameForget
     DEF LP!Next, LLR!Next
<1> QED BY <1>1, <1>3 DEF LP!vars, LLR!vars, LP!memory, LLR!memory, LP!databases, LLR!databases

\* A step of the configuration plane is one of the LLR manager, or leaves it alone.
LEMMA LlrStep ==
  ASSUME DsTypeOK, [Next]_vars
  PROVE  [LLR!Next]_(LLR!vars)
<1>1. CASE UNCHANGED llr_state
  BY <1>1 DEF llr_state, LLR!vars, LLR!memory, LLR!databases
<1>2. CASE HandleGlobal
  BY <1>2 DEF HandleGlobal, LLR!Next
<1>3. CASE RestartLlr
  BY <1>3 DEF RestartLlr, LLR!Next
<1>4. ASSUME NEW i \in Interfaces, HandleInterface(i)
      PROVE  [LLR!Next]_(LLR!vars)
  <2>1. CASE i \in DOMAIN interface_table
    <3>1. interface_table[i].llr_enable \in {"true", "false", "absent"}
          /\ (interface_table[i].ue_enable = "true") \in BOOLEAN
      BY <2>1 DEF DsTypeOK, IsMap, Entries
    <3>2. CASE Decides(interface_table[i])
      <4>1. LLR!ProcessInterfaceConfig(i, interface_table[i].llr_enable,
                                       interface_table[i].ue_enable = "true")
        BY <1>4, <2>1, <3>2 DEF HandleInterface
      <4> DEFINE ue == interface_table[i].ue_enable = "true"
      <4>2. ue \in BOOLEAN /\ LLR!ProcessInterfaceConfig(i, interface_table[i].llr_enable, ue)
        BY <3>1, <4>1
      <4> HIDE DEF ue
      <4> QED BY <3>1, <4>2 DEF LLR!Next
    <3> QED BY <1>1, <1>4, <2>1, <3>2 DEF HandleInterface
  <2>2. CASE i \notin DOMAIN interface_table
    <3>1. LLR!ProcessInterfaceConfig(i, "false", TRUE)
      BY <1>4, <2>2 DEF HandleInterface, LLR!ProcessInterfaceConfig
    <3> QED BY <3>1 DEF LLR!Next
  <2> QED BY <2>1, <2>2
<1>5. [Next]_vars => \/ UNCHANGED llr_state \/ HandleGlobal \/ RestartLlr
                     \/ \E i \in Interfaces : HandleInterface(i)
  BY DEF Next, vars, llr_vars
<1> QED BY <1>1, <1>2, <1>4, <1>5, <1>3

(***************************************************************************)
(* The configuration plane implements the LLR manager: whatever the tables *)
(* hold when a notification is handled, processInterfaceConfig does one of *)
(* the things it was checked for by itself.                                *)
(***************************************************************************)
THEOREM ImplementsLlrManager == Spec => LLR!Spec
<1>1. Init => LLR!Init
  BY DEF Init
<1>2. DsTypeOK /\ [Next]_vars => [LLR!Next]_(LLR!vars)
  BY LlrStep
<1>3. DsInv => DsTypeOK
  BY DEF DsInv
<1> QED BY <1>1, <1>2, <1>3, DsInvariant, PTL DEF Spec, LLR!Spec

(***************************************************************************)
(* So that what was proved of the LLR manager holds here: its types, and   *)
(* the relations of APPL_DB, STATE_DB and memory.                          *)
(***************************************************************************)
THEOREM LlrManagerHolds ==
  Spec => [](LLR!TypeOK /\ LLR!AppliedWhenEnabled /\ LLR!GlobalPublished
             /\ LLR!ConfiguredHaveStats /\ LLR!OrphansExplained)
<1>1. LLR!Spec => LP!Spec
  BY SameInit, SameStep, PTL DEF LLR!Spec, LP!Spec
<1>2. LP!Spec => [](LP!TypeOK /\ LP!AppliedWhenEnabled /\ LP!GlobalPublished
                    /\ LP!ConfiguredHaveStats /\ LP!OrphansExplained)
  BY LP!TypeCorrect, LP!EnabledIsApplied, LP!EnabledIsPublished, LP!StatsAreKept,
     LP!NoUnexplainedOrphans, LlrAssumption, PTL
<1>3. /\ LP!AppliedWhenEnabled => LLR!AppliedWhenEnabled
      /\ LP!GlobalPublished => LLR!GlobalPublished
      /\ LP!ConfiguredHaveStats => LLR!ConfiguredHaveStats
      /\ LP!OrphansExplained => LLR!OrphansExplained
      /\ LP!TypeOK => LLR!TypeOK
  BY SameType DEF LP!AppliedWhenEnabled, LLR!AppliedWhenEnabled, LP!GlobalPublished,
     LLR!GlobalPublished, LP!ConfiguredHaveStats, LLR!ConfiguredHaveStats,
     LP!OrphansExplained, LLR!OrphansExplained
<1> QED BY <1>1, <1>2, <1>3, ImplementsLlrManager, PTL

(***************************************************************************)
(* The type invariant of both readers: only known versions are announced,  *)
(* only validated settings are in force.                                   *)
(***************************************************************************)
THEOREM TypeCorrect == Spec => []TypeOK
<1> DEFINE Marks == pending \cup forgotten \subseteq Interfaces
<1>1. Init => Marks
  BY DEF Init
<1>2. DsTypeOK /\ LLR!TypeOK /\ Marks /\ [Next]_vars => Marks'
  <2> SUFFICES ASSUME DsTypeOK, LLR!TypeOK, Marks, [Next]_vars PROVE Marks'
    OBVIOUS
  <2>1. DOMAIN m_llr_interfaces \subseteq Interfaces
    BY DEF LLR!TypeOK, LLR!IsMap
  <2>2. CASE Edits /\ UNCHANGED <<reader, llr_state, forgotten>>
    BY <2>2 DEF Edits
  <2>3. CASE HandleGlobal
    BY <2>1, <2>3 DEF HandleGlobal, Dropped
  <2>4. CASE \E i \in Interfaces : HandleInterface(i)
    BY <2>4 DEF HandleInterface
  <2>5. CASE UNCHANGED llr_vars
    BY <2>5 DEF llr_vars
  <2>6. CASE RestartLlr
    BY <2>6 DEF RestartLlr, DsTypeOK, IsMap
  <2> QED BY <2>2, <2>3, <2>4, <2>5, <2>6 DEF Next, vars
<1>3. DsInv /\ LLR!TypeOK /\ Marks => TypeOK
  BY DEF DsInv, TypeOK
<1>4. DsInv => DsTypeOK
  BY DEF DsInv
<1> QED BY <1>1, <1>2, <1>3, <1>4, DsInvariant, LlrManagerHolds, PTL DEF Spec

-----------------------------------------------------------------------------
(* The table and the LLR manager.                                          *)

\* What one step does of the interfaces configured.
LEMMA ConfiguredByHandling ==
  ASSUME NEW i \in Interfaces, HandleInterface(i)
  PROVE  /\ \A j : j # i => (j \in DOMAIN m_llr_interfaces' <=> j \in DOMAIN m_llr_interfaces)
         /\ i \notin DOMAIN interface_table => i \notin DOMAIN m_llr_interfaces'
         /\ i \in DOMAIN interface_table /\ Decides(interface_table[i]) =>
              (i \in DOMAIN m_llr_interfaces' <=> interface_table[i].llr_enable = "true")
<1>1. ASSUME LLR!EnableInterfaceLLR(i)
      PROVE  DOMAIN m_llr_interfaces' = DOMAIN m_llr_interfaces \cup {i}
  BY <1>1 DEF LLR!EnableInterfaceLLR, LLR!Put
<1>2. ASSUME LLR!DisableInterfaceLLR(i)
      PROVE  DOMAIN m_llr_interfaces' = DOMAIN m_llr_interfaces \ {i}
  BY <1>2 DEF LLR!DisableInterfaceLLR, LLR!Without, LLR!Restrict
<1>3. CASE i \notin DOMAIN interface_table
  BY <1>2, <1>3 DEF HandleInterface
<1>4. CASE i \in DOMAIN interface_table /\ ~Decides(interface_table[i])
  BY <1>4 DEF HandleInterface, llr_state
<1>5. CASE i \in DOMAIN interface_table /\ Decides(interface_table[i])
  <2>1. IF interface_table[i].llr_enable = "true"
        THEN LLR!EnableInterfaceLLR(i) ELSE LLR!DisableInterfaceLLR(i)
    BY <1>5 DEF HandleInterface, LLR!ProcessInterfaceConfig
  <2>2. CASE interface_table[i].llr_enable = "true"
    BY <1>1, <1>5, <2>1, <2>2
  <2>3. CASE interface_table[i].llr_enable # "true"
    BY <1>2, <1>5, <2>1, <2>3
  <2> QED BY <2>2, <2>3
<1> QED BY <1>3, <1>4, <1>5

LEMMA ConfiguredAfterRestart ==
  ASSUME RestartLlr
  PROVE  DOMAIN m_llr_interfaces' = {}
<1>1. LLR!ForgetMemory
  BY DEF RestartLlr, LLR!Restart, LLR!DieInLLRConfig, LLR!LoopDies
<1> QED BY <1>1 DEF LLR!ForgetMemory, LLR!EmptyMap

LEMMA ConfiguredByGlobal ==
  ASSUME HandleGlobal
  PROVE  DOMAIN m_llr_interfaces' \subseteq DOMAIN m_llr_interfaces
<1>1. ASSUME NEW visited, NEW readable, LLR!LoopSurvives(visited, readable)
      PROVE  DOMAIN m_llr_interfaces' \subseteq DOMAIN m_llr_interfaces
  BY <1>1 DEF LLR!LoopSurvives, LLR!Without, LLR!Restrict
<1>2. ASSUME LLR!DisableGlobalLLR
      PROVE  DOMAIN m_llr_interfaces' \subseteq DOMAIN m_llr_interfaces
  BY <1>1, <1>2 DEF LLR!DisableGlobalLLR
<1>3. ASSUME NEW entry \in LlrEntries, LLR!ProcessLLRConfig(entry)
      PROVE  DOMAIN m_llr_interfaces' \subseteq DOMAIN m_llr_interfaces
  BY <1>2, <1>3 DEF LLR!ProcessLLRConfig, LLR!EnableGlobalLLR
<1> QED BY <1>3 DEF HandleGlobal

\* An edit announces the interface it changes.
LEMMA EditsAnnounce ==
  ASSUME Edits, NEW j \in Interfaces \ pending'
  PROVE  /\ j \in Interfaces \ pending
         /\ j \in DOMAIN interface_table' <=> j \in DOMAIN interface_table
         /\ j \in DOMAIN interface_table => interface_table'[j] = interface_table[j]
<1> DEFINE Same == /\ j \in Interfaces \ pending
                   /\ j \in DOMAIN interface_table' <=> j \in DOMAIN interface_table
                   /\ j \in DOMAIN interface_table => interface_table'[j] = interface_table[j]
<1>1. ASSUME NEW i \in Interfaces, EditInterface(i), pending' = pending \cup {i}
      PROVE  Same
  <2>1. j # i
    BY <1>1
  <2>2. ASSUME NEW entry, SetInterface(i, entry)
        PROVE  Same
    BY <1>1, <2>1, <2>2 DEF SetInterface, Put
  <2>3. ASSUME DeleteInterface(i)
        PROVE  Same
    BY <1>1, <2>1, <2>3 DEF DeleteInterface, Without, Restrict
  <2> QED BY <1>1, <2>2, <2>3 DEF EditInterface
<1>2. ASSUME EditGlobal, UNCHANGED pending
      PROVE  Same
  BY <1>2 DEF EditGlobal, SetGlobal
<1> QED BY <1>1, <1>2 DEF Edits

(***************************************************************************)
(* An entry whose notification was handled is obeyed, whatever was written *)
(* in between and however often the process died, but for a global         *)
(* disable.                                                                *)
(***************************************************************************)
THEOREM LlrFollowsTableHolds == Spec => []LlrFollowsTable
<1>1. Init => LlrFollowsTable
  BY DEF Init, DsInit, EmptyMap, LlrFollowsTable, LLR!Init, LLR!EmptyMap
<1>2. LlrFollowsTable /\ [Next]_vars => LlrFollowsTable'
  <2> SUFFICES ASSUME LlrFollowsTable, [Next]_vars, NEW j \in Interfaces \ pending'
               PROVE  /\ j \notin DOMAIN interface_table' => j \notin DOMAIN m_llr_interfaces'
                      /\ j \in DOMAIN interface_table' =>
                           LET entry == interface_table'[j]
                           IN  /\ entry.llr_enable = "true" =>
                                    j \in DOMAIN m_llr_interfaces' \cup forgotten'
                               /\ entry.llr_enable # "true"
                                  /\ (entry.llr_enable = "false" \/ entry.ue_enable = "true")
                                    => j \notin DOMAIN m_llr_interfaces'
    BY DEF LlrFollowsTable
  <2>1. CASE Edits /\ UNCHANGED <<reader, llr_state, forgotten>>
    BY <2>1, EditsAnnounce DEF LlrFollowsTable, llr_state
  <2>2. CASE HandleGlobal
    <3>1. UNCHANGED <<interface_table, pending>>
      BY <2>2 DEF HandleGlobal, ds_vars, config_db
    <3>2. forgotten' = forgotten \cup (DOMAIN m_llr_interfaces \ DOMAIN m_llr_interfaces')
      BY <2>2 DEF HandleGlobal, Dropped
    <3> QED BY <2>2, <3>1, <3>2, ConfiguredByGlobal DEF LlrFollowsTable
  <2>3. ASSUME NEW i \in Interfaces, HandleInterface(i)
        PROVE  LlrFollowsTable'
    <3>1. /\ UNCHANGED interface_table
          /\ pending' = pending \ {i} /\ forgotten' = forgotten \ {i}
      BY <2>3 DEF HandleInterface, ds_vars, config_db
    <3>2. /\ \A k : k # i => (k \in DOMAIN m_llr_interfaces' <=> k \in DOMAIN m_llr_interfaces)
          /\ i \notin DOMAIN interface_table => i \notin DOMAIN m_llr_interfaces'
          /\ i \in DOMAIN interface_table /\ Decides(interface_table[i]) =>
               (i \in DOMAIN m_llr_interfaces' <=> interface_table[i].llr_enable = "true")
      BY <2>3, ConfiguredByHandling
    <3> QED BY <3>1, <3>2 DEF LlrFollowsTable, Decides
  <2>4. CASE Load /\ UNCHANGED llr_vars
    <3>1. UNCHANGED interface_table
      BY <2>4 DEF Load, GetTable, ApplyEntry, Command, Fail, config_db
    <3> QED BY <2>4, <3>1 DEF LlrFollowsTable, llr_vars, llr_state
  <2>5. CASE UNCHANGED vars
    BY <2>5 DEF LlrFollowsTable, vars, ds_vars, config_db, llr_vars, llr_state
  <2>6. CASE LlrFollowsTable'
    BY <2>6 DEF LlrFollowsTable
  <2>7. CASE RestartLlr
    <3>1. UNCHANGED interface_table /\ pending' = DOMAIN interface_table
      BY <2>7 DEF RestartLlr, ds_vars, config_db
    <3> QED BY <2>7, <3>1, ConfiguredAfterRestart
  <2> QED BY <2>1, <2>2, <2>3, <2>4, <2>5, <2>6, <2>7 DEF Next
<1> QED BY <1>1, <1>2, PTL DEF Spec

=============================================================================
