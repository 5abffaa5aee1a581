--------------------------- MODULE UEConnectionPool ---------------------------
(***************************************************************************)
(* The pool of ephemeral RDMA connections of an endpoint: the look-up      *)
(* (ue_get_ephemeral_conn and its dual-stack version _v2) and the write    *)
(* that calls it.  The look-up offers the first connection to the          *)
(* destination whose timeout has not passed on a clock that wraps, and     *)
(* only then, with no lock, stamps it with the time.  A write that finds   *)
(* none has one created.  No code takes an expired connection off the list.*)
(*                                                                         *)
(* Creation and posting are not in the repository: a new connection joins  *)
(* the list at either end, with the time of its creation, or there is      *)
(* none.  A destination is address, port and version together.             *)
(***************************************************************************)
EXTENDS Integers, Sequences, FiniteSets, SequencesExt

CONSTANTS
  Senders,        \* threads writing through the endpoint
  Unchecked,      \* those that use ue_rdma_write_immediate, not _v2
  Destinations,
  HalfRange,      \* half the range of the clock, 2^63 for a 64-bit one
  ConnTimeout,    \* UE_CONN_TIMEOUT
  MaxConns        \* UE_MAX_CONNECTIONS

ASSUME PoolAssumption ==
  /\ IsFiniteSet(Senders) /\ Unchecked \subseteq Senders
  /\ HalfRange \in Nat /\ ConnTimeout \in Nat
  /\ 0 < ConnTimeout /\ ConnTimeout < HalfRange
  /\ MaxConns \in Nat

VARIABLES
  jiffies,
  active_conns,   \* sequence of connections
  doing           \* what each sender is in the middle of

vars == <<jiffies, active_conns, doing>>

-----------------------------------------------------------------------------
(* The clock.                                                              *)

Clock == 0..(2 * HalfRange - 1)

\* a + d and a - b on the clock.
Later(a, d) == IF a + d < 2 * HalfRange THEN a + d ELSE a + d - 2 * HalfRange
Elapsed(a, b) == IF a < b THEN a - b + 2 * HalfRange ELSE a - b

\* The macro time_before: the difference is negative as a signed number.  The
\* slip for mutation compares the two as they are.
ComparedUnsigned(a, b) == a < b
TimeBefore(a, b) == Elapsed(a, b) >= HalfRange

-----------------------------------------------------------------------------
(* Connections.  "idle" is history: the time since the connection was last *)
(* used, or Lapsed, for good, once that was too long for the clock to tell.*)

Lapsed == HalfRange + ConnTimeout
Conns == [id : Nat, remote : Destinations, last_activity : Clock, idle : 0..Lapsed]

Aged(c) == [c EXCEPT !.idle = IF @ = Lapsed THEN Lapsed ELSE @ + 1]
Stamped(c) ==
  [c EXCEPT !.last_activity = jiffies, !.idle = IF @ = Lapsed THEN Lapsed ELSE 0]

Offered(c) == TimeBefore(jiffies, Later(c.last_activity, ConnTimeout))

Matching(d) ==
  {n \in DOMAIN active_conns : active_conns[n].remote = d /\ Offered(active_conns[n])}

\* The position the look-up stops at.  The slip for mutation looks no further
\* than the head of the list.
HeadOnly(d) == Matching(d) \cap {1}
Found(d) == {n \in Matching(d) : \A k \in Matching(d) : n <= k}

\* The positions stamped.  The slip for mutation stamps all there are for the
\* destination of the connection found.
AllOfDestination(id) ==
  {n \in DOMAIN active_conns :
     \E k \in DOMAIN active_conns :
       active_conns[k].id = id /\ active_conns[n].remote = active_conns[k].remote
       /\ (k = n \/ Offered(active_conns[n]))}
ToStamp(id) == {n \in DOMAIN active_conns : active_conns[n].id = id}

\* The list after a look-up: the walk takes nothing off it.  In the slip for
\* mutation it takes off what has expired, as a pool would, and another sender
\* may hold that.
Pruned(d) == SelectSeq(active_conns, LAMBDA c : c.remote # d \/ Offered(c))
AfterLookUp(d) == active_conns

Idle == <<"idle">>
Finding(id) == <<"found", id>>
Creating(d) == <<"creating", d>>

-----------------------------------------------------------------------------
(* The state machine.                                                      *)

Init ==
  /\ jiffies \in Clock
  /\ active_conns = <<>>
  /\ doing = [s \in Senders |-> Idle]

\* The write looks for a connection.
GetEphemeralConn(s, d) ==
  /\ doing[s] = Idle
  /\ \/ \E n \in Found(d) : doing' = [doing EXCEPT ![s] = Finding(active_conns[n].id)]
     \/ Found(d) = {} /\ doing' = [doing EXCEPT ![s] = Creating(d)]
  /\ active_conns' = AfterLookUp(d)
  /\ UNCHANGED jiffies

\* conn->last_activity = jiffies, and the connection is used.
StampActivity(s) ==
  \E id \in {c.id : c \in ToSet(active_conns)} :
    /\ doing[s] = Finding(id)
    /\ active_conns' = [n \in DOMAIN active_conns |->
         IF n \in ToStamp(id) THEN Stamped(active_conns[n]) ELSE active_conns[n]]
    /\ doing' = [doing EXCEPT ![s] = Idle]
    /\ UNCHANGED jiffies

NewConn(d) == [id |-> Len(active_conns) + 1, remote |-> d,
               last_activity |-> jiffies, idle |-> 0]

CreateTempConnection(s) ==
  \E d \in Destinations :
    /\ doing[s] = Creating(d)
    /\ Len(active_conns) < MaxConns
    /\ active_conns' \in {<<NewConn(d)>> \o active_conns, Append(active_conns, NewConn(d))}
    /\ doing' = [doing EXCEPT ![s] = Idle]
    /\ UNCHANGED jiffies

\* No connection: _v2 returns -ENOMEM, the other one posts on a null pointer,
\* which ends the process and all its threads.
CreateFails(s) ==
  /\ \E d \in Destinations : doing[s] = Creating(d)
  /\ \/ /\ s \notin Unchecked
        /\ doing' = [doing EXCEPT ![s] = Idle]
        /\ UNCHANGED active_conns
     \/ /\ s \in Unchecked
        /\ doing' = [r \in Senders |-> Idle]
        /\ active_conns' = <<>>
  /\ UNCHANGED jiffies

Tick ==
  /\ jiffies' = Later(jiffies, 1)
  /\ active_conns' = [n \in DOMAIN active_conns |-> Aged(active_conns[n])]
  /\ UNCHANGED doing

Next ==
  \/ \E s \in Senders :
       \/ \E d \in Destinations : GetEphemeralConn(s, d)
       \/ StampActivity(s) \/ CreateTempConnection(s) \/ CreateFails(s)
  \/ Tick

Spec == Init /\ [][Next]_vars /\ WF_vars(Tick)

-----------------------------------------------------------------------------
(* Properties.                                                             *)

(***************************************************************************)
(* Every variable has its type.  In particular, a connection that a sender *)
(* has found and not stamped yet is on the list, whatever others do and    *)
(* however long it stops: with no lock and no count of its users, that is  *)
(* all that keeps the stamp from writing to a connection that is gone.     *)
(***************************************************************************)
TypeOK ==
  /\ jiffies \in Clock
  /\ active_conns \in Seq(Conns)
  /\ Len(active_conns) <= MaxConns
  /\ \A s \in Senders :
       \/ doing[s] = Idle
       \/ \E d \in Destinations : doing[s] = Creating(d)
       \/ \E c \in ToSet(active_conns) : doing[s] = Finding(c.id)

(***************************************************************************)
(* The look-up offers a connection exactly when it has been used within    *)
(* the timeout, wherever the clock has wrapped since, up to the one that   *)
(* has been idle for half the range of the clock and a timeout: that one   *)
(* counts as active again.                                                 *)
(***************************************************************************)
ActiveIsRecent ==
  \A n \in DOMAIN active_conns :
    LET c == active_conns[n]
    IN  c.idle # Lapsed => (Offered(c) <=> c.idle < ConnTimeout)

\* Connections to d in use: stamped within the timeout, or found by a sender
\* that has not stamped it yet.
InUse(d) ==
  {c.id : c \in {c \in ToSet(active_conns) :
     /\ c.remote = d /\ c.idle # Lapsed
     /\ c.idle < ConnTimeout \/ \E s \in Senders : doing[s] = Finding(c.id)}}
Creators(d) == {s \in Senders : doing[s] = Creating(d)}

(***************************************************************************)
(* Nothing keeps two senders from creating a connection each for one       *)
(* destination, and a sender that stops between look-up and stamp makes    *)
(* its connection young again when others have replaced it; but however    *)
(* many writes there are, no more connections to a destination are in use  *)
(* or being created than there are senders.                                *)
(***************************************************************************)
InUseWithinSenders ==
  \A d \in Destinations :
    Cardinality(InUse(d)) + Cardinality(Creators(d)) <= Cardinality(Senders)

(***************************************************************************)
(* Duplicates do not last: while time passes there is always a moment to   *)
(* come when at most one connection to a destination is young, since a     *)
(* look-up stamps only the first it finds.                                 *)
(***************************************************************************)
DuplicatesExpire ==
  \A d \in Destinations :
    []<>(Cardinality({n \in DOMAIN active_conns :
           active_conns[n].remote = d /\ active_conns[n].idle < ConnTimeout}) <= 1)
=============================================================================
