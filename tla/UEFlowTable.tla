----------------------------- MODULE UEFlowTable -----------------------------
(***************************************************************************)
(* What the flow manager promises its clients, without its clock, its      *)
(* settings or its two tables: a flow is tracked with one packet counter,  *)
(* and STATE_DB shows copies of counters, taken all at once, which leave   *)
(* with their flow.  Only a crash may leave a row whose flow is gone.      *)
(***************************************************************************)
EXTENDS Integers, UEMaps

CONSTANT Ids   \* the flows a packet can belong to

VARIABLES
  tracked,   \* map from a tracked flow to the packets counted for it
  shown      \* map from a flow to the count a reader of STATE_DB sees

Init == tracked = EmptyMap /\ shown = EmptyMap

\* A flow is tracked from now on.
Track(id) ==
  /\ id \notin DOMAIN tracked
  /\ tracked' = Put(tracked, id, 0)
  /\ UNCHANGED shown

\* A packet is counted, of a flow already tracked or of one it opens.
Count(id) ==
  /\ tracked' = Put(tracked, id,
                    (IF id \in DOMAIN tracked THEN tracked[id] ELSE 0) + 1)
  /\ UNCHANGED shown

\* Flows are forgotten, their rows with them, after a report or without one.
Maintain(report, ids) ==
  /\ tracked' = Without(tracked, ids)
  /\ shown' = Without(IF report THEN PutAll(shown, tracked) ELSE shown, ids)

\* Every counter is lost, every row stays.
Crash == tracked' = EmptyMap /\ UNCHANGED shown

Next ==
  \/ \E id \in Ids : Track(id) \/ Count(id)
  \/ \E report \in BOOLEAN, ids \in SUBSET Ids : Maintain(report, ids)
  \/ Crash

Spec == Init /\ [][Next]_<<tracked, shown>>
=============================================================================
