--------------------------- MODULE MCPositionSync ---------------------------
(***************************************************************************)
(* Instances of PositionSync for TLC: one reconciliation at a time, and,   *)
(* where a record must agree with the exchange, entries of two lots, so    *)
(* that an exit can be partial.                                            *)
(***************************************************************************)
EXTENDS PositionSync

MCRecs == {"rec"}

\* The four properties that end with amiss need no state after its first event.
Undisturbed == ~amiss

\* Bound: after it, a resync is followed only while no replaced record is in use.
FewRecords ==
  \/ ~amiss
  \/ \A r \in Recs : task[r].pc \in {"idle", "snapped"}
  \/ Cardinality({o \in Objs : obj[o] # Blank}) <= 1
=============================================================================
