---------------------------- MODULE OrderManager ----------------------------
(***************************************************************************)
(* One call of OrderManager (packages/execution), step by step between its *)
(* awaits, against an exchange that accepts, fills and closes orders in    *)
(* its own time: place_entry under the AGGRESSIVE_LIMIT policy and under   *)
(* the LIMIT TTL and reorder policy, place_exit and place_partial_exit,    *)
(* order-timeout recovery, and the reservations that tell reconciliation   *)
(* which orders are the bot's.                                             *)
(*                                                                         *)
(* Quantities are numbers of lots; prices play no part.                    *)
(***************************************************************************)
EXTENDS Integers, FiniteSets, FiniteSetsExt

CONSTANTS
  Qty,       \* requested lots
  Held,      \* lots of the position that an exit reduces
  Keep,      \* fewest lots an aggressive partial fill is kept at (70 %)
  Tries,     \* limit_reorder_attempts + 1
  MaxPolls,  \* polls of an order before its TTL is over
  Faults     \* "error", "timeout": place_order raises that instead of
             \* answering; "cancel": cancel_order raises; "lookup": get_order
             \* finds nothing; "recover": get_open_orders raises in
             \* recover_order; "log": log_order raises in _record_order

ASSUME OrderAssumption ==
  /\ Qty \in Nat \ {0}
  /\ Held \in Nat /\ Held >= Qty
  /\ Keep \in 1..Qty
  /\ Tries \in Nat \ {0}
  /\ MaxPolls \in Nat \ {0}
  /\ Faults \subseteq {"error", "timeout", "cancel", "lookup", "recover", "log"}

\* place_entry's policies, then place_exit and place_partial_exit.
Kinds == {"AGGRESSIVE", "LIMIT", "EXIT", "PARTIAL"}

\* A call places at most this many orders: a LIMIT entry its tries, and the others one
\* of their own and one of place_exit.
MaxOrders == IF Tries > 2 THEN Tries ELSE 2

\* Client order ids: each order draws one, and one more if it is retried.
Cids == 1 .. 2 * MaxOrders

VARIABLES
  kind,      \* the call: one of Kinds
  pc,        \* where the call is suspended, or how it ended
  cid,       \* the request's client_order_id
  tries,     \* orders begun
  polls,     \* polls of the current order
  seen,      \* filled_qty of the last snapshot of the current order
  exit,      \* the first id of place_exit, 0 before it is called
  first,     \* filled_qty of the LIMIT order of a partial exit
  out,       \* filled_qty of the OrderOutcome
  reserved,  \* RuntimeState.pending_order_symbols
  recorded,  \* RuntimeState.orders
  ord,       \* exchange: Cids -> [st, filled, size]
  lost       \* history: ids whose request got no answer and no lookup found,
             \* or whose cancel did not get through

vars == <<kind, pc, cid, tries, polls, seen, exit, first, out, reserved, recorded,
          ord, lost>>

Ended == {"done", "raised"}

TypeOK ==
  /\ kind \in Kinds
  /\ pc \in {"new", "sent", "lookup", "resent", "resolving", "cancelling"} \cup Ended
  /\ cid \in Cids
  /\ tries \in 0..MaxOrders
  /\ polls \in 0..MaxPolls
  /\ seen \in 0..Qty
  /\ exit \in Cids \cup {0}
  /\ first \in 0..Qty
  /\ out \in 0..Qty
  /\ reserved \subseteq Cids
  /\ recorded \subseteq Cids
  /\ lost \subseteq Cids
  /\ ord \in [Cids -> [st : {"none", "sent", "open", "closed"}, filled : 0..Qty,
                       size : 0..Qty]]

Init ==
  /\ kind \in Kinds
  /\ pc = "new"
  /\ cid = 1
  /\ tries = 0
  /\ polls = 0
  /\ seen = 0
  /\ exit = 0
  /\ first = 0
  /\ out = 0
  /\ reserved = {}
  /\ recorded = {}
  /\ ord = [c \in Cids |-> [st |-> "none", filled |-> 0, size |-> 0]]
  /\ lost = {}

-----------------------------------------------------------------------------
(* The exchange.                                                           *)

call == <<kind, pc, cid, tries, polls, seen, exit, first, out>>
books == <<reserved, recorded>>

IsExit(c) == exit # 0 /\ c >= exit
ReduceOnly(c) == kind = "PARTIAL" \/ IsExit(c)

Filled(S) == MapThenSumSet(LAMBDA c : ord[c].filled, S)
Reduced == Filled({c \in Cids : ReduceOnly(c)})
Bought == Filled({c \in Cids : ~ReduceOnly(c)})

\* What the exchange holds of the position.
Position == (IF kind \in {"EXIT", "PARTIAL"} THEN Held ELSE 0) + Bought - Reduced

\* A request that is on its way reaches the matching engine.
Land(c) ==
  /\ ord[c].st = "sent"
  /\ ord' = [ord EXCEPT ![c].st = "open"]
  /\ UNCHANGED <<call, books, lost>>

\* One lot of an open order is executed; a complete order closes.  A reduce-only order
\* reduces the position that there is.
Fill(c) ==
  /\ ord[c].st = "open"
  /\ ReduceOnly(c) => Position > 0
  /\ LET filled == ord[c].filled + 1
     IN  ord' = [ord EXCEPT ![c] = [st |-> IF filled = @.size THEN "closed" ELSE "open",
                                    filled |-> filled, size |-> @.size]]
  /\ UNCHANGED <<call, books, lost>>

\* The rest of an IOC or a MARKET order expires, or a user cancels the order.
Expire(c) ==
  /\ ord[c].st = "open"
  /\ ord' = [ord EXCEPT ![c].st = "closed"]
  /\ UNCHANGED <<call, books, lost>>

-----------------------------------------------------------------------------
(* _place.                                                                 *)

\* Mutant: the request leaves before it is reserved.
Bug_Request(c, size, orders) ==
  /\ cid' = c
  /\ ord' = [orders EXCEPT ![c] = [st |-> "sent", filled |-> 0, size |-> size]]
  /\ reserved' = reserved \ {cid}

\* _reserve_order, then the request leaves.  (The reservation of a request that is
\* repeated with a fresh id is cleared first; of another one it has been cleared.)
Request(c, size, orders) ==
  /\ cid' = c
  /\ ord' = [orders EXCEPT ![c] = [st |-> "sent", filled |-> 0, size |-> size]]
  /\ reserved' = (reserved \ {cid}) \cup {c}

\* The first request of the call.
Submit ==
  /\ pc = "new"
  /\ Request(1, Qty, ord)
  /\ exit' = IF kind = "EXIT" THEN 1 ELSE 0
  /\ tries' = 1
  /\ pc' = "sent"
  /\ UNCHANGED <<kind, polls, seen, first, out, recorded, lost>>

\* place_order answers with identifiers and no fill.
Acknowledged ==
  /\ pc \in {"sent", "resent"}
  /\ ord[cid].st \in {"open", "closed"}
  /\ pc' = "resolving"
  /\ polls' = 0
  /\ seen' = 0
  /\ UNCHANGED <<kind, cid, tries, exit, first, out, books, ord, lost>>

\* Mutant: the reservation is not cleared when place_order raises.
Bug_ClearOnRaise == UNCHANGED reserved

\* The handler of other exceptions clears the reservation; an exception of the
\* retry is raised inside the OrderTimeoutError handler and skips it.
ClearOnRaise == reserved' = IF pc = "sent" THEN reserved \ {cid} ELSE reserved

\* place_order raises.  The exchange refused the request, or the answer was
\* lost ("error"): the gateway's own retry repeats the orderLinkId, which the
\* exchange then refuses as a duplicate.
PlaceRaises ==
  /\ pc \in {"sent", "resent"}
  /\ \/ /\ ord[cid].st = "sent"
        /\ ord' = [ord EXCEPT ![cid].st = "closed"]
        /\ UNCHANGED lost
     \/ /\ "error" \in Faults
        /\ lost' = lost \cup {cid}
        /\ UNCHANGED ord
  /\ ClearOnRaise
  /\ pc' = "raised"
  /\ UNCHANGED <<kind, cid, tries, polls, seen, exit, first, out, recorded>>

\* place_order raises OrderTimeoutError: the request may still land.  In the
\* retry nothing catches it.
PlaceTimesOut ==
  /\ "timeout" \in Faults
  /\ pc \in {"sent", "resent"}
  /\ pc' = IF pc = "sent" THEN "lookup" ELSE "raised"
  /\ lost' = lost \cup {cid}
  /\ UNCHANGED <<kind, cid, tries, polls, seen, exit, first, out, books, ord>>

-----------------------------------------------------------------------------
(* The policies that follow a resolved order.                              *)

\* Mutant: an unfilled LIMIT order is not cancelled.
Bug_Cancels(filled) == exit = 0 /\ filled \in 1..(Qty - 1)

\* The snapshots after which the order is cancelled; place_exit cancels nothing.
Cancels(filled) ==
  /\ exit = 0
  /\ filled < Qty
  /\ kind = "AGGRESSIVE" => filled > 0

\* Mutant: a partial fill is reported as the whole request.
Bug_Reported(filled) == IF filled > 0 THEN Qty ELSE 0

\* The OrderOutcome's filled_qty: the snapshots, of which that of a LIMIT order was
\* taken before its cancel.  An entry that was flattened is rejected.
Reported(filled) ==
  IF kind = "AGGRESSIVE" /\ exit # 0 THEN 0 ELSE first + filled

\* _record_order: the record, which clears the reservation (_register_order), and the
\* log, which may raise; then the cancel or the end of the call.
Resolved(filled) ==
  /\ seen' = filled
  /\ recorded' = recorded \cup {cid}
  /\ reserved' = reserved \ {cid}
  /\ \/ Cancels(filled) /\ pc' = "cancelling" /\ UNCHANGED out
     \/ ~Cancels(filled) /\ pc' = "done" /\ out' = Reported(filled)
     \/ "log" \in Faults /\ pc' = "raised" /\ UNCHANGED out

\* recover_order: the order is looked for among the open orders.  Found, its
\* fill so far is the result; not found, the request is repeated with a fresh
\* id.
Recover ==
  /\ pc = "lookup"
  /\ \/ /\ ord[cid].st = "open"
        /\ Resolved(ord[cid].filled)
        /\ lost' = lost \ {cid}
        /\ UNCHANGED <<cid, ord>>
     \/ /\ ord[cid].st # "open"
        /\ Request(cid + 1, ord[cid].size, ord)
        /\ pc' = "resent"
        /\ UNCHANGED <<seen, recorded, out, lost>>
  /\ UNCHANGED <<kind, tries, polls, exit, first>>

\* recover_order raises, inside the handler of the OrderTimeoutError: nothing clears the
\* reservation.
RecoverRaises ==
  /\ "recover" \in Faults
  /\ pc = "lookup"
  /\ pc' = "raised"
  /\ UNCHANGED <<kind, cid, tries, polls, seen, exit, first, out, books, ord, lost>>

\* Only an aggressive entry is IOC; the market order of an exit has the TTL, too.
IsIoc == kind = "AGGRESSIVE" /\ exit = 0

\* _resolve: one get_order.  An IOC order is taken as it is seen; another order
\* is polled until it is closed or its TTL is over.  A lookup that finds
\* nothing leaves the last snapshot.
Poll ==
  /\ pc = "resolving"
  /\ polls < MaxPolls
  /\ polls' = polls + 1
  /\ \/ IF IsIoc \/ ord[cid].st = "closed" \/ polls + 1 = MaxPolls
        THEN Resolved(ord[cid].filled)
        ELSE seen' = ord[cid].filled /\ UNCHANGED <<pc, out, books>>
     \/ "lookup" \in Faults /\ Resolved(seen)
  /\ UNCHANGED <<kind, cid, tries, exit, first, ord, lost>>

\* What is ordered after the cancel: nothing, an unfilled LIMIT entry again, the exit
\* of a small aggressive fill, or what a partial exit lacks.
NextSize ==
  CASE kind = "LIMIT" -> IF seen = 0 /\ tries < Tries THEN Qty ELSE 0
    [] kind = "AGGRESSIVE" -> IF seen < Keep THEN seen ELSE 0
    [] kind = "PARTIAL" -> Qty - seen

\* _safe_cancel of an order: it gets through or it raises, which is swallowed.
Cancelled(orders) ==
  \/ orders = IF ord[cid].st = "open" THEN [ord EXCEPT ![cid].st = "closed"] ELSE ord
  \/ "cancel" \in Faults /\ orders = ord

\* _safe_cancel, and what follows it: another order, or the return.  A LIMIT entry
\* records the cancelled order in between, whose log may raise.
Cancel ==
  /\ pc = "cancelling"
  /\ \E after \in {ord, [ord EXCEPT ![cid].st = "closed"]} :
       /\ Cancelled(after)
       /\ lost' = IF after[cid].st = "open" THEN lost \cup {cid} ELSE lost
       /\ \/ /\ NextSize > 0
             /\ Request(cid + 1, NextSize, after)
             /\ exit' = IF kind = "LIMIT" THEN 0 ELSE cid + 1
             /\ first' = IF kind = "PARTIAL" THEN seen ELSE 0
             /\ tries' = tries + 1
             /\ pc' = "sent"
             /\ UNCHANGED out
          \/ /\ NextSize = 0
             /\ ord' = after
             /\ pc' = "done" /\ out' = Reported(seen)
             /\ UNCHANGED <<cid, exit, first, reserved, tries>>
          \/ /\ "log" \in Faults
             /\ kind = "LIMIT"
             /\ ord' = after
             /\ pc' = "raised"
             /\ UNCHANGED <<cid, exit, first, reserved, tries, out>>
  /\ UNCHANGED <<kind, polls, seen, recorded>>

-----------------------------------------------------------------------------
Next ==
  \/ \E c \in Cids : Land(c) \/ Fill(c) \/ Expire(c)
  \/ Submit \/ Acknowledged \/ PlaceRaises \/ PlaceTimesOut
  \/ Recover \/ RecoverRaises \/ Poll \/ Cancel

Spec == Init /\ [][Next]_vars

-----------------------------------------------------------------------------
(* Properties.                                                             *)

\* The outcome never claims a fill that the exchange has not made, whatever the partial
\* fills, the retries and the lost answers: stops and exits are sized from an entry's,
\* and an exit's is taken off the record.
NeverOverReports ==
  pc = "done" => out <= IF kind \in {"EXIT", "PARTIAL"} THEN Reduced ELSE Position

\* Every order of the bot that is on its way or open is reserved or recorded,
\* so reconciliation can tell it from a user's order, unless its answer was
\* lost.
KnownWhileOpen ==
  \A c \in Cids \ lost :
    ord[c].st \in {"sent", "open"} => c \in reserved \cup recorded

\* When the call returns, nothing of a LIMIT order or of a kept aggressive fill is left
\* resting, unless its answer or its cancel was lost.
NothingLeftResting ==
  pc = "done" /\ (kind = "AGGRESSIVE" => out > 0)
    => \A c \in Cids \ lost : IsExit(c) \/ ord[c].st # "open"

\* No reservation outlives the call, also when it raises: a leaked one hides the symbol
\* from reconciliation for the rest of the process.  Only an exception inside the handler
\* of the OrderTimeoutError, of the look-up or of the repetition, leaks one: that of the
\* request in hand.
ReservationsReleased ==
  [][pc \notin Ended /\ pc' \in Ended
       => reserved' \subseteq
            IF pc' = "raised" /\ pc \in {"lookup", "resent"} THEN {cid} ELSE {}]_vars

-----------------------------------------------------------------------------
(* What the documentation says and the code does not do.                   *)

\* order_manager.py:208 and engine document 12.3: an order is repeated when 0 %
\* of it was filled.
ReorderOnlyUnfilled ==
  [][kind = "LIMIT" /\ tries' > tries => \A c \in Cids : ord[c].filled = 0]_vars

\* "Partial take profit at 2R: 50 %" (engine document, 14.2).  What the LIMIT order
\* executes between its last poll and its cancel is sold once more.
PartialWithinRequest == kind = "PARTIAL" => Reduced <= Qty

\* Engine document 17.1: after a timeout the order is looked up by its client
\* id, and repeated only if it does not exist.
RetryOnlyMissing ==
  [][(pc = "lookup" /\ pc' = "resent") => ord[cid].filled = 0]_vars

\* The same rule where place_order fails with any other exception, as every
\* lost answer does in the Bybit gateway.
RaisedMeansNoOrder ==
  pc = "raised" => \A c \in Cids : ord[c].filled = 0
=============================================================================
