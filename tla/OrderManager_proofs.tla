------------------------- MODULE OrderManager_proofs -------------------------
(***************************************************************************)
(* What reconciliation relies on: which orders a call of OrderManager has  *)
(* reserved or recorded at each await, and what it leaves in the book; and *)
(* what the position manager relies on: that the fill it is told of was    *)
(* made.  For every quantity, policy and number of tries.                  *)
(***************************************************************************)
EXTENDS OrderManager, FiniteSetTheorems, WellFoundedInduction, TLAPS

\* One order of the exchange, and all of them.
OrderRec == [st : {"none", "sent", "open", "closed"}, filled : 0..Qty, size : 0..Qty]
Orders == ord \in [Cids -> OrderRec]

\* The request in flight, and nothing else, is reserved, up to the record of
\* its order.
Reserving ==
  /\ cid \in Nat /\ tries \in Nat /\ tries <= cid
  /\ pc = "new" => tries = 0
  /\ pc = "resent" => tries < cid
  /\ pc \in {"sent", "lookup", "resent", "resolving"} => reserved = {cid}
  /\ pc \in {"new", "cancelling", "done"} => reserved = {}

\* A request that is looked up has had no answer.
Unanswered == pc = "lookup" => cid \in lost

\* Every order draws at most two ids, and the calls place at most so many orders.
Counting ==
  /\ pc = "new" => cid = 1 /\ exit = 0
  /\ pc # "new" => tries >= 1 /\ cid <= 2 * tries
  /\ pc \in {"sent", "lookup"} => cid < 2 * tries
  /\ tries <= IF kind = "LIMIT" THEN Tries ELSE IF exit = 0 THEN 1 ELSE 2
  /\ kind = "LIMIT" => exit = 0
  /\ kind = "EXIT" /\ pc # "new" => exit # 0
  /\ exit # 0 => exit \in 1..cid
  /\ pc = "cancelling" => exit = 0 /\ Cancels(seen)
  /\ exit = 0 => first = 0

\* Orders are executed up to their sizes, which add up to the request.
Sizing ==
  /\ \A c \in Cids : /\ ord[c].filled <= ord[c].size
                     /\ ord[c].st \in {"sent", "open"} => ord[c].filled < ord[c].size
                     /\ c > cid => ord[c].st = "none"
  /\ pc = "new" => ord[1].st = "none"
  /\ pc # "new" => /\ ord[cid].size >= 1 /\ first + ord[cid].size <= Qty
                   /\ exit = 0 => ord[cid].size = Qty
  /\ pc \in {"resolving", "cancelling"} => ord[cid].st \in {"open", "closed"}
  /\ seen <= ord[cid].filled \/ pc \notin {"resolving", "cancelling"}

\* What may still be in the book besides a lost order: the order in flight, and an order
\* that was not cancelled.
Resting ==
  \A c \in Cids \ lost :
    ord[c].st \in {"sent", "open"} /\ ~IsExit(c)
      => /\ c = cid
         /\ pc = "done" => kind = "AGGRESSIVE" /\ out = 0

IInv ==
  TypeOK /\ Reserving /\ Unanswered /\ Counting /\ Sizing /\ Resting /\ KnownWhileOpen

LEMMA IdBounds ==
  /\ MaxOrders \in Nat /\ MaxOrders >= Tries /\ MaxOrders >= 2
  /\ Qty \in Nat /\ Qty > 0 /\ Tries \in Nat /\ Tries > 0 /\ MaxPolls \in Nat
  /\ Cids \subseteq Nat
  /\ \A i \in Int : i \in Cids <=> 1 <= i /\ i <= 2 * MaxOrders
  BY OrderAssumption DEF MaxOrders, Cids

\* There is an id left for an order that is repeated, and for one that follows another.
LEMMA IdsLeft ==
  ASSUME IInv
  PROVE  /\ cid \in Cids
         /\ pc = "lookup" => cid + 1 \in Cids
         /\ pc = "cancelling" /\ NextSize > 0 => tries + 1 <= MaxOrders /\ cid + 1 \in Cids
<1>1. cid \in Cids /\ cid \in Nat /\ tries \in Nat
  BY DEF IInv, TypeOK, Reserving
<1>2. tries <= MaxOrders
  BY <1>1, IdBounds DEF IInv, Counting
<1>3. pc = "lookup" => cid + 1 \in Cids
  BY <1>1, <1>2, IdBounds DEF IInv, Counting
<1>4. pc = "cancelling" /\ NextSize > 0 => tries + 1 <= MaxOrders
  <2> SUFFICES ASSUME pc = "cancelling", NextSize > 0
               PROVE  tries + 1 <= MaxOrders
    OBVIOUS
  <2>1. kind \in Kinds /\ exit = 0
    BY DEF IInv, TypeOK, Counting
  <2>2. CASE kind = "LIMIT"
    BY <1>1, <2>2, IdBounds DEF NextSize
  <2>3. CASE kind # "LIMIT"
    BY <1>1, <2>1, <2>3, IdBounds DEF IInv, Counting
  <2> QED
    BY <2>2, <2>3
<1> QED
  BY <1>1, <1>2, <1>3, <1>4, IdBounds DEF IInv, Counting

\* A step of the exchange leaves the call alone, executes an open order up to its size,
\* and opens none that was not sent.
LEMMA ExchangeSteps ==
  ASSUME Orders, Sizing, NEW c \in Cids, Land(c) \/ Fill(c) \/ Expire(c)
  PROVE  /\ Orders'
         /\ UNCHANGED <<kind, pc, cid, tries, polls, seen, exit, first, out, reserved,
                        recorded, lost>>
         /\ \A d \in Cids :
              /\ ord'[d].size = ord[d].size
              /\ ord[d].filled <= ord'[d].filled /\ ord'[d].filled <= ord'[d].size
              /\ ord'[d].st \in {"sent", "open"}
                   => ord[d].st \in {"sent", "open"} /\ ord'[d].filled < ord'[d].size
              /\ ord[d].st = "none" => ord'[d].st = "none"
              /\ ord[d].st \in {"open", "closed"} => ord'[d].st \in {"open", "closed"}
<1>1. CASE Land(c)
  BY <1>1, IdBounds DEF Orders, OrderRec, Sizing, Land, call, books
<1>2. CASE Expire(c)
  BY <1>2, IdBounds DEF Orders, OrderRec, Sizing, Expire, call, books
<1>3. CASE Fill(c)
  <2> DEFINE filled == ord[c].filled + 1
             new == [st |-> IF filled = ord[c].size THEN "closed" ELSE "open",
                     filled |-> filled, size |-> ord[c].size]
  <2>1. ord' = [ord EXCEPT ![c] = new] /\ ord[c].st = "open"
    BY <1>3 DEF Fill, Orders
  <2>2. /\ ord[c] \in OrderRec /\ ord[c].filled < ord[c].size
        /\ ord[c].filled \in Nat /\ ord[c].size \in Nat /\ ord[c].size <= Qty
    BY <2>1, IdBounds DEF Orders, OrderRec, Sizing
  <2>3. new \in OrderRec
    BY <2>2, IdBounds DEF OrderRec
  <2>4. /\ new.size = ord[c].size /\ ord[c].filled <= new.filled /\ new.filled <= new.size
        /\ new.st = "open" => new.filled < new.size
        /\ new.st \in {"closed", "open"}
    BY <2>2
  <2>5. UNCHANGED <<kind, pc, cid, tries, polls, seen, exit, first, out, reserved,
                    recorded, lost>>
    BY <1>3 DEF Fill, call, books
  <2> HIDE DEF new
  <2>6. Orders'
    BY <2>1, <2>3 DEF Orders
  <2>7. ord'[c] = new /\ \A d \in Cids \ {c} : ord'[d] = ord[d]
    BY <2>1 DEF Orders
  <2>8. ASSUME NEW d \in Cids
        PROVE  /\ ord'[d].size = ord[d].size
               /\ ord[d].filled <= ord'[d].filled /\ ord'[d].filled <= ord'[d].size
               /\ ord'[d].st \in {"sent", "open"}
                    => ord[d].st \in {"sent", "open"} /\ ord'[d].filled < ord'[d].size
               /\ ord[d].st = "none" => ord'[d].st = "none"
               /\ ord[d].st \in {"open", "closed"} => ord'[d].st \in {"open", "closed"}
    <3>1. CASE d = c
      BY <2>1, <2>4, <2>7, <3>1
    <3>2. CASE d # c
      <4>1. ord'[d] = ord[d] /\ ord[d].filled \in Nat /\ ord[d].filled <= ord[d].size
        BY <2>7, <3>2, IdBounds DEF Orders, OrderRec, Sizing
      <4> QED
        BY <4>1 DEF Sizing
    <3> QED
      BY <3>1, <3>2
  <2> QED
    BY <2>5, <2>6, <2>8
<1> QED
  BY <1>1, <1>2, <1>3

\* The exchange's orders after a request has left.
LEMMA Requests ==
  ASSUME NEW orders \in [Cids -> OrderRec], NEW c \in Cids, NEW size \in 1..Qty,
         Request(c, size, orders)
  PROVE  /\ Orders'
         /\ ord'[c] = [st |-> "sent", filled |-> 0, size |-> size]
         /\ \A d \in Cids \ {c} : ord'[d] = orders[d]
<1>1. [st |-> "sent", filled |-> 0, size |-> size] \in OrderRec
  BY IdBounds DEF OrderRec
<1> QED
  BY <1>1 DEF Request, Orders

-----------------------------------------------------------------------------
LEMMA InitInv == Init => IInv
<1> SUFFICES ASSUME Init PROVE IInv
  OBVIOUS
<1> USE IdBounds DEF Init
<1>0. [st |-> "none", filled |-> 0, size |-> 0]
        \in [st : {"none", "sent", "open", "closed"}, filled : 0..Qty, size : 0..Qty]
  OBVIOUS
<1>1. TypeOK
  BY <1>0 DEF TypeOK, Kinds
<1>2. Reserving /\ Unanswered /\ Counting
  BY DEF Reserving, Unanswered, Counting
<1>3. Sizing
  BY DEF Sizing
<1>4. Resting /\ KnownWhileOpen
  BY DEF Resting, KnownWhileOpen
<1> QED
  BY <1>1, <1>2, <1>3, <1>4 DEF IInv

\* The types, and what else each step has of its state before it.
LEMMA Facts ==
  ASSUME IInv
  PROVE  /\ Orders
         /\ cid \in Cids /\ cid \in Nat /\ tries \in Nat /\ tries <= MaxOrders
         /\ polls \in 0..MaxPolls /\ seen \in 0..Qty /\ exit \in Nat /\ first \in 0..Qty
         /\ ord[cid] \in OrderRec /\ ord[cid].filled \in Nat /\ ord[cid].size \in Nat
         /\ ord[cid].size <= Qty /\ ord[cid].filled <= ord[cid].size
<1>1. Orders /\ cid \in Cids
  BY DEF IInv, TypeOK, Ended, Orders, OrderRec
<1>2. ord[cid] \in OrderRec
  BY <1>1 DEF Orders
<1> QED
  BY <1>1, <1>2, IdBounds DEF IInv, TypeOK, Reserving, Sizing, OrderRec

LEMMA ExchangeInv ==
  ASSUME IInv, NEW c \in Cids, Land(c) \/ Fill(c) \/ Expire(c)
  PROVE  IInv'
<1> USE Facts, ExchangeSteps, IdBounds
<1>0. Orders /\ Sizing
  BY DEF IInv
<1>1. TypeOK'
  BY <1>0 DEF IInv, TypeOK, Ended, Orders, OrderRec
<1>2. Reserving' /\ Unanswered' /\ Counting'
  BY <1>0 DEF IInv, Reserving, Unanswered, Counting, Cancels
<1>3. Sizing'
  <2>1. \A d \in Cids : ord[d].filled \in Nat /\ ord'[d].filled \in Nat
    BY <1>0 DEF Orders, OrderRec
  <2>2. 1 \in Cids
    OBVIOUS
  <2> QED
    BY <1>0, <2>1, <2>2 DEF IInv, Sizing
<1>4. Resting' /\ KnownWhileOpen'
  BY <1>0 DEF IInv, Resting, KnownWhileOpen, IsExit
<1> QED
  BY <1>1, <1>2, <1>3, <1>4 DEF IInv

LEMMA SubmitInv == IInv /\ Submit => IInv'
<1> SUFFICES ASSUME IInv, Submit PROVE IInv'
  OBVIOUS
<1> USE Facts, IdBounds
<1>0. /\ pc = "new" /\ cid = 1 /\ exit = 0 /\ tries = 0 /\ reserved = {} /\ first = 0
      /\ Request(1, Qty, ord) /\ 1 \in Cids
      /\ ord \in [Cids -> OrderRec] /\ Qty \in 1..Qty
  BY DEF Submit, IInv, Counting, Reserving, Orders
<1>1. /\ Orders' /\ ord'[1] = [st |-> "sent", filled |-> 0, size |-> Qty]
      /\ \A d \in Cids \ {1} : ord'[d] = ord[d]
  BY <1>0, Requests
<1>2. /\ cid' = 1 /\ reserved' = {1} /\ tries' = 1 /\ pc' = "sent"
      /\ exit' = (IF kind = "EXIT" THEN 1 ELSE 0) /\ (kind = "LIMIT" => exit' = 0)
      /\ UNCHANGED <<kind, polls, seen, first, out, recorded, lost>>
  BY <1>0 DEF Submit, Request
<1>3. TypeOK'
  BY <1>0, <1>1, <1>2 DEF IInv, TypeOK, Ended, Orders, OrderRec
<1>4. Reserving' /\ Unanswered' /\ Counting'
  BY <1>0, <1>2 DEF Reserving, Unanswered, Counting
<1>5. \A d \in Cids : ord[d].st = "none"
  BY <1>0 DEF IInv, Sizing
<1>6. Sizing'
  BY <1>0, <1>1, <1>2, <1>5 DEF IInv, Sizing
<1>7. Resting' /\ KnownWhileOpen'
  BY <1>1, <1>2, <1>5 DEF Resting, KnownWhileOpen
<1> QED
  BY <1>3, <1>4, <1>6, <1>7 DEF IInv

LEMMA AcknowledgedInv == IInv /\ Acknowledged => IInv'
<1> SUFFICES ASSUME IInv, Acknowledged PROVE IInv'
  OBVIOUS
<1> USE Facts, IdBounds DEF Acknowledged, books
<1>1. TypeOK'
  BY DEF IInv, TypeOK, Ended
<1>2. Reserving' /\ Unanswered' /\ Counting'
  BY DEF IInv, Reserving, Unanswered, Counting
<1>3. Sizing'
  <2>a. ord' = ord /\ cid' = cid /\ exit' = exit /\ first' = first /\ ord[cid].filled >= 0
    OBVIOUS
  <2>b. pc # "new" /\ pc' = "resolving" /\ ord[cid].st \in {"open", "closed"}
    BY DEF IInv, Sizing
  <2>c. seen' <= ord[cid].filled
    OBVIOUS
  <2> QED
    BY <2>a, <2>b, <2>c DEF IInv, Sizing
<1>4. Resting' /\ KnownWhileOpen'
  BY DEF IInv, Resting, KnownWhileOpen, IsExit
<1> QED
  BY <1>1, <1>2, <1>3, <1>4 DEF IInv

LEMMA PlaceRaisesInv == IInv /\ PlaceRaises => IInv'
<1> SUFFICES ASSUME IInv, PlaceRaises PROVE IInv'
  OBVIOUS
<1> USE Facts, IdBounds
<1>0. /\ pc \in {"sent", "resent"} /\ pc' = "raised"
      /\ UNCHANGED <<kind, cid, tries, polls, seen, exit, first, out, recorded>>
      /\ reserved' = IF pc = "sent" THEN reserved \ {cid} ELSE reserved
      /\ \/ ord' = [ord EXCEPT ![cid].st = "closed"] /\ lost' = lost
         \/ ord' = ord /\ lost' = lost \cup {cid}
  BY DEF PlaceRaises, ClearOnRaise
<1>1. /\ Orders'
      /\ ord'[cid].size = ord[cid].size /\ ord'[cid].filled = ord[cid].filled
      /\ (ord' = ord /\ cid \in lost') \/ ord'[cid].st = "closed"
      /\ \A d \in Cids \ {cid} : ord'[d] = ord[d]
  BY <1>0 DEF Orders, OrderRec
<1>2. TypeOK'
  BY <1>0, <1>1 DEF IInv, TypeOK, Ended, Orders, OrderRec
<1>3. Reserving' /\ Unanswered' /\ Counting'
  BY <1>0 DEF IInv, Reserving, Unanswered, Counting
<1>4. Sizing'
  BY <1>0, <1>1 DEF IInv, Sizing
<1>5. /\ lost \subseteq lost'
      /\ \A c \in Cids : ord'[c].st \in {"sent", "open"} => ord[c].st \in {"sent", "open"}
  BY <1>0, <1>1
<1>6. Resting'
  BY <1>0, <1>5 DEF IInv, Resting, IsExit
<1>7. KnownWhileOpen'
  <2> SUFFICES ASSUME NEW c \in Cids \ lost', ord'[c].st \in {"sent", "open"}
               PROVE  c \in reserved' \cup recorded'
    BY DEF KnownWhileOpen
  <2>1. c \in reserved \cup recorded
    BY <1>5 DEF IInv, KnownWhileOpen
  <2>2. c # cid \/ pc = "resent"
    BY <1>0, <1>1
  <2> QED
    BY <1>0, <2>1, <2>2
<1> QED
  BY <1>2, <1>3, <1>4, <1>6, <1>7 DEF IInv

LEMMA PlaceTimesOutInv == IInv /\ PlaceTimesOut => IInv'
<1> SUFFICES ASSUME IInv, PlaceTimesOut PROVE IInv'
  OBVIOUS
<1> USE Facts, IdBounds DEF PlaceTimesOut, books
<1>1. TypeOK'
  BY DEF IInv, TypeOK, Ended
<1>2. Reserving' /\ Unanswered' /\ Counting'
  BY DEF IInv, Reserving, Unanswered, Counting
<1>3. Sizing'
  BY DEF IInv, Sizing
<1>4. Resting' /\ KnownWhileOpen'
  BY DEF IInv, Resting, KnownWhileOpen, IsExit
<1> QED
  BY <1>1, <1>2, <1>3, <1>4 DEF IInv

\* The record of an order that is in flight: the reservation goes, and unless the order is
\* cancelled the call ends with it, closed or without a fill, or its log raises.
LEMMA ResolvedInv ==
  ASSUME IInv, NEW filled \in 0..Qty, filled <= ord[cid].filled,
         pc \in {"lookup", "resolving"}, ord[cid].st \in {"open", "closed"},
         Resolved(filled), polls' \in 0..MaxPolls,
         UNCHANGED <<kind, cid, tries, exit, first, ord>>,
         lost' = lost \/ (lost' = lost \ {cid} /\ pc = "lookup")
  PROVE  IInv'
<1> USE Facts, IdBounds
<1>0. /\ seen' = filled /\ recorded' = recorded \cup {cid} /\ reserved' = reserved \ {cid}
      /\ \/ Cancels(filled) /\ pc' = "cancelling" /\ out' = out
         \/ ~Cancels(filled) /\ pc' = "done" /\ out' = Reported(filled)
         \/ pc' = "raised" /\ out' = out
  BY DEF Resolved
<1>1. /\ ord[cid].filled <= ord[cid].size /\ first + ord[cid].size <= Qty
      /\ exit = 0 => first = 0 /\ ord[cid].size = Qty
      /\ ord[cid].st \in {"sent", "open"} => ord[cid].filled < ord[cid].size
  BY DEF IInv, Sizing, Counting
<1>2. Reported(filled) \in 0..Qty
  BY <1>1 DEF Reported
<1>3. TypeOK'
  BY <1>0, <1>2 DEF IInv, TypeOK, Ended
<1>4. Reserving' /\ Unanswered'
  BY <1>0 DEF IInv, Reserving, Unanswered
<1>5. Counting'
  <2>1. pc' = "cancelling" => exit = 0 /\ Cancels(seen)'
    BY <1>0 DEF Cancels
  <2> QED
    BY <1>0, <2>1 DEF IInv, Counting
<1>6. Sizing'
  BY <1>0 DEF IInv, Sizing
<1>7. Resting'
  <2> SUFFICES ASSUME NEW c \in Cids \ lost', ord[c].st \in {"sent", "open"}, ~IsExit(c)
               PROVE  c = cid /\ (pc' = "done" => kind = "AGGRESSIVE" /\ out' = 0)
    BY DEF Resting, IsExit
  <2>1. c = cid
    BY DEF IInv, Resting
  <2>2. exit = 0 \/ exit > cid
    BY <2>1 DEF IsExit
  <2>3. exit = 0
    BY <2>2 DEF IInv, Counting
  <2>4. filled < Qty
    BY <1>1, <2>1, <2>3
  <2>5. ~Cancels(filled) => kind = "AGGRESSIVE" /\ filled = 0
    BY <2>3, <2>4 DEF Cancels
  <2>6. pc' = "done" => kind = "AGGRESSIVE" /\ out' = 0
    BY <1>0, <1>1, <2>3, <2>5 DEF Reported
  <2> QED
    BY <2>1, <2>6
<1>8. KnownWhileOpen'
  BY <1>0 DEF IInv, KnownWhileOpen
<1> QED
  BY <1>3, <1>4, <1>5, <1>6, <1>7, <1>8 DEF IInv

LEMMA RecoverInv == IInv /\ Recover => IInv'
<1> SUFFICES ASSUME IInv, Recover PROVE IInv'
  OBVIOUS
<1> USE Facts, IdBounds
<1>1. CASE /\ ord[cid].st = "open" /\ Resolved(ord[cid].filled)
           /\ lost' = lost \ {cid} /\ UNCHANGED <<cid, ord>>
  <2>1. pc = "lookup" /\ UNCHANGED <<kind, tries, polls, exit, first>>
    BY DEF Recover
  <2>2. ord[cid].filled \in 0..Qty
    OBVIOUS
  <2> QED
    BY <1>1, <2>1, <2>2, ResolvedInv
<1>2. CASE Request(cid + 1, ord[cid].size, ord) /\ pc' = "resent"
           /\ UNCHANGED <<seen, recorded, out, lost>>
  <2>0. /\ pc = "lookup" /\ UNCHANGED <<kind, tries, polls, exit, first>>
        /\ cid + 1 \in Cids /\ cid \in lost /\ reserved = {cid} /\ cid < 2 * tries
        /\ first + ord[cid].size <= Qty /\ (exit = 0 => ord[cid].size = Qty)
    BY IdsLeft DEF Recover, IInv, Unanswered, Reserving, Counting, Sizing
  <2>a. \A c \in Cids : ord[c].filled <= ord[c].size
    BY DEF IInv, Sizing
  <2>b. ord[cid].size \in 1..Qty
    <3>1. Sizing
      BY DEF IInv
    <3>2. ord[cid].size >= 1 /\ ord[cid].size <= Qty /\ ord[cid].size \in Nat
      BY <2>0, <3>1 DEF Sizing
    <3> QED
      BY <3>2
  <2>1. /\ Orders' /\ ord'[cid + 1] = [st |-> "sent", filled |-> 0, size |-> ord[cid].size]
        /\ \A d \in Cids \ {cid + 1} : ord'[d] = ord[d]
    BY <1>2, <2>0, <2>b, Requests DEF Orders
  <2>2. cid' = cid + 1 /\ reserved' = {cid + 1}
    BY <1>2, <2>0 DEF Request
  <2>3. TypeOK'
    BY <1>2, <2>0, <2>1, <2>2 DEF IInv, TypeOK, Ended, Orders, OrderRec
  <2>4. Reserving' /\ Unanswered' /\ Counting'
    BY <1>2, <2>0, <2>2 DEF IInv, Reserving, Unanswered, Counting
  <2>5. Sizing'
    BY <1>2, <2>0, <2>1, <2>2, <2>b DEF IInv, Sizing
  <2>6. Resting' /\ KnownWhileOpen'
    BY <1>2, <2>0, <2>1, <2>2 DEF IInv, Resting, KnownWhileOpen, IsExit, Reserving
  <2> QED
    BY <2>3, <2>4, <2>5, <2>6 DEF IInv
<1> QED
  BY <1>1, <1>2 DEF Recover

LEMMA RecoverRaisesInv == IInv /\ RecoverRaises => IInv'
<1> SUFFICES ASSUME IInv, RecoverRaises PROVE IInv'
  OBVIOUS
<1> USE Facts, IdBounds DEF RecoverRaises, books
<1>1. TypeOK'
  BY DEF IInv, TypeOK, Ended
<1>2. Reserving' /\ Unanswered' /\ Counting'
  BY DEF IInv, Reserving, Unanswered, Counting
<1>3. Sizing'
  BY DEF IInv, Sizing
<1>4. Resting' /\ KnownWhileOpen'
  BY DEF IInv, Resting, KnownWhileOpen, IsExit
<1> QED
  BY <1>1, <1>2, <1>3, <1>4 DEF IInv

LEMMA PollInv == IInv /\ Poll => IInv'
<1> SUFFICES ASSUME IInv, Poll PROVE IInv'
  OBVIOUS
<1> USE Facts, IdBounds
<1>0. /\ pc = "resolving" /\ polls' \in 0..MaxPolls
      /\ UNCHANGED <<kind, cid, tries, exit, first, ord, lost>>
      /\ seen <= ord[cid].filled /\ ord[cid].st \in {"open", "closed"}
  BY DEF Poll, IInv, Sizing
<1>1. CASE Resolved(ord[cid].filled)
  <2>1. ord[cid].filled \in 0..Qty
    OBVIOUS
  <2> QED
    BY <1>0, <1>1, <2>1, ResolvedInv
<1>2. CASE Resolved(seen)
  BY <1>0, <1>2, ResolvedInv
<1>3. CASE seen' = ord[cid].filled /\ UNCHANGED <<pc, out, books>>
  <2> USE <1>0, <1>3 DEF books
  <2>1. TypeOK'
    BY DEF IInv, TypeOK, Ended
  <2>2. Reserving' /\ Unanswered' /\ Counting'
    BY DEF IInv, Reserving, Unanswered, Counting
  <2>3. Sizing'
    <3>a. ord' = ord /\ cid' = cid /\ exit' = exit /\ first' = first /\ ord[cid].filled >= 0
      OBVIOUS
    <3>b. pc # "new" /\ pc' = "resolving" /\ ord[cid].st \in {"open", "closed"}
      BY DEF IInv, Sizing
    <3>c. seen' <= ord[cid].filled
      OBVIOUS
    <3> QED
      BY <3>a, <3>b, <3>c DEF IInv, Sizing
  <2>4. Resting' /\ KnownWhileOpen'
    BY DEF IInv, Resting, KnownWhileOpen, IsExit
  <2> QED
    BY <2>1, <2>2, <2>3, <2>4 DEF IInv
<1> QED
  BY <1>1, <1>2, <1>3 DEF Poll

LEMMA CancelInv == IInv /\ Cancel => IInv'
<1> SUFFICES ASSUME IInv, Cancel PROVE IInv'
  OBVIOUS
<1> USE Facts, IdBounds
<1>0. PICK after \in {ord, [ord EXCEPT ![cid].st = "closed"]} :
        /\ Cancelled(after)
        /\ lost' = IF after[cid].st = "open" THEN lost \cup {cid} ELSE lost
        /\ \/ /\ NextSize > 0
              /\ Request(cid + 1, NextSize, after)
              /\ exit' = IF kind = "LIMIT" THEN 0 ELSE cid + 1
              /\ first' = IF kind = "PARTIAL" THEN seen ELSE 0
              /\ tries' = tries + 1
              /\ pc' = "sent"
              /\ out' = out
           \/ /\ \/ pc' = "done" /\ NextSize = 0 /\ out' = Reported(seen)
                 \/ pc' = "raised" /\ out' = out
              /\ ord' = after
              /\ UNCHANGED <<cid, exit, first, reserved, tries>>
  BY DEF Cancel
<1>1. /\ pc = "cancelling" /\ exit = 0 /\ first = 0 /\ Cancels(seen) /\ reserved = {}
      /\ ord[cid].size = Qty /\ seen <= ord[cid].filled /\ seen < Qty
      /\ kind \in Kinds \ {"EXIT"} /\ tries >= 1
      /\ UNCHANGED <<kind, polls, seen, recorded>>
  BY DEF Cancel, IInv, TypeOK, Counting, Reserving, Sizing, Cancels
<1>2. /\ after \in [Cids -> OrderRec]
      /\ after[cid].size = Qty /\ after[cid].filled = ord[cid].filled
      /\ after[cid].st = ord[cid].st \/ after[cid].st = "closed"
      /\ \A d \in Cids \ {cid} : after[d] = ord[d]
  BY <1>1 DEF Orders, OrderRec
<1>3. after[cid].st = "sent" => ord[cid].st = "sent"
  BY <1>2
<1>4. ord[cid].st # "sent"
  BY <1>1 DEF IInv, Sizing
<1>5. \A c \in Cids \ lost' : after[c].st \notin {"sent", "open"}
  BY <1>0, <1>1, <1>2, <1>4 DEF IInv, Resting, IsExit
<1>6. CASE /\ NextSize > 0 /\ Request(cid + 1, NextSize, after)
           /\ exit' = (IF kind = "LIMIT" THEN 0 ELSE cid + 1)
           /\ first' = (IF kind = "PARTIAL" THEN seen ELSE 0)
           /\ tries' = tries + 1 /\ pc' = "sent" /\ out' = out
  <2>0. NextSize \in 1..Qty /\ cid + 1 \in Cids /\ tries + 1 <= MaxOrders
    BY <1>1, <1>6, IdsLeft DEF NextSize, Kinds, Cancels
  <2>1. /\ Orders' /\ ord'[cid + 1] = [st |-> "sent", filled |-> 0, size |-> NextSize]
        /\ \A d \in Cids \ {cid + 1} : ord'[d] = after[d]
    BY <1>0, <1>2, <1>6, <2>0, Requests
  <2>2. /\ cid' = cid + 1 /\ reserved' = {cid + 1} /\ tries' = tries + 1 /\ pc' = "sent"
        /\ out' = out /\ exit' = (IF kind = "LIMIT" THEN 0 ELSE cid + 1)
        /\ first' = (IF kind = "PARTIAL" THEN seen ELSE 0)
    BY <1>0, <1>1, <1>6 DEF Request
  <2>3. TypeOK'
    BY <1>0, <1>1, <2>0, <2>1, <2>2 DEF IInv, TypeOK, Ended, Orders, OrderRec
  <2>4. Reserving' /\ Unanswered'
    BY <1>1, <2>2 DEF IInv, Reserving, Unanswered
  <2>5. kind = "LIMIT" => tries < Tries /\ NextSize = Qty
    BY <1>6 DEF NextSize
  <2>6. Counting'
    BY <1>1, <2>2, <2>5 DEF IInv, Counting
  <2>7. first' + NextSize <= Qty /\ (exit' = 0 => NextSize = Qty)
    BY <1>1, <2>0, <2>2, <2>5 DEF NextSize, Kinds
  <2>8. Sizing'
    <3>1. \A c \in Cids : c # cid + 1 =>
            /\ ord'[c].filled = ord[c].filled /\ ord'[c].size = ord[c].size
            /\ ord'[c].st = ord[c].st \/ (ord'[c].st = "closed" /\ c = cid)
      BY <1>2, <1>1, <2>1
    <3>2. 1 \in Cids /\ cid' \in Cids
      BY <2>0, <2>2
    <3> QED
      BY <2>0, <2>1, <2>2, <2>7, <3>1, <3>2 DEF IInv, Sizing
  <2>9. Resting' /\ KnownWhileOpen'
    BY <1>5, <2>1, <2>2 DEF Resting, KnownWhileOpen
  <2> QED
    BY <2>3, <2>4, <2>6, <2>8, <2>9 DEF IInv
<1>7. CASE /\ \/ pc' = "done" /\ NextSize = 0 /\ out' = Reported(seen)
              \/ pc' = "raised" /\ out' = out
           /\ ord' = after
           /\ UNCHANGED <<cid, exit, first, reserved, tries>>
  <2>0. /\ ord' = after /\ pc' \in Ended /\ (pc' = "done" => NextSize = 0)
        /\ out' = Reported(seen) \/ out' = out
        /\ UNCHANGED <<cid, exit, first, reserved, tries>>
    BY <1>7 DEF Ended
  <2>1. Reported(seen) \in 0..Qty
    BY <1>1 DEF Reported
  <2>2. TypeOK'
    BY <1>0, <1>1, <1>2, <2>0, <2>1 DEF IInv, TypeOK, Ended, OrderRec
  <2>3. Reserving' /\ Unanswered' /\ Counting'
    BY <1>1, <2>0 DEF IInv, Reserving, Unanswered, Counting, Ended
  <2>4. Sizing'
    <3>1. \A c \in Cids :
         /\ ord'[c].filled = ord[c].filled /\ ord'[c].size = ord[c].size
         /\ ord'[c].st = ord[c].st \/ (ord'[c].st = "closed" /\ c = cid)
      BY <1>2, <1>1, <2>0
    <3>2. Sizing /\ pc' \in {"done", "raised"} /\ cid' = cid /\ first' = 0 /\ cid \in Cids
      BY <1>1, <2>0 DEF IInv, Ended
    <3>3. ord'[cid].size = Qty
      BY <1>1, <3>1, <3>2
    <3>4. \A c \in Cids :
         /\ ord'[c].filled <= ord'[c].size
         /\ ord'[c].st \in {"sent", "open"} => ord'[c].filled < ord'[c].size
         /\ c > cid => ord'[c].st = "none"
      BY <3>1, <3>2 DEF Sizing
    <3> QED
      BY <3>2, <3>3, <3>4 DEF Sizing
  <2>5. Resting' /\ KnownWhileOpen'
    BY <1>5, <2>0 DEF Resting, KnownWhileOpen
  <2> QED
    BY <2>2, <2>3, <2>4, <2>5 DEF IInv
<1> QED
  BY <1>0, <1>6, <1>7

LEMMA NextInv == IInv /\ [Next]_vars => IInv'
<1> SUFFICES ASSUME IInv, [Next]_vars PROVE IInv'
  OBVIOUS
<1>1. CASE \E c \in Cids : Land(c) \/ Fill(c) \/ Expire(c)
  BY <1>1, ExchangeInv
<1>2. CASE Submit
  BY <1>2, SubmitInv
<1>3. CASE Acknowledged
  BY <1>3, AcknowledgedInv
<1>4. CASE PlaceRaises
  BY <1>4, PlaceRaisesInv
<1>5. CASE PlaceTimesOut
  BY <1>5, PlaceTimesOutInv
<1>6. CASE Recover \/ RecoverRaises
  BY <1>6, RecoverInv, RecoverRaisesInv
<1>7. CASE Poll
  BY <1>7, PollInv
<1>8. CASE Cancel
  BY <1>8, CancelInv
<1>9. CASE UNCHANGED vars
  BY <1>9 DEF vars, IInv, TypeOK, Reserving, Unanswered, Counting, Cancels, Sizing, Resting,
             KnownWhileOpen, IsExit
<1> QED
  BY <1>1, <1>2, <1>3, <1>4, <1>5, <1>6, <1>7, <1>8, <1>9 DEF Next

LEMMA Invariant == Spec => []IInv
  BY InitInv, NextInv, PTL DEF Spec

-----------------------------------------------------------------------------
\* A call of OrderManager stays within its types: it draws no more client ids than its
\* orders and their repetitions need, and claims no more than was requested.
THEOREM TypeCorrect == Spec => []TypeOK
<1>1. IInv => TypeOK
  BY DEF IInv
<1> QED
  BY <1>1, Invariant, PTL

\* A step that ends the call ends it with nothing in pending_order_symbols, whatever fails
\* in it; the one exception leaves the request in hand there, and nothing else.
LEMMA EndsReleased ==
  ASSUME IInv, Next, pc \notin Ended, pc' \in Ended
  PROVE  reserved' \subseteq
           IF pc' = "raised" /\ pc \in {"lookup", "resent"} THEN {cid} ELSE {}
<1> USE Facts DEF Ended
<1>0. /\ pc \in {"sent", "lookup", "resent", "resolving"} => reserved = {cid}
      /\ pc \in {"new", "cancelling"} => reserved = {}
  BY DEF IInv, Reserving
<1>1. CASE \E c \in Cids : Land(c) \/ Fill(c) \/ Expire(c)
  BY <1>1 DEF Land, Fill, Expire, call
<1>2. CASE Submit \/ Acknowledged
  BY <1>2 DEF Submit, Acknowledged
<1>3. CASE PlaceRaises \/ PlaceTimesOut \/ RecoverRaises
  BY <1>0, <1>3 DEF PlaceRaises, PlaceTimesOut, RecoverRaises, ClearOnRaise, books
<1>4. CASE Recover \/ Poll
  <2>1. pc \in {"lookup", "resolving"} /\ reserved' = reserved \ {cid}
    BY <1>4 DEF Recover, Poll, Resolved
  <2> QED
    BY <1>0, <2>1
<1>5. CASE Cancel
  BY <1>0, <1>5 DEF Cancel
<1> QED
  BY <1>1, <1>2, <1>3, <1>4, <1>5 DEF Next

\* However the call ends and whatever fails in it, it leaves no reservation behind, but
\* for one that raises inside the handler of an OrderTimeoutError, which leaves its own.
THEOREM NoReservationLeaks == Spec => ReservationsReleased
<1>1. IInv /\ [Next]_vars
        => [pc \notin Ended /\ pc' \in Ended
              => reserved' \subseteq
                   IF pc' = "raised" /\ pc \in {"lookup", "resent"} THEN {cid} ELSE {}]_vars
  BY EndsReleased DEF vars
<1> QED
  BY <1>1, Invariant, PTL DEF Spec, ReservationsReleased

\* Every open order of the bot is known to reconciliation, at every await of
\* the call, unless its answer was lost and it has not been found again.
THEOREM OpenOrdersAreKnown == Spec => []KnownWhileOpen
<1>1. IInv => KnownWhileOpen
  BY DEF IInv
<1> QED
  BY <1>1, Invariant, PTL

\* A LIMIT order, and an aggressive fill that is kept, leave nothing in the book when the
\* call returns, unless an answer or a cancel was lost.
THEOREM NothingRests == Spec => []NothingLeftResting
<1>1. IInv => NothingLeftResting
  BY DEF IInv, Resting, NothingLeftResting
<1> QED
  BY <1>1, Invariant, PTL

-----------------------------------------------------------------------------
(* Sums over finite sets, which the community modules define as recursive  *)
(* functions on subsets.  Induction is by a least counterexample.          *)

Total(v, S) == MapThenSumSet(LAMBDA c : v[c].filled, S)

\* Opaque to the lemmas that cite them, as facts about all of an S.
Countable(v, S) == \A x \in S : v[x].filled \in Nat
Alike(v, w, S) == \A x \in S : v[x].filled = w[x].filled

\* A set of natural numbers has a least one.
LEMMA LeastNatural ==
  ASSUME NEW T \in SUBSET Nat, T # {}
  PROVE  \E n \in T : \A m \in T : n <= m
<1>1. PICK n \in T : \A m \in T : ~(<<m, n>> \in OpToRel(<, Nat))
  BY NatLessThanWellFounded, WFMin
<1>2. ASSUME NEW m \in T PROVE ~(m < n)
  BY <1>1 DEF OpToRel
<1> QED
  BY <1>2

\* Induction over the subsets of a finite set: what a subset has if its own proper
\* subsets have it.
LEMMA SubsetInduction ==
  ASSUME NEW S, IsFiniteSet(S), NEW C,
         ASSUME NEW T \in SUBSET S, \A U \in SUBSET T : U # T => U \in C
         PROVE  T \in C
  PROVE  SUBSET S \subseteq C
<1> SUFFICES ASSUME NEW B \in SUBSET S, B \notin C PROVE FALSE
  OBVIOUS
<1> DEFINE sizes == {Cardinality(T) : T \in (SUBSET S) \ C}
<1>1. \A T \in SUBSET S : IsFiniteSet(T) /\ Cardinality(T) \in Nat
  BY FS_Subset, FS_CardinalityType
<1>2. PICK n \in sizes : \A m \in sizes : n <= m
  <2>1. sizes \in SUBSET Nat /\ Cardinality(B) \in sizes
    BY <1>1
  <2> HIDE DEF sizes
  <2> QED
    BY <2>1, LeastNatural
<1>3. PICK T \in (SUBSET S) \ C : Cardinality(T) = n
  BY <1>2
<1>4. ASSUME NEW U \in SUBSET T, U # T PROVE U \in C
  <2>1. Cardinality(U) < Cardinality(T) /\ U \in SUBSET S
    BY <1>1, <1>4, FS_Subset
  <2>2. ~(n <= Cardinality(U))
    BY <1>1, <1>3, <2>1
  <2> QED
    BY <1>2, <2>1, <2>2
<1> QED
  BY <1>3, <1>4

\* What the fold takes next.
Picked(T) == CHOOSE x \in T : TRUE

\* h sums the subsets of S as the fold of the community modules does.
Adds(h, v, S) ==
  h = [T \in SUBSET S |-> IF T = {} THEN 0 ELSE v[Picked(T)].filled + h[T \ {Picked(T)}]]

LEMMA AddsExists == ASSUME NEW v, NEW S, IsFiniteSet(S) PROVE \E h : Adds(h, v, S)
<1> DEFINE UpTo(n) == {T \in SUBSET S : Cardinality(T) <= n}
           Sum(h, T) == IF T = {} THEN 0 ELSE v[Picked(T)].filled + h[T \ {Picked(T)}]
           Part(h, n) == h = [T \in UpTo(n) |-> Sum(h, T)]
           missing == {n \in Nat : ~(\E h : Part(h, n))}
<1>1. \A T \in SUBSET S : IsFiniteSet(T) /\ Cardinality(T) \in Nat
  BY FS_Subset, FS_CardinalityType
<1>2. ASSUME NEW T \in SUBSET S, T # {}
      PROVE  T \ {Picked(T)} \in SUBSET S /\ Cardinality(T \ {Picked(T)}) = Cardinality(T) - 1
             /\ Cardinality(T) > 0
  <2>1. Picked(T) \in T
    BY <1>2 DEF Picked
  <2> HIDE DEF Sum
  <2>2. Cardinality(T \ {Picked(T)}) = Cardinality(T) - 1
    BY <1>1, <2>1, FS_RemoveElement
  <2>3. Cardinality(T) # 0
    BY <1>1, <1>2, FS_EmptySet
  <2> QED
    BY <1>1, <2>2, <2>3
<1>3. missing = {}
  <2> SUFFICES ASSUME missing # {} PROVE FALSE
    OBVIOUS
  <2>1. PICK n \in missing : \A m \in missing : n <= m
    BY LeastNatural
  <2>2. n # 0
    <3> DEFINE h == [T \in UpTo(0) |-> 0]
    <3>1. ASSUME NEW T \in UpTo(0) PROVE T = {}
      <4>1. IsFiniteSet(T) /\ Cardinality(T) \in Nat /\ Cardinality(T) <= 0
        BY <1>1
      <4>2. Cardinality(T) = 0
        BY <4>1
      <4> QED
        BY <4>1, <4>2, FS_EmptySet
    <3>2. Part(h, 0)
      BY <3>1
    <3> HIDE DEF Part
    <3> QED
      BY <2>1, <3>2
  <2>3. PICK h : Part(h, n - 1)
    <3>1. n - 1 \in Nat /\ ~(n <= n - 1)
      BY <2>1, <2>2
    <3> QED
      BY <2>1, <3>1
  <2> DEFINE g == [T \in UpTo(n) |-> Sum(h, T)]
  <2>4. ASSUME NEW T \in UpTo(n) PROVE Sum(g, T) = Sum(h, T)
    <3>1. CASE T = {}
      BY <3>1
    <3>2. CASE T # {}
      <4> DEFINE U == T \ {Picked(T)}
      <4>1. U \in UpTo(n - 1) /\ U \in UpTo(n)
        BY <1>1, <1>2, <2>1, <3>2
      <4>2. h[U] = Sum(h, U)
        BY <2>3, <4>1
      <4>3. g[U] = Sum(h, U)
        BY <4>1
      <4> QED
        BY <4>2, <4>3
    <3> QED
      BY <3>1, <3>2
  <2>5. Part(g, n)
    BY <2>4
  <2> QED
    BY <2>1, <2>5
<1>4. PICK h : Part(h, Cardinality(S))
  BY <1>1, <1>3
<1>5. UpTo(Cardinality(S)) = SUBSET S
  BY <1>1, FS_Subset
<1>6. Adds(h, v, S)
  BY <1>4, <1>5 DEF Adds
<1> QED
  BY <1>6

LEMMA TotalAdds ==
  ASSUME NEW v, NEW S, IsFiniteSet(S)
  PROVE  \E h : Adds(h, v, S) /\ Total(v, S) = h[S]
<1>1. Total(v, S) = (CHOOSE h : Adds(h, v, S))[S]
  BY Zenon DEF Total, MapThenSumSet, MapThenFoldSet, Adds, Picked
<1> QED
  BY <1>1, AddsExists

\* The order in which it picks is no matter.
LEMMA AddsSplit ==
  ASSUME NEW v, NEW S, IsFiniteSet(S), Countable(v, S), NEW h, Adds(h, v, S)
  PROVE  \A T \in SUBSET S : h[T] \in Nat /\ \A x \in T : h[T] = v[x].filled + h[T \ {x}]
<1> DEFINE C == {T \in SUBSET S : h[T] \in Nat /\ \A x \in T : h[T] = v[x].filled + h[T \ {x}]}
<1>1. ASSUME NEW T \in SUBSET S, \A U \in SUBSET T : U # T => U \in C
      PROVE  T \in C
  <2>1. CASE T = {}
    BY <2>1 DEF Adds
  <2>2. CASE T # {}
    <3> DEFINE y == Picked(T)
    <3>1. y \in T /\ h[T] = v[y].filled + h[T \ {y}]
      BY <2>2 DEF Adds, Picked
    <3> HIDE DEF y
    <3>2. ASSUME NEW U \in SUBSET T, U # T
          PROVE  h[U] \in Nat /\ \A x \in U : h[U] = v[x].filled + h[U \ {x}]
      BY <1>1, <3>2
    <3>3. h[T \ {y}] \in Nat /\ v[y].filled \in Nat
      BY <3>1, <3>2 DEF Countable
    <3>4. ASSUME NEW x \in T, x # y PROVE h[T] = v[x].filled + h[T \ {x}]
      <4>1. h[T \ {y}] = v[x].filled + h[(T \ {y}) \ {x}]
        BY <3>1, <3>2, <3>4
      <4>2. h[T \ {x}] = v[y].filled + h[(T \ {x}) \ {y}]
        BY <3>1, <3>2, <3>4
      <4>3. (T \ {y}) \ {x} = (T \ {x}) \ {y}
        OBVIOUS
      <4>4. h[(T \ {x}) \ {y}] \in Nat /\ v[x].filled \in Nat
        BY <3>1, <3>2, <3>4 DEF Countable
      <4>5. ASSUME NEW a \in Nat, NEW b \in Nat, NEW c \in Nat
            PROVE  a + (b + c) = b + (a + c)
        OBVIOUS
      <4> DEFINE rest == h[(T \ {x}) \ {y}]
      <4>6. h[T] = v[y].filled + (v[x].filled + rest) /\ h[T \ {x}] = v[y].filled + rest
        BY <3>1, <4>1, <4>2, <4>3
      <4>7. v[y].filled + (v[x].filled + rest) = v[x].filled + (v[y].filled + rest)
        BY <3>3, <4>4, <4>5
      <4> QED
        BY <4>6, <4>7
    <3>5. h[T] \in Nat
      BY <3>1, <3>3
    <3>6. \A x \in T : h[T] = v[x].filled + h[T \ {x}]
      BY <3>1, <3>4
    <3> QED
      BY <3>5, <3>6
  <2> QED
    BY <2>1, <2>2
<1> HIDE DEF C
<1>2. SUBSET S \subseteq C
  BY <1>1, SubsetInduction
<1> QED
  BY <1>2 DEF C

\* Nor are the set it starts from and what else differs.
LEMMA AddsAgree ==
  ASSUME NEW v, NEW w, NEW S, IsFiniteSet(S), NEW R \in SUBSET S,
         Alike(v, w, R), NEW h, Adds(h, v, S), NEW g, Adds(g, w, R)
  PROVE  \A T \in SUBSET R : h[T] = g[T]
<1> DEFINE C == {T \in SUBSET R : h[T] = g[T]}
<1>1. ASSUME NEW T \in SUBSET R, \A U \in SUBSET T : U # T => U \in C
      PROVE  T \in C
  <2>1. CASE T = {}
    BY <2>1 DEF Adds
  <2>2. CASE T # {}
    <3> DEFINE y == Picked(T)
    <3>1. /\ y \in T /\ T \in SUBSET S /\ v[y].filled = w[y].filled
          /\ h[T] = v[y].filled + h[T \ {y}] /\ g[T] = w[y].filled + g[T \ {y}]
      BY <2>2 DEF Adds, Picked, Alike
    <3> QED
      BY <1>1, <3>1
  <2> QED
    BY <2>1, <2>2
<1> HIDE DEF C
<1>2. IsFiniteSet(R)
  BY FS_Subset
<1>3. SUBSET R \subseteq C
  BY <1>1, <1>2, SubsetInduction
<1> QED
  BY <1>3 DEF C

LEMMA TotalSplit ==
  ASSUME NEW v, NEW S, IsFiniteSet(S), Countable(v, S)
  PROVE  Total(v, S) \in Nat /\ \A x \in S : Total(v, S) = v[x].filled + Total(v, S \ {x})
<1>1. PICK h : Adds(h, v, S) /\ Total(v, S) = h[S]
  BY TotalAdds
<1>2. h[S] \in Nat /\ \A x \in S : h[S] = v[x].filled + h[S \ {x}]
  <2>1. \A T \in SUBSET S : h[T] \in Nat /\ \A x \in T : h[T] = v[x].filled + h[T \ {x}]
    BY <1>1, AddsSplit
  <2> QED
    BY <2>1
<1>3. ASSUME NEW R \in SUBSET S PROVE Total(v, R) = h[R]
  <2>1. IsFiniteSet(R) /\ Alike(v, v, R)
    BY FS_Subset DEF Alike
  <2>2. PICK g : Adds(g, v, R) /\ Total(v, R) = g[R]
    BY <2>1, TotalAdds
  <2>3. h[R] = g[R]
    BY <1>1, <2>1, <2>2, AddsAgree
  <2> QED
    BY <2>2, <2>3
<1> QED
  BY <1>1, <1>2, <1>3

LEMMA TotalAgree ==
  ASSUME NEW v, NEW w, NEW S, IsFiniteSet(S), Alike(v, w, S)
  PROVE  Total(v, S) = Total(w, S)
<1>1. PICK h : Adds(h, v, S) /\ Total(v, S) = h[S]
  BY TotalAdds
<1>2. PICK g : Adds(g, w, S) /\ Total(w, S) = g[S]
  BY TotalAdds
<1> QED
  BY <1>1, <1>2, AddsAgree

LEMMA TotalOfNone ==
  ASSUME NEW v, NEW S, IsFiniteSet(S), \A x \in S : v[x].filled = 0
  PROVE  Total(v, S) = 0
<1> DEFINE C == {T \in SUBSET S : Total(v, T) = 0}
<1>1. ASSUME NEW T \in SUBSET S, \A U \in SUBSET T : U # T => U \in C
      PROVE  T \in C
  <2>0. IsFiniteSet(T)
    BY FS_Subset
  <2>1. CASE T = {}
    <3>1. PICK h : Adds(h, v, T) /\ Total(v, T) = h[T]
      BY <2>0, TotalAdds
    <3>2. h[T] = 0
      BY <2>1, <3>1 DEF Adds
    <3> QED
      BY <3>1, <3>2
  <2>2. ASSUME NEW x \in T PROVE T \in C
    <3>1. Total(v, T) = v[x].filled + Total(v, T \ {x})
      <4>1. Countable(v, T)
        BY DEF Countable
      <4> QED
        BY <2>0, <4>1, TotalSplit
    <3>2. T \ {x} \in C
      BY <1>1
    <3> QED
      BY <3>1, <3>2
  <2> QED
    BY <2>1, <2>2
<1> HIDE DEF C
<1>2. S \in C
  BY <1>1, SubsetInduction
<1> QED
  BY <1>2 DEF C

\* One order, or two of them, are part of the total.
LEMMA TotalOfSome ==
  ASSUME NEW v, NEW S, IsFiniteSet(S), Countable(v, S)
  PROVE  \A x \in S : /\ v[x].filled <= Total(v, S)
                      /\ \A y \in S \ {x} : v[x].filled + v[y].filled <= Total(v, S)
<1> SUFFICES ASSUME NEW x \in S
             PROVE  /\ v[x].filled <= Total(v, S)
                    /\ \A y \in S \ {x} : v[x].filled + v[y].filled <= Total(v, S)
  OBVIOUS
<1> DEFINE R == S \ {x}
<1>1. Total(v, S) = v[x].filled + Total(v, R)
  BY TotalSplit
<1>2. IsFiniteSet(R) /\ Countable(v, R)
  BY FS_Subset DEF Countable
<1>3. Total(v, R) \in Nat /\ \A y \in R : Total(v, R) = v[y].filled + Total(v, R \ {y})
  <2> HIDE DEF R
  <2> QED
    BY <1>2, TotalSplit
<1>4. ASSUME NEW y \in R PROVE Total(v, R \ {y}) \in Nat
  <2>1. IsFiniteSet(R \ {y}) /\ Countable(v, R \ {y})
    BY <1>2, FS_Subset DEF Countable
  <2> QED
    BY <2>1, TotalSplit
<1>5. v[x].filled \in Nat /\ \A y \in R : v[y].filled \in Nat
  BY DEF Countable
<1> HIDE DEF R
<1>6. ASSUME NEW y \in R PROVE v[y].filled <= Total(v, R)
  <2>1. \A a, b, c \in Nat : a = b + c => b <= a
    OBVIOUS
  <2>2. Total(v, R) = v[y].filled + Total(v, R \ {y})
    BY <1>3
  <2> QED
    BY <1>3, <1>4, <1>5, <2>1, <2>2, Zenon
<1>7. v[x].filled <= Total(v, S)
  BY <1>1, <1>3, <1>5
<1>8. ASSUME NEW y \in R PROVE v[x].filled + v[y].filled <= Total(v, S)
  BY <1>1, <1>3, <1>5, <1>6
<1> QED
  BY <1>7, <1>8 DEF R

-----------------------------------------------------------------------------
(* What the call says was filled.                                          *)

Selling == {c \in Cids : ReduceOnly(c)}
Buying == {c \in Cids : ~ReduceOnly(c)}

\* NeverOverReports compares the outcome with totals; what each step keeps is the order,
\* or the two of a partial exit, whose executions back the outcome.  The entry that was
\* flattened claims nothing, which is no more than the position only because a
\* reduce-only order leaves none below zero.
Backed ==
  /\ Position >= 0
  /\ \A c \in Cids : ord[c].st = "none" => ord[c].filled = 0
  /\ kind = "PARTIAL" \/ first = 0
  /\ first > 0 => \E c \in Cids : c < exit /\ first <= ord[c].filled
  /\ pc = "done" => \/ kind = "AGGRESSIVE" /\ exit # 0 /\ out = 0
                    \/ (kind = "AGGRESSIVE" => exit = 0) /\ out <= first + ord[cid].filled

LEMMA Totals ==
  ASSUME Orders
  PROVE  /\ Reduced = Total(ord, Selling) /\ Bought = Total(ord, Buying)
         /\ IsFiniteSet(Selling) /\ IsFiniteSet(Buying)
         /\ Countable(ord, Selling) /\ Countable(ord, Buying)
         /\ Reduced \in Nat /\ Bought \in Nat
<1>1. Reduced = Total(ord, Selling) /\ Bought = Total(ord, Buying)
  BY Zenon DEF Reduced, Bought, Filled, Total, Selling, Buying
<1>2. IsFiniteSet(Cids)
  BY IdBounds, FS_Interval DEF Cids
<1>3. IsFiniteSet(Selling) /\ IsFiniteSet(Buying)
  BY <1>2, FS_Subset DEF Selling, Buying
<1>4. Countable(ord, Selling) /\ Countable(ord, Buying)
  BY IdBounds DEF Countable, Orders, OrderRec, Selling, Buying
<1> QED
  BY <1>1, <1>3, <1>4, TotalSplit

LEMMA PositionIs ==
  ASSUME Orders, kind \in Kinds
  PROVE  /\ Position = (IF kind \in {"EXIT", "PARTIAL"} THEN Held ELSE 0) + Bought - Reduced
         /\ (IF kind \in {"EXIT", "PARTIAL"} THEN Held ELSE 0) \in Nat
  BY OrderAssumption DEF Position

\* Nothing is executed and no order changes sides.
LEMMA PositionKept ==
  ASSUME Orders, Orders', kind' = kind, exit' = exit \/ kind = "PARTIAL",
         \A c \in Cids : ord'[c].filled = ord[c].filled
  PROVE  Position' = Position
<1>1. Selling' = Selling /\ Buying' = Buying
  BY DEF Selling, Buying, ReduceOnly, IsExit
<1>2. Alike(ord, ord', Selling) /\ Alike(ord, ord', Buying)
  BY DEF Alike, Selling, Buying
<1>3. Total(ord, Selling) = Total(ord', Selling) /\ Total(ord, Buying) = Total(ord', Buying)
  BY <1>2, Totals, TotalAgree
<1>4. Reduced' = Reduced /\ Bought' = Bought
  <2>1. (Reduced = Total(ord, Selling) /\ Bought = Total(ord, Buying))'
    BY Zenon DEF Reduced, Bought, Filled, Total, Selling, Buying
  <2> QED
    BY <1>1, <1>3, <2>1, Totals
<1> QED
  BY <1>4 DEF Position

\* Nothing of the reduce-only orders is executed yet.
LEMMA NothingSold ==
  ASSUME Orders, kind \in Kinds, \A c \in Selling : ord[c].filled = 0
  PROVE  Position >= 0
<1>1. Reduced = 0
  BY Totals, TotalOfNone
<1> QED
  BY <1>1, Totals, PositionIs

LEMMA TotalGrows ==
  ASSUME NEW v, NEW w, NEW S, IsFiniteSet(S), Countable(v, S), Countable(w, S), NEW c \in S,
         w[c].filled = v[c].filled + 1, Alike(v, w, S \ {c})
  PROVE  Total(w, S) = Total(v, S) + 1
<1> DEFINE R == S \ {c}
<1>1. Total(v, S) = v[c].filled + Total(v, R) /\ Total(w, S) = w[c].filled + Total(w, R)
  BY TotalSplit
<1>2. IsFiniteSet(R) /\ Countable(v, R)
  BY FS_Subset DEF Countable
<1>3. Total(v, R) = Total(w, R)
  <2> HIDE DEF R
  <2> QED
    BY <1>2, TotalAgree DEF R
<1>4. Total(v, R) \in Nat
  <2> HIDE DEF R
  <2> QED
    BY <1>2, TotalSplit
<1>5. v[c].filled \in Nat
  BY DEF Countable
<1> HIDE DEF R
<1> QED
  BY <1>1, <1>3, <1>4, <1>5

\* An execution does not sell what is not there.
LEMMA FillBacked ==
  ASSUME IInv, Backed, NEW c \in Cids, Fill(c)
  PROVE  Position' >= 0
<1> USE Facts
<1>1. Orders' /\ kind' = kind /\ exit' = exit /\ kind \in Kinds
  BY ExchangeSteps DEF IInv, TypeOK
<1>2. /\ ReduceOnly(c) => Position > 0
      /\ ord'[c].filled = ord[c].filled + 1
      /\ \A d \in Cids \ {c} : ord'[d] = ord[d]
  BY DEF Fill, Orders
<1>3. Selling' = Selling /\ Buying' = Buying
  BY <1>1 DEF Selling, Buying, ReduceOnly, IsExit
<1>4. /\ Reduced' = Total(ord', Selling) /\ Bought' = Total(ord', Buying)
      /\ Countable(ord', Selling) /\ Countable(ord', Buying)
  <2>1. (Reduced = Total(ord, Selling) /\ Bought = Total(ord, Buying))'
    BY Zenon DEF Reduced, Bought, Filled, Total, Selling, Buying
  <2>2. Countable(ord', Selling) /\ Countable(ord', Buying)
    BY <1>1, IdBounds DEF Countable, Orders, OrderRec, Selling, Buying
  <2> QED
    BY <1>3, <2>1, <2>2
<1>5. Position' = (IF kind \in {"EXIT", "PARTIAL"} THEN Held ELSE 0) + Bought' - Reduced'
  BY <1>1 DEF Position
<1>6. CASE c \in Selling
  <2>1. Alike(ord, ord', Selling \ {c}) /\ Alike(ord, ord', Buying)
    BY <1>2, <1>6 DEF Alike, Selling, Buying
  <2>2. Reduced' = Reduced + 1
    BY <1>2, <1>4, <1>6, <2>1, Totals, TotalGrows
  <2>3. Bought' = Bought
    BY <1>4, <2>1, Totals, TotalAgree
  <2>4. Position > 0
    BY <1>2, <1>6 DEF Selling
  <2> QED
    BY <1>1, <1>5, <2>2, <2>3, <2>4, Totals, PositionIs
<1>7. CASE c \in Buying
  <2>1. Alike(ord, ord', Buying \ {c}) /\ Alike(ord, ord', Selling)
    BY <1>2, <1>7 DEF Alike, Selling, Buying
  <2>2. Bought' = Bought + 1
    BY <1>2, <1>4, <1>7, <2>1, Totals, TotalGrows
  <2>3. Reduced' = Reduced
    BY <1>4, <2>1, Totals, TotalAgree
  <2>4. Position >= 0
    BY DEF Backed
  <2> QED
    BY <1>1, <1>5, <2>2, <2>3, <2>4, Totals, PositionIs
<1> QED
  BY <1>6, <1>7 DEF Selling, Buying

LEMMA ExchangeBacked ==
  ASSUME IInv, Backed, NEW c \in Cids, Land(c) \/ Fill(c) \/ Expire(c)
  PROVE  Backed'
<1> USE Facts
<1>0. Orders /\ Sizing /\ ~(ord[c].st = "none")
  BY DEF IInv, Land, Fill, Expire
<1>1. /\ Orders' /\ UNCHANGED <<kind, pc, cid, exit, first, out>>
      /\ \A d \in Cids : ord[d].filled <= ord'[d].filled
  BY <1>0, ExchangeSteps
<1>2. Position' >= 0
  <2>1. CASE Fill(c)
    BY <2>1, FillBacked
  <2>2. CASE Land(c) \/ Expire(c)
    <3>1. \A d \in Cids : ord'[d].filled = ord[d].filled
      BY <2>2 DEF Land, Expire, Orders, OrderRec
    <3> QED
      BY <1>1, <3>1, PositionKept DEF Backed
  <2> QED
    BY <2>1, <2>2
<1>3. \A d \in Cids : ord'[d].st = "none" => ord'[d].filled = 0
  <2>1. \A d \in Cids \ {c} : ord'[d] = ord[d]
    BY DEF Land, Fill, Expire, Orders
  <2>2. ord'[c].st # "none"
    <3>1. CASE Land(c)
      BY <3>1 DEF Land, Orders, OrderRec
    <3>2. CASE Fill(c) \/ Expire(c)
      <4>1. ord[c].st = "open"
        BY <3>2 DEF Fill, Expire
      <4>2. ord'[c].st \in {"open", "closed"}
        BY <1>0, <4>1, ExchangeSteps
      <4> QED
        BY <4>2
    <3> QED
      BY <3>1, <3>2
  <2> QED
    BY <2>1, <2>2 DEF Backed
<1>4. \A d \in Cids : ord[d].filled \in Nat /\ ord'[d].filled \in Nat
  BY <1>1, IdBounds DEF Orders, OrderRec
<1>5. first' > 0 => \E d \in Cids : d < exit' /\ first' <= ord'[d].filled
  BY <1>1, <1>4, IdBounds DEF Backed
<1>6. pc' = "done" => \/ kind' = "AGGRESSIVE" /\ exit' # 0 /\ out' = 0
                      \/ (kind' = "AGGRESSIVE" => exit' = 0) /\ out' <= first' + ord'[cid'].filled
  <2>1. out \in Nat /\ first \in Nat
    BY IdBounds DEF IInv, TypeOK
  <2> QED
    BY <1>1, <1>4, <2>1 DEF Backed
<1> QED
  BY <1>1, <1>2, <1>3, <1>5, <1>6 DEF Backed

LEMMA SubmitBacked == ASSUME IInv, Backed, Submit PROVE Backed'
<1> USE Facts, IdBounds
<1>0. /\ pc = "new" /\ cid = 1 /\ exit = 0 /\ first = 0 /\ pc' = "sent" /\ cid' = 1
      /\ kind' = kind /\ kind \in Kinds /\ first' = first /\ Request(1, Qty, ord) /\ 1 \in Cids
      /\ exit' = (IF kind = "EXIT" THEN 1 ELSE 0)
      /\ ord \in [Cids -> OrderRec] /\ Qty \in 1..Qty
  BY DEF Submit, Request, IInv, TypeOK, Counting, Orders
<1>1. /\ Orders' /\ ord'[1] = [st |-> "sent", filled |-> 0, size |-> Qty]
      /\ \A d \in Cids \ {1} : ord'[d] = ord[d]
  BY <1>0, Requests
<1>2. \A d \in Cids : ord[d].filled = 0
  BY <1>0 DEF IInv, Sizing, Backed
<1>3. \A d \in Cids : ord'[d].filled = 0
  BY <1>1, <1>2
<1>4. Position' >= 0
  <2>1. kind' \in Kinds /\ \A c \in Selling' : ord'[c].filled = 0
    BY <1>0, <1>3 DEF Selling
  <2>2. (Orders /\ kind \in Kinds /\ (\A c \in Selling : ord[c].filled = 0) => Position >= 0)'
    BY NothingSold, PTL
  <2> QED
    BY <1>1, <2>1, <2>2
<1> QED
  BY <1>0, <1>1, <1>3, <1>4 DEF Backed

\* A step of the call that draws no id and does not end it.
LEMMA CallBacked ==
  ASSUME IInv, Backed, Orders', UNCHANGED <<kind, exit, first>>, pc' # "done",
         \A c \in Cids : /\ ord'[c].filled = ord[c].filled
                         /\ ord'[c].st = "none" => ord[c].st = "none"
  PROVE  Backed'
<1>1. Position' >= 0
  BY Facts, PositionKept DEF Backed
<1> QED
  BY <1>1 DEF Backed

LEMMA PlaceBacked ==
  ASSUME IInv, Backed, Acknowledged \/ PlaceRaises \/ PlaceTimesOut \/ RecoverRaises
  PROVE  Backed'
<1> USE Facts
<1>1. /\ UNCHANGED <<kind, exit, first>> /\ pc' # "done"
      /\ ord' = ord \/ ord' = [ord EXCEPT ![cid].st = "closed"]
  BY DEF Acknowledged, PlaceRaises, PlaceTimesOut, RecoverRaises
<1>2. /\ Orders'
      /\ \A c \in Cids : /\ ord'[c].filled = ord[c].filled
                         /\ ord'[c].st = "none" => ord[c].st = "none"
  BY <1>1 DEF Orders, OrderRec
<1> QED
  BY <1>1, <1>2, CallBacked

\* The outcome is at most what the order had executed when it was last looked at.
LEMMA ResolvedBacked ==
  ASSUME IInv, Backed, NEW filled \in 0..Qty, filled <= ord[cid].filled, Resolved(filled),
         UNCHANGED <<kind, cid, exit, first, ord>>
  PROVE  Backed'
<1> USE Facts, IdBounds
<1>0. Orders'
  BY DEF Orders
<1>1. CASE pc' # "done"
  BY <1>0, <1>1, CallBacked
<1>2. CASE pc' = "done"
  <2>1. out' = Reported(filled)
    BY <1>2 DEF Resolved
  <2>2. \/ kind' = "AGGRESSIVE" /\ exit' # 0 /\ out' = 0
        \/ (kind' = "AGGRESSIVE" => exit' = 0) /\ out' <= first' + ord'[cid'].filled
    BY <2>1 DEF Reported
  <2>3. Position' >= 0
    BY <1>0, PositionKept DEF Backed
  <2> QED
    BY <2>2, <2>3 DEF Backed
<1> QED
  BY <1>1, <1>2

LEMMA PollBacked == ASSUME IInv, Backed, Poll PROVE Backed'
<1> USE Facts, IdBounds
<1>0. /\ pc = "resolving" /\ UNCHANGED <<kind, cid, exit, first, ord>>
      /\ seen <= ord[cid].filled /\ ord[cid].filled \in 0..Qty
  BY DEF Poll, IInv, Sizing
<1>1. CASE Resolved(ord[cid].filled)
  BY <1>0, <1>1, ResolvedBacked
<1>2. CASE Resolved(seen)
  BY <1>0, <1>2, ResolvedBacked
<1>3. CASE pc' = pc
  BY <1>0, <1>3, CallBacked DEF Orders
<1> QED
  BY <1>1, <1>2, <1>3 DEF Poll

\* A request with a fresh id executes nothing itself.
LEMMA RequestFresh ==
  ASSUME IInv, Backed, NEW orders \in [Cids -> OrderRec], NEW size \in 1..Qty, cid + 1 \in Cids,
         \A c \in Cids : /\ orders[c].filled = ord[c].filled
                         /\ orders[c].st = "none" => ord[c].st = "none",
         Request(cid + 1, size, orders)
  PROVE  /\ Orders'
         /\ \A c \in Cids : /\ ord'[c].filled = ord[c].filled
                            /\ ord'[c].st = "none" => ord[c].st = "none"
         /\ \A c \in Cids : c > cid => ord[c].filled = 0
<1> USE Facts, IdBounds
<1>1. /\ Orders' /\ ord'[cid + 1] = [st |-> "sent", filled |-> 0, size |-> size]
      /\ \A d \in Cids \ {cid + 1} : ord'[d] = orders[d]
  BY Requests
<1>2. \A c \in Cids : c > cid => ord[c].filled = 0
  BY DEF IInv, Sizing, Backed
<1>3. cid + 1 > cid
  OBVIOUS
<1> QED
  BY <1>1, <1>2, <1>3

LEMMA RecoverBacked == ASSUME IInv, Backed, Recover PROVE Backed'
<1> USE Facts, IdBounds
<1>1. CASE Resolved(ord[cid].filled) /\ UNCHANGED <<cid, ord>>
  <2>1. ord[cid].filled \in 0..Qty /\ UNCHANGED <<kind, exit, first>>
    BY DEF Recover
  <2> QED
    BY <1>1, <2>1, ResolvedBacked
<1>2. CASE Request(cid + 1, ord[cid].size, ord) /\ pc' = "resent"
  <2>1. pc = "lookup" /\ cid + 1 \in Cids /\ UNCHANGED <<kind, exit, first>>
    BY IdsLeft DEF Recover
  <2>2. ord[cid].size \in 1..Qty
    BY <2>1 DEF IInv, Sizing
  <2>3. /\ Orders'
        /\ \A c \in Cids : /\ ord'[c].filled = ord[c].filled
                           /\ ord'[c].st = "none" => ord[c].st = "none"
    BY <1>2, <2>1, <2>2, RequestFresh DEF Orders
  <2> QED
    BY <1>2, <2>1, <2>3, CallBacked
<1> QED
  BY <1>1, <1>2 DEF Recover

\* After the cancel another order leaves, the first one of place_exit perhaps, or the call
\* ends with what the order had executed before.
LEMMA CancelBacked == ASSUME IInv, Backed, Cancel PROVE Backed'
<1> USE Facts, IdBounds
<1>0. PICK after \in {ord, [ord EXCEPT ![cid].st = "closed"]} :
        \/ /\ NextSize > 0
           /\ Request(cid + 1, NextSize, after)
           /\ exit' = IF kind = "LIMIT" THEN 0 ELSE cid + 1
           /\ first' = IF kind = "PARTIAL" THEN seen ELSE 0
           /\ pc' = "sent"
        \/ /\ \/ pc' = "done" /\ out' = Reported(seen)
              \/ pc' = "raised"
           /\ ord' = after
           /\ UNCHANGED <<cid, exit, first>>
  BY DEF Cancel
<1>1. /\ pc = "cancelling" /\ exit = 0 /\ first = 0 /\ kind' = kind /\ kind \in Kinds \ {"EXIT"}
      /\ seen <= ord[cid].filled /\ seen \in Nat /\ seen < Qty
  BY DEF Cancel, IInv, TypeOK, Counting, Sizing, Cancels
<1>2. /\ after \in [Cids -> OrderRec]
      /\ \A c \in Cids : /\ after[c].filled = ord[c].filled
                         /\ after[c].st = "none" => ord[c].st = "none"
  BY DEF Orders, OrderRec
<1>3. CASE /\ NextSize > 0 /\ Request(cid + 1, NextSize, after)
           /\ exit' = (IF kind = "LIMIT" THEN 0 ELSE cid + 1)
           /\ first' = (IF kind = "PARTIAL" THEN seen ELSE 0)
           /\ pc' = "sent"
  <2>0. NextSize \in 1..Qty /\ cid + 1 \in Cids
    BY <1>1, <1>3, IdsLeft DEF NextSize, Kinds
  <2>1. /\ exit' = (IF kind = "LIMIT" THEN 0 ELSE cid + 1)
        /\ first' = (IF kind = "PARTIAL" THEN seen ELSE 0)
        /\ pc' = "sent" /\ Request(cid + 1, NextSize, after)
    BY <1>0, <1>3
  <2>2. /\ Orders'
        /\ \A c \in Cids : /\ ord'[c].filled = ord[c].filled
                           /\ ord'[c].st = "none" => ord[c].st = "none"
        /\ \A c \in Cids : c > cid => ord[c].filled = 0
    BY <1>2, <2>0, <2>1, RequestFresh
  <2>3. Position' >= 0
    <3>1. CASE kind = "PARTIAL" \/ kind = "LIMIT"
      <4>1. exit' = exit \/ kind = "PARTIAL"
        BY <1>1, <2>1, <3>1
      <4> QED
        BY <1>1, <2>2, <4>1, PositionKept DEF Backed
    <3>2. CASE kind = "AGGRESSIVE"
      <4>1. \A c \in Selling' : c \in Cids /\ c > cid
        BY <1>1, <2>0, <2>1, <3>2 DEF Selling, ReduceOnly, IsExit
      <4>2. kind' \in Kinds /\ \A c \in Selling' : ord'[c].filled = 0
        BY <1>1, <2>2, <4>1
      <4>3. (Orders /\ kind \in Kinds /\ (\A c \in Selling : ord[c].filled = 0) => Position >= 0)'
        BY NothingSold, PTL
      <4> QED
        BY <2>2, <4>2, <4>3
    <3> QED
      BY <1>1, <3>1, <3>2 DEF Kinds
  <2>4. kind' = "PARTIAL" \/ first' = 0
    BY <1>1, <2>1
  <2>5. first' > 0 => \E c \in Cids : c < exit' /\ first' <= ord'[c].filled
    <3>1. first' > 0 => kind = "PARTIAL"
      BY <2>1
    <3>2. kind = "PARTIAL" => cid < exit' /\ first' <= ord'[cid].filled
      BY <1>1, <2>1, <2>2
    <3> QED
      BY <3>1, <3>2
  <2> QED
    BY <2>1, <2>2, <2>3, <2>4, <2>5 DEF Backed
<1>4. CASE /\ pc' = "done" /\ out' = Reported(seen)
           /\ ord' = after /\ UNCHANGED <<cid, exit, first>>
  <2>1. ord' = after /\ pc' = "done" /\ out' = Reported(seen) /\ UNCHANGED <<cid, exit, first>>
    BY <1>4
  <2>2. Orders' /\ \A c \in Cids : /\ ord'[c].filled = ord[c].filled
                                   /\ ord'[c].st = "none" => ord[c].st = "none"
    BY <1>2, <2>1 DEF Orders
  <2>3. Position' >= 0
    BY <1>1, <2>1, <2>2, PositionKept DEF Backed
  <2>4. (kind' = "AGGRESSIVE" => exit' = 0) /\ out' <= first' + ord'[cid'].filled
    BY <1>1, <2>1, <2>2 DEF Reported
  <2>5. first' = 0
    BY <1>1, <2>1
  <2> QED
    BY <2>1, <2>2, <2>3, <2>4, <2>5 DEF Backed
<1>5. CASE pc' = "raised" /\ ord' = after /\ UNCHANGED <<cid, exit, first>>
  BY <1>1, <1>2, <1>5, CallBacked DEF Orders
<1> QED
  BY <1>0, <1>3, <1>4, <1>5

LEMMA NextBacked == IInv /\ Backed /\ [Next]_vars => Backed'
<1> SUFFICES ASSUME IInv, Backed, [Next]_vars PROVE Backed'
  OBVIOUS
<1>1. CASE \E c \in Cids : Land(c) \/ Fill(c) \/ Expire(c)
  BY <1>1, ExchangeBacked
<1>2. CASE Submit
  BY <1>2, SubmitBacked
<1>3. CASE Acknowledged \/ PlaceRaises \/ PlaceTimesOut \/ RecoverRaises
  BY <1>3, PlaceBacked
<1>4. CASE Recover
  BY <1>4, RecoverBacked
<1>5. CASE Poll
  BY <1>5, PollBacked
<1>6. CASE Cancel
  BY <1>6, CancelBacked
<1>7. CASE UNCHANGED vars
  <2>1. Orders'
    BY <1>7, Facts DEF vars, Orders
  <2>2. Position' >= 0
    BY <1>7, <2>1, Facts, PositionKept DEF vars, Backed
  <2> QED
    BY <1>7, <2>2 DEF vars, Backed
<1> QED
  BY <1>1, <1>2, <1>3, <1>4, <1>5, <1>6, <1>7 DEF Next

\* What is claimed is part of what the orders that back it add up to.
LEMMA BackedSuffices == IInv /\ Backed => NeverOverReports
<1> SUFFICES ASSUME IInv, Backed, pc = "done"
             PROVE  out <= IF kind \in {"EXIT", "PARTIAL"} THEN Reduced ELSE Position
  BY DEF NeverOverReports
<1> USE Facts, IdBounds
<1>0. kind \in Kinds /\ out \in Nat /\ exit \in Nat /\ first \in Nat /\ ord[cid].filled \in Nat
  BY DEF IInv, TypeOK
<1>1. CASE kind \in {"LIMIT", "AGGRESSIVE"} /\ exit = 0
  <2>1. first = 0 /\ out <= ord[cid].filled
    BY <1>0, <1>1 DEF Backed
  <2>2. Selling = {} /\ cid \in Buying
    BY <1>1 DEF Selling, Buying, ReduceOnly, IsExit
  <2>3. Reduced = 0
    BY <2>2, Totals, TotalOfNone
  <2>4. ord[cid].filled <= Bought
    BY <2>2, Totals, TotalOfSome
  <2>5. Position = Bought
    BY <1>1, <2>3, Totals, PositionIs DEF Kinds
  <2> QED
    BY <1>0, <1>1, <2>1, <2>4, <2>5, Totals
<1>2. CASE kind = "AGGRESSIVE" /\ exit # 0
  BY <1>2 DEF Backed
<1>3. CASE kind \in {"EXIT", "PARTIAL"}
  <2>1. out <= first + ord[cid].filled
    BY <1>3 DEF Backed
  <2>2. cid \in Selling
    BY <1>3 DEF IInv, Counting, Selling, ReduceOnly, IsExit
  <2>3. CASE first = 0
    <3>1. ord[cid].filled <= Reduced
      BY <2>2, Totals, TotalOfSome
    <3> QED
      BY <1>0, <1>3, <2>1, <2>3, <3>1, Totals
  <2>4. CASE first > 0
    <3>1. PICK c \in Cids : c < exit /\ first <= ord[c].filled
      BY <2>4 DEF Backed
    <3>2. c # cid /\ c \in Selling /\ ord[c].filled \in Nat
      BY <1>3, <2>4, <3>1 DEF IInv, Counting, Backed, Selling, ReduceOnly, Orders, OrderRec
    <3>3. ord[c].filled + ord[cid].filled <= Reduced
      BY <2>2, <3>2, Totals, TotalOfSome
    <3> QED
      BY <1>0, <1>3, <2>1, <3>1, <3>2, <3>3, Totals
  <2> QED
    BY <1>0, <2>3, <2>4
<1>4. kind = "LIMIT" => exit = 0
  BY DEF IInv, Counting
<1> QED
  BY <1>0, <1>1, <1>2, <1>3, <1>4 DEF Kinds

\* The outcome never claims a fill that the exchange has not made, for every policy,
\* number of tries and fault of the exchange client.
THEOREM OutcomesAreBacked == Spec => []NeverOverReports
<1>1. Init => Backed
  <2> SUFFICES ASSUME Init PROVE Backed
    OBVIOUS
  <2>1. Orders /\ kind \in Kinds
    BY InitInv, Facts DEF Init
  <2>2. \A c \in Cids : ord[c].filled = 0
    BY DEF Init
  <2>3. Position >= 0
    BY <2>1, <2>2, NothingSold DEF Selling
  <2> QED
    BY <2>2, <2>3 DEF Init, Backed
<1>2. IInv /\ Backed /\ [Next]_vars => Backed'
  BY NextBacked
<1> QED
  BY <1>1, <1>2, InitInv, NextInv, BackedSuffices, PTL DEF Spec

=============================================================================
