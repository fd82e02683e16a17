--------------------------- MODULE EntryGate_proofs ---------------------------
(***************************************************************************)
(* Proofs about EntryGate, for any configuration, any number of symbols    *)
(* and whatever happens while an entry is under way: a tripped switch lets *)
(* one more order out, the limits on the bot's positions hold, an order    *)
(* fills for a symbol in its cooldown only if a close of the symbol was    *)
(* not booked when it was approved, and what the open positions risk       *)
(* together stays within the budget.                                       *)
(***************************************************************************)
EXTENDS EntryGate, FiniteSetTheorems, WellFoundedInduction, TLAPS

-----------------------------------------------------------------------------
(* The switch.                                                             *)

\* OneLateOrder alone does not say that no approved entry is left once an order was
\* late: the next one is approved by a switch that has not tripped.
LateInv ==
  /\ "tripped" \in DOMAIN switch /\ "stage" \in DOMAIN entry
  /\ late \in {0, 1}
  /\ late = 1 => switch.tripped /\ ~At("BOOK")

\* k has tripped, or it is j with other counters.
Follows(j, k) == "tripped" \in DOMAIN k /\ (j.tripped => k.tripped)

\* What is recorded in a switch does not reset it.
LEMMA RecordingFollows ==
  ASSUME NEW k, "tripped" \in DOMAIN k
  PROVE  /\ Follows(k, k) /\ Follows(k, OrderFailure(k)) /\ Follows(k, Disconnect(k))
         /\ Follows(k, Mismatch(k)) /\ Follows(k, SlippageBreach(k)) /\ Follows(k, SwitchAged(k))
         /\ \A b \in BOOLEAN : Follows(k, TradeResult(k, b)) /\ Follows(k, PnlUpdated(k, b))
<1>1. \A f \in {"failures", "drops"} : Follows(k, Times(k, f))
  BY DEF Follows, Times
<1>2. \A f \in {"mismatches", "slippages", "streak"} : Follows(k, Counts(k, f))
  BY DEF Follows, Counts
<1>3. \A b \in BOOLEAN : Follows(k, TradeResult(k, b))
  BY <1>2 DEF Follows, TradeResult
<1>4. \A b \in BOOLEAN : Follows(k, PnlUpdated(k, b))
  BY DEF Follows, PnlUpdated
<1>5. Follows(k, k) /\ Follows(k, SwitchAged(k))
  BY DEF Follows, SwitchAged
<1> QED
  BY <1>1, <1>2, <1>3, <1>4, <1>5 DEF OrderFailure, Disconnect, Mismatch, SlippageBreach

\* Nor does a failed emergency close, which is recorded on top.
LEMMA EmergencyFollows ==
  ASSUME NEW k, "tripped" \in DOMAIN k
  PROVE  Follows(k, EmergencyCloseFailure(OrderFailure(k)))
<1>1. Follows(k, OrderFailure(k))
  BY RecordingFollows
<1>2. \A j : "tripped" \in DOMAIN j => Follows(j, EmergencyCloseFailure(j))
  BY DEF Follows, EmergencyCloseFailure, Counts
<1> QED
  BY <1>1, <1>2 DEF Follows

\* evaluate latches.
LEMMA EvaluatedFollows ==
  ASSUME NEW j, NEW k, Follows(j, k)
  PROVE  Follows(j, Evaluated(k))
  BY DEF Follows, Evaluated, Tripped, NotTripped

\* A step that sends nothing late and approves nothing.
LEMMA LateKept ==
  ASSUME LateInv, Follows(switch, switch'), late' = late,
         "stage" \in DOMAIN entry', At("BOOK")' => At("BOOK")
  PROVE  LateInv'
  BY DEF LateInv, Follows

LEMMA LoopLate == ASSUME LateInv, Loop PROVE LateInv'
<1>0. "tripped" \in DOMAIN switch /\ "stage" \in DOMAIN entry
  BY DEF LateInv
<1>a. "stage" \in DOMAIN NoEntry /\ NoEntry.stage = "NONE"
  BY DEF NoEntry
<1>1. ASSUME NEW r \in Requests, Gate(r) PROVE LateInv'
  <2>1. ~switch.tripped /\ switch' = switch /\ late' = late
    BY <1>1 DEF Gate, PreGate, Trips, guards
  <2>2. "stage" \in DOMAIN entry'
    BY <1>1 DEF Gate
  <2> QED
    BY <2>1, <2>2 DEF LateInv
<1>2. CASE GateLatches
  <2>1. Follows(switch, switch')
    BY <1>0, <1>2, RecordingFollows, EvaluatedFollows DEF GateLatches
  <2> QED
    BY <1>0, <1>2, <2>1, LateKept DEF GateLatches, At
<1>3. CASE PostGate
  <2>1. "stage" \in DOMAIN entry' /\ entry'.stage = "SENT" /\ switch' = switch
    BY <1>0, <1>3 DEF PostGate, guards
  <2>2. late = 0 /\ late' = IF switch.tripped THEN 1 ELSE 0
    BY <1>3 DEF PostGate, LateInv
  <2> QED
    BY <1>0, <2>1, <2>2 DEF LateInv, At
<1>4. CASE Abandoned
  BY <1>0, <1>a, <1>4, RecordingFollows, LateKept DEF Abandoned, At, guards
<1>5. CASE OrderFails
  <2>1. Follows(switch, switch')
    BY <1>0, <1>5, RecordingFollows DEF OrderFails, Records
  <2> QED
    BY <1>a, <1>5, <2>1, LateKept DEF OrderFails, At
<1>6. ASSUME NEW slip \in {0, Slip}, OrderFills(slip) PROVE LateInv'
  <2>1. Follows(switch, switch')
    BY <1>0, <1>6, RecordingFollows DEF OrderFills, Records
  <2>2. "stage" \in DOMAIN entry' /\ entry'.stage = "PROTECT" /\ late' = late
    BY <1>0, <1>6 DEF OrderFills
  <2> QED
    BY <2>1, <2>2, LateKept DEF At
<1>7. ASSUME NEW status \in {"ACTIVE", "PENDING"}, Protected(status) PROVE LateInv'
  BY <1>0, <1>a, <1>7, RecordingFollows, LateKept DEF Protected, At, guards
<1>8. ASSUME NEW closed \in BOOLEAN, ProtectionFails(closed) PROVE LateInv'
  <2>1. Follows(switch, switch')
    BY <1>0, <1>8, RecordingFollows, EmergencyFollows DEF ProtectionFails, Records
  <2> QED
    BY <1>a, <1>8, <2>1, LateKept DEF ProtectionFails, At
<1> QED
  BY <1>1, <1>2, <1>3, <1>4, <1>5, <1>6, <1>7, <1>8 DEF Loop

LEMMA OthersLate == ASSUME LateInv, Others PROVE LateInv'
<1>0. "tripped" \in DOMAIN switch /\ "stage" \in DOMAIN entry
  BY DEF LateInv
<1>1. ASSUME NEW by \in Closers,
             \/ \E s \in Symbols : Closed(s, by)
             \/ \E win \in BOOLEAN : Booked(by, win)
             \/ NeverBooked(by)
      PROVE  LateInv'
  BY <1>0, <1>1, RecordingFollows, LateKept DEF Closed, Booked, NeverBooked, At, guards
<1>2. ASSUME NEW s \in Symbols, ExitFails(s) \/ StopFired(s) \/ ExternalOpened(s) PROVE LateInv'
  BY <1>0, <1>2, RecordingFollows, LateKept DEF ExitFails, StopFired, ExternalOpened, At, guards
<1>3. ASSUME NEW s \in Symbols, ExternalClosed(s) PROVE LateInv'
  BY <1>0, <1>3, RecordingFollows, LateKept DEF ExternalClosed, At
<1>4. ASSUME NEW s \in Symbols, ManualAdd(s) PROVE LateInv'
  <2>1. "stage" \in DOMAIN entry' /\ entry'.stage = entry.stage
    BY <1>0, <1>4 DEF ManualAdd
  <2> QED
    BY <1>0, <1>4, <2>1, RecordingFollows, LateKept DEF ManualAdd, At
<1>5. CASE PauseEnds \/ Pause \/ Resume
  BY <1>0, <1>5, RecordingFollows, LateKept DEF PauseEnds, Pause, Resume, At, guards
<1>6. CASE Dropped
  BY <1>0, <1>6, RecordingFollows, EvaluatedFollows, LateKept DEF Dropped, Applies, At
<1>7. CASE Reload
  <2>1. "stage" \in DOMAIN entry'
    BY <1>0, <1>7 DEF Reload
  <2> QED
    BY <1>7, <2>1 DEF Reload, LateInv, NotTripped
<1>8. CASE Tick
  BY <1>0, <1>8, RecordingFollows, LateKept DEF Tick, At
<1>9. ASSUME NEW breached \in BOOLEAN, UpdatePnl(breached) PROVE LateInv'
  BY <1>0, <1>9, RecordingFollows, EvaluatedFollows, LateKept DEF UpdatePnl, Applies, At
<1> QED
  BY <1>1, <1>2, <1>3, <1>4, <1>5, <1>6, <1>7, <1>8, <1>9 DEF Others

\* After the kill switch has tripped at most one more order is sent, whatever is recorded,
\* reloaded or resumed meanwhile.
THEOREM OneOrderIsLate == Spec => []OneLateOrder
<1>1. Init => LateInv
  BY DEF Init, LateInv, NotTripped, NoEntry, At
<1>2. LateInv /\ [Next]_vars => LateInv'
  <2> SUFFICES ASSUME LateInv, [Next]_vars PROVE LateInv'
    OBVIOUS
  <2>0. "tripped" \in DOMAIN switch
    BY DEF LateInv
  <2>1. CASE Loop
    BY <2>1, LoopLate
  <2>2. CASE Others
    BY <2>2, OthersLate
  <2>3. CASE Apply
    BY <2>0, <2>3, RecordingFollows, EvaluatedFollows, LateKept DEF Apply, Applies, At, LateInv
  <2>4. CASE UNCHANGED vars
    BY <2>4 DEF vars, guards, LateInv, At
  <2>5. CASE \E ok \in BOOLEAN : Announced(ok)
    BY <2>0, <2>5, RecordingFollows, LateKept DEF Announced, At, LateInv, guards
  <2> QED
    BY <2>1, <2>2, <2>3, <2>4, <2>5 DEF Next
<1>3. LateInv => OneLateOrder
  BY DEF LateInv, OneLateOrder
<1> QED
  BY <1>1, <1>2, <1>3, PTL DEF Spec

-----------------------------------------------------------------------------
(* The limits.                                                             *)

\* Symbols of the positions that count.
Holders == {s \in Symbols : IsBot(s, {"PENDING", "ACTIVE"})}
HoldersOf(side) == {s \in Holders : reg[s].side = side}

\* The records: a position of the bot is registered under its own symbol.
Shape ==
  /\ DOMAIN reg = Symbols /\ reg = [s \in Symbols |-> reg[s]]
  /\ \A s \in Symbols :
       /\ {"status", "bot", "symbol", "side", "risk"} \subseteq DOMAIN reg[s]
       /\ reg[s].bot => reg[s].symbol = s
  /\ "stage" \in DOMAIN entry

\* An approved entry that has no position yet: there is room for it, on its side too.
\* WithinLimits says so only of the state in which it was approved.
Room ==
  At("BOOK") \/ At("SENT")
    => /\ entry.r \in Requests
       /\ Cardinality(Holders) < MaxPositions
       /\ Cardinality(HoldersOf(entry.r.side)) < Risk.sameDirection

\* The position that awaits its protection counts all the while.
Filled == At("PROTECT") => entry.r.symbol \in Holders

LimitInv ==
  /\ Shape /\ Room /\ Filled
  /\ Cardinality(Holders) <= MaxPositions
  /\ \A side \in Sides : Cardinality(HoldersOf(side)) <= Risk.sameDirection

\* Positions are told apart by their symbols, so counting them counts symbols.
LEMMA SymbolsCount ==
  ASSUME Shape
  PROVE  /\ Cardinality(ActiveBot) = Cardinality(Holders)
         /\ \A side \in Sides : Cardinality({p \in ActiveBot : p.side = side})
                                  = Cardinality(HoldersOf(side))
<1>0. IsFiniteSet(Holders)
  BY GateAssumption, FS_Subset DEF Holders
<1>1. \A s, t \in Holders : reg[s] = reg[t] => s = t
  BY DEF Holders, IsBot, Shape
<1>2. ActiveBot = {reg[s] : s \in Holders}
  BY DEF ActiveBot, Holders
<1>3. ASSUME NEW S \in SUBSET Holders
      PROVE  Cardinality({reg[s] : s \in S}) = Cardinality(S)
  <2> DEFINE T == {reg[s] : s \in S}
             f == [s \in S |-> reg[s]]
  <2>1. IsFiniteSet(S)
    BY <1>0, FS_Subset
  <2>2. f \in Bijection(S, T)
    BY <1>1 DEF Bijection, Injection, Surjection, IsInjective
  <2> QED
    BY <2>1, <2>2, FS_Bijection DEF ExistsBijection
<1>4. ASSUME NEW side \in Sides
      PROVE  {p \in ActiveBot : p.side = side} = {reg[s] : s \in HoldersOf(side)}
  BY <1>2 DEF HoldersOf
<1> QED
  BY <1>2, <1>3, <1>4 DEF HoldersOf

\* Positions that end, or change otherwise than by becoming the bot's.
LEMMA LimitKept ==
  ASSUME LimitInv, Shape', Filled', Holders' \subseteq Holders,
         \A s \in Holders' : reg'[s].side = reg[s].side,
         (At("BOOK") \/ At("SENT"))' => (At("BOOK") \/ At("SENT")) /\ entry'.r = entry.r
  PROVE  LimitInv'
<1>1. IsFiniteSet(Holders)
  BY GateAssumption, FS_Subset DEF Holders
<1>2. ASSUME NEW S \in SUBSET Symbols, NEW T \in SUBSET S
      PROVE  Cardinality(S) \in Nat /\ Cardinality(T) \in Nat /\ Cardinality(T) <= Cardinality(S)
  BY GateAssumption, FS_Subset, FS_CardinalityType
<1>3. Cardinality(Holders)' \in Nat /\ Cardinality(Holders)' <= Cardinality(Holders)
      /\ Cardinality(Holders) \in Nat
  BY <1>2 DEF Holders
<1>4. ASSUME NEW side
      PROVE  /\ Cardinality(HoldersOf(side))' \in Nat /\ Cardinality(HoldersOf(side)) \in Nat
             /\ Cardinality(HoldersOf(side))' <= Cardinality(HoldersOf(side))
  <2>1. HoldersOf(side)' \subseteq HoldersOf(side) /\ HoldersOf(side) \subseteq Symbols
    BY DEF HoldersOf, Holders
  <2> QED
    BY <1>2, <2>1
<1>5. MaxPositions \in Nat /\ Risk.sameDirection \in Nat
  BY RiskAssumption
<1>6. Room'
  BY <1>3, <1>4, <1>5 DEF LimitInv, Room
<1>7. Cardinality(Holders)' <= MaxPositions
  BY <1>3, <1>5 DEF LimitInv
<1>8. \A side \in Sides : Cardinality(HoldersOf(side))' <= Risk.sameDirection
  BY <1>4, <1>5 DEF LimitInv
<1> QED
  BY <1>6, <1>7, <1>8 DEF LimitInv

\* A step that leaves the positions alone and approves nothing.
LEMMA PositionsLeft ==
  ASSUME LimitInv, reg' = reg, "stage" \in DOMAIN entry',
         (At("BOOK") \/ At("SENT"))' => (At("BOOK") \/ At("SENT")) /\ entry'.r = entry.r,
         At("PROTECT")' => At("PROTECT") /\ entry'.r = entry.r
  PROVE  LimitInv'
<1>1. Holders' = Holders /\ Shape'
  BY DEF Holders, IsBot, Shape, LimitInv
<1>2. Filled'
  BY <1>1 DEF LimitInv, Filled
<1> QED
  BY <1>1, <1>2, LimitKept

\* A step that changes one position, which was one of the bot's that count or becomes none.
LEMMA PositionChanges ==
  ASSUME LimitInv, NEW s \in Symbols, NEW p, reg' = [reg EXCEPT ![s] = p],
         {"status", "bot", "symbol", "side", "risk"} \subseteq DOMAIN p,
         p.bot => p.symbol = s,
         p.bot /\ p.status \in {"PENDING", "ACTIVE"} => s \in Holders /\ p.side = reg[s].side,
         "stage" \in DOMAIN entry',
         (At("BOOK") \/ At("SENT"))' => (At("BOOK") \/ At("SENT")) /\ entry'.r = entry.r,
         At("PROTECT")' => At("PROTECT") /\ entry'.r = entry.r /\ ~Entering(s)
  PROVE  LimitInv'
<1>1. Shape'
  BY DEF Shape, LimitInv
<1>2. reg'[s] = p /\ \A t \in Symbols \ {s} : reg'[t] = reg[t]
  BY DEF Shape, LimitInv
<1>3. Holders' \subseteq Holders /\ \A t \in Holders' : reg'[t].side = reg[t].side
  BY <1>2 DEF Holders, IsBot
<1>4. Filled'
  BY <1>2 DEF LimitInv, Filled, Holders, IsBot, Entering, At
<1> QED
  BY <1>1, <1>3, <1>4, LimitKept

\* The entry that was approved becomes a position.
LEMMA FillLimit ==
  ASSUME LimitInv, NEW slip, OrderFills(slip)
  PROVE  LimitInv'
<1> DEFINE r == entry.r
           p == reg'[r.symbol]
<1>1. At("SENT") /\ r \in Requests /\ r.symbol \in Symbols /\ r.side \in Sides
  BY GateAssumption DEF OrderFills, LimitInv, Room, Request
<1>2. /\ {"status", "bot", "symbol", "side", "risk"} \subseteq DOMAIN p
      /\ p.symbol = r.symbol /\ p.side = r.side
      /\ \A t \in Symbols \ {r.symbol} : reg'[t] = reg[t]
      /\ DOMAIN reg' = Symbols /\ reg' = [t \in Symbols |-> reg'[t]]
  BY <1>1 DEF OrderFills, LimitInv, Shape
<1>3. "stage" \in DOMAIN entry' /\ entry'.stage = "PROTECT"
  BY DEF OrderFills, LimitInv, Shape
<1>4. Shape'
  BY <1>1, <1>2, <1>3 DEF LimitInv, Shape
<1>5. Holders' \subseteq Holders \cup {r.symbol}
  BY <1>1, <1>2 DEF Holders, IsBot
<1>6. \A side \in Sides :
        HoldersOf(side)' \subseteq HoldersOf(side) \cup IF side = r.side THEN {r.symbol} ELSE {}
  BY <1>1, <1>2, <1>5 DEF HoldersOf, Holders, IsBot
<1>7. ASSUME NEW S \in SUBSET Symbols, NEW T \in SUBSET (S \cup {r.symbol})
      PROVE  /\ Cardinality(S) \in Nat /\ Cardinality(T) \in Nat
             /\ Cardinality(T) <= Cardinality(S) + 1
  <2>1. IsFiniteSet(S) /\ IsFiniteSet(S \cup {r.symbol})
    BY GateAssumption, FS_Subset, FS_AddElement
  <2>a. Cardinality(S) \in Nat
    BY <2>1, FS_CardinalityType
  <2>b. Cardinality(S \cup {r.symbol})
          = IF r.symbol \in S THEN Cardinality(S) ELSE Cardinality(S) + 1
    BY <2>1, FS_AddElement
  <2>2. Cardinality(S \cup {r.symbol}) <= Cardinality(S) + 1 /\ Cardinality(S) \in Nat
    BY <2>a, <2>b
  <2>3. Cardinality(T) <= Cardinality(S \cup {r.symbol}) /\ Cardinality(T) \in Nat
        /\ Cardinality(S \cup {r.symbol}) \in Nat
    BY <2>1, FS_Subset, FS_CardinalityType
  <2> QED
    BY <2>2, <2>3
<1>8. MaxPositions \in Nat /\ Risk.sameDirection \in Nat
  BY RiskAssumption
<1>9. Cardinality(Holders)' <= MaxPositions
  <2>1. Holders \in SUBSET Symbols
    BY DEF Holders
  <2>2. Cardinality(Holders)' <= Cardinality(Holders) + 1
        /\ Cardinality(Holders) \in Nat /\ Cardinality(Holders)' \in Nat
    BY <1>5, <1>7, <2>1
  <2> QED
    BY <1>1, <1>8, <2>2 DEF LimitInv, Room
<1>10. ASSUME NEW side \in Sides PROVE Cardinality(HoldersOf(side))' <= Risk.sameDirection
  <2>1. HoldersOf(side) \in SUBSET Symbols
    BY DEF Holders, HoldersOf
  <2>2. HoldersOf(side)' \subseteq HoldersOf(side) \cup {r.symbol}
    BY <1>6
  <2>3. Cardinality(HoldersOf(side))' <= Cardinality(HoldersOf(side)) + 1
        /\ Cardinality(HoldersOf(side)) \in Nat /\ Cardinality(HoldersOf(side))' \in Nat
    BY <1>7, <2>1, <2>2
  <2>4. CASE side = r.side
    BY <1>1, <1>8, <2>3, <2>4 DEF LimitInv, Room
  <2>5. CASE side # r.side
    <3>1. HoldersOf(side)' \subseteq HoldersOf(side)
      BY <1>6, <2>5
    <3>2. IsFiniteSet(HoldersOf(side))
      BY GateAssumption, FS_Subset, <2>1
    <3>3. Cardinality(HoldersOf(side))' <= Cardinality(HoldersOf(side))
      BY <3>1, <3>2, FS_Subset
    <3> QED
      BY <1>8, <2>3, <3>3 DEF LimitInv
  <2> QED
    BY <2>4, <2>5
<1>11. Room'
  BY <1>3 DEF Room, At
<1>12. Filled'
  BY <1>1 DEF OrderFills, LimitInv, Shape, Filled, Holders, IsBot
<1> QED
  BY <1>4, <1>9, <1>10, <1>11, <1>12 DEF LimitInv

\* The limits that approve looks at leave room for one more position.
LEMMA GateLimit ==
  ASSUME LimitInv, NEW r \in Requests, Gate(r)
  PROVE  LimitInv'
<1>1. r.side \in Sides
  BY GateAssumption DEF Request
<1>2. Cardinality(ActiveBot) < MaxPositions
      /\ Cardinality({p \in ActiveBot : p.side = r.side}) < Risk.sameDirection
  BY DEF Gate, Approved, AccountLimits, Context
<1>3. Cardinality(Holders) < MaxPositions /\ Cardinality(HoldersOf(r.side)) < Risk.sameDirection
  BY <1>1, <1>2, SymbolsCount DEF LimitInv
<1>4. reg' = reg /\ entry'.r = r /\ "stage" \in DOMAIN entry'
  BY DEF Gate
<1>5. Shape' /\ Holders' = Holders /\ \A side : HoldersOf(side)' = HoldersOf(side)
  BY <1>4 DEF LimitInv, Shape, Holders, HoldersOf, IsBot
<1>6. Filled'
  BY DEF Gate, Filled, At
<1> QED
  BY <1>3, <1>4, <1>5, <1>6 DEF LimitInv, Room

\* The position that was filled is protected, closed or left as it is.
LEMMA ProtectLimit ==
  ASSUME LimitInv,
         \/ \E status \in {"ACTIVE", "PENDING"} : Protected(status)
         \/ \E closed \in BOOLEAN : ProtectionFails(closed)
  PROVE  LimitInv'
<1> DEFINE s == entry.r.symbol
<1>1. "stage" \in DOMAIN entry' /\ entry'.stage = "NONE"
  BY DEF Protected, ProtectionFails, NoEntry
<1>2. s \in Symbols /\ s \in Holders
  BY DEF Protected, ProtectionFails, LimitInv, Filled, Holders
<1>3. CASE reg' = reg
  BY <1>1, <1>3, PositionsLeft DEF At
<1>4. CASE reg' = [reg EXCEPT ![s] = NoPosition]
  <2>1. ~NoPosition.bot /\ {"status", "bot", "symbol", "side", "risk"} \subseteq DOMAIN NoPosition
    BY DEF NoPosition
  <2> QED
    BY <1>1, <1>2, <1>4, <2>1, PositionChanges DEF At
<1>5. ASSUME NEW status, reg' = [reg EXCEPT ![s].status = status] PROVE LimitInv'
  <2> DEFINE p == [reg[s] EXCEPT !.status = status]
  <2>1. /\ {"status", "bot", "symbol", "side", "risk"} \subseteq DOMAIN p
        /\ p.bot => p.symbol = s
        /\ p.side = reg[s].side
    BY <1>2 DEF LimitInv, Shape
  <2>2. reg' = [reg EXCEPT ![s] = p]
    BY <1>5
  <2> HIDE DEF p
  <2> QED
    BY <1>1, <1>2, <2>1, <2>2, PositionChanges DEF At
<1> QED
  BY <1>3, <1>4, <1>5 DEF Protected, ProtectionFails

LEMMA LoopLimit == ASSUME LimitInv, Loop PROVE LimitInv'
<1>0. "stage" \in DOMAIN entry
  BY DEF LimitInv, Shape
<1>a. "stage" \in DOMAIN NoEntry /\ NoEntry.stage = "NONE"
  BY DEF NoEntry
<1>1. ASSUME NEW r \in Requests, Gate(r) PROVE LimitInv'
  BY <1>1, GateLimit
<1>2. CASE GateLatches \/ Abandoned \/ OrderFails
  BY <1>0, <1>a, <1>2, PositionsLeft DEF GateLatches, Abandoned, OrderFails, At
<1>3. CASE PostGate
  <2>1. "stage" \in DOMAIN entry' /\ entry'.r = entry.r /\ entry'.stage = "SENT"
    BY <1>0, <1>3 DEF PostGate
  <2> QED
    BY <1>3, <2>1, PositionsLeft DEF PostGate, At
<1>4. ASSUME NEW slip \in {0, Slip}, OrderFills(slip) PROVE LimitInv'
  BY <1>4, FillLimit
<1>5. CASE \/ \E status \in {"ACTIVE", "PENDING"} : Protected(status)
           \/ \E closed \in BOOLEAN : ProtectionFails(closed)
  BY <1>5, ProtectLimit
<1> QED
  BY <1>1, <1>2, <1>3, <1>4, <1>5 DEF Loop

LEMMA OthersLimit == ASSUME LimitInv, Others PROVE LimitInv'
<1>0. "stage" \in DOMAIN entry /\ ~(NoPosition.bot)
      /\ {"status", "bot", "symbol", "side", "risk"} \subseteq DOMAIN NoPosition
  BY DEF LimitInv, Shape, NoPosition
<1>1. ASSUME NEW s \in Symbols, NEW by \in Closers, Closed(s, by) PROVE LimitInv'
  BY <1>0, <1>1, PositionChanges DEF Closed, Frees, At, LoopIdle
<1>8. ASSUME NEW by \in Closers, (\E win \in BOOLEAN : Booked(by, win)) \/ NeverBooked(by)
      PROVE  LimitInv'
  BY <1>0, <1>8, PositionsLeft DEF Booked, NeverBooked, At
<1>2. ASSUME NEW s \in Symbols, StopFired(s) \/ ExternalClosed(s) PROVE LimitInv'
  BY <1>0, <1>2, PositionChanges DEF StopFired, ExternalClosed, Frees, At, Settling
<1>3. ASSUME NEW s \in Symbols, ExternalOpened(s) PROVE LimitInv'
  <2> DEFINE p == [NoPosition EXCEPT !.status = "ACTIVE", !.symbol = s]
  <2>1. ~p.bot /\ {"status", "bot", "symbol", "side", "risk"} \subseteq DOMAIN p
    BY DEF NoPosition
  <2>2. reg' = [reg EXCEPT ![s] = p] /\ entry' = entry /\ ~Entering(s)
    BY <1>3 DEF ExternalOpened, Settling
  <2> HIDE DEF p
  <2> QED
    BY <1>0, <2>1, <2>2, PositionChanges DEF At
<1>4. ASSUME NEW s \in Symbols, ExitFails(s) PROVE LimitInv'
  <2> DEFINE p == [reg[s] EXCEPT !.status = "CLOSING"]
  <2>1. /\ {"status", "bot", "symbol", "side", "risk"} \subseteq DOMAIN p
        /\ p.bot => p.symbol = s
        /\ p.status = "CLOSING"
    BY DEF LimitInv, Shape
  <2>2. reg' = [reg EXCEPT ![s] = p] /\ entry' = entry /\ ~Entering(s)
    BY <1>4 DEF ExitFails, Entering, LoopIdle
  <2> HIDE DEF p
  <2> QED
    BY <1>0, <2>1, <2>2, PositionChanges DEF At
<1>5. ASSUME NEW s \in Symbols, ManualAdd(s) PROVE LimitInv'
  <2> DEFINE p == [reg[s] EXCEPT !.risk = 2 * @]
  <2>1. /\ {"status", "bot", "symbol", "side", "risk"} \subseteq DOMAIN p
        /\ p.bot => p.symbol = s
        /\ p.side = reg[s].side
    BY DEF LimitInv, Shape
  <2>2. reg' = [reg EXCEPT ![s] = p] /\ s \in Holders /\ ~Entering(s)
    BY <1>5 DEF ManualAdd, Holders, IsBot, Settling
  <2>3. "stage" \in DOMAIN entry' /\ entry'.stage = entry.stage
        /\ (~At("NONE") => entry'.r = entry.r)
    BY <1>0, <1>5 DEF ManualAdd, At
  <2> HIDE DEF p
  <2> QED
    BY <2>1, <2>2, <2>3, PositionChanges DEF At
<1>6. CASE PauseEnds \/ Pause \/ Resume \/ Dropped \/ Tick
           \/ \E breached \in BOOLEAN : UpdatePnl(breached)
  BY <1>0, <1>6, PositionsLeft DEF PauseEnds, Pause, Resume, Dropped, Tick, UpdatePnl, At
<1>7. CASE Reload
  <2>1. "stage" \in DOMAIN entry' /\ entry'.stage = entry.stage
        /\ (~At("NONE") => entry'.r = entry.r)
    BY <1>0, <1>7 DEF Reload, At
  <2> QED
    BY <1>7, <2>1, PositionsLeft DEF Reload, At
<1> QED
  BY <1>1, <1>2, <1>3, <1>4, <1>5, <1>6, <1>7, <1>8 DEF Others

LEMMA InitLimit == Init => LimitInv
<1> SUFFICES ASSUME Init PROVE LimitInv
  OBVIOUS
<1>1. Holders = {} /\ \A side : HoldersOf(side) = {}
  BY DEF Init, Holders, HoldersOf, IsBot, NoPosition
<1>2. Cardinality(Holders) = 0 /\ \A side : Cardinality(HoldersOf(side)) = 0
  BY <1>1, FS_EmptySet
<1>3. Shape
  BY DEF Init, Shape, NoPosition, NoEntry
<1>4. Room /\ Filled
  BY DEF Init, Room, Filled, At, NoEntry
<1> QED
  BY <1>2, <1>3, <1>4, RiskAssumption DEF LimitInv

LEMMA NextLimit == ASSUME LimitInv, [Next]_vars PROVE LimitInv'
<1>1. CASE Loop
  BY <1>1, LoopLimit
<1>2. CASE Others
  BY <1>2, OthersLimit
<1>3. CASE Apply \/ (\E ok \in BOOLEAN : Announced(ok)) \/ UNCHANGED vars
  BY <1>3, PositionsLeft DEF Apply, Announced, vars, At, LimitInv, Shape
<1> QED
  BY <1>1, <1>2, <1>3 DEF Next

\* The bot's positions stay within max_active_positions and max_same_direction_positions,
\* though they are counted before the awaits of the order book and of the order.
THEOREM LimitsHold == Spec => []WithinLimits
<1>1. LimitInv => WithinLimits
  BY SymbolsCount DEF LimitInv, WithinLimits
<1> QED
  BY <1>1, InitLimit, NextLimit, PTL DEF Spec

-----------------------------------------------------------------------------
(* The cooldown of a symbol.                                               *)

Ages == [Symbols -> Seq(Nat)]

\* What is booked is a loss of a symbol that the bot trades.
Bookings ==
  /\ DOMAIN booking = Closers
  /\ \A c \in Closers : {"due", "symbol", "old"} \subseteq DOMAIN booking[c]
                        /\ (booking[c].due => booking[c].symbol \in Symbols)

\* Nobody is about to book a result of the symbol.
Clear(bookings, s) == \A c \in Closers : bookings[c].due => bookings[c].symbol # s

\* SymbolCooldownHolds is looked at when the order fills; what makes it true is that ever
\* since the entry was approved its symbol is out of its cooldown and no close of the
\* symbol, if there was none then, is to be booked.
CoolInv ==
  /\ LimitInv /\ Bookings
  /\ "bySymbol" \in DOMAIN losses /\ losses.bySymbol \in Ages
  /\ At("BOOK") \/ At("SENT")
       => /\ {"orphan", "unbooked"} \subseteq DOMAIN entry
          /\ ~entry.orphan /\ ~entry.unbooked
               => ~InSymbolCooldown(losses, entry.r.symbol) /\ Clear(booking, entry.r.symbol)

\* One loss that is over does not come back.
LEMMA AgedOnce ==
  ASSUME NEW ages \in Seq(Nat), NEW window \in Nat
  PROVE  /\ Aged(ages, window) \in Seq(Nat)
         /\ ages = << >> => Aged(ages, window) = << >>
         /\ Len(ages) = 1 => \/ Aged(ages, window) = << >>
                             \/ /\ Len(Aged(ages, window)) = 1
                                /\ Last(Aged(ages, window)) = Last(ages) + 1
<1> DEFINE older == [i \in DOMAIN ages |-> ages[i] + 1]
           out == {i \in DOMAIN ages : older[i] > window}
           n == Cardinality(out)
<1>1. /\ DOMAIN ages = 1..Len(ages) /\ Len(ages) \in Nat
      /\ \A i \in 1..Len(ages) : ages[i] \in Nat
  OBVIOUS
<1>2. older \in Seq(Nat) /\ Len(older) = Len(ages)
  BY <1>1
<1>3. n \in Nat /\ n <= Len(ages)
  <2>1. IsFiniteSet(1..Len(ages)) /\ Cardinality(1..Len(ages)) = Len(ages)
    BY <1>1, FS_Interval
  <2>2. out \subseteq 1..Len(ages)
    BY <1>1
  <2> HIDE DEF out
  <2> QED
    BY <2>1, <2>2, FS_Subset, FS_CardinalityType
<1>4. \A i \in 1..Len(ages) : older[i] = ages[i] + 1
  BY <1>1
<1>5. Aged(ages, window) = SubSeq(older, n + 1, Len(older))
  BY DEF Aged
<1> HIDE DEF older, n
<1>6. /\ Aged(ages, window) \in Seq(Nat)
      /\ Len(Aged(ages, window)) = Len(ages) - n
      /\ \A i \in 1..(Len(ages) - n) : Aged(ages, window)[i] = older[n + i]
  <2>1. \A i \in (n + 1)..Len(older) : older[i] \in Nat
    BY <1>2, <1>3
  <2>2. n + 1 \in Int /\ Len(older) \in Int
    BY <1>2, <1>3
  <2> QED
    BY <1>2, <1>3, <1>5, <2>1, <2>2
<1>7. ages = << >> => Len(Aged(ages, window)) = 0
  BY <1>3, <1>6
<1>8. Len(ages) = 1 => \/ Len(Aged(ages, window)) = 0
                       \/ Len(Aged(ages, window)) = 1 /\ Aged(ages, window)[1] = ages[1] + 1
  <2> SUFFICES ASSUME Len(ages) = 1
               PROVE  \/ Len(Aged(ages, window)) = 0
                      \/ Len(Aged(ages, window)) = 1 /\ Aged(ages, window)[1] = ages[1] + 1
    OBVIOUS
  <2>1. n = 0 \/ n = 1
    BY <1>3
  <2>2. CASE n = 0
    <3>1. Len(Aged(ages, window)) = 1 /\ 1 \in 1..(Len(ages) - n) /\ n + 1 = 1
      BY <1>6, <2>2
    <3> QED
      BY <1>4, <1>6, <3>1
  <2>3. CASE n = 1
    BY <1>6, <2>3
  <2> QED
    BY <2>1, <2>2, <2>3
<1>9. \A s \in Seq(Nat) : Len(s) = 0 => s = << >>
  OBVIOUS
<1> QED
  BY <1>6, <1>7, <1>8, <1>9 DEF Last

LEMMA OnlyOne ==
  ASSUME NEW t \in Seq(Nat), t # << >>, Len(t) < 2
  PROVE  Len(t) = 1 /\ Last(t) \in Nat
<1>1. Len(t) \in Nat /\ Len(t) # 0
  OBVIOUS
<1> DEFINE n == Len(t)
<1>a. n \in Nat /\ n # 0 /\ n < 2
  BY <1>1
<1> HIDE DEF n
<1>b. n = 1
  BY <1>a
<1>2. Len(t) = 1
  BY <1>b DEF n
<1>3. t[1] \in Nat
  BY <1>2
<1> QED
  BY <1>2, <1>3 DEF Last

LEMMA CooldownOver ==
  ASSUME losses.bySymbol \in Ages
  PROVE  /\ "bySymbol" \in DOMAIN LossesAged(losses) /\ LossesAged(losses).bySymbol \in Ages
         /\ \A s \in Symbols :
              ~InSymbolCooldown(losses, s) => ~InSymbolCooldown(LossesAged(losses), s)
<1>1. SymbolWindow \in Nat /\ SymbolWindow2 \in Nat
  BY GuardsAssumption DEF GuardsAssumption
<1>2. /\ "bySymbol" \in DOMAIN LossesAged(losses)
      /\ LossesAged(losses).bySymbol = [s \in Symbols |-> Aged(losses.bySymbol[s], SymbolWindow2)]
  BY DEF LossesAged
<1>3. ASSUME NEW s \in Symbols
      PROVE  losses.bySymbol[s] \in Seq(Nat) /\ Aged(losses.bySymbol[s], SymbolWindow2) \in Seq(Nat)
  BY <1>1, AgedOnce DEF Ages
<1>4. ASSUME NEW s \in Symbols, ~InSymbolCooldown(losses, s)
      PROVE  ~InSymbolCooldown(LossesAged(losses), s)
  <2> DEFINE a == losses.bySymbol[s]
             b == Aged(a, SymbolWindow2)
  <2>1. a \in Seq(Nat) /\ LossesAged(losses).bySymbol[s] = b
    BY <1>2, <1>3
  <2>2. a = << >> \/ (Len(a) < 2 /\ ~(Last(a) <= SymbolWindow))
    BY <1>4, <2>1 DEF InSymbolCooldown
  <2>3. CASE a = << >>
    BY <1>1, <2>1, <2>3, AgedOnce DEF InSymbolCooldown
  <2>4. CASE a # << >>
    <3>1. Len(a) = 1 /\ Last(a) \in Nat /\ ~(Last(a) <= SymbolWindow)
      <4> HIDE DEF a
      <4> QED
        BY <2>1, <2>2, <2>4, OnlyOne
    <3>2. b = << >> \/ (Len(b) = 1 /\ Last(b) = Last(a) + 1)
      BY <1>1, <2>1, <3>1, AgedOnce
    <3> HIDE DEF a, b
    <3>3. b = << >> \/ (Len(b) = 1 /\ ~(Last(b) <= SymbolWindow))
      BY <1>1, <3>1, <3>2
    <3>4. ~(b # << >> /\ (Len(b) >= 2 \/ Last(b) <= SymbolWindow))
      <4>1. Len(b) = 1 => ~(Len(b) >= 2)
        <5>1. ~(1 >= 2)
          OBVIOUS
        <5> QED
          BY <5>1, Zenon
      <4> QED
        BY <3>3, <4>1, Zenon
    <3> QED
      BY <2>1, <3>4, Zenon DEF InSymbolCooldown
  <2> QED
    BY <2>3, <2>4
<1> QED
  BY <1>2, <1>3, <1>4 DEF Ages

\* The entry is no other than before, nor approved only now.
SameEntry ==
  (At("BOOK") \/ At("SENT"))'
    => /\ At("BOOK") \/ At("SENT")
       /\ entry'.r = entry.r
       /\ {"orphan", "unbooked"} \subseteq DOMAIN entry'
       /\ entry'.unbooked = entry.unbooked
       /\ entry'.orphan = entry.orphan \/ entry'.orphan

\* A step that approves nothing, books no loss of the entry's symbol and closes none.
LEMMA CoolKept ==
  ASSUME CoolInv, LimitInv', Bookings', SameEntry,
         "bySymbol" \in DOMAIN losses', losses'.bySymbol \in Ages,
         At("BOOK") \/ At("SENT")
           => entry'.orphan \/ entry.unbooked
              \/ /\ losses'.bySymbol[entry.r.symbol] = losses.bySymbol[entry.r.symbol]
                 /\ Clear(booking, entry.r.symbol) => Clear(booking', entry.r.symbol)
              \/ ~(At("BOOK") \/ At("SENT"))'
              \/ InSymbolCooldown(losses, entry.r.symbol)
              \/ ~Clear(booking, entry.r.symbol)
  PROVE  CoolInv'
<1>1. ASSUME (At("BOOK") \/ At("SENT"))'
      PROVE  {"orphan", "unbooked"} \subseteq DOMAIN entry'
  BY <1>1 DEF SameEntry
<1>2. ASSUME (At("BOOK") \/ At("SENT"))', ~entry'.orphan, ~entry'.unbooked
      PROVE  ~InSymbolCooldown(losses', entry'.r.symbol) /\ Clear(booking', entry'.r.symbol)
  <2> DEFINE t == entry.r.symbol
  <2>1. /\ At("BOOK") \/ At("SENT")
        /\ entry'.r.symbol = t
        /\ ~entry.orphan /\ ~entry.unbooked
    BY <1>2 DEF SameEntry
  <2>2. ~InSymbolCooldown(losses, t) /\ Clear(booking, t)
    BY <2>1 DEF CoolInv
  <2>3. losses'.bySymbol[t] = losses.bySymbol[t] /\ Clear(booking', t)
    BY <1>2, <2>1, <2>2
  <2>4. ~InSymbolCooldown(losses', t)
    BY <2>2, <2>3 DEF InSymbolCooldown
  <2> QED
    BY <2>1, <2>3, <2>4 DEF Clear
<1> QED
  BY <1>1, <1>2 DEF CoolInv

\* Such a step, where losses and bookings stay as they are.
LEMMA CoolStays ==
  ASSUME CoolInv, LimitInv', losses' = losses, booking' = booking, SameEntry
  PROVE  CoolInv'
<1>1. Bookings' /\ \A t : Clear(booking, t) => Clear(booking', t)
  BY DEF CoolInv, Bookings, Clear
<1> QED
  BY <1>1, CoolKept DEF CoolInv

LEMMA LoopCool == ASSUME CoolInv, Loop PROVE CoolInv'
<1>0. LimitInv'
  BY LoopLimit DEF CoolInv
<1>a. /\ "bySymbol" \in DOMAIN losses /\ losses.bySymbol \in Ages /\ "stage" \in DOMAIN entry
      /\ At("BOOK") \/ At("SENT") => {"orphan", "unbooked"} \subseteq DOMAIN entry
  BY DEF CoolInv, LimitInv, Shape
<1>b. NoEntry.stage = "NONE"
  BY DEF NoEntry
<1>1. ASSUME NEW r \in Requests, Gate(r) PROVE CoolInv'
  <2>1. /\ losses' = losses /\ booking' = booking /\ entry'.r = r
        /\ {"orphan", "unbooked"} \subseteq DOMAIN entry'
        /\ entry'.unbooked = Settling(r.symbol)
        /\ ~InSymbolCooldown(losses, r.symbol)
    BY <1>1 DEF Gate, PreGate, guards
  <2>2. Bookings'
    BY <2>1 DEF CoolInv, Bookings
  <2>3. ~entry'.unbooked => Clear(booking', entry'.r.symbol)
    BY <2>1 DEF Settling, Clear
  <2>4. "bySymbol" \in DOMAIN losses' /\ losses'.bySymbol \in Ages
    BY <1>a, <2>1
  <2>5. ~InSymbolCooldown(losses', entry'.r.symbol)
    BY <2>1
  <2> QED
    BY <1>0, <2>1, <2>2, <2>3, <2>4, <2>5 DEF CoolInv
<1>2. CASE GateLatches
  BY <1>0, <1>2, <1>a, CoolStays DEF GateLatches, At, SameEntry
<1>3. CASE PostGate
  <2>1. /\ entry'.r = entry.r /\ {"orphan", "unbooked"} \subseteq DOMAIN entry'
        /\ entry'.orphan = entry.orphan /\ entry'.unbooked = entry.unbooked
    BY <1>3, <1>a DEF PostGate
  <2> QED
    BY <1>0, <1>3, <2>1, CoolStays DEF PostGate, guards, SameEntry
<1>4. CASE Abandoned \/ OrderFails
  BY <1>0, <1>4, <1>b, CoolStays DEF Abandoned, OrderFails, At, guards, SameEntry
<1>5. ASSUME NEW slip \in {0, Slip}, OrderFills(slip) PROVE CoolInv'
  <2>1. entry'.stage = "PROTECT" /\ losses' = losses /\ booking' = booking
    BY <1>5, <1>a DEF OrderFills
  <2> QED
    BY <1>0, <2>1, CoolStays DEF At, SameEntry
<1>6. ASSUME NEW status \in {"ACTIVE", "PENDING"}, Protected(status) PROVE CoolInv'
  BY <1>0, <1>6, <1>b, CoolStays DEF Protected, At, guards, SameEntry
<1>7. ASSUME NEW closed \in BOOLEAN, ProtectionFails(closed) PROVE CoolInv'
  BY <1>0, <1>7, <1>b, CoolStays DEF ProtectionFails, At, SameEntry
<1> QED
  BY <1>1, <1>2, <1>3, <1>4, <1>5, <1>6, <1>7 DEF Loop

\* A loss counts for its symbol.
LEMMA LossBooked ==
  ASSUME losses.bySymbol \in Ages, NEW s \in Symbols, NEW m
  PROVE  LET c == LossRecorded(losses, s, m)
         IN  /\ "bySymbol" \in DOMAIN c /\ c.bySymbol \in Ages
             /\ \A t \in Symbols \ {s} : c.bySymbol[t] = losses.bySymbol[t]
<1> DEFINE c == LossRecorded(losses, s, m)
<1>1. "bySymbol" \in DOMAIN c /\ c.bySymbol = [losses.bySymbol EXCEPT ![s] = Append(@, 0)]
  BY DEF LossRecorded
<1>2. losses.bySymbol[s] \in Seq(Nat)
  BY DEF Ages
<1>3. Append(losses.bySymbol[s], 0) \in Seq(Nat)
  BY <1>2
<1> HIDE DEF c
<1> QED
  BY <1>1, <1>3 DEF Ages, c

\* What becomes of a close: it is closed, and booked or not.
LEMMA CloseCool ==
  ASSUME CoolInv, LimitInv', NEW by \in Closers, entry' = entry,
         \/ \E s \in Symbols : Closed(s, by)
         \/ \E win \in BOOLEAN : Booked(by, win)
         \/ NeverBooked(by)
  PROVE  CoolInv'
<1>a. /\ "bySymbol" \in DOMAIN losses /\ losses.bySymbol \in Ages /\ Bookings
      /\ At("BOOK") \/ At("SENT") => {"orphan", "unbooked"} \subseteq DOMAIN entry
  BY DEF CoolInv
<1>b. SameEntry
  BY <1>a DEF SameEntry, At
<1>c. {"due", "symbol", "old"} \subseteq DOMAIN NoBooking /\ ~NoBooking.due
  BY DEF NoBooking
<1>1. ASSUME NEW s \in Symbols, Closed(s, by) PROVE CoolInv'
  <2> DEFINE b == [due |-> TRUE, symbol |-> s, mode |-> reg[s].mode, old |-> FALSE]
  <2>1. booking' = [booking EXCEPT ![by] = b] /\ losses' = losses
    BY <1>1 DEF Closed, guards
  <2>2. b.due /\ b.symbol = s /\ {"due", "symbol", "old"} \subseteq DOMAIN b
    OBVIOUS
  <2> HIDE DEF b
  <2>3. booking'[by] = b /\ (\A c \in Closers \ {by} : booking'[c] = booking[c])
        /\ DOMAIN booking' = Closers
    BY <1>a, <2>1 DEF Bookings
  <2>4. Bookings'
    BY <1>a, <2>2, <2>3 DEF Bookings
  <2>5. At("BOOK") \/ At("SENT") => entry.r.symbol # s
    BY <1>1 DEF Closed, Entering, LoopIdle, At
  <2>6. At("BOOK") \/ At("SENT")
           => (Clear(booking, entry.r.symbol) => Clear(booking', entry.r.symbol))
    BY <2>2, <2>3, <2>5 DEF Clear
  <2> QED
    BY <1>a, <1>b, <2>1, <2>4, <2>6, CoolKept
<1>2. ASSUME (\E win \in BOOLEAN : Booked(by, win)) \/ NeverBooked(by) PROVE CoolInv'
  <2> DEFINE b == booking[by]
  <2>1. booking' = [booking EXCEPT ![by] = NoBooking] /\ b.due
        /\ (losses' = losses \/ losses' = LossRecorded(losses, b.symbol, b.mode))
    BY <1>2 DEF Booked, NeverBooked, guards
  <2>2. booking'[by] = NoBooking /\ (\A c \in Closers \ {by} : booking'[c] = booking[c])
        /\ DOMAIN booking' = Closers
    BY <1>a, <2>1 DEF Bookings
  <2>3. Bookings' /\ \A t : Clear(booking, t) => Clear(booking', t)
    BY <1>a, <1>c, <2>2 DEF Bookings, Clear
  <2>4. b.symbol \in Symbols
    BY <1>a, <2>1 DEF Bookings
  <2>5. /\ "bySymbol" \in DOMAIN losses' /\ losses'.bySymbol \in Ages
        /\ \A t \in Symbols \ {b.symbol} : losses'.bySymbol[t] = losses.bySymbol[t]
    BY <1>a, <2>1, <2>4, LossBooked
  <2>6. At("BOOK") \/ At("SENT") => entry.r.symbol \in Symbols
    BY GateAssumption DEF CoolInv, LimitInv, Room
  <2>7. At("BOOK") \/ At("SENT")
           => (Clear(booking, entry.r.symbol) => entry.r.symbol # b.symbol)
    BY <2>1 DEF Clear
  <2> QED
    BY <1>b, <2>3, <2>5, <2>6, <2>7, CoolKept
<1> QED
  BY <1>1, <1>2

LEMMA OthersCool == ASSUME CoolInv, Others PROVE CoolInv'
<1>0. LimitInv'
  BY OthersLimit DEF CoolInv
<1>a. /\ "bySymbol" \in DOMAIN losses /\ losses.bySymbol \in Ages /\ "stage" \in DOMAIN entry
      /\ At("BOOK") \/ At("SENT") => {"orphan", "unbooked"} \subseteq DOMAIN entry
  BY DEF CoolInv, LimitInv, Shape
<1>b. At("BOOK") \/ At("SENT") => entry.r.symbol \in Symbols
  BY GateAssumption DEF CoolInv, LimitInv, Room
<1>c. entry' = entry => SameEntry
  BY <1>a DEF SameEntry, At
<1>1. ASSUME NEW by \in Closers,
             \/ \E s \in Symbols : Closed(s, by)
             \/ \E win \in BOOLEAN : Booked(by, win)
             \/ NeverBooked(by)
      PROVE  CoolInv'
  <2>1. entry' = entry
    BY <1>1 DEF Closed, Booked, NeverBooked
  <2> QED
    BY <1>0, <1>1, <2>1, CloseCool
<1>2. ASSUME NEW s \in Symbols,
             ExitFails(s) \/ StopFired(s) \/ ExternalOpened(s) \/ ExternalClosed(s)
      PROVE  CoolInv'
  BY <1>0, <1>c, <1>2, CoolStays DEF ExitFails, StopFired, ExternalOpened, ExternalClosed, guards
<1>3. ASSUME NEW s \in Symbols, ManualAdd(s) PROVE CoolInv'
  <2>1. /\ losses' = losses /\ booking' = booking /\ entry'.stage = entry.stage
        /\ At("BOOK") \/ At("SENT") => /\ entry'.r = entry.r
                                       /\ {"orphan", "unbooked"} \subseteq DOMAIN entry'
                                       /\ entry'.orphan = entry.orphan
                                       /\ entry'.unbooked = entry.unbooked
    BY <1>a, <1>3 DEF ManualAdd, At
  <2> QED
    BY <1>0, <2>1, CoolStays DEF At, SameEntry
<1>4. CASE PauseEnds \/ Pause \/ Resume \/ Dropped \/ \E breached \in BOOLEAN : UpdatePnl(breached)
  BY <1>0, <1>c, <1>4, CoolStays DEF PauseEnds, Pause, Resume, Dropped, UpdatePnl, guards
<1>5. CASE Reload
  <2>1. entry'.stage = entry.stage
        /\ (At("BOOK") \/ At("SENT") => /\ entry'.r = entry.r
                                        /\ {"orphan", "unbooked"} \subseteq DOMAIN entry'
                                        /\ entry'.unbooked = entry.unbooked /\ entry'.orphan)
    BY <1>a, <1>5 DEF Reload, At
  <2>2. "bySymbol" \in DOMAIN losses' /\ losses'.bySymbol \in Ages
    BY <1>5 DEF Reload, NoLosses, Ages
  <2>3. Bookings'
    <3>1. Bookings
      BY DEF CoolInv
    <3>2. \A c \in Closers : /\ DOMAIN booking'[c] = DOMAIN booking[c]
                              /\ booking'[c].due = booking[c].due
                              /\ booking'[c].symbol = booking[c].symbol
      BY <1>5, <3>1 DEF Reload, Bookings, Closers
    <3>3. DOMAIN booking' = Closers
      BY <1>5, <3>1 DEF Reload, Bookings
    <3> QED
      BY <3>1, <3>2, <3>3 DEF Bookings
  <2>4. SameEntry
    BY <2>1 DEF SameEntry, At
  <2> QED
    BY <1>0, <2>1, <2>2, <2>3, <2>4, CoolKept DEF At
<1>6. CASE Tick
  <2>1. losses' = LossesAged(losses) /\ entry' = entry /\ booking' = booking
    BY <1>6 DEF Tick
  <2>2. Bookings' /\ \A t : Clear(booking', t) = Clear(booking, t)
    BY <2>1 DEF CoolInv, Bookings, Clear
  <2> QED
    BY <1>0, <1>a, <1>b, <2>1, <2>2, CooldownOver DEF CoolInv, At
<1> QED
  BY <1>1, <1>2, <1>3, <1>4, <1>5, <1>6 DEF Others

LEMMA NextCool == ASSUME CoolInv, [Next]_vars PROVE CoolInv'
<1>1. CASE Loop
  BY <1>1, LoopCool
<1>2. CASE Others
  BY <1>2, OthersCool
<1>3. CASE Apply \/ (\E ok \in BOOLEAN : Announced(ok)) \/ UNCHANGED vars
  <2>1. LimitInv'
    BY NextLimit DEF CoolInv
  <2>2. SameEntry
    BY <1>3 DEF Apply, Announced, vars, At, CoolInv, SameEntry
  <2> QED
    BY <1>3, <2>1, <2>2, CoolStays DEF Apply, Announced, vars, guards
<1> QED
  BY <1>1, <1>2, <1>3 DEF Next

\* An order fills for a symbol in its cooldown only if a close of the symbol was not booked
\* yet when the entry was approved, though the cooldown was looked at before two awaits, in
\* which other positions may be closed at a loss by the loop's fellow, the command loop.
THEOREM CooldownsHold == Spec => SymbolCooldownHolds
<1>1. Init => CoolInv
  <2> SUFFICES ASSUME Init PROVE CoolInv
    OBVIOUS
  <2>1. Bookings
    BY DEF Init, Bookings, NoBooking
  <2>2. "bySymbol" \in DOMAIN losses /\ losses.bySymbol \in Ages
    BY DEF Init, NoLosses, Ages
  <2>3. ~(At("BOOK") \/ At("SENT"))
    BY DEF Init, NoEntry, At
  <2> QED
    BY <2>1, <2>2, <2>3, InitLimit DEF CoolInv
<1>2. CoolInv /\ [Next]_vars => CoolInv'
  BY NextCool
<1>3. CoolInv => (At("SENT") /\ entry'.stage = "PROTECT" /\ ~entry.orphan /\ ~entry.unbooked
                    => ~InSymbolCooldown(losses, entry.r.symbol))
  BY DEF CoolInv
<1> QED
  BY <1>1, <1>2, <1>3, PTL DEF Spec, SymbolCooldownHolds

-----------------------------------------------------------------------------
(* Sums over finite sets, which the community modules define as recursive  *)
(* functions on subsets.  Induction is by a least counterexample.          *)

RiskSum(S) == MapThenSumSet(LAMBDA p : p.risk, S)

\* A set of natural numbers has a least one.
LEMMA LeastNatural ==
  ASSUME NEW T \in SUBSET Nat, T # {}
  PROVE  \E n \in T : \A m \in T : n <= m
<1>1. PICK n \in T : \A m \in T : ~(<<m, n>> \in OpToRel(<, Nat))
  BY NatLessThanWellFounded, WFMin
<1>2. ASSUME NEW m \in T PROVE ~(m < n)
  BY <1>1 DEF OpToRel
<1> QED
  BY <1>2

\* Induction over the subsets of a finite set: what a subset has if its own proper
\* subsets have it.
LEMMA SubsetInduction ==
  ASSUME NEW S, IsFiniteSet(S), NEW C,
         ASSUME NEW T \in SUBSET S, \A U \in SUBSET T : U # T => U \in C
         PROVE  T \in C
  PROVE  SUBSET S \subseteq C
<1> SUFFICES ASSUME NEW B \in SUBSET S, B \notin C PROVE FALSE
  OBVIOUS
<1> DEFINE sizes == {Cardinality(T) : T \in (SUBSET S) \ C}
<1>1. \A T \in SUBSET S : IsFiniteSet(T) /\ Cardinality(T) \in Nat
  BY FS_Subset, FS_CardinalityType
<1>2. PICK n \in sizes : \A m \in sizes : n <= m
  <2>1. sizes \in SUBSET Nat /\ Cardinality(B) \in sizes
    BY <1>1
  <2> HIDE DEF sizes
  <2> QED
    BY <2>1, LeastNatural
<1>3. PICK T \in (SUBSET S) \ C : Cardinality(T) = n
  BY <1>2
<1>4. ASSUME NEW U \in SUBSET T, U # T PROVE U \in C
  <2>1. Cardinality(U) < Cardinality(T) /\ U \in SUBSET S
    BY <1>1, <1>4, FS_Subset
  <2>2. ~(n <= Cardinality(U))
    BY <1>1, <1>3, <2>1
  <2> QED
    BY <1>2, <2>1, <2>2
<1> QED
  BY <1>3, <1>4

\* What the fold takes next.
Picked(T) == CHOOSE x \in T : TRUE

\* h sums the subsets of S as the fold of the community modules does.
Adds(h, S) ==
  h = [T \in SUBSET S |-> IF T = {} THEN 0 ELSE Picked(T).risk + h[T \ {Picked(T)}]]

LEMMA AddsExists == ASSUME NEW S, IsFiniteSet(S) PROVE \E h : Adds(h, S)
<1> DEFINE UpTo(n) == {T \in SUBSET S : Cardinality(T) <= n}
           Sum(h, T) == IF T = {} THEN 0 ELSE Picked(T).risk + h[T \ {Picked(T)}]
           Part(h, n) == h = [T \in UpTo(n) |-> Sum(h, T)]
           missing == {n \in Nat : ~(\E h : Part(h, n))}
<1>1. \A T \in SUBSET S : IsFiniteSet(T) /\ Cardinality(T) \in Nat
  BY FS_Subset, FS_CardinalityType
<1>2. ASSUME NEW T \in SUBSET S, T # {}
      PROVE  T \ {Picked(T)} \in SUBSET S /\ Cardinality(T \ {Picked(T)}) = Cardinality(T) - 1
             /\ Cardinality(T) > 0
  <2>1. Picked(T) \in T
    BY <1>2 DEF Picked
  <2> HIDE DEF Sum
  <2>2. Cardinality(T \ {Picked(T)}) = Cardinality(T) - 1
    BY <1>1, <2>1, FS_RemoveElement
  <2>3. Cardinality(T) # 0
    BY <1>1, <1>2, FS_EmptySet
  <2> QED
    BY <1>1, <2>2, <2>3
<1>3. missing = {}
  <2> SUFFICES ASSUME missing # {} PROVE FALSE
    OBVIOUS
  <2>1. PICK n \in missing : \A m \in missing : n <= m
    BY LeastNatural
  <2>2. n # 0
    <3> DEFINE h == [T \in UpTo(0) |-> 0]
    <3>1. ASSUME NEW T \in UpTo(0) PROVE T = {}
      <4>1. IsFiniteSet(T) /\ Cardinality(T) \in Nat /\ Cardinality(T) <= 0
        BY <1>1
      <4>2. Cardinality(T) = 0
        BY <4>1
      <4> QED
        BY <4>1, <4>2, FS_EmptySet
    <3>2. Part(h, 0)
      BY <3>1
    <3> HIDE DEF Part
    <3> QED
      BY <2>1, <3>2
  <2>3. PICK h : Part(h, n - 1)
    <3>1. n - 1 \in Nat /\ ~(n <= n - 1)
      BY <2>1, <2>2
    <3> QED
      BY <2>1, <3>1
  <2> DEFINE g == [T \in UpTo(n) |-> Sum(h, T)]
  <2>4. ASSUME NEW T \in UpTo(n) PROVE Sum(g, T) = Sum(h, T)
    <3>1. CASE T = {}
      BY <3>1
    <3>2. CASE T # {}
      <4> DEFINE U == T \ {Picked(T)}
      <4>1. U \in UpTo(n - 1) /\ U \in UpTo(n)
        BY <1>1, <1>2, <2>1, <3>2
      <4>2. h[U] = Sum(h, U)
        BY <2>3, <4>1
      <4>3. g[U] = Sum(h, U)
        BY <4>1
      <4> QED
        BY <4>2, <4>3
    <3> QED
      BY <3>1, <3>2
  <2>5. Part(g, n)
    BY <2>4
  <2> QED
    BY <2>1, <2>5
<1>4. PICK h : Part(h, Cardinality(S))
  BY <1>1, <1>3
<1>5. UpTo(Cardinality(S)) = SUBSET S
  BY <1>1, FS_Subset
<1>6. Adds(h, S)
  BY <1>4, <1>5 DEF Adds
<1> QED
  BY <1>6

LEMMA SumAdds == ASSUME NEW S, IsFiniteSet(S) PROVE \E h : Adds(h, S) /\ RiskSum(S) = h[S]
<1>1. RiskSum(S) = (CHOOSE h : Adds(h, S))[S]
  BY Zenon DEF RiskSum, MapThenSumSet, MapThenFoldSet, Adds, Picked
<1> QED
  BY <1>1, AddsExists

\* The order in which it picks is no matter.
LEMMA AddsSplit ==
  ASSUME NEW S, IsFiniteSet(S), \A x \in S : x.risk \in Nat, NEW h, Adds(h, S)
  PROVE  \A T \in SUBSET S : h[T] \in Nat /\ \A x \in T : h[T] = x.risk + h[T \ {x}]
<1> DEFINE C == {T \in SUBSET S : h[T] \in Nat /\ \A x \in T : h[T] = x.risk + h[T \ {x}]}
<1>1. ASSUME NEW T \in SUBSET S, \A U \in SUBSET T : U # T => U \in C
      PROVE  T \in C
  <2>1. CASE T = {}
    BY <2>1 DEF Adds
  <2>2. CASE T # {}
    <3> DEFINE y == Picked(T)
    <3>1. y \in T /\ h[T] = y.risk + h[T \ {y}]
      BY <2>2 DEF Adds, Picked
    <3> HIDE DEF y
    <3>2. ASSUME NEW U \in SUBSET T, U # T
          PROVE  h[U] \in Nat /\ \A x \in U : h[U] = x.risk + h[U \ {x}]
      BY <1>1, <3>2
    <3>3. h[T \ {y}] \in Nat /\ y.risk \in Nat
      BY <3>1, <3>2
    <3>4. ASSUME NEW x \in T, x # y PROVE h[T] = x.risk + h[T \ {x}]
      <4>1. h[T \ {y}] = x.risk + h[(T \ {y}) \ {x}]
        BY <3>1, <3>2, <3>4
      <4>2. h[T \ {x}] = y.risk + h[(T \ {x}) \ {y}]
        BY <3>1, <3>2, <3>4
      <4>3. (T \ {y}) \ {x} = (T \ {x}) \ {y}
        OBVIOUS
      <4>4. h[(T \ {x}) \ {y}] \in Nat /\ x.risk \in Nat
        BY <3>1, <3>2, <3>4
      <4>5. ASSUME NEW a \in Nat, NEW b \in Nat, NEW c \in Nat
            PROVE  a + (b + c) = b + (a + c)
        OBVIOUS
      <4> DEFINE rest == h[(T \ {x}) \ {y}]
      <4>6. h[T] = y.risk + (x.risk + rest) /\ h[T \ {x}] = y.risk + rest
        BY <3>1, <4>1, <4>2, <4>3
      <4>7. y.risk + (x.risk + rest) = x.risk + (y.risk + rest)
        BY <3>3, <4>4, <4>5
      <4> QED
        BY <4>6, <4>7
    <3>5. h[T] \in Nat
      BY <3>1, <3>3
    <3>6. \A x \in T : h[T] = x.risk + h[T \ {x}]
      BY <3>1, <3>4
    <3> QED
      BY <3>5, <3>6
  <2> QED
    BY <2>1, <2>2
<1> HIDE DEF C
<1>2. SUBSET S \subseteq C
  BY <1>1, SubsetInduction
<1> QED
  BY <1>2 DEF C

\* Nor is the set it starts from.
LEMMA AddsAgree ==
  ASSUME NEW S, IsFiniteSet(S), NEW R \in SUBSET S, NEW h, Adds(h, S), NEW g, Adds(g, R)
  PROVE  \A T \in SUBSET R : h[T] = g[T]
<1> DEFINE C == {T \in SUBSET R : h[T] = g[T]}
<1>1. ASSUME NEW T \in SUBSET R, \A U \in SUBSET T : U # T => U \in C
      PROVE  T \in C
  <2>1. CASE T = {}
    BY <2>1 DEF Adds
  <2>2. CASE T # {}
    <3> DEFINE y == Picked(T)
    <3>1. /\ y \in T /\ T \in SUBSET S
          /\ h[T] = y.risk + h[T \ {y}] /\ g[T] = y.risk + g[T \ {y}]
      BY <2>2 DEF Adds, Picked
    <3> QED
      BY <1>1, <3>1
  <2> QED
    BY <2>1, <2>2
<1> HIDE DEF C
<1>2. IsFiniteSet(R)
  BY FS_Subset
<1>3. SUBSET R \subseteq C
  BY <1>1, <1>2, SubsetInduction
<1> QED
  BY <1>3 DEF C

LEMMA SumSplit ==
  ASSUME NEW S, IsFiniteSet(S), \A x \in S : x.risk \in Nat
  PROVE  RiskSum(S) \in Nat /\ \A x \in S : RiskSum(S) = x.risk + RiskSum(S \ {x})
<1>1. PICK h : Adds(h, S) /\ RiskSum(S) = h[S]
  BY SumAdds
<1>2. h[S] \in Nat /\ \A x \in S : h[S] = x.risk + h[S \ {x}]
  BY <1>1, AddsSplit
<1>3. ASSUME NEW x \in S PROVE RiskSum(S \ {x}) = h[S \ {x}]
  <2>1. IsFiniteSet(S \ {x})
    BY FS_Subset
  <2>2. PICK g : Adds(g, S \ {x}) /\ RiskSum(S \ {x}) = g[S \ {x}]
    BY <2>1, SumAdds
  <2> QED
    BY <1>1, <2>2, AddsAgree
<1> QED
  BY <1>1, <1>2, <1>3

\* A part of the positions risks no more than all of them.
LEMMA SumOfPart ==
  ASSUME NEW S, IsFiniteSet(S), \A x \in S : x.risk \in Nat, NEW R \in SUBSET S
  PROVE  RiskSum(R) <= RiskSum(S)
<1> DEFINE C == {T \in SUBSET S : R \subseteq T => RiskSum(R) <= RiskSum(T)}
<1>1. ASSUME NEW T \in SUBSET S, \A U \in SUBSET T : U # T => U \in C
      PROVE  T \in C
  <2> SUFFICES ASSUME R \subseteq T PROVE RiskSum(R) <= RiskSum(T)
    OBVIOUS
  <2>1. IsFiniteSet(T) /\ IsFiniteSet(R)
    BY FS_Subset
  <2>2. RiskSum(T) \in Nat /\ RiskSum(R) \in Nat
    BY <2>1, SumSplit
  <2>3. CASE R = T
    BY <2>2, <2>3
  <2>4. ASSUME NEW x \in T, x \notin R PROVE RiskSum(R) <= RiskSum(T)
    <3>1. RiskSum(T) = x.risk + RiskSum(T \ {x}) /\ x.risk \in Nat
      BY <2>1, SumSplit
    <3>2. RiskSum(R) <= RiskSum(T \ {x})
      BY <1>1, <2>4
    <3>3. RiskSum(T \ {x}) \in Nat
      BY <2>1, FS_Subset, SumSplit
    <3> QED
      BY <2>2, <3>1, <3>2, <3>3
  <2> QED
    BY <2>3, <2>4
<1> HIDE DEF C
<1>2. SUBSET S \subseteq C
  BY <1>1, SubsetInduction
<1> QED
  BY <1>2 DEF C

LEMMA GreatestOf ==
  ASSUME NEW S \in SUBSET Int, IsFiniteSet(S), S # {}
  PROVE  Max(S) \in S /\ \A x \in S : x <= Max(S)
<1> DEFINE C == {T \in SUBSET S : T # {} => \E x \in T : \A y \in T : x >= y}
<1>1. ASSUME NEW T \in SUBSET S, \A U \in SUBSET T : U # T => U \in C
      PROVE  T \in C
  <2> SUFFICES ASSUME T # {} PROVE \E x \in T : \A y \in T : x >= y
    OBVIOUS
  <2>1. PICK z \in T : TRUE
    OBVIOUS
  <2>2. CASE T = {z}
    BY <2>2
  <2>3. CASE T # {z}
    <3>1. T \ {z} \in C /\ T \ {z} # {}
      BY <1>1, <2>1, <2>3
    <3>2. PICK x \in T \ {z} : \A y \in T \ {z} : x >= y
      BY <3>1
    <3>3. CASE x >= z
      BY <3>2, <3>3
    <3>4. CASE z >= x
      <4>1. ASSUME NEW y \in T PROVE z >= y
        <5>1. y = z \/ x >= y
          BY <3>2
        <5>2. x \in Int /\ y \in Int /\ z \in Int
          OBVIOUS
        <5> QED
          BY <3>4, <5>1, <5>2
      <4> QED
        BY <4>1
    <3> QED
      BY <3>3, <3>4
  <2> QED
    BY <2>2, <2>3
<1> HIDE DEF C
<1>2. S \in C
  BY <1>1, SubsetInduction
<1>3. \E x \in S : \A y \in S : x >= y
  BY <1>2 DEF C
<1> QED
  BY <1>3 DEF Max

LEMMA LeastOf == ASSUME NEW S \in SUBSET Nat, S # {} PROVE Min(S) \in S
  BY LeastNatural DEF Min

\* One or two numbers, of which one is given.
LEMMA GreatestWith ==
  ASSUME NEW a \in Int, NEW S \in SUBSET Int, IsFiniteSet(S)
  PROVE  Max({a} \cup S) \in {a} \cup S /\ a <= Max({a} \cup S)
<1>1. IsFiniteSet({a} \cup S)
  BY FS_AddElement
<1> QED
  BY <1>1, GreatestOf

LEMMA GreatestOfTwo == ASSUME NEW a \in Int, NEW b \in Int PROVE Max({a, b}) \in {a, b}
<1>1. \E x \in {a, b} : \A y \in {a, b} : x >= y
  OBVIOUS
<1> QED
  BY <1>1 DEF Max

-----------------------------------------------------------------------------
(* What an entry is sized at.                                              *)

LEMMA StopIsNat == ASSUME NEW r \in Request PROVE Stop(r) \in Nat
<1> DEFINE S == StructureStops(r) \cup MinDistances(r)
<1>1. r.atrStop \in Nat /\ r.structure \in Int /\ r.mode \in EntryModes
      /\ r.price \in Nat \ {0} /\ r.atr \in Nat \ {0}
  BY DEF Request
<1>2. \A a \in Int : CeilDiv(a, Percent) \in Int /\ CeilDiv(a, Atr) \in Int
  BY DEF CeilDiv, Percent, Atr
<1>3. Risk.minStop[r.mode] \in Nat /\ Risk.scoutMinAtr \in Nat
  BY <1>1, RiskAssumption
<1>4. r.price * Risk.minStop[r.mode] \in Int /\ r.atr * Risk.scoutMinAtr \in Int
  BY <1>1, <1>3
<1>5. StructureStops(r) \in SUBSET Int /\ IsFiniteSet(StructureStops(r))
  BY <1>1, FS_Singleton, FS_EmptySet DEF StructureStops
<1>6. MinDistances(r) \in SUBSET Int /\ IsFiniteSet(MinDistances(r))
  <2> DEFINE a == CeilDiv(r.price * Risk.minStop[r.mode], Percent)
             b == CeilDiv(r.atr * Risk.scoutMinAtr, Atr)
  <2>1. a \in Int /\ b \in Int
    BY <1>2, <1>4
  <2>2. MinDistances(r) = {a} \cup IF r.mode = "SCOUT" THEN {b} ELSE {}
    BY DEF MinDistances
  <2> HIDE DEF a, b
  <2>3. IsFiniteSet({a}) /\ IsFiniteSet({b}) /\ IsFiniteSet({})
    BY FS_Singleton, FS_EmptySet
  <2>4. IsFiniteSet({a} \cup {b}) /\ IsFiniteSet({a} \cup {})
    BY <2>3, FS_Union
  <2> QED
    BY <2>1, <2>2, <2>4
<1>7. S \in SUBSET Int /\ IsFiniteSet(S)
  BY <1>5, <1>6, FS_Union
<1>8. Stop(r) = Max({r.atrStop} \cup S)
  <2>1. {r.atrStop} \cup StructureStops(r) \cup MinDistances(r) = {r.atrStop} \cup S
    OBVIOUS
  <2> QED
    BY <2>1 DEF Stop
<1> HIDE DEF S
<1> DEFINE m == Max({r.atrStop} \cup S)
<1>9. m \in {r.atrStop} \cup S /\ r.atrStop <= m
  BY <1>1, <1>7, GreatestWith
<1>10. Stop(r) = m
  BY <1>8
<1> HIDE DEF m
<1>11. m \in Int
  <2>1. m = r.atrStop \/ m \in S
    BY <1>9
  <2>2. r.atrStop \in Int
    BY <1>1
  <2>3. m \in S => m \in Int
    BY <1>7, Zenon
  <2> QED
    BY <2>1, <2>2, <2>3
<1>12. r.atrStop \in Nat
  BY <1>1
<1> QED
  BY <1>9, <1>10, <1>11, <1>12

\* What an entry is sized at does not depend on the positions that are open.
Size(r) == Quantity(r, [open |-> {}, losses |-> 0, dailyLoss |-> 0, drawdown |-> 0])

LEMMA SizeInContext == \A r : Quantity(r, Context) = Size(r)
  BY DEF Size, Quantity, Context, LeverageCap, MaxLeverage

LEMMA SizeIsNat == ASSUME NEW r \in Request, Stop(r) > 0 PROVE Size(r) \in Nat
<1> DEFINE ctx == [open |-> {}, losses |-> 0, dailyLoss |-> 0, drawdown |-> 0]
           byRisk == (r.equity * Risk.perTrade * r.fraction) \div (Percent * 100 * Stop(r))
           byTarget == (r.equity * TargetPercent(r)) \div (Percent * r.price)
           byLeverage == (r.equity * LeverageCap(r, ctx)) \div r.price
<1>1. /\ r.equity \in Nat \ {0} /\ r.price \in Nat \ {0} /\ r.fraction \in Nat
      /\ r.mode \in EntryModes /\ Stop(r) \in Nat \ {0}
  BY StopIsNat DEF Request
<1>2. ASSUME NEW a \in Nat, NEW b \in Nat PROVE a * b \in Nat
  OBVIOUS
<1>3. ASSUME NEW a \in Nat, NEW b \in Nat \ {0} PROVE a \div b \in Nat
  BY Z3
<1>4. ASSUME NEW a \in Nat \ {0} PROVE Percent * a \in Nat \ {0} /\ Percent * 100 * a \in Nat \ {0}
  BY DEF Percent
<1>5. TargetPercent(r) \in Nat
  <2> DEFINE a == IF r.mode = "SCOUT" /\ ~r.compression THEN Risk.scoutTarget ELSE Risk.target[r.mode]
             S == IF r.quality THEN {Risk.qualityTarget} ELSE {}
  <2>1. a \in Nat /\ S \in SUBSET Nat
    BY <1>1, RiskAssumption
  <2>2. IsFiniteSet(S)
    BY FS_Singleton, FS_EmptySet
  <2>3. TargetPercent(r) = Max({a} \cup S)
    BY DEF TargetPercent
  <2> HIDE DEF a, S
  <2>4. Max({a} \cup S) \in {a} \cup S
    BY <2>1, <2>2, GreatestWith
  <2> QED
    BY <2>1, <2>3, <2>4
<1>6. LeverageCap(r, ctx) \in Nat
  <2>1. MaxLeverage(r, ctx) \in Nat
    <3> DEFINE base == IF r.quality THEN Risk.qualityCap ELSE Risk.cap[r.mode]
               A == IF r.atr * Percent > Risk.highAtr * r.price THEN {Risk.highAtrCap} ELSE {}
               B == IF ctx.losses >= Risk.lossCount THEN {Risk.lossCap} ELSE {}
               D == IF ctx.dailyLoss >= Risk.dailyDerisk THEN {Risk.dailyCap} ELSE {}
    <3>1. base \in Nat /\ A \in SUBSET Nat /\ B \in SUBSET Nat /\ D \in SUBSET Nat
      BY <1>1, RiskAssumption
    <3>2. Risk.minLeverage \in Nat
      BY RiskAssumption
    <3>3. MaxLeverage(r, ctx) = Max({Risk.minLeverage, Min({base} \cup A \cup B \cup D)})
      BY DEF MaxLeverage
    <3> HIDE DEF base, A, B, D
    <3>4. Min({base} \cup A \cup B \cup D) \in Nat
      <4>1. {base} \cup A \cup B \cup D \in SUBSET Nat /\ {base} \cup A \cup B \cup D # {}
        BY <3>1
      <4> QED
        BY <4>1, LeastOf
    <3> DEFINE least == Min({base} \cup A \cup B \cup D)
    <3>5. least \in Nat
      BY <3>4
    <3> HIDE DEF least
    <3>6. Max({Risk.minLeverage, least}) \in {Risk.minLeverage, least}
      BY <3>2, <3>5, GreatestOfTwo
    <3> QED
      BY <3>2, <3>3, <3>5, <3>6 DEF least
  <2> DEFINE S == {MaxLeverage(r, ctx)} \cup IF ThinStop(r) THEN {Risk.thinCap} ELSE {}
  <2>2. S \in SUBSET Nat /\ S # {}
    BY <2>1, RiskAssumption
  <2>3. LeverageCap(r, ctx) = Min(S)
    BY DEF LeverageCap
  <2> HIDE DEF S
  <2> QED
    BY <2>2, <2>3, LeastOf
<1>7. byRisk \in Nat
  <2>1. r.equity * Risk.perTrade * r.fraction \in Nat
    <3>1. Risk.perTrade \in Nat
      BY RiskAssumption
    <3>2. r.equity * Risk.perTrade \in Nat
      BY <1>1, <1>2, <3>1
    <3> QED
      BY <1>1, <1>2, <3>2
  <2> QED
    BY <1>1, <1>3, <1>4, <2>1
<1>8. byTarget \in Nat
  BY <1>1, <1>2, <1>3, <1>4, <1>5
<1>9. byLeverage \in Nat
  BY <1>1, <1>2, <1>3, <1>6
<1>10. Size(r) = Min({Max({byRisk, byTarget}), byLeverage})
  BY DEF Size, Quantity
<1> HIDE DEF byRisk, byTarget, byLeverage
<1>11. Max({byRisk, byTarget}) \in Nat
  <2>1. Max({byRisk, byTarget}) \in {byRisk, byTarget}
    BY <1>7, <1>8, GreatestOfTwo
  <2> QED
    BY <1>7, <1>8, <2>1
<1>12. {Max({byRisk, byTarget}), byLeverage} \in SUBSET Nat
  BY <1>9, <1>11
<1> QED
  BY <1>10, <1>12, LeastOf

-----------------------------------------------------------------------------
(* The risk of the open positions.                                         *)

Waiting == At("BOOK") \/ At("SENT")

\* What the open positions and the entry risk together is within the budget.
WithinBudget(r) == (RiskSum(ActiveBot) + Size(r) * Stop(r)) * Percent <= Risk.total * r.equity

\* OpenRiskBounded is looked at when the order fills; what makes it true is that an
\* approved entry and the positions stay within the budget while it waits, and that no
\* position of its symbol has come to count, whose risk the fill would replace.
BudgetInv ==
  /\ LimitInv
  /\ \A s \in Symbols : reg[s].risk \in Nat
  /\ Waiting => /\ entry.r.symbol \notin Holders /\ Stop(entry.r) > 0
                /\ "moved" \in DOMAIN entry
                /\ ~entry.moved => WithinBudget(entry.r)

\* The positions that count, as those of their symbols.
LEMMA ActiveHolders == ActiveBot = {reg[s] : s \in Holders} /\ IsFiniteSet(ActiveBot)
<1>1. ActiveBot = {reg[s] : s \in Holders}
  BY DEF ActiveBot, Holders
<1>2. IsFiniteSet(Holders)
  BY GateAssumption, FS_Subset DEF Holders
<1>3. IsFiniteSet({reg[s] : s \in Holders})
  <2> DEFINE T == {reg[s] : s \in Holders}
             f == [s \in Holders |-> reg[s]]
  <2>1. f \in Surjection(Holders, T)
    BY DEF Surjection
  <2> QED
    BY <1>2, <2>1, FS_Surjection DEF ExistsSurjection
<1> QED
  BY <1>1, <1>3

\* With fewer positions there is no less of the budget left.
LEMMA BudgetLeft ==
  ASSUME BudgetInv, NEW r \in Request, Stop(r) > 0, WithinBudget(r), ActiveBot' \subseteq ActiveBot
  PROVE  WithinBudget(r)'
<1>1. IsFiniteSet(ActiveBot) /\ \A p \in ActiveBot : p.risk \in Nat
  BY ActiveHolders DEF BudgetInv, Holders
<1>2. RiskSum(ActiveBot') <= RiskSum(ActiveBot) /\ RiskSum(ActiveBot) \in Nat
  BY <1>1, SumOfPart, SumSplit
<1>3. RiskSum(ActiveBot') \in Nat
  BY <1>1, FS_Subset, SumSplit
<1>4. Size(r) * Stop(r) \in Nat
  <2>1. Size(r) \in Nat /\ Stop(r) \in Nat
    BY StopIsNat, SizeIsNat
  <2>2. \A a, b \in Nat : a * b \in Nat
    OBVIOUS
  <2> QED
    BY <2>1, <2>2
<1>5. Risk.total * r.equity \in Nat
  BY RiskAssumption DEF Request
<1> DEFINE a == RiskSum(ActiveBot')
           b == RiskSum(ActiveBot)
           c == Size(r) * Stop(r)
           d == Risk.total * r.equity
<1>6. a \in Nat /\ b \in Nat /\ c \in Nat /\ d \in Nat /\ a <= b /\ (b + c) * Percent <= d
  BY <1>2, <1>3, <1>4, <1>5 DEF WithinBudget
<1>7. WithinBudget(r)' <=> (a + c) * Percent <= d
  BY DEF WithinBudget
<1> HIDE DEF a, b, c, d
<1>8. (a + c) * Percent <= d
  BY <1>6 DEF Percent
<1> QED
  BY <1>7, <1>8

\* A step after which fewer positions count and no other entry waits.
LEMMA BudgetKept ==
  ASSUME BudgetInv, LimitInv', \A s \in Symbols : reg'[s].risk \in Nat,
         Waiting' => /\ Waiting /\ entry'.r = entry.r /\ Holders' \subseteq Holders
                     /\ "moved" \in DOMAIN entry'
                     /\ ~entry'.moved => ~entry.moved /\ ActiveBot' \subseteq ActiveBot
  PROVE  BudgetInv'
<1>1. ASSUME Waiting'
      PROVE  entry'.r.symbol \notin Holders' /\ Stop(entry'.r) > 0 /\ "moved" \in DOMAIN entry'
  BY <1>1 DEF BudgetInv
<1>2. ASSUME Waiting', ~entry'.moved PROVE WithinBudget(entry.r)'
  <2>1. WithinBudget(entry.r) /\ Stop(entry.r) > 0 /\ ActiveBot' \subseteq ActiveBot
        /\ entry'.r = entry.r
    BY <1>2 DEF BudgetInv
  <2>2. entry.r \in Request
    BY <1>2, GateAssumption DEF BudgetInv, LimitInv, Room, Waiting
  <2> DEFINE r == entry.r
  <2>3. \A q \in Request : Stop(q) > 0 /\ WithinBudget(q) => WithinBudget(q)'
    BY <2>1, BudgetLeft
  <2>4. (RiskSum(ActiveBot') + Size(r) * Stop(r)) * Percent <= Risk.total * r.equity
    BY <2>1, <2>2, <2>3 DEF WithinBudget
  <2> QED
    BY <2>1, <2>4 DEF WithinBudget
<1> QED
  BY <1>1, <1>2 DEF BudgetInv

\* One position changes and does not count afterwards.
LEMMA PositionLeaves ==
  ASSUME BudgetInv, LimitInv', NEW s \in Symbols, NEW p, reg' = [reg EXCEPT ![s] = p],
         p.risk \in Nat, ~p.bot \/ p.status \notin {"PENDING", "ACTIVE"}, entry' = entry
  PROVE  BudgetInv'
<1>1. reg'[s] = p /\ \A t \in Symbols \ {s} : reg'[t] = reg[t]
  BY DEF BudgetInv, LimitInv, Shape
<1>2. Holders' \subseteq Holders /\ \A t \in Holders' : reg'[t] = reg[t]
  BY <1>1 DEF Holders, IsBot
<1>3. ActiveBot' \subseteq ActiveBot
  BY <1>2 DEF ActiveBot, Holders
<1>4. Waiting' = Waiting /\ Waiting => "moved" \in DOMAIN entry
  BY DEF Waiting, At, BudgetInv
<1> QED
  BY <1>1, <1>2, <1>3, <1>4, BudgetKept DEF BudgetInv, Waiting, At

\* A step that leaves the positions alone and approves nothing.
LEMMA BudgetStays ==
  ASSUME BudgetInv, LimitInv', reg' = reg,
         Waiting' => /\ Waiting /\ entry'.r = entry.r
                     /\ "moved" \in DOMAIN entry' /\ entry'.moved = entry.moved
  PROVE  BudgetInv'
<1>1. Holders' = Holders /\ ActiveBot' = ActiveBot
  BY DEF Holders, ActiveBot, IsBot
<1> QED
  BY <1>1, BudgetKept DEF BudgetInv

\* The approval looks at the budget, and at every open position's symbol.
LEMMA GateBudget ==
  ASSUME BudgetInv, LimitInv', NEW r \in Requests, Gate(r)
  PROVE  BudgetInv'
<1>1. reg' = reg /\ entry'.r = r /\ "moved" \in DOMAIN entry' /\ r \in Request /\ r.symbol \in Symbols
  BY GateAssumption DEF Gate
<1>2. Stop(r) > 0 /\ \A p \in ActiveBot : p.symbol # r.symbol
  BY DEF Gate, Approved, HasDistance, AccountLimits, Context
<1>3. r.symbol \notin Holders
  <2>1. ASSUME r.symbol \in Holders PROVE FALSE
    <3>1. reg[r.symbol] \in ActiveBot /\ reg[r.symbol].symbol = r.symbol
      BY <2>1, ActiveHolders DEF Holders, IsBot, BudgetInv, LimitInv, Shape
    <3> QED
      BY <1>2, <3>1
  <2> QED
    BY <2>1
<1>4. WithinBudget(r)
  <2>1. (OpenRisk(Context) + RiskOf(r, Context)) * Percent <= Risk.total * r.equity
    BY DEF Gate, Approved, Exposure
  <2>2. OpenRisk(Context) = RiskSum(ActiveBot)
    BY DEF OpenRisk, Context, RiskSum
  <2>3. RiskOf(r, Context) = Size(r) * Stop(r)
    BY SizeInContext DEF RiskOf
  <2> QED
    BY <2>1, <2>2, <2>3 DEF WithinBudget
<1>5. Holders' = Holders /\ ActiveBot' = ActiveBot
  BY <1>1 DEF Holders, ActiveBot, IsBot
<1>6. WithinBudget(entry.r)'
  BY <1>1, <1>4, <1>5 DEF WithinBudget
<1> QED
  BY <1>1, <1>2, <1>3, <1>5, <1>6 DEF BudgetInv

\* What a fill adds to the risk.
Added(r, slip) == Size(r) * (Stop(r) + slip)

LEMMA FillAdds ==
  ASSUME BudgetInv, NEW slip \in {0, Slip}, OrderFills(slip)
  PROVE  LET r == entry.r
         IN  /\ r \in Request /\ r.symbol \in Symbols \ Holders /\ Stop(r) > 0
             /\ reg'[r.symbol].risk = Added(r, slip) /\ Added(r, slip) \in Nat
             /\ \A s \in Symbols \ {r.symbol} : reg'[s] = reg[s]
             /\ Holders' = Holders \cup {r.symbol}
<1> DEFINE r == entry.r
<1>1. At("SENT") /\ r \in Request /\ r.symbol \in Symbols \ Holders /\ Stop(r) > 0
  BY GateAssumption DEF OrderFills, BudgetInv, LimitInv, Room, Waiting
<1>2. /\ reg'[r.symbol].risk = Quantity(r, Context) * (Stop(r) + slip)
      /\ reg'[r.symbol].bot /\ reg'[r.symbol].status = "PENDING"
      /\ \A s \in Symbols \ {r.symbol} : reg'[s] = reg[s]
  BY <1>1 DEF OrderFills, BudgetInv, LimitInv, Shape
<1>3. Added(r, slip) \in Nat
  <2>1. Size(r) \in Nat /\ Stop(r) + slip \in Nat
    BY <1>1, StopIsNat, SizeIsNat, GateAssumption
  <2>2. \A a, b \in Nat : a * b \in Nat
    OBVIOUS
  <2> QED
    BY <2>1, <2>2 DEF Added
<1>4. Holders' = Holders \cup {r.symbol}
  BY <1>1, <1>2 DEF Holders, IsBot
<1> QED
  BY <1>1, <1>2, <1>3, <1>4, SizeInContext DEF Added

LEMMA LoopBudget == ASSUME BudgetInv, Loop PROVE BudgetInv'
<1>0. LimitInv'
  BY LoopLimit DEF BudgetInv
<1>a. "stage" \in DOMAIN entry /\ (Waiting => "moved" \in DOMAIN entry)
  BY DEF BudgetInv, LimitInv, Shape
<1>b. NoEntry.stage = "NONE" /\ NoPosition.risk = 0
  BY DEF NoEntry, NoPosition
<1>1. ASSUME NEW r \in Requests, Gate(r) PROVE BudgetInv'
  BY <1>0, <1>1, GateBudget
<1>2. CASE GateLatches \/ Abandoned \/ OrderFails
  BY <1>0, <1>a, <1>b, <1>2, BudgetStays DEF GateLatches, Abandoned, OrderFails, At, Waiting
<1>3. CASE PostGate
  <2>1. entry'.r = entry.r /\ entry'.moved = entry.moved /\ "moved" \in DOMAIN entry' /\ Waiting
    BY <1>a, <1>3 DEF PostGate, Waiting
  <2> QED
    BY <1>0, <1>3, <2>1, BudgetStays DEF PostGate
<1>4. ASSUME NEW slip \in {0, Slip}, OrderFills(slip) PROVE BudgetInv'
  <2>1. ~Waiting'
    BY <1>a, <1>4 DEF OrderFills, Waiting, At
  <2>2. \A s \in Symbols : reg'[s].risk \in Nat
    BY <1>4, FillAdds DEF BudgetInv
  <2> QED
    BY <1>0, <2>1, <2>2, BudgetKept
<1>5. CASE \/ \E status \in {"ACTIVE", "PENDING"} : Protected(status)
           \/ \E closed \in BOOLEAN : ProtectionFails(closed)
  <2>1. ~Waiting'
    BY <1>b, <1>5 DEF Protected, ProtectionFails, Waiting, At
  <2>2. \A s \in Symbols : reg'[s].risk \in Nat
    <3>1. entry.r.symbol \in Symbols
      BY <1>5 DEF Protected, ProtectionFails, BudgetInv, LimitInv, Filled, Holders
    <3>2. ASSUME NEW status, reg' = [reg EXCEPT ![entry.r.symbol].status = status]
          PROVE  \A s \in Symbols : reg'[s].risk \in Nat
      BY <3>1, <3>2 DEF BudgetInv, LimitInv, Shape
    <3>3. ASSUME reg' = [reg EXCEPT ![entry.r.symbol] = NoPosition]
          PROVE  \A s \in Symbols : reg'[s].risk \in Nat
      BY <1>b, <3>1, <3>3 DEF BudgetInv, LimitInv, Shape
    <3> QED
      BY <1>5, <3>2, <3>3 DEF Protected, ProtectionFails, BudgetInv
  <2> QED
    BY <1>0, <2>1, <2>2, BudgetKept
<1> QED
  BY <1>1, <1>2, <1>3, <1>4, <1>5 DEF Loop

LEMMA OthersBudget == ASSUME BudgetInv, Others PROVE BudgetInv'
<1>0. LimitInv'
  BY OthersLimit DEF BudgetInv
<1>a. /\ "stage" \in DOMAIN entry /\ (Waiting => "moved" \in DOMAIN entry)
      /\ ~NoPosition.bot /\ NoPosition.risk \in Nat
  BY DEF BudgetInv, LimitInv, Shape, NoPosition
<1>1. ASSUME NEW s \in Symbols, NEW by \in Closers, Closed(s, by) PROVE BudgetInv'
  BY <1>0, <1>1, <1>a, PositionLeaves DEF Closed, Frees
<1>8. ASSUME NEW by \in Closers, (\E win \in BOOLEAN : Booked(by, win)) \/ NeverBooked(by)
      PROVE  BudgetInv'
  BY <1>0, <1>a, <1>8, BudgetStays DEF Booked, NeverBooked, At, Waiting
<1>2. ASSUME NEW s \in Symbols, StopFired(s) \/ ExternalClosed(s) PROVE BudgetInv'
  BY <1>0, <1>2, <1>a, PositionLeaves DEF StopFired, ExternalClosed, Frees
<1>3. ASSUME NEW s \in Symbols, ExternalOpened(s) PROVE BudgetInv'
  <2> DEFINE p == [NoPosition EXCEPT !.status = "ACTIVE", !.symbol = s]
  <2>1. ~p.bot /\ p.risk \in Nat
    BY DEF NoPosition
  <2>2. reg' = [reg EXCEPT ![s] = p] /\ entry' = entry
    BY <1>3 DEF ExternalOpened
  <2> HIDE DEF p
  <2> QED
    BY <1>0, <2>1, <2>2, PositionLeaves
<1>4. ASSUME NEW s \in Symbols, ExitFails(s) PROVE BudgetInv'
  <2> DEFINE p == [reg[s] EXCEPT !.status = "CLOSING"]
  <2>1. p.status = "CLOSING" /\ p.risk \in Nat
    BY DEF BudgetInv, LimitInv, Shape
  <2>2. reg' = [reg EXCEPT ![s] = p] /\ entry' = entry
    BY <1>4 DEF ExitFails
  <2> HIDE DEF p
  <2> QED
    BY <1>0, <2>1, <2>2, PositionLeaves
<1>5. ASSUME NEW s \in Symbols, ManualAdd(s) PROVE BudgetInv'
  <2>1. \A t \in Symbols : reg'[t].risk \in Nat
    BY <1>5 DEF ManualAdd, BudgetInv, LimitInv, Shape
  <2>2. Holders' = Holders
    BY <1>5 DEF ManualAdd, BudgetInv, LimitInv, Shape, Holders, IsBot
  <2>3. Waiting' => Waiting /\ entry'.r = entry.r /\ "moved" \in DOMAIN entry' /\ entry'.moved
    BY <1>a, <1>5 DEF ManualAdd, Waiting, At
  <2>4. Waiting' => /\ Waiting /\ entry'.r = entry.r /\ Holders' \subseteq Holders
                    /\ "moved" \in DOMAIN entry'
                    /\ ~entry'.moved => ~entry.moved /\ ActiveBot' \subseteq ActiveBot
    BY <2>2, <2>3, Zenon
  <2> QED
    BY <1>0, <2>1, <2>4, BudgetKept
<1>6. CASE PauseEnds \/ Pause \/ Resume \/ Dropped \/ Tick
           \/ \E breached \in BOOLEAN : UpdatePnl(breached)
  BY <1>0, <1>a, <1>6, BudgetStays
     DEF PauseEnds, Pause, Resume, Dropped, Tick, UpdatePnl, At, Waiting
<1>7. CASE Reload
  <2>1. Waiting' => /\ Waiting /\ entry'.r = entry.r
                    /\ "moved" \in DOMAIN entry' /\ entry'.moved = entry.moved
    BY <1>a, <1>7 DEF Reload, At, Waiting
  <2> QED
    BY <1>0, <1>7, <2>1, BudgetStays DEF Reload
<1> QED
  BY <1>1, <1>2, <1>3, <1>4, <1>5, <1>6, <1>7, <1>8 DEF Others

LEMMA NextBudget == ASSUME BudgetInv, [Next]_vars PROVE BudgetInv'
<1>1. CASE Loop
  BY <1>1, LoopBudget
<1>2. CASE Others
  BY <1>2, OthersBudget
<1>3. CASE Apply \/ (\E ok \in BOOLEAN : Announced(ok)) \/ UNCHANGED vars
  <2>1. LimitInv'
    BY NextLimit DEF BudgetInv
  <2> QED
    BY <1>3, <2>1, BudgetStays DEF Apply, Announced, vars, At, Waiting, BudgetInv
<1> QED
  BY <1>1, <1>2, <1>3 DEF Next

\* Only the fill of the order takes an entry from SENT to PROTECT.
LEMMA OnlyFills ==
  ASSUME BudgetInv, Next, At("SENT"), entry'.stage = "PROTECT"
  PROVE  \E slip \in {0, Slip} : OrderFills(slip)
<1>0. "stage" \in DOMAIN entry /\ NoEntry.stage = "NONE"
  BY DEF BudgetInv, LimitInv, Shape, NoEntry
<1>1. CASE Loop
  BY <1>0, <1>1 DEF Loop, Gate, GateLatches, PostGate, Abandoned, OrderFails, Protected,
                    ProtectionFails, At
<1>2. CASE Others
  <2>1. entry'.stage = entry.stage
    BY <1>0, <1>2 DEF Others, Closed, Booked, NeverBooked, ExitFails, StopFired, ExternalOpened, ExternalClosed,
                      ManualAdd, PauseEnds, Dropped, Pause, Resume, Reload, Tick, UpdatePnl
  <2> QED
    BY <2>1 DEF At
<1>3. CASE Apply \/ \E ok \in BOOLEAN : Announced(ok)
  BY <1>3 DEF Apply, Announced, At
<1> QED
  BY <1>1, <1>2, <1>3 DEF Next

\* The position that was filled joins the others.
LEMMA FillJoins ==
  ASSUME BudgetInv, NEW slip \in {0, Slip}, OrderFills(slip)
  PROVE  RiskSum(ActiveBot') = RiskSum(ActiveBot) + Added(entry.r, slip)
<1> DEFINE r == entry.r
           p == reg'[r.symbol]
<1>1. /\ r.symbol \in Symbols \ Holders /\ p.risk = Added(r, slip) /\ Added(r, slip) \in Nat
      /\ \A s \in Symbols \ {r.symbol} : reg'[s] = reg[s]
      /\ Holders' = Holders \cup {r.symbol}
  BY FillAdds
<1>2. p.symbol = r.symbol
  BY <1>1 DEF OrderFills, BudgetInv, LimitInv, Shape
<1>3. ActiveBot' = {reg'[s] : s \in Holders'}
  BY DEF ActiveBot, Holders
<1>4. ActiveBot = {reg[s] : s \in Holders} /\ IsFiniteSet(ActiveBot)
  BY ActiveHolders
<1>5. ActiveBot' = ActiveBot \cup {p}
  BY <1>1, <1>3, <1>4 DEF Holders
<1>6. p \notin ActiveBot
  BY <1>1, <1>2, <1>4 DEF BudgetInv, LimitInv, Shape, Holders, IsBot
<1>7. \A q \in ActiveBot' : q.risk \in Nat
  BY <1>1, <1>4, <1>5 DEF BudgetInv, Holders
<1>8. IsFiniteSet(ActiveBot') /\ p \in ActiveBot' /\ ActiveBot' \ {p} = ActiveBot
  BY <1>4, <1>5, <1>6, FS_AddElement
<1>9. RiskSum(ActiveBot') = p.risk + RiskSum(ActiveBot) /\ RiskSum(ActiveBot) \in Nat
  BY <1>4, <1>7, <1>8, <1>5, SumSplit
<1> QED
  BY <1>1, <1>9

\* When an order has filled, the risk of the open positions is within
\* max_total_open_risk_percent of the equity, up to what the fill slipped, however many
\* positions there are and whatever was closed while the order was under way.
THEOREM OpenRiskHolds == Spec => OpenRiskBounded
<1>1. Init => BudgetInv
  <2> SUFFICES ASSUME Init PROVE BudgetInv
    OBVIOUS
  <2>1. ~Waiting
    BY DEF Init, Waiting, At, NoEntry
  <2>2. \A s \in Symbols : reg[s].risk \in Nat
    BY DEF Init, NoPosition
  <2> QED
    BY <2>1, <2>2, InitLimit DEF BudgetInv
<1>2. BudgetInv /\ [Next]_vars => BudgetInv'
  BY NextBudget
<1>3. BudgetInv /\ [Next]_vars
        => (At("SENT") /\ entry'.stage = "PROTECT" /\ ~entry.moved
              => LET r == entry.r
                     slipped == Slip * Quantity(r, Context)
                 IN  (OpenRisk(Context') - slipped) * Percent <= Risk.total * r.equity)
  <2> SUFFICES ASSUME BudgetInv, [Next]_vars, At("SENT"), entry'.stage = "PROTECT", ~entry.moved
               PROVE  (OpenRisk(Context') - Slip * Size(entry.r)) * Percent
                        <= Risk.total * entry.r.equity
    BY SizeInContext
  <2> DEFINE r == entry.r
             total == RiskSum(ActiveBot)
             size == Size(r)
             stop == Stop(r)
             budget == Risk.total * r.equity
  <2>1. PICK slip \in {0, Slip} : OrderFills(slip)
    <3>1. Next
      BY DEF vars, At
    <3> QED
      BY <3>1, OnlyFills
  <2>2. OpenRisk(Context') = total + size * (stop + slip)
    <3>1. OpenRisk(Context') = RiskSum(ActiveBot')
      BY DEF OpenRisk, Context, RiskSum
    <3> QED
      BY <2>1, <3>1, FillJoins DEF Added
  <2>3. (total + size * stop) * Percent <= budget
    BY DEF BudgetInv, Waiting, WithinBudget
  <2>4. r \in Request /\ stop > 0
    BY <2>1, FillAdds
  <2>5. size \in Nat /\ stop \in Nat /\ Slip \in Nat /\ budget \in Nat
    <3>1. Risk.total \in Nat /\ r.equity \in Nat
      BY <2>4, RiskAssumption DEF Request
    <3>2. budget \in Nat
      BY <3>1
    <3> QED
      BY <2>4, <3>2, StopIsNat, SizeIsNat, GateAssumption
  <2>6. total \in Nat
    BY ActiveHolders, SumSplit DEF BudgetInv, Holders
  <2> HIDE DEF r, total, size, stop, budget
  <2> DEFINE a == size * stop
             b == size * slip
             c == Slip * size
  <2>7. a \in Nat /\ b \in Nat /\ c \in Nat /\ b <= c /\ size * (stop + slip) = a + b
    <3>1. ASSUME NEW x \in Nat, NEW y \in Nat, NEW z \in Nat
          PROVE  /\ x * y \in Nat /\ x * z \in Nat /\ z * x \in Nat /\ x * z = z * x
                 /\ x * (y + z) = x * y + x * z
      OBVIOUS
    <3>2. slip = 0 \/ slip = Slip
      OBVIOUS
    <3>3. CASE slip = Slip
      BY <2>5, <3>1, <3>3
    <3>4. CASE slip = 0
      BY <2>5, <3>1, <3>4
    <3> QED
      BY <3>2, <3>3, <3>4
  <2> HIDE DEF a, b, c
  <2>8. ((total + (a + b)) - c) * Percent <= budget
    <3>1. (total + a) * Percent <= budget
      BY <2>3 DEF a
    <3> QED
      BY <2>5, <2>6, <2>7, <3>1 DEF Percent
  <2>9. (OpenRisk(Context') - c) * Percent <= budget
    <3>1. OpenRisk(Context') = total + (a + b)
      BY <2>2, <2>7
    <3> QED
      BY <2>8, <3>1, Zenon
  <2> QED
    BY <2>9 DEF c, size, r, budget
<1> QED
  BY <1>1, <1>2, <1>3, PTL DEF Spec, OpenRiskBounded

=============================================================================
