--------------------------- MODULE ManagedPosition ---------------------------
(***************************************************************************)
(* A bot position from its entry to its end, as TradingService.manage      *)
(* drives it: each cycle evaluates the rules of PositionManager and then   *)
(* executes the actions one by one, awaiting the exchange in each.  The    *)
(* stop is kept in three places -- the Position, the exchange and the last *)
(* row of the database, from which a restarted engine restores the         *)
(* position -- and the rules remember per symbol, across positions.        *)
(***************************************************************************)
EXTENDS PositionManager

CONSTANTS
  EntryModes,  \* entry modes the symbol is entered with
  Prices,      \* prices evaluate may be given
  Candles,     \* closed candles: [facts, high]
  Snapshots,   \* sets of facts
  Faults       \* "unfilled": a closing order may execute nothing, an exit a part
               \* "raise": it may raise
               \* "log": a row may not be written, "event": an event not be published
               \* "sync": set_trading_stop may raise or be held back
               \* "restart": the process may die and restore its position

ASSUME ManagedAssumption ==
  /\ EntryModes \subseteq Modes
  /\ Prices \subseteq Int
  /\ Candles \subseteq [facts : SUBSET CandleFacts, high : Int]
  /\ Snapshots \subseteq SUBSET SnapshotFacts
  /\ Faults \subseteq {"unfilled", "raise", "log", "event", "sync", "restart"}

VARIABLES
  pos,        \* the Position in RuntimeState.positions[symbol]
  trk,        \* PositionManager's dictionaries, at this symbol
  candle,     \* the last closed 1m candle that a cycle has seen
  todo,       \* the actions of this cycle that are not done
  announcing, \* the events that precede them are being published
  input,      \* what evaluate was given, kept while the activation may need it
  exStop,     \* exchange: the position's stop loss
  held,       \* exchange: the position exists
  row,        \* database: the latest row of the symbol
  hist        \* history: what happened to this position

vars == <<pos, trk, candle, todo, announcing, input, exStop, held, row, hist>>

Reductions == {"PARTIAL_TAKE_PROFIT", "STAGNATION", "SCENARIO_INVALID",
               "SCOUT_DEFENSIVE", "SCOUT_CATASTROPHIC"}
Closings == {"EXIT", "PARTIAL_TP", "REDUCE"}
Trails == {"TRAIL_UPDATE", "RUNNER_TRAIL"}

CutCap == Max({2, MaxDefensive + 1})  \* the history counts no further

NoInput == [price |-> 0, snap |-> {}]
NoHistory == [earned |-> FALSE, cuts |-> [r \in Reductions |-> 0], failed |-> FALSE,
              dropped |-> FALSE, restarted |-> FALSE]

\* Nobody reads the rest of a closed Position.
Ended == [NewPosition("BREAKOUT") EXCEPT !.status = "CLOSED"]

Active == pos.status = "ACTIVE"
Open == pos.status # "CLOSED"
Idle == todo = << >>
Decided(kinds) == ~Idle /\ Head(todo).kind \in kinds
Awaits(kinds) == ~announcing /\ Decided(kinds)

TypeOK ==
  /\ pos.status \in {"ACTIVE", "CLOSING", "CLOSED"}
  /\ pos.scout \in {"NONE", "PENDING", "WARNING", "ACTIVE_TREND"}
  /\ pos.strength \in Strengths
  /\ pos.red \in 0..MaxDefensive
  /\ pos.bars.n \in 0..BarCap /\ pos.warned \in 0..BarCap
  /\ trk.recovery \in 0..3
  /\ trk.level.n \in 0..2 /\ trk.scout.n \in 0..2 /\ trk.weak.n \in 0..WeakBars
  /\ Len(todo) <= 2
  /\ {pos.partial, pos.trailing, pos.runner, announcing, held} \subseteq BOOLEAN
  /\ row.status \in {"ACTIVE", "CLOSED"}

Row(p) == [status |-> p.status, stop |-> p.stop, mode |-> p.mode]

Init ==
  /\ pos = Ended
  /\ trk = NoTrack
  /\ candle \in Candles
  /\ todo = << >>
  /\ announcing = FALSE
  /\ input = NoInput
  /\ exStop = NoPrice
  /\ held = FALSE
  /\ row = Row(pos)
  /\ hist = NoHistory

-----------------------------------------------------------------------------
(* The cycle.                                                              *)

\* What is left of the cycle after its first action, or nothing.
Goes(rest) ==
  /\ todo' = rest
  /\ announcing' = FALSE
  /\ input' = NoInput

\* max_holding_minutes have passed since the position was opened.
Ages ==
  /\ Open /\ ~pos.old
  /\ pos' = [pos EXCEPT !.old = TRUE]
  /\ UNCHANGED <<trk, candle, todo, announcing, input, exStop, held, row, hist>>

\* An entry of evaluate_entry: filled, protected and logged.
Enter(mode) ==
  /\ ~Open /\ Idle /\ ~held
  /\ pos' = NewPosition(mode)
  /\ trk' = ForNewPosition(trk)
  /\ exStop' = pos'.stop
  /\ held' = TRUE
  /\ row' = Row(pos')
  /\ UNCHANGED <<candle, todo, announcing, input, hist>>

\* The counters of bars when the last closed candle is another one than before.
NextBar(p, t) ==
  [p |-> [p EXCEPT !.bars.seen = FALSE],
   t |-> [t EXCEPT !.weak.seen = FALSE, !.level.seen = FALSE, !.scout.seen = FALSE]]

\* Events precede the action that is decided: of a runner, of a scout that is confirmed, and
\* of one that leaves before it is -- but none if it leaves for its age.
Announces(p, e) ==
  /\ e.acts # << >> /\ Head(e.acts).reason # "MAX_HOLDING_TIME"
  /\ \/ e.p.runner
     \/ e.p.scout = "ACTIVE_TREND" /\ p.scout # "ACTIVE_TREND"
     \/ e.p.scout \in {"PENDING", "WARNING"} /\ Head(e.acts).kind = "EXIT"

\* manage: evaluate, in the bar c, which may be the one of the last cycle.
Evaluate(price, c, new, snap, allowed) ==
  /\ Active /\ Idle
  /\ new \/ c = candle
  /\ LET at == IF new THEN NextBar(pos, trk) ELSE [p |-> pos, t |-> trk]
         e == Evaluation(at.p, at.t, price, c, snap, allowed)
     IN  /\ pos' = e.p
         /\ trk' = e.t
         /\ todo' = e.acts
         /\ announcing' = Announces(pos, e)
         /\ input' = IF e.p.partial /\ ~pos.partial THEN [price |-> price, snap |-> snap]
                     ELSE NoInput
  /\ candle' = c
  /\ hist' = [hist EXCEPT !.earned = @ \/ HalfR(pos, price) >= TrailR]
  /\ UNCHANGED <<exStop, held, row>>

\* The events are published ...
Announced ==
  /\ announcing
  /\ announcing' = FALSE
  /\ UNCHANGED <<pos, trk, candle, todo, input, exStop, held, row, hist>>

\* ... or one raises, and with it manage: what was decided is not done.
AnnounceRaises ==
  /\ "event" \in Faults
  /\ announcing
  /\ hist' = [hist EXCEPT !.dropped = @ \/ (Open /\ Decided({"EXIT"}))]
  /\ Goes(<< >>)
  /\ UNCHANGED <<pos, trk, candle, exStop, held, row>>

\* log_position, or what is written before it raises.
Logs(p) == row' \in {Row(p)} \cup (IF "log" \in Faults THEN {row} ELSE {})

\* manage: half of the position goes because of the funding rate, before evaluate.
FundingReduce ==
  /\ Active /\ Idle /\ held
  /\ Logs(pos)
  /\ UNCHANGED <<pos, trk, candle, todo, announcing, input, exStop, held, hist>>

\* The position is over: in the record and, if it can be written, in the database.
Ends ==
  /\ pos' = Ended
  /\ Logs(pos')
  /\ hist' = NoHistory

\* The exchange drops the stop loss with the position.
Leaves ==
  /\ held' = FALSE
  /\ exStop' = NoPrice

\* _close: an exit is executed; one that is executed in part ends the position, too.
ExitFills ==
  /\ Awaits({"EXIT"}) /\ held
  /\ IF Open THEN Ends ELSE UNCHANGED <<pos, row, hist>>
  /\ Leaves \/ ("unfilled" \in Faults /\ UNCHANGED <<exStop, held>>)
  /\ Goes(Tail(todo))
  /\ UNCHANGED <<trk, candle>>

\* The history counts the reduction that is executed.
Counting == [hist EXCEPT !.cuts[Head(todo).reason] = Capped(@ + 1, CutCap)]

\* _close: a reduction is executed and logged; a partial take profit activates the
\* runner with what evaluate was given.
ReductionFills(allowed) ==
  /\ Awaits({"PARTIAL_TP", "REDUCE"}) /\ held /\ Open
  /\ row' = Row(pos)
  /\ hist' = Counting
  /\ IF Head(todo).kind = "REDUCE"
     THEN Goes(Tail(todo)) /\ UNCHANGED <<pos, trk>>
     ELSE LET s == [p |-> pos, t |-> trk, acts |-> << >>, done |-> FALSE]
              on == Activated(s, input.price, candle, input.snap, allowed)
          IN  /\ pos' = on.p
              /\ trk' = on.t
              /\ Goes([i \in 1..Len(on.acts) |-> [on.acts[i] EXCEPT !.kind = "RUNNER_TRAIL"]])
  /\ UNCHANGED <<candle, exStop, held>>

\* It is executed, but cannot be logged, and manage ends without the activation.
ReductionUnlogged ==
  /\ "log" \in Faults
  /\ Awaits({"PARTIAL_TP", "REDUCE"}) /\ held /\ Open
  /\ hist' = Counting
  /\ Goes(<< >>)
  /\ UNCHANGED <<pos, trk, candle, exStop, held, row>>

\* _close: nothing was executed, or there was nothing left to be.
CloseFillsNothing ==
  /\ "unfilled" \in Faults \/ ~Open
  /\ Awaits(Closings)
  /\ hist' = [hist EXCEPT !.failed = @ \/ (Open /\ Head(todo).kind = "EXIT")]
  /\ Goes(Tail(todo))
  /\ UNCHANGED <<pos, trk, candle, exStop, held, row>>

\* _close raises, and with it manage.
CloseRaises ==
  /\ "raise" \in Faults
  /\ Awaits(Closings)
  /\ hist' = [hist EXCEPT !.failed = @ \/ (Open /\ Head(todo).kind = "EXIT")]
  /\ Goes(<< >>)
  /\ UNCHANGED <<pos, trk, candle, exStop, held, row>>

\* _close finds the position gone: _mark_exchange_already_flat.
CloseFlat ==
  /\ Awaits(Closings) /\ ~held
  /\ IF Open THEN Ends ELSE UNCHANGED <<pos, row, hist>>
  /\ Goes(Tail(todo))
  /\ UNCHANGED <<trk, candle, exStop, held>>

\* A trailing update puts the stop in the record before it is sent.
Stopped == [pos EXCEPT !.stop = IF Open /\ Head(todo).kind = "TRAIL_UPDATE"
                               THEN Head(todo).stop ELSE @]

\* A stop that manage moved is logged, one of the activation is not; a runner's is
\* announced before, which may raise.
Logged == IF Head(todo).kind = "TRAIL_UPDATE" THEN <<Act("LOG", "NONE")>> \o Tail(todo)
          ELSE Tail(todo)

AfterSync ==
  \/ Goes(Logged)
  \/ "event" \in Faults /\ pos.runner /\ Goes(<< >>)

\* Mutant: the stop of the decision is sent, not that of the record.
Bug_Sync ==
  /\ Awaits(Trails) /\ held
  /\ pos' = Stopped
  /\ exStop' = TrailStop(pos, trk.maxR)
  /\ AfterSync
  /\ UNCHANGED <<trk, candle, held, row, hist>>

\* _sync_trailing_stop: the exchange takes the stop.
Sync ==
  /\ Awaits(Trails) /\ held
  /\ pos' = Stopped
  /\ exStop' = pos'.stop
  /\ AfterSync
  /\ UNCHANGED <<trk, candle, held, row, hist>>

\* It is too early for another update, or the request of a runner raises.
SyncSkipped ==
  /\ "sync" \in Faults \/ (~held /\ pos.runner)
  /\ Awaits(Trails)
  /\ pos' = Stopped
  /\ AfterSync
  /\ UNCHANGED <<trk, candle, exStop, held, row, hist>>

\* The request of another position raises, and with it manage.
SyncRaises ==
  /\ "sync" \in Faults \/ ~held
  /\ Awaits(Trails) /\ ~pos.runner
  /\ pos' = Stopped
  /\ Goes(<< >>)
  /\ UNCHANGED <<trk, candle, exStop, held, row, hist>>

LogStop ==
  /\ Awaits({"LOG"})
  /\ Logs(pos)
  /\ Goes(Tail(todo))
  /\ UNCHANGED <<pos, trk, candle, exStop, held, hist>>

-----------------------------------------------------------------------------
(* The exchange, reconciliation and restarts.                              *)

StopFires ==
  /\ held
  /\ Leaves
  /\ UNCHANGED <<pos, trk, candle, todo, announcing, input, row, hist>>

\* A reconciliation finds the position gone; not while a close is settling.
Gone ==
  /\ Open /\ ~held /\ ~Awaits(Closings)
  /\ Ends
  /\ UNCHANGED <<trk, candle, todo, announcing, input, exStop, held>>

\* restore_open_bot_positions: what a row does not hold starts anew.
Restored ==
  [NewPosition(row.mode) EXCEPT !.status = row.status, !.stop = row.stop,
     !.risk = IF row.stop < 0 THEN -row.stop ELSE row.stop, !.old = pos.old, !.scout = "NONE"]

\* The process dies and starts again, also with a position whose end was not logged.
Restart ==
  /\ "restart" \in Faults /\ (Open \/ row.status = "ACTIVE")
  /\ pos' = Restored
  /\ trk' = NoTrack
  /\ Goes(<< >>)
  /\ hist' = [hist EXCEPT !.restarted = TRUE]
  /\ UNCHANGED <<candle, exStop, held, row>>

Cycle ==
  \/ Announced \/ AnnounceRaises \/ ReductionUnlogged
  \/ ExitFills \/ CloseFillsNothing \/ CloseRaises \/ CloseFlat
  \/ \E allowed \in BOOLEAN : ReductionFills(allowed)
  \/ Sync \/ SyncSkipped \/ SyncRaises \/ LogStop

\* Only the updates of a runner keep an interval.
Allowances == IF pos.runner THEN BOOLEAN ELSE {TRUE}

Decide ==
  \E price \in Prices, c \in Candles, new \in BOOLEAN, snap \in Snapshots, allowed \in Allowances :
    Evaluate(price, c, new, snap, allowed)

Next ==
  \/ Ages \/ Decide \/ Cycle
  \/ \E m \in EntryModes : Enter(m)
  \/ FundingReduce \/ StopFires \/ Gone \/ Restart

Spec == Init /\ [][Next]_vars

-----------------------------------------------------------------------------
(* Properties.                                                             *)

\* Within one process the stop of a position only moves towards profit: not the
\* ratchet, nor a change of a runner's strength, nor the tightening of a retest
\* loosens it (_ratchet: "Move the stop in the favourable direction only").
StopOnlyTightens == [][Open /\ Open' /\ ~hist'.restarted => pos'.stop >= pos.stop]_vars

\* The same of the stop that protects the position on the exchange, although it is
\* sent in a later step and may be skipped.
ExchangeStopOnlyTightens ==
  [][held /\ held' /\ ~hist'.restarted => exStop' >= exStop]_vars

\* However often evaluate runs, and whatever becomes of the orders, one process takes
\* profit once, halves a position once for each reason, and a scout at most
\* max_defensive_reductions times.
ReductionsBounded ==
  hist.restarted \/
    /\ \A r \in {"PARTIAL_TAKE_PROFIT", "STAGNATION", "SCENARIO_INVALID"} : hist.cuts[r] <= 1
    /\ hist.cuts["SCOUT_DEFENSIVE"] + hist.cuts["SCOUT_CATASTROPHIC"] <= MaxDefensive

\* A position is CLOSING, where no cycle manages it, only while the exit that was decided is
\* still to be done, or when that exit executed nothing or raised, or when an event that is
\* published before it raised.
ClosingHasAnExit == pos.status = "CLOSING" => Decided({"EXIT"}) \/ hist.failed \/ hist.dropped

-----------------------------------------------------------------------------
(* What the documentation says and the code does not do.                   *)

\* "+2R" starts the trailing (engine document, 14.3).  _max_r is kept per symbol and
\* outlives its position: the next one trails from its first bar.
TrailingIsEarned == pos.trailing => hist.earned

\* "EXIT: a reduce-only MARKET order, the whole quantity" (strategy flow): the events that
\* precede an exit may raise, and it is never tried.
ExitIsTried == pos.status = "CLOSING" => ~hist.dropped

\* "PARTIAL take profit" once per position: a restored position has forgotten it.
PartialOnce == hist.cuts["PARTIAL_TAKE_PROFIT"] <= 1
=============================================================================
