------------------------------ MODULE CandleFeed ------------------------------
(***************************************************************************)
(* The closed candles of one symbol and one interval: the thread of the    *)
(* WebSocket adds them to CandleStore one by one, the trading loop         *)
(* replaces them all by REST answers, and an entry is judged on a copy.    *)
(*                                                                         *)
(* Candles are numbered by their opening times.  The 1 minute series is    *)
(* polled in every cycle that finds it old or with gaps; the others only   *)
(* while they are empty, the 15 minute one also by the scanner.            *)
(***************************************************************************)
EXTENDS Integers, Sequences, SequencesExt, FiniteSetsExt

CONSTANTS
  None,
  Intervals,       \* subset of {"1", "5", "15"}
  TicksPerCandle,  \* the unit of time is a part of a candle
  Flight,          \* ticks that an await of the loop may take
  MaxHistory,      \* CandleStore.max_candles
  Drifts,          \* how the engine's clock may differ from the exchange's
  Limit,           \* rows of a REST answer, the candle in progress among them
  RefreshAge,      \* _kline_min_refresh_ms
  MaxAge,          \* data_quality.max_kline_delay_sec
  MaxMissing,      \* data_quality.max_missing_candles
  MaxClosed        \* bound: candles that close

ASSUME FeedAssumption ==
  /\ Intervals \subseteq {"1", "5", "15"} /\ None \notin Int
  /\ Drifts \subseteq {"lags", "leads"}
  /\ {TicksPerCandle, MaxHistory, RefreshAge, MaxClosed} \subseteq Nat \ {0}
  /\ Limit \in Nat /\ Limit > 2
  /\ {Flight, MaxMissing, MaxAge} \subseteq Nat
  /\ RefreshAge <= MaxAge + 1   \* spread of at most 30 s over a refresh of 60 s, delay of 90 s
  /\ Flight < TicksPerCandle    \* requests time out within seconds

VARIABLES
  interval,  \* the series, which does not change
  closed,    \* candles the exchange has closed: 0 .. closed - 1; the next is in progress
  phase,     \* ticks of the candle in progress
  clock,     \* candles that have ended by the engine's clock
  told,      \* candles whose confirmation the WebSocket has passed on or lost
  thread,    \* the confirmation CandleStore.update is working on, or None
  history,   \* CandleStore._confirmed: [open, final]
  current,   \* CandleStore._current, its number, or None
  gaps,      \* CandleStore._gaps
  age,       \* ticks since _last_kline_ms; MaxAge + 1 is older, or never
  loop,      \* where _process_symbol is
  taken,     \* the candle in progress when the exchange took its REST answer, or None
  flight,    \* ticks of the await in progress
  seen       \* candles_1m, the copy the cycle works on

time == <<closed, phase, clock>>
store == <<history, current, gaps>>
cycle == <<loop, taken, flight, seen>>
vars == <<interval, time, told, thread, store, age, cycle>>

Older == MaxAge + 1

Init ==
  /\ interval \in Intervals
  /\ closed = 1 /\ phase = 0 /\ clock = 1 /\ told = 0
  /\ thread = None
  /\ history = << >> /\ current = None /\ gaps = 0
  /\ age = Older
  /\ loop = "idle" /\ taken = None /\ flight = 0 /\ seen = << >>

-----------------------------------------------------------------------------
(* CandleStore.                                                            *)

LastOpen == IF history = << >> THEN None ELSE Last(history).open

Recent(s, n) == SubSeq(s, Max({1, Len(s) - n + 1}), Len(s))

\* Opening times that a sequence skips: what _count_gaps counts.
Holes(s) == IF s = << >> THEN 0 ELSE Last(s).open - Head(s).open + 1 - Len(s)

\* Mutant: a row is confirmed if it was when the exchange took it.
Bug_Confirmed(open) == open < taken

\* BybitExchangeGateway.get_kline: by the engine's clock at the answer.
Confirmed(open) == open < clock

Rows == [i \in 1..Min({Limit, taken + 1}) |-> taken + i - Min({Limit, taken + 1})]

\* The confirmed rows: the clock is at most one candle behind the snapshot's.
Answer ==
  LET rows == IF Confirmed(taken) THEN Rows
              ELSE IF Confirmed(taken - 1) THEN Front(Rows) ELSE Front(Front(Rows))
  IN  [i \in DOMAIN rows |-> [open |-> rows[i], final |-> rows[i] < taken]]

\* A REST answer replaces the history; a thread that holds the old one keeps it.
Seed ==
  /\ history' = Recent(Answer, MaxHistory)
  /\ gaps' = Holes(Answer)
  /\ current' = IF Confirmed(taken) THEN None ELSE taken
  /\ thread' = IF thread = None THEN None ELSE [thread EXCEPT !.orphan = TRUE]
  /\ age' = 0

\* update takes hold of the history and of its last candle ...
ConfirmationArrives ==
  /\ thread = None /\ told < closed
  /\ thread' = [open |-> told, last |-> LastOpen, orphan |-> FALSE]
  /\ told' = told + 1
  /\ UNCHANGED <<interval, time, store, age, cycle>>

Final(open) == [open |-> open, final |-> TRUE]

\* Mutant: what is older than the last candle is added.
Bug_IsStale == FALSE

IsStale == thread.last # None /\ thread.open < thread.last

Repeats == thread.last # None /\ thread.open = thread.last

\* Mutant: only candles beyond the second are missed.
Bug_Skipped == IF thread.last = None THEN 0 ELSE Max({0, thread.open - thread.last - 2})

Skipped == IF thread.last = None THEN 0 ELSE thread.open - thread.last - 1

\* ... and puts the candle into it, be it still the history of the store or not.
ThreadRepeats ==
  /\ Repeats
  /\ history' = IF thread.orphan THEN history ELSE Front(history) \o <<Final(thread.open)>>
  /\ UNCHANGED <<current, gaps>>

ThreadIgnores == IsStale /\ UNCHANGED store

ThreadAdds ==
  /\ ~Repeats /\ ~IsStale
  /\ history' = IF thread.orphan THEN history
                ELSE Recent(Append(history, Final(thread.open)), MaxHistory)
  /\ gaps' = gaps + Max({0, Skipped})
  /\ current' = IF current # None /\ current <= thread.open THEN None ELSE current

ThreadWrites ==
  /\ thread # None
  /\ ThreadRepeats \/ ThreadIgnores \/ ThreadAdds
  /\ thread' = None
  /\ age' = 0
  /\ UNCHANGED <<interval, time, told, cycle>>

\* A message about the candle in progress, which follows the confirmations before it.
TickArrives ==
  /\ thread = None /\ told = closed
  /\ current' = closed
  /\ age' = 0
  /\ UNCHANGED <<interval, time, told, thread, history, gaps, cycle>>

\* The connection is down or being subscribed anew when a candle closes.
ConfirmationLost ==
  /\ told < closed
  /\ told' = told + 1
  /\ UNCHANGED <<interval, time, thread, store, age, cycle>>

-----------------------------------------------------------------------------
(* _process_symbol and the scanner.                                        *)

GoesTo(where) == loop' = where /\ flight' = 0

Outdated == history = << >> \/ age >= RefreshAge

\* Mutant: gaps are not looked at again.
Bug_Gapped == FALSE

Gapped == interval = "1" /\ gaps > MaxMissing

Due == IF interval = "1" THEN Outdated ELSE history = << >>

Refreshes ==
  /\ loop = "idle" /\ Due
  /\ GoesTo("asks")
  /\ UNCHANGED <<taken, seen>>

\* The second refresh of a cycle, whatever the age.
RefreshesForGaps ==
  /\ loop \in {"idle", "answered"} /\ Gapped
  /\ loop = "idle" => ~Due
  /\ GoesTo("asks")
  /\ UNCHANGED <<taken, seen>>

Copies ==
  /\ loop \in {"idle", "answered"} /\ ~Gapped
  /\ loop = "idle" => ~Due
  /\ GoesTo("holds")
  /\ seen' = history
  /\ UNCHANGED taken

ScannerRefreshes ==
  /\ loop = "idle" /\ interval = "15" /\ Outdated
  /\ GoesTo("asks")
  /\ UNCHANGED <<taken, seen>>

\* DataQualityGuard.check, of which the age and the gaps of the 1 minute series are here.
GoodData == interval = "1" => age <= MaxAge /\ gaps <= MaxMissing

\* evaluate_entry up to the decision, on the copy and with the gaps and the age of now.
Judges ==
  /\ loop = "holds" /\ GoodData
  /\ GoesTo("judged")
  /\ UNCHANGED <<taken, seen>>

CycleEnds ==
  /\ loop \in {"holds", "judged"}
  /\ GoesTo("idle")
  /\ seen' = << >>
  /\ UNCHANGED taken

\* The request does not reach the exchange or its answer is lost: the exception ends the
\* cycle of the symbol.
RequestFails ==
  /\ loop = "taken"
  /\ GoesTo("idle")
  /\ taken' = None
  /\ UNCHANGED seen

SnapshotTaken ==
  /\ loop = "asks"
  /\ loop' = "taken" /\ taken' = closed
  /\ UNCHANGED <<flight, seen>>

\* Of the scanner's answers a cycle takes no notice: it goes on as after its own.
Answered ==
  /\ loop = "taken"
  /\ Seed
  /\ GoesTo("answered")
  /\ taken' = None
  /\ UNCHANGED <<interval, time, told, seen>>

LoopSteps ==
  /\ \/ Refreshes \/ RefreshesForGaps
     \/ Copies \/ ScannerRefreshes
     \/ Judges \/ CycleEnds
     \/ RequestFails \/ SnapshotTaken
  /\ UNCHANGED <<interval, time, told, thread, store, age>>

\* A candle ends by the engine's clock, after or before it does at the exchange.
ClockTurns ==
  /\ \/ clock < closed
     \/ "leads" \in Drifts /\ clock = closed /\ phase = TicksPerCandle - 1 /\ closed < MaxClosed
  /\ clock' = clock + 1
  /\ UNCHANGED <<interval, closed, phase, told, thread, store, age, cycle>>

\* Time passes, within the bounds of an await.  The clocks differ by less than a tick.
Tick ==
  /\ closed < MaxClosed /\ clock >= closed
  /\ loop = "idle" \/ flight < Flight
  /\ flight' = IF loop = "idle" THEN 0 ELSE flight + 1
  /\ phase' = (phase + 1) % TicksPerCandle
  /\ closed' = IF phase' = 0 THEN closed + 1 ELSE closed
  /\ clock' \in {Max({clock, closed'})} \cup (IF "lags" \in Drifts THEN {clock} ELSE {})
  /\ age' = Min({age + 1, Older})
  /\ UNCHANGED <<interval, told, thread, store, loop, taken, seen>>

Next ==
  \/ Tick \/ ClockTurns
  \/ ConfirmationArrives \/ ThreadWrites \/ TickArrives \/ ConfirmationLost
  \/ Answered \/ LoopSteps

Spec == Init /\ [][Next]_vars

\* The loop goes on, threads are scheduled, and an exchange that is asked over and over
\* answers at last.
FairSpec ==
  /\ Spec
  /\ WF_vars(LoopSteps) /\ WF_vars(ThreadWrites)
  /\ SF_vars(Answered)

-----------------------------------------------------------------------------
(* Properties.                                                             *)

Numbers == 0..MaxClosed

TypeOK ==
  /\ interval \in Intervals /\ closed \in Numbers /\ phase \in 0..(TicksPerCandle - 1)
  /\ clock \in Numbers /\ clock \in {closed - 1, closed, closed + 1}
  /\ told \in 0..closed
  /\ thread # None => thread.open \in Numbers /\ thread.last \in Numbers \cup {None}
  /\ \A s \in {history, seen} :
       s \in Seq([open : Numbers, final : BOOLEAN]) /\ Len(s) <= MaxHistory
  /\ current \in Numbers \cup {None} /\ gaps \in Nat /\ age \in 0..Older
  /\ loop \in {"idle", "asks", "taken", "answered", "holds", "judged"}
  /\ taken \in Numbers \cup {None} /\ (taken # None) = (loop = "taken")

\* The history is in the order of time without repetitions, though a late confirmation
\* may meet a newer answer, on whatever history the thread took hold of.
InOrder == \A i, j \in DOMAIN history : i < j => history[i].open < history[j].open

\* Every candle that is missing inside the history is counted, so that none escapes the
\* guard; a race with an answer may count too much, never too little.
HolesCounted == Holes(history) <= gaps

\* An entry is judged on candles of which at most max_missing_candles are missing,
\* though the copy is made before the guard looks at the counter.
JudgedOnWhole == loop = "judged" /\ interval = "1" => Holes(seen) <= MaxMissing

\* The history ends at k or later.
Reaches(k) == history # << >> /\ Last(history).open >= k

\* The last closed candle is not replaced by an older one: an answer that was taken before
\* a close and applied after it does not undo the confirmation in between -- except where
\* the engine's clock has not seen that close, and then by that one candle.
NeverGoesBack ==
  [][\A k \in Numbers :
       Reaches(k) => Reaches(k)' \/ (clock <= k /\ (k > 0 => Reaches(k - 1)'))]_vars

\* A series with too many gaps, which blocks entries, is read again.
GapsRepaired == interval = "1" /\ gaps > MaxMissing ~> gaps <= MaxMissing

-----------------------------------------------------------------------------
(* What the documentation says and the code does not do.                   *)

\* "Keeps a bounded history of confirmed candles plus the single in-progress candle,
\* distinguishes the two" (candle_store.py:3): a row served before a close and read
\* after it counts as confirmed with the values it had before.
ConfirmedIsFinal == \A i \in DOMAIN history : history[i].final

\* "Blocks new entries when market data is stale" (data_quality.py:3): any message makes
\* the series fresh, also a late one, and one that follows confirmations that were lost.
JudgedOnRecent ==
  loop = "judged" /\ interval = "1" => seen # << >> /\ closed - 1 - Last(seen).open <= 2

\* "market WebSocket unavailable; using REST polling" (bot_runtime.py:647): a 5 minute
\* series that is not empty is not polled.
EverySeriesPolled == []<>(closed < MaxClosed \/ (history # << >> /\ Last(history).open = closed - 1))
=============================================================================
