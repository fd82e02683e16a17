------------------------------ MODULE EntryTiming ------------------------------
(***************************************************************************)
(* EntryTimingEngine.evaluate with RetestManager, for one symbol: what the *)
(* engine remembers from one evaluation to the next.  The trading loop     *)
(* evaluates in every cycle of a few seconds, many times on one closed     *)
(* candle, or not at all while a gate of the service blocks the symbol.    *)
(***************************************************************************)
EXTENDS EntryRules

CONSTANTS
  Bars,           \* closed candles with the indicators at their close
  Trends,         \* the 15 minute gap and slope, which may change within a candle
  Modes,          \* entry.enabled_modes
  RequireHold,    \* breakout_confirm.require_next_candle_hold
  MaxWait,        \* retest_confirm.max_wait_candles
  Lookback,       \* candles that make the box
  HistoryLength,  \* bound: candles the store keeps
  MaxAge          \* bound: ages beyond it are not told apart

ASSUME TimingAssumption ==
  /\ Modes \subseteq {"BREAKOUT", "RETEST", "SCOUT"} /\ RequireHold \in BOOLEAN
  /\ {MaxWait, Lookback, HistoryLength, MaxAge} \subseteq Nat \ {0} /\ HistoryLength > Lookback

VARIABLES
  bars,       \* confirmed 1m candles, oldest first
  pending,    \* _pending_breakouts[symbol]; its age is the candles closed since
  retest,     \* RetestManager._pending[symbol]
  decision,   \* what the last evaluation returned
  made,       \* history: breakouts and retests decided on the last candle, up to two
  breaks      \* history: the healthy closes beyond the box that evaluations have seen, on this
              \* candle ("now") or "earlier", since one of them last faced the other direction
              \* or the engine was rebuilt

vars == <<bars, pending, retest, decision, made, breaks>>

NoPending == [dir |-> "NONE"]
NoRetest == [dir |-> "NONE"]
NoDecision == [mode |-> "NONE"]
NothingMade == [m \in {"BREAKOUT", "RETEST"} |-> 0]

Candles == [i \in DOMAIN bars |-> bars[i].candle]

\* _entry_box_levels: of the candles before the last one.
Box == ToSet(Recent(Front(Candles), Lookback))

\* EntryContext, with a trend candidate of the 15 minute candles.
Context(trend) ==
  [candles |-> Candles, high |-> Max({c.high : c \in Box}), low |-> Min({c.low : c \in Box}),
   rsi |-> Last(bars).rsi, ema |-> Last(bars).ema, atr |-> Last(bars).atr,
   volume |-> Last(bars).volume, atrPercent |-> Last(bars).atrPercent,
   gap |-> trend.gap, slope |-> trend.slope]

Faced(dir, trend) == Facing(Context(trend), dir)

-----------------------------------------------------------------------------
(* RetestManager.                                                          *)

\* Levels are kept as the direction faces them; the age is not in the code.
Registered(dir, level) == [dir |-> dir, level |-> level, waited |-> 0, fails |-> 0, age |-> 0]

\* on_new_bar, which runs once in an evaluation.
Advanced ==
  IF retest = NoRetest THEN NoRetest
  ELSE LET close == Facing(Context(CHOOSE t \in Trends : TRUE), retest.dir).candles[Len(bars)].close
           counted == [retest EXCEPT !.waited = @ + 1,
                                     !.fails = IF close < retest.level THEN @ + 1 ELSE 0]
       IN  IF counted.waited > MaxWait \/ counted.fails >= 2 THEN NoRetest ELSE counted

-----------------------------------------------------------------------------
(* The evaluation.                                                         *)

Decides(d) ==
  /\ decision' = d
  /\ made' = IF d.mode \in DOMAIN made THEN [made EXCEPT ![d.mode] = Min({@ + 1, 2})] ELSE made

Forgets == pending' = NoPending

\* A breakout of another direction is forgotten, whatever else the evaluation finds.
Kept(dir) == IF "BREAKOUT" \in Modes /\ pending.dir = dir THEN pending ELSE NoPending

Remembers(dir, level) ==
  retest' = IF "RETEST" \in Modes THEN Registered(dir, level) ELSE Advanced

\* The candle is the one that broke out.
Waits(dir) ==
  /\ Kept(dir) # NoPending /\ pending.age = 0
  /\ retest' = Advanced
  /\ Decides(NoDecision)
  /\ UNCHANGED <<bars, pending>>

Holds(dir, x) ==
  /\ Kept(dir) # NoPending /\ pending.age > 0
  /\ HoldConfirmed(x, pending.level, Cfg[dir])
  /\ Forgets
  /\ retest' = Advanced
  /\ Decides(BreakoutDecision(dir, Cfg[dir]))
  /\ UNCHANGED bars

HoldFails(dir, x) ==
  /\ Kept(dir) # NoPending /\ pending.age > 0
  /\ ~HoldConfirmed(x, pending.level, Cfg[dir])
  /\ Forgets
  /\ Remembers(dir, pending.level)
  /\ Decides(NoDecision)
  /\ UNCHANGED bars

BreaksOut(dir, x) ==
  /\ Kept(dir) = NoPending /\ BrokeOut(x, Cfg[dir])
  /\ "BREAKOUT" \in Modes /\ Healthy(x, Cfg[dir])
  /\ retest' = Advanced
  /\ IF RequireHold
     THEN /\ pending' = [dir |-> dir, level |-> x.box, age |-> 0]
          /\ Decides(NoDecision)
     ELSE Forgets /\ Decides(BreakoutDecision(dir, Cfg[dir]))
  /\ UNCHANGED bars

BreaksOutUnhealthy(dir, x) ==
  /\ Kept(dir) = NoPending /\ BrokeOut(x, Cfg[dir])
  /\ ~("BREAKOUT" \in Modes /\ Healthy(x, Cfg[dir]))
  /\ Forgets
  /\ Remembers(dir, x.box)
  /\ Decides(NoDecision)
  /\ UNCHANGED bars

Inside(dir, x) == Kept(dir) = NoPending /\ ~BrokeOut(x, Cfg[dir])

Returns(dir, x) ==
  "RETEST" \in Modes /\ Advanced.dir = dir /\ RetestConfirmed(x, Advanced.level, Cfg[dir])

\* Mutant: a retest that was confirmed stays registered.
Bug_Retests(dir, x) ==
  /\ Inside(dir, x) /\ Returns(dir, x)
  /\ Forgets
  /\ retest' = Advanced
  /\ Decides(RetestDecision(x, dir, Cfg[dir]))
  /\ UNCHANGED bars

Retests(dir, x) ==
  /\ Inside(dir, x) /\ Returns(dir, x)
  /\ Forgets
  /\ retest' = NoRetest
  /\ Decides(RetestDecision(x, dir, Cfg[dir]))
  /\ UNCHANGED bars

\* Mutant: the breakout of the other direction is passed over, not forgotten.
Bug_Scouts(dir, x) ==
  /\ Inside(dir, x) /\ ~Returns(dir, x)
  /\ retest' = Advanced
  /\ Decides(IF "SCOUT" \in Modes /\ ScoutAllowed(x, Cfg[dir])
             THEN ScoutDecision(x, dir, Cfg[dir]) ELSE NoDecision)
  /\ UNCHANGED <<bars, pending>>

Scouts(dir, x) ==
  /\ Inside(dir, x) /\ ~Returns(dir, x)
  /\ Forgets
  /\ retest' = Advanced
  /\ Decides(IF "SCOUT" \in Modes /\ ScoutAllowed(x, Cfg[dir])
             THEN ScoutDecision(x, dir, Cfg[dir]) ELSE NoDecision)
  /\ UNCHANGED bars

\* The history: a healthy close beyond the box is one, whatever the engine makes of it.
Observes(dir, x) ==
  breaks' = {b \in breaks : b.dir = dir}
            \cup (IF BrokeOut(x, Cfg[dir]) /\ Healthy(x, Cfg[dir])
                  THEN {[dir |-> dir, seen |-> "now"]} ELSE {})

Evaluate(dir, trend) ==
  /\ Len(bars) > 1 /\ Valid(Last(bars).candle)
  /\ LET x == Faced(dir, trend)
     IN  /\ \/ Waits(dir) \/ Holds(dir, x) \/ HoldFails(dir, x)
            \/ BreaksOut(dir, x) \/ BreaksOutUnhealthy(dir, x)
            \/ Retests(dir, x) \/ Scouts(dir, x)
         /\ Observes(dir, x)

-----------------------------------------------------------------------------
(* What goes on between evaluations.                                       *)

\* TradingService.evaluate_entry: a breakout's order does not fill.
OrderUnfilled(trend) ==
  /\ decision.mode = "BREAKOUT"
  /\ retest' = Registered(decision.dir, Faced(decision.dir, trend).box)
  /\ decision' = NoDecision
  /\ UNCHANGED <<bars, pending, made, breaks>>

Older(p) == IF p.dir = "NONE" THEN p ELSE [p EXCEPT !.age = Min({@ + 1, MaxAge})]

CandleCloses(bar) ==
  /\ bars' = Recent(Append(bars, bar), HistoryLength)
  /\ pending' = Older(pending)
  /\ retest' = Older(retest)
  /\ decision' = NoDecision
  /\ made' = NothingMade
  /\ breaks' = {[b EXCEPT !.seen = "earlier"] : b \in breaks}

\* RELOAD_CONFIG builds a new engine.
Reload ==
  /\ pending' = NoPending
  /\ retest' = NoRetest
  /\ decision' = NoDecision
  /\ breaks' = {}
  /\ UNCHANGED <<bars, made>>

Init ==
  /\ bars \in {<<b>> : b \in Bars}
  /\ pending = NoPending
  /\ retest = NoRetest
  /\ decision = NoDecision
  /\ made = NothingMade
  /\ breaks = {}

Next ==
  \/ \E dir \in Directions, trend \in Trends : Evaluate(dir, trend)
  \/ \E trend \in Trends : OrderUnfilled(trend)
  \/ \E bar \in Bars : CandleCloses(bar)
  \/ Reload

Spec == Init /\ [][Next]_vars

-----------------------------------------------------------------------------
(* Properties.                                                             *)

TypeOK ==
  /\ bars \in BoundedSeq(Bars, HistoryLength) /\ bars # << >>
  /\ pending.dir \in Directions \cup {"NONE"}
  /\ pending # NoPending => "BREAKOUT" \in Modes /\ RequireHold /\ pending.age \in 0..MaxAge
  /\ retest.dir \in Directions \cup {"NONE"}
  /\ retest # NoRetest => retest.waited \in 0..MaxWait /\ retest.fails \in 0..1
  /\ decision = NoDecision \/ decision.mode \in Modes \cup {"BREAKOUT"}
  /\ breaks \subseteq [dir : Directions, seen : {"now", "earlier"}]

\* However often a candle is evaluated, whatever direction the other timeframes suggest
\* meanwhile and whether or not the order of a breakout fills, a candle yields at most
\* one breakout and one retest.
OncePerCandle == made["BREAKOUT"] <= 1 /\ made["RETEST"] <= 1

Enters(mode) == decision'.mode = mode /\ made'[mode] > made[mode]

\* A breakout that is entered has been announced by an earlier candle of the stream, which
\* closed healthily beyond its box in that direction, and no evaluation since then faced
\* the other direction: nothing stale is held, whatever became of the candles in between.
BreakoutNeverStale ==
  [][Enters("BREAKOUT") => [dir |-> decision'.dir, seen |-> "earlier"] \in breaks]_vars

\* A structure stop is on the losing side of the last close, so that RiskManager's
\* farthest stop is a distance that can be lost.
StructureStopLoses ==
  decision.mode \in {"RETEST", "SCOUT"} /\ decision.structure # None
    => decision.structure < LastOf(Faced(decision.dir, CHOOSE t \in Trends : TRUE)).close * 100

-----------------------------------------------------------------------------
(* What the documentation says and the code does not do.                   *)

\* "A pending retest expires after max_wait_candles candles, or when two candles in a
\* row close on the other side" (strategy flow document, 6.3).  Evaluations are
\* counted: a retest expires after a few cycles on one candle.
RetestWaitsForCandles ==
  [][retest # NoRetest /\ retest' = NoRetest /\ decision'.mode # "RETEST" => retest.age >= 2]_vars

\* "The next candle holds": after a pause the next candle is any later one.
NextCandleHolds == [][Enters("BREAKOUT") => pending.age = 1]_vars
=============================================================================
