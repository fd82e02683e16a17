--------------------------- MODULE PositionManager ---------------------------
(***************************************************************************)
(* The exit rules of packages/position/position_manager.py: what evaluate  *)
(* decides about one active position of the bot, given a price, the last   *)
(* closed 1m candle and the indicator snapshots.  A rule takes a step      *)
(* record [p, t, acts, done] -- the Position, what the manager tracks of   *)
(* its symbol, the actions so far, whether evaluate has returned -- and    *)
(* returns the next one.                                                   *)
(*                                                                         *)
(* Prices are counted from the entry, in halves of the initial risk, and   *)
(* grow in the position's favour, so both sides are one case and the       *)
(* initial stop is at -2.  ATR is constant.  A snapshot is the set of the  *)
(* facts that the rules test in it, a candle has its best price as well.   *)
(***************************************************************************)
EXTENDS Integers, Sequences, FiniteSets, FiniteSetsExt

CONSTANTS
  PartialR,      \* partial_take_profit_r, in halves of R, as all R below
  TrailR,        \* trailing_start_r
  ExtendedR,     \* trailing_extended_after_r, very_strong_trend_min_r
  Distance,      \* ATR times multiplier, of each kind of trailing stop
  GraceBars,     \* scout_management.grace_bars
  MinHold,       \* min_hold_bars_before_defensive_reduce
  WarnBars,      \* warning_confirm_bars
  MaxDefensive,  \* max_defensive_reductions
  StagnantBars,  \* stagnation_exit, of each entry mode: bars until the exit
  SlowBars,      \* reduce_after_bars, tighten_after_bars, of the modes
  RetestGrace,   \* scenario_invalid_grace_bars
  WeakBars,      \* tighten_on_1m_ema20_break_bars, and on an opposite candle
  ReclaimBars    \* invalidate_on_ema20_reclaim_bars

Modes == {"SCOUT", "BREAKOUT", "RETEST"}
Strengths == {"WEAK", "STRONG", "VERY_STRONG"}

\* What the candle says: closed beyond the breakout level, beyond its 1m EMA20,
\* beyond the middle of the box; a strong opposite candle, a catastrophic one;
\* one that confirms a scout, or that recovers from a warning.
CandleFacts == {"level", "ema", "mid", "opposite", "catastrophic", "confirms", "recovers"}

\* What the snapshots say: the 5m close is beyond its EMA20, the trend holds on
\* 5m and 1m, the RSI is strong for a runner, or weak for a scout.
SnapshotFacts == {"ema5", "holds", "strong", "weak"}

ASSUME RulesAssumption ==
  /\ {PartialR, TrailR, ExtendedR, GraceBars, MinHold, WarnBars, MaxDefensive, RetestGrace} \subseteq Nat
  /\ {WeakBars, ReclaimBars} \subseteq Nat \ {0}
  /\ Distance \in [Strengths \cup {"NORMAL", "EXTENDED"} -> Nat]
  /\ StagnantBars \in [Modes -> Nat]
  /\ SlowBars \in [Modes -> Nat]

\* bars_since_entry tells no two values beyond this one apart.
BarCap == Max({GraceBars, MinHold, RetestGrace + 1}
                \cup {StagnantBars[m] : m \in Modes} \cup {SlowBars[m] : m \in Modes})
            + WarnBars

Capped(n, cap) == IF n < cap THEN n ELSE cap

-----------------------------------------------------------------------------
(* The records.                                                            *)

\* A count of bars: seen says that the current bar has been counted.
NoCount == [n |-> 0, seen |-> FALSE]
Counted(c, cap) == IF c.seen THEN c ELSE [n |-> Capped(c.n + 1, cap), seen |-> TRUE]

\* What PositionManager keeps of a symbol.  reduced, level and scout are keyed
\* by the position as well, the others by the symbol alone.
NoTrack == [maxR |-> 0, stag |-> FALSE, recovery |-> 0, reclaim |-> 0, broken |-> 0,
            weak |-> NoCount, reduced |-> FALSE, level |-> NoCount, scout |-> NoCount]

ForNewPosition(t) == [t EXCEPT !.reduced = FALSE, !.level = NoCount, !.scout = NoCount]

\* Below every price: the position has not seen one yet.
NoPrice == -100

\* A new position with its initial stop; warned is the bar of a warning,
\* old says that max_holding_minutes have passed.
NewPosition(mode) ==
  [status |-> "ACTIVE", mode |-> mode, stop |-> -2, risk |-> 2, old |-> FALSE,
   bars |-> NoCount, best |-> NoPrice, partial |-> FALSE, trailing |-> FALSE,
   runner |-> FALSE, strength |-> "WEAK", red |-> 0, warned |-> 0,
   scout |-> IF mode = "SCOUT" THEN "PENDING" ELSE "NONE"]

Act(kind, reason) == [kind |-> kind, reason |-> reason, stop |-> 0]
Trail(stop) == [kind |-> "TRAIL_UPDATE", reason |-> "NONE", stop |-> stop]

Does(s, a) == [s EXCEPT !.acts = Append(@, a)]
Returns(s, a) == [s EXCEPT !.acts = Append(@, a), !.done = TRUE]
Holds(s) == [s EXCEPT !.done = TRUE]

\* A rule is applied unless an earlier one has returned.
Unless(s, Rule(_)) == IF s.done THEN s ELSE Rule(s)

\* Mutant: the position is CLOSING, but its order is left out.
Bug_Exits(s, reason) == Holds([s EXCEPT !.p.status = "CLOSING"])

\* _exit: the position is CLOSING before its order is sent.
Exits(s, reason) == Returns([s EXCEPT !.p.status = "CLOSING"], Act("EXIT", reason))

-----------------------------------------------------------------------------
(* R multiples and stops.                                                  *)

\* r_multiple, rounded down to halves; the tests of r against one compare alike.
HalfR(p, price) == IF p.risk <= 0 THEN 0 ELSE (2 * price) \div p.risk

\* _trail_stop, from the best price the position has seen.
TrailStop(p, maxR) ==
  p.best - Distance[IF p.runner THEN p.strength
                    ELSE IF maxR >= ExtendedR THEN "EXTENDED" ELSE "NORMAL"]

\* Mutant: the dynamic stop is taken as it is.
Bug_Ratchet(p, stop) == IF stop # p.stop THEN {stop} ELSE {}

\* _ratchet: the stop moves in the favourable direction only.
Ratchet(p, stop) == IF stop > p.stop THEN {stop} ELSE {}

\* The ratchet of evaluate and of the activation.  allowed: the interval and the
\* improvement that a runner's update must keep.
Ratcheted(s, allowed) ==
  LET new == Ratchet(s.p, TrailStop(s.p, s.t.maxR))
  IN  IF new = {} \/ (s.p.runner /\ ~allowed) THEN s
      ELSE LET stop == CHOOSE x \in new : TRUE
           IN  Does([s EXCEPT !.p.stop = stop], Trail(stop))
-----------------------------------------------------------------------------
(* Runner mode.                                                            *)

\* _runner_trend_strength with _runner_weakening_reason; counts the breaks of the
\* 1m EMA20, one per evaluation.
RunnerTrend(s, candle, snap) ==
  LET broken == IF "ema5" \in snap THEN s.t.broken
                ELSE IF "ema" \in candle.facts THEN Capped(s.t.broken + 1, WeakBars) ELSE 0
      strength == CASE "ema5" \in snap \/ "opposite" \in candle.facts -> "WEAK"
                    [] "ema" \in candle.facts /\ broken = WeakBars -> "WEAK"
                    [] ~("holds" \in snap /\ s.t.maxR >= TrailR) -> "WEAK"
                    [] "strong" \in snap /\ s.t.maxR >= ExtendedR -> "VERY_STRONG"
                    [] OTHER -> "STRONG"
  IN  [step |-> [s EXCEPT !.t.broken = broken], strength |-> strength]

\* _runner_state_actions: a downgrade to WEAK waits for WeakBars bars, unless the 5m
\* EMA20 is broken.
RunnerRule(s, candle, snap) ==
  LET trend == RunnerTrend(s, candle, snap)
      weak == Counted(s.t.weak, WeakBars)
      downgrade == s.p.strength # "WEAK" /\ trend.strength = "WEAK"
      waits == downgrade /\ "ema5" \notin snap /\ WeakBars > 1
  IN  IF ~s.p.runner THEN s
      ELSE IF waits /\ weak.n < WeakBars THEN [trend.step EXCEPT !.t.weak = weak]
      ELSE [trend.step EXCEPT !.p.strength = trend.strength,
                              !.t.weak = IF downgrade \/ trend.strength # "WEAK"
                                         THEN NoCount ELSE @]

\* activate_runner_after_partial_tp.
Activated(s, price, candle, snap, allowed) ==
  LET best == [s EXCEPT !.p.best = Max({@, candle.high})]
      maxR == Max({s.t.maxR, HalfR(s.p, price)})
      trend == RunnerTrend([best EXCEPT !.t.maxR = maxR], candle, snap)
  IN  IF ~s.p.partial \/ s.p.runner \/ maxR < TrailR THEN best
      ELSE LET on == [trend.step EXCEPT !.p.runner = TRUE, !.p.strength = trend.strength]
           IN  [Ratcheted(on, allowed) EXCEPT !.t.maxR = s.t.maxR]

-----------------------------------------------------------------------------
(* Stagnation.                                                             *)

\* _stagnation_action, without the events that only announce a delay.
StagnationRule(s) ==
  LET m == s.p.mode
      below(r) == s.t.maxR < r
      slow == s.p.bars.n >= SlowBars[m] /\ below(1)
  IN  CASE s.p.bars.n >= StagnantBars[m] /\ below(IF m = "SCOUT" THEN 1 ELSE 2) ->
             Exits(s, "STAGNATION")
        [] m = "BREAKOUT" /\ slow /\ ~s.t.stag ->
             Returns([s EXCEPT !.t.stag = TRUE], Act("REDUCE", "STAGNATION"))
        [] m = "RETEST" /\ slow -> Returns(s, Trail(-((-s.p.stop) \div 2)))
        [] OTHER -> s

-----------------------------------------------------------------------------
(* Scouts.                                                                 *)

\* Mutant: a reduction is not counted.
Bug_ScoutReduces(s, reason) ==
  Returns([s EXCEPT !.p.warned = 0, !.p.scout = "PENDING"], Act("REDUCE", reason))

\* _scout_reduce_action.
ScoutReduces(s, reason) ==
  Returns([s EXCEPT !.p.red = @ + 1, !.p.warned = 0, !.p.scout = "PENDING"],
          Act("REDUCE", reason))

\* _scout_weakness_reason: a fact of this bar, or enough evaluations in a row with
\* the close beyond the 1m EMA20.
ScoutWeakness(s, candle, snap) ==
  LET counts == "mid" \notin candle.facts
      reclaim == IF counts
                 THEN IF "ema" \in candle.facts THEN Capped(s.t.reclaim + 1, ReclaimBars) ELSE 0
                 ELSE s.t.reclaim
      weak == \/ "mid" \in candle.facts \/ "weak" \in snap \/ "opposite" \in candle.facts
              \/ "ema" \in candle.facts /\ reclaim = ReclaimBars
  IN  [step |-> [s EXCEPT !.t.reclaim = reclaim], weak |-> weak]

\* The part of _scout_management_action that follows a warning, if there is one.
ScoutPending(s, candle, snap) ==
  LET mayReduce == s.p.red < MaxDefensive
      look == IF s.p.bars.n < GraceBars THEN [step |-> s, weak |-> FALSE]
              ELSE ScoutWeakness(s, candle, snap)
      stale == StagnationRule(look.step)
  IN  IF "opposite" \in candle.facts /\ mayReduce
      THEN Holds([s EXCEPT !.p.scout = "WARNING", !.p.warned = s.p.bars.n])
      ELSE IF look.weak /\ mayReduce THEN ScoutReduces(look.step, "SCOUT_DEFENSIVE")
      ELSE Holds(stale)

\* A scout in WARNING.
ScoutWarning(s, candle, snap) ==
  LET over == [s EXCEPT !.p.warned = 0, !.p.scout = "PENDING"]
  IN  IF "recovers" \in candle.facts THEN Holds(over)
      ELSE IF s.p.bars.n - s.p.warned < WarnBars \/ s.p.bars.n < MinHold THEN Holds(s)
      ELSE IF s.p.red < MaxDefensive THEN ScoutReduces(s, "SCOUT_DEFENSIVE")
      ELSE ScoutPending(over, candle, snap)

\* _scout_management_action: a scout that is not confirmed is managed by no other rule.
ScoutRule(s, candle, snap) ==
  IF s.p.scout \in {"NONE", "ACTIVE_TREND"} THEN s
  ELSE IF "confirms" \in candle.facts
  THEN [s EXCEPT !.p.scout = "ACTIVE_TREND", !.p.warned = 0]
  ELSE IF "catastrophic" \in candle.facts /\ s.p.red < MaxDefensive
  THEN ScoutReduces(s, "SCOUT_CATASTROPHIC")
  ELSE IF s.p.scout = "WARNING" THEN ScoutWarning(s, candle, snap)
  ELSE ScoutPending(s, candle, snap)

-----------------------------------------------------------------------------
(* Scenario invalidation.                                                  *)

\* _scenario_invalid with _break_level_invalid: the second bar in a row that closes
\* beyond the breakout level.  The level is looked at only if the 5m EMA20 holds.
Invalid(s, candle, snap, counterCandle) ==
  LET level == IF "ema5" \in snap THEN s.t.level
               ELSE IF "level" \in candle.facts THEN Counted(s.t.level, 2) ELSE NoCount
  IN  [step |-> [s EXCEPT !.t.level = level],
       is |-> \/ "ema5" \in snap
              \/ "level" \in candle.facts /\ level.n = 2
              \/ counterCandle /\ "opposite" \in candle.facts]

\* _scout_scenario_invalid_confirmed: a scout's scenario fails on two bars.
Confirmed(s, candle) ==
  LET scout == Counted(s.t.scout, 2)
      byLevel == "level" \in candle.facts /\ s.t.level.n = 2
  IN  [step |-> [s EXCEPT !.t.scout = IF s.p.mode # "SCOUT" THEN @
                                      ELSE IF byLevel THEN NoCount ELSE scout],
       is |-> s.p.mode # "SCOUT" \/ byLevel \/ scout.n = 2]

\* Mutant: the reduction is not remembered.
Bug_ScenarioReduces(s) ==
  Returns([s EXCEPT !.t.recovery = 3], Act("REDUCE", "SCENARIO_INVALID"))

\* Half of the position goes, and a window of three evaluations opens.
ScenarioReduces(s) ==
  Returns([s EXCEPT !.t.recovery = 3, !.t.reduced = TRUE], Act("REDUCE", "SCENARIO_INVALID"))

\* _scenario_action, once the scenario is invalid.
ScenarioInvalid(s, price, candle, snap) ==
  LET hard == "ema5" \in snap \/ "opposite" \in candle.facts
      retest == s.p.mode = "RETEST"
      mild == retest /\ 2 * price > -s.p.risk /\ ~hard
      sure == Confirmed(s, candle)
  IN  IF s.t.reduced
      THEN [s EXCEPT !.t.recovery = IF HalfR(s.p, price) < 1 THEN 3 ELSE @]
      ELSE IF retest /\ RetestGrace > 0 /\ s.p.bars.n <= RetestGrace THEN Holds(s)
      ELSE IF mild THEN IF s.p.bars.n < SlowBars["RETEST"] THEN Holds(s) ELSE s
      ELSE IF ~sure.is THEN Holds(sure.step)
      ELSE ScenarioReduces(sure.step)

\* _scenario_action, in the window of recovery and outside.
ScenarioRule(s, price, candle, snap) ==
  LET left == s.t.recovery - 1
      look == Invalid(s, candle, snap, TRUE)
  IN  IF s.t.recovery > 0
      THEN IF HalfR(s.p, price) >= 1 THEN [s EXCEPT !.t.recovery = 0]
           ELSE IF left = 0 THEN Exits([s EXCEPT !.t.recovery = 0], "SCENARIO_INVALID")
           ELSE [s EXCEPT !.t.recovery = left]
      ELSE IF look.is THEN ScenarioInvalid(look.step, price, candle, snap)
      ELSE [look.step EXCEPT !.t.scout = IF s.p.mode = "SCOUT" THEN NoCount ELSE @]

\* A runner leaves as soon as its scenario is invalid; a counter candle is no reason.
RunnerScenarioRule(s, candle, snap) ==
  LET look == Invalid(s, candle, snap, FALSE)
  IN  IF look.is THEN Exits(look.step, "RUNNER_SCENARIO_INVALID") ELSE look.step

-----------------------------------------------------------------------------
(* Profit.                                                                 *)

\* The partial take profit, marked as done before its order is sent.
PartialRule(s, price) ==
  IF s.p.partial \/ HalfR(s.p, price) < PartialR THEN s
  ELSE Returns([s EXCEPT !.p.partial = TRUE], Act("PARTIAL_TP", "PARTIAL_TAKE_PROFIT"))

\* The trailing stop is breached: the tighter of the two stops counts.
BreachRule(s, price) ==
  LET on == [s EXCEPT !.p.trailing = TRUE]
  IN  IF s.t.maxR < TrailR THEN s
      ELSE IF price <= Max({s.p.stop, TrailStop(s.p, s.t.maxR)})
      THEN Exits(on, IF s.p.runner THEN "RUNNER_TRAILING_STOP" ELSE "TRAILING_STOP")
      ELSE on

-----------------------------------------------------------------------------
(* evaluate.                                                               *)

\* The bar is counted once; the best price is the candle's, the best R the price's.
Observed(p, t, price, candle) ==
  LET q == [p EXCEPT !.bars = Counted(@, BarCap), !.best = Max({@, candle.high})]
  IN  [p |-> q, t |-> [t EXCEPT !.maxR = Max({@, HalfR(p, price)})],
       acts |-> << >>, done |-> FALSE]

HoldingRule(s) == IF s.p.old THEN Exits(s, "MAX_HOLDING_TIME") ELSE s

\* The holding time and the rules of a scout come first.
EarlyRules(s, candle, snap) ==
  LET scout(r) == ScoutRule(r, candle, snap)
  IN  Unless(Unless(s, HoldingRule), scout)

\* Profit is taken before the trailing stop is tried.
ProfitRules(s, price, candle, snap) ==
  LET runner(r) == RunnerRule(r, candle, snap)
      partial(r) == PartialRule(r, price)
      breach(r) == BreachRule(r, price)
  IN  Unless(Unless(Unless(s, runner), partial), breach)

\* A position that has not left yet: its scenario, its patience, its stop.
LateRules(s, price, candle, snap, allowed) ==
  LET scenario(r) == IF r.p.runner THEN RunnerScenarioRule(r, candle, snap)
                     ELSE ScenarioRule(r, price, candle, snap)
      stagnation(r) == IF r.p.runner THEN r ELSE StagnationRule(r)
      ratchet(r) == IF r.p.trailing THEN Ratcheted(r, allowed) ELSE r
  IN  Unless(Unless(Unless(s, scenario), stagnation), ratchet)

\* PositionManager.evaluate: the rules in the order of the code.
Evaluation(p, t, price, candle, snap, allowed) ==
  LET early == EarlyRules(Observed(p, t, price, candle), candle, snap)
      profit == ProfitRules(early, price, candle, snap)
  IN  LateRules(profit, price, candle, snap, allowed)
=============================================================================
