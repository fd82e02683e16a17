------------------------------ MODULE EntryRules ------------------------------
(***************************************************************************)
(* What EntryTimingEngine looks for in closed candles: a healthy breakout, *)
(* its hold, a retest, a scout, and the stops of their decisions.          *)
(*                                                                         *)
(* The rules are written for a LONG.  Those for a SHORT are the same ones  *)
(* in a mirror: prices, RSI, gap and slope change their sign, high and low *)
(* change places, and the thresholds, which are configured for each side,  *)
(* are given as the mirror shows them (Cfg[dir]).                          *)
(*                                                                         *)
(* Prices are in ticks, ratios in percent, multiples of ATR in hundredths. *)
(***************************************************************************)
EXTENDS Integers, Sequences, SequencesExt, FiniteSetsExt

CONSTANTS
  None,   \* an indicator that is not there
  Cfg     \* [LONG, SHORT -> the sections entry, candle_quality, volume, structure_stop]

Directions == {"LONG", "SHORT"}

ASSUME RulesAssumption ==
  \A d \in Directions :
    /\ {Cfg[d].margin, Cfg[d].minVolume, Cfg[d].maxVolume, Cfg[d].minBody, Cfg[d].maxWick,
        Cfg[d].maxDistance, Cfg[d].maxRun, Cfg[d].maxSingle, Cfg[d].exhaustion,
        Cfg[d].tolerance, Cfg[d].boxDistance, Cfg[d].buffer} \subseteq Nat
    /\ {Cfg[d].fast, Cfg[d].slow} \subseteq Nat \ {0}

\* _WICK_THRESHOLD
WickThreshold == 30

-----------------------------------------------------------------------------
(* The mirror.                                                             *)

Mirrored(c) == [open |-> -c.open, high |-> -c.low, low |-> -c.high, close |-> -c.close]

Minus(n) == IF n = None THEN None ELSE -n

\* What the engine sees: candles, box and indicators, as the direction faces them; the
\* RSI of a SHORT is 100 - rsi.
Facing(ctx, dir) ==
  IF dir = "LONG"
  THEN [candles |-> ctx.candles, box |-> ctx.high, rsi |-> ctx.rsi, ema |-> ctx.ema, atr |-> ctx.atr,
        volume |-> ctx.volume, gap |-> ctx.gap, slope |-> ctx.slope, atrPercent |-> ctx.atrPercent]
  ELSE [candles |-> [i \in DOMAIN ctx.candles |-> Mirrored(ctx.candles[i])], box |-> -ctx.low,
        rsi |-> IF ctx.rsi = None THEN None ELSE 100 - ctx.rsi, ema |-> Minus(ctx.ema),
        atr |-> ctx.atr, volume |-> ctx.volume, gap |-> Minus(ctx.gap), slope |-> Minus(ctx.slope),
        atrPercent |-> ctx.atrPercent]

-----------------------------------------------------------------------------
(* Candles.                                                                *)

Span(c) == c.high - c.low
Body(c) == IF c.close >= c.open THEN c.close - c.open ELSE c.open - c.close
UpperWick(c) == c.high - Max({c.open, c.close})
LowerWick(c) == Min({c.open, c.close}) - c.low
Valid(c) == Span(c) > 0

\* The last n of a sequence, or all of it.
Recent(s, n) == SubSeq(s, Max({1, Len(s) - n + 1}), Len(s))

LastOf(x) == Last(x.candles)

\* close_position_in_range is below the least that is configured.
WeakClose(x, k) == (LastOf(x).close - LastOf(x).low) * 100 < k.minClose * Span(LastOf(x))

CumulativeMove(candles, n) == Last(candles).close - candles[Len(candles) - n + 1].open

TrueRange(prev, cur) ==
  Max({cur.high - cur.low, cur.high - prev.close, prev.close - cur.high,
       cur.low - prev.close, prev.close - cur.low})

\* window times avg_true_range; there are window + 1 candles.
SumTrueRange(candles, window) ==
  LET last == Recent(candles, window + 1)
  IN  FoldLeft(LAMBDA a, b : a + b, 0, [i \in 1..window |-> TrueRange(last[i], last[i + 1])])

RisingLows(candles) ==
  LET last == Recent(candles, 4)
  IN  Cardinality({i \in 1..(Len(last) - 1) : last[i + 1].low > last[i].low})

-----------------------------------------------------------------------------
(* AntiChase.block_long.                                                   *)

Chases(x, k) ==
  /\ k.antiChase
  /\ \/ None \in {x.rsi, x.ema, x.volume}
     \/ x.rsi >= k.maxRsi
     \/ LastOf(x).close * 100 >= x.ema * 100 + k.maxDistance * x.atr
     \/ Len(x.candles) >= 3 /\ CumulativeMove(x.candles, 3) * 100 >= k.maxRun * x.atr
     \/ (LastOf(x).close - LastOf(x).open) * 100 >= k.maxSingle * x.atr
     \/ x.volume >= k.exhaustion /\ UpperWick(LastOf(x)) * 100 >= WickThreshold * Span(LastOf(x))
     \/ WeakClose(x, k)

-----------------------------------------------------------------------------
(* Breakouts.                                                              *)

Beyond(x, level, k) == LastOf(x).close * 100 > level * 100 + k.margin * x.atr

BrokeOut(x, k) == Beyond(x, x.box, k)

\* _breakout_quality_reason is None.
Healthy(x, k) ==
  /\ x.volume # None /\ x.volume >= k.minVolume /\ x.volume < k.maxVolume
  /\ Body(LastOf(x)) * 100 >= k.minBody * Span(LastOf(x))
  /\ UpperWick(LastOf(x)) * 100 <= k.maxWick * Span(LastOf(x))
  /\ ~WeakClose(x, k)
  /\ ~Chases(x, k)

HoldConfirmed(x, level, k) == Beyond(x, level, k) /\ Healthy(x, k)

-----------------------------------------------------------------------------
(* Retests.                                                                *)

\* RetestManager.confirm.
Near(price, level, x, k) == Max({price - level, level - price}) * 100 <= k.tolerance * x.atr

RetestConfirmed(x, level, k) ==
  LET c == LastOf(x)
  IN  /\ Near(c.low, level, x, k) \/ Near(c.close, level, x, k)
      /\ c.close >= level
      /\ LowerWick(c) * 100 >= WickThreshold * Span(c) \/ c.close > c.open

-----------------------------------------------------------------------------
(* Scouts.                                                                 *)

\* _scout_compression: the true range of late is small against that of the past.
Compressed(x, k) ==
  /\ Len(x.candles) > Max({k.fast, k.slow}) /\ SumTrueRange(x.candles, k.slow) > 0
  /\ SumTrueRange(x.candles, k.fast) * k.slow * 100
       <= k.compressionRatio * SumTrueRange(x.candles, k.slow) * k.fast

\* A grade of two, one or none points.
Grade(two, one) == IF two THEN 2 ELSE IF one THEN 1 ELSE 0

ScoutScore(x, k) ==
  LET distance == (x.box - LastOf(x).close) * 100
      points == Grade(x.gap # None /\ x.gap >= k.highGap, x.gap # None)
        + Grade(x.slope # None /\ x.slope >= k.highSlope, x.slope # None)
        + (IF x.rsi # None /\ x.rsi \in k.rsiCentre THEN 1 ELSE 0)
        + Grade(distance <= k.nearBox * x.atr, distance <= k.midBox * x.atr)
        + (IF Compressed(x, k) THEN k.compressionBonus ELSE 0)
        + Grade(x.volume # None /\ x.volume >= k.highVolume, x.volume # None)
  IN  Min({points, 10})

\* The parameters of a scout with and without compression.
ScoutTerms(x, k) == IF Compressed(x, k) THEN k.compressed ELSE k.plain

\* A scout without compression does not follow a strong candle that has no volume.
ScoutChases(x, k) ==
  LET c == LastOf(x)
  IN  /\ ~Compressed(x, k)
      /\ Body(c) * 100 >= k.chaseBody * Span(c) /\ x.volume < k.chaseVolume
      /\ (c.close - c.low) * 100 >= k.chaseClose * Span(c)

\* _scout_condition_reasons is empty.
ScoutConditions(x, k) ==
  LET distance == x.box - LastOf(x).close
  IN  /\ x.rsi # None /\ x.volume # None
      /\ k.requireCompression => Compressed(x, k)
      /\ distance >= 0 /\ distance * 100 <= k.boxDistance * x.atr
      /\ x.volume >= k.scoutVolume /\ x.volume < k.maxVolume
      /\ ~ScoutChases(x, k)
      /\ RisingLows(x.candles) >= 2
      /\ x.rsi \in k.scoutRsi
      /\ ~Chases(x, k)

ScoutAllowed(x, k) == ScoutConditions(x, k) /\ ScoutScore(x, k) >= ScoutTerms(x, k).minScore

-----------------------------------------------------------------------------
(* The stops of a decision.                                                *)

\* _resolve_stop_atr_with_tier: tiers are pairs of the greatest ATR, in hundredths of a
\* percent of the price, and the multiple of ATR; others than positive ones are left out.
StopAtr(atrPercent, default, tiers) ==
  LET fits == {t \in tiers : t[1] > 0 /\ t[2] > 0 /\ atrPercent <= t[1]}
  IN  IF fits = {} THEN default ELSE (CHOOSE t \in fits : \A u \in fits : t[1] <= u[1])[2]

\* Mutant: the swing high.
Bug_StructureStop(x, k) == Max({c.high : c \in ToSet(Recent(x.candles, 5))}) * 100 - k.buffer * x.atr

\* The stop below the lowest of the last five lows, in hundredths of a tick.
StructureStop(x, k) == Min({c.low : c \in ToSet(Recent(x.candles, 5))}) * 100 - k.buffer * x.atr

Decision(mode, dir, fraction, stopAtr, structure) ==
  [mode |-> mode, dir |-> dir, fraction |-> fraction, stopAtr |-> stopAtr, structure |-> structure]

BreakoutDecision(dir, k) == Decision("BREAKOUT", dir, k.breakoutFraction, k.breakoutStop, None)

RetestDecision(x, dir, k) ==
  Decision("RETEST", dir, k.retestFraction, StopAtr(x.atrPercent, k.retestStop, k.retestTiers),
           IF "RETEST" \in k.structure THEN StructureStop(x, k) ELSE None)

ScoutDecision(x, dir, k) ==
  Decision("SCOUT", dir, ScoutTerms(x, k).fraction, StopAtr(x.atrPercent, k.scoutStop, k.scoutTiers),
           IF "SCOUT" \in k.structure THEN StructureStop(x, k) ELSE None)
=============================================================================
