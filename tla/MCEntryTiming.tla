---------------------------- MODULE MCEntryTiming ----------------------------
(* Constants of the TLC instances of EntryTiming. *)
EXTENDS EntryTiming

Side(minRsi, maxRsi) ==
  [margin |-> 0, minVolume |-> 120, maxVolume |-> 400, minBody |-> 50, maxWick |-> 30,
   minClose |-> 60, antiChase |-> TRUE, maxRsi |-> maxRsi, maxDistance |-> 500, maxRun |-> 600,
   maxSingle |-> 350, exhaustion |-> 300, tolerance |-> 50, boxDistance |-> 50, buffer |-> 20,
   fast |-> 1, slow |-> 2, compressionRatio |-> 80, highGap |-> 20, highSlope |-> 10,
   rsiCentre |-> 50..60, nearBox |-> 20, midBox |-> 60, compressionBonus |-> 1, highVolume |-> 150,
   compressed |-> [minScore |-> 5, fraction |-> 30], plain |-> [minScore |-> 6, fraction |-> 20],
   chaseBody |-> 60, chaseVolume |-> 100, chaseClose |-> 80, requireCompression |-> FALSE,
   scoutVolume |-> 80, scoutRsi |-> minRsi..maxRsi, structure |-> {"RETEST", "SCOUT"},
   breakoutFraction |-> 70, breakoutStop |-> 100, retestFraction |-> 85, retestStop |-> 130,
   retestTiers |-> {<<20, 150>>}, scoutStop |-> 70, scoutTiers |-> {}]

MCCfg == [d \in Directions |-> IF d = "LONG" THEN Side(45, 70) ELSE Side(40, 72)]

Bar(open, high, low, close, rsi, volume) ==
  [candle |-> [open |-> open, high |-> high, low |-> low, close |-> close],
   rsi |-> rsi, volume |-> volume, ema |-> 10, atr |-> 2, atrPercent |-> 30]

\* A doji in the box, higher lows in it, healthy closes above and below it, a spike
\* whose volume is exhausted, pullbacks to a level, and a candle without indicators.
MCBars ==
  {Bar(10, 12, 8, 10, 50, 100), Bar(10, 12, 9, 11, 55, 100), Bar(11, 12, 10, 12, 55, 160),
   Bar(11, 15, 11, 15, 60, 200), Bar(11, 18, 11, 15, 60, 500),
   Bar(14, 14, 11, 12, 50, 90), Bar(9, 9, 5, 5, 40, 200),
   Bar(10, 12, 8, 10, None, None)}

MCTrends == {[gap |-> 30, slope |-> 20], [gap |-> None, slope |-> -20]}
=============================================================================
