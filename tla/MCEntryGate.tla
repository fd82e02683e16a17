---------------------------- MODULE MCEntryGate ----------------------------
(* Constants of the TLC instances of EntryGate. *)
EXTENDS EntryGate

All(n) == [m \in EntryModes |-> n]

\* Of an equity of 1000: 2 % per trade, 3 % per symbol, 4.2 % in total.
MCRisk ==
  [perTrade |-> 200, perSymbol |-> 300, total |-> 420, dailyLoss |-> 700, drawdown |-> 700,
   sameDirection |-> 1, minStopAtr |-> 50, scoutMinAtr |-> 100, minStop |-> All(100),
   maxStopAtr |-> All(300), structure |-> {"RETEST"}, cap |-> All(4), qualityCap |-> 6,
   target |-> All(0), scoutTarget |-> 0, qualityTarget |-> 12000, highAtr |-> 350, highAtrCap |-> 3, lossCount |-> 2,
   lossCap |-> 2, dailyDerisk |-> 300, dailyCap |-> 2, minLeverage |-> 1, thinStop |-> 150,
   thinCap |-> 3, liqPercent |-> 200, liqAtr |-> 200, minQty |-> 1, minNotional |-> 100]

MCLimits == [streak |-> 2, failures |-> 1, drops |-> 1, mismatches |-> 1, emergencies |-> 1,
             slippages |-> 1]

Ask(symbol, mode, side, structure, quality) ==
  [mode |-> mode, side |-> side, symbol |-> symbol, price |-> 100, atr |-> 2, equity |-> 1000,
   atrStop |-> 2, structure |-> structure, fraction |-> 100, quality |-> quality,
   compression |-> TRUE]

MCRequests == {Ask("a", "BREAKOUT", "LONG", 0, FALSE), Ask("a", "RETEST", "SHORT", 4, FALSE),
               Ask("b", "RETEST", "LONG", 0, TRUE)}
=============================================================================
