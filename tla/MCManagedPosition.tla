------------------------- MODULE MCManagedPosition -------------------------
(* Constants of the TLC instances of ManagedPosition. *)
EXTENDS ManagedPosition

Kinds == Strengths \cup {"NORMAL", "EXTENDED"}
MCDistance == [k \in Kinds |-> CASE k = "WEAK" -> 1 [] k = "VERY_STRONG" -> 3 [] OTHER -> 2]
MCFlat == [k \in Kinds |-> 2]
MCStagnant == [m \in Modes |-> 2]
MCSlow == [m \in Modes |-> 1]

Candle(facts, high) == [facts |-> facts, high |-> high]
MCTrailCandles == {Candle({"ema"}, 5), Candle({"level", "opposite"}, 1)}
MCTrailSnapshots == {{"ema5"}, {"holds", "strong"}}
MCScoutCandles == {Candle({}, 5), Candle({"level", "ema"}, 5), Candle({"opposite"}, 5),
                   Candle({"opposite", "catastrophic", "mid"}, 5),
                   Candle({"confirms", "recovers"}, 5)}
MCScoutSnapshots == {{}}
MCPrices == {-1, 5}
=============================================================================
