----------------------------- MODULE RiskManager -----------------------------
(***************************************************************************)
(* RiskManager.approve with position_sizing, leverage and levels: the      *)
(* stop, the size and the leverage of an entry, or the refusal of it.      *)
(*                                                                         *)
(* Prices are in ticks, quantities in steps, percentages in hundredths of  *)
(* a percent and multiples of ATR in hundredths.  Stops and the            *)
(* liquidation price are distances from the entry price, so both sides are *)
(* one case: an entry price is a tick, and a stop is rounded away from it. *)
(***************************************************************************)
EXTENDS Integers, FiniteSets, FiniteSetsExt

CONSTANTS
  Risk,           \* the sections risk and liquidation_guard of the configuration
  MaxPositions    \* bot.max_active_positions

EntryModes == {"SCOUT", "BREAKOUT", "RETEST"}
Sides == {"LONG", "SHORT"}

\* Hundredths of a percent, and of an ATR.
Percent == 10000
Atr == 100

ASSUME RiskAssumption ==
  /\ MaxPositions \in Nat
  /\ {Risk.perTrade, Risk.perSymbol, Risk.total, Risk.dailyLoss, Risk.drawdown,
      Risk.sameDirection, Risk.minStopAtr, Risk.scoutMinAtr, Risk.thinStop, Risk.thinCap,
      Risk.qualityCap, Risk.qualityTarget, Risk.highAtr, Risk.highAtrCap, Risk.lossCount,
      Risk.lossCap, Risk.dailyDerisk, Risk.dailyCap, Risk.liqPercent, Risk.liqAtr,
      Risk.minQty, Risk.minNotional,
      Risk.scoutTarget} \subseteq Nat
  /\ Risk.minLeverage \in Nat \ {0}
  /\ {Risk.minStop, Risk.maxStopAtr, Risk.cap, Risk.target} \subseteq [EntryModes -> Nat]
  /\ Risk.structure \subseteq EntryModes

CeilDiv(a, b) == -((-a) \div b)

\* A request to approve: an EntryDecision with the price, the ATR and the equity it
\* is made at; structure is the structure stop's distance, 0 without one, fraction
\* the position_fraction in percent; in a context of open positions and losses.
Request == [mode : EntryModes, side : Sides, symbol : STRING, price : Nat \ {0}, atr : Nat \ {0},
            equity : Nat \ {0}, atrStop : Nat, structure : Int, fraction : Nat, quality : BOOLEAN,
            compression : BOOLEAN]

-----------------------------------------------------------------------------
(* The stop: the farthest of the candidates.                               *)

MinDistances(r) ==
  {CeilDiv(r.price * Risk.minStop[r.mode], Percent)}
    \cup IF r.mode = "SCOUT" THEN {CeilDiv(r.atr * Risk.scoutMinAtr, Atr)} ELSE {}

StructureStops(r) == IF r.mode \in Risk.structure /\ r.structure # 0 THEN {r.structure} ELSE {}

Stop(r) == Max({r.atrStop} \cup StructureStops(r) \cup MinDistances(r))

-----------------------------------------------------------------------------
(* The leverage cap and the size.                                          *)

\* max_leverage: the least of the caps that apply, but no less than min_leverage.
MaxLeverage(r, ctx) ==
  LET base == IF r.quality THEN Risk.qualityCap ELSE Risk.cap[r.mode]
      caps == {base}
        \cup (IF r.atr * Percent > Risk.highAtr * r.price THEN {Risk.highAtrCap} ELSE {})
        \cup (IF ctx.losses >= Risk.lossCount THEN {Risk.lossCap} ELSE {})
        \cup (IF ctx.dailyLoss >= Risk.dailyDerisk THEN {Risk.dailyCap} ELSE {})
  IN  Max({Risk.minLeverage, Min(caps)})

ThinStop(r) ==
  /\ Risk.thinStop > 0 /\ Risk.thinCap > 0
  /\ Stop(r) * Percent <= Risk.thinStop * r.price

\* min_leverage does not bound the cap of a thin stop.
LeverageCap(r, ctx) ==
  Min({MaxLeverage(r, ctx)} \cup IF ThinStop(r) THEN {Risk.thinCap} ELSE {})

\* _target_notional_percent: 0 stands for no target.
TargetPercent(r) ==
  Max({IF r.mode = "SCOUT" /\ ~r.compression THEN Risk.scoutTarget ELSE Risk.target[r.mode]}
        \cup IF r.quality THEN {Risk.qualityTarget} ELSE {})

\* compute_size: the notional of the risk, or of the target if that is larger, within
\* the leverage cap; divided by the price and rounded down to steps.
Quantity(r, ctx) ==
  LET byRisk == (r.equity * Risk.perTrade * r.fraction) \div (Percent * 100 * Stop(r))
      byTarget == (r.equity * TargetPercent(r)) \div (Percent * r.price)
      byLeverage == (r.equity * LeverageCap(r, ctx)) \div r.price
  IN  Min({Max({byRisk, byTarget}), byLeverage})

Notional(r, ctx) == Quantity(r, ctx) * r.price
RiskOf(r, ctx) == Quantity(r, ctx) * Stop(r)

\* choose_leverage: the smallest one that carries the notional, within the cap.
Leverage(r, ctx) ==
  Max({Risk.minLeverage, Min({CeilDiv(Notional(r, ctx), r.equity), LeverageCap(r, ctx)})})

-----------------------------------------------------------------------------
(* The refusals; the reason that is reported is the first of them.         *)

StopDistanceGuard(r) ==
  /\ Stop(r) * Atr >= Risk.minStopAtr * r.atr
  /\ Stop(r) * Atr <= Risk.maxStopAtr[r.mode] * r.atr

AccountLimits(r, ctx) ==
  /\ ctx.dailyLoss < Risk.dailyLoss
  /\ ctx.drawdown < Risk.drawdown
  /\ Cardinality(ctx.open) < MaxPositions
  /\ \A p \in ctx.open : p.symbol # r.symbol
  /\ Cardinality({p \in ctx.open : p.side = r.side}) < Risk.sameDirection

\* compute_size refuses a stop at the entry price.
HasDistance(r) == Stop(r) > 0

Minimums(r, ctx) ==
  /\ Quantity(r, ctx) >= Risk.minQty /\ Quantity(r, ctx) > 0
  /\ Notional(r, ctx) >= Risk.minNotional

OpenRisk(ctx) == MapThenSumSet(LAMBDA p : p.risk, ctx.open)

\* Mutant: the risk that is open already is not added.
Bug_Exposure(r, ctx) == RiskOf(r, ctx) * Percent <= Risk.perSymbol * r.equity

Exposure(r, ctx) ==
  /\ RiskOf(r, ctx) * Percent <= Risk.perSymbol * r.equity
  /\ (OpenRisk(ctx) + RiskOf(r, ctx)) * Percent <= Risk.total * r.equity

\* estimate_liq_price is price * (1/leverage - 0.005) away; the guard wants it far
\* enough, in percent and in ATR, and beyond the stop.  All times 1000 * leverage.
LiquidationGuard(r, ctx) ==
  LET lev == Leverage(r, ctx)
      distance == r.price * (1000 - 5 * lev)
      size == IF distance < 0 THEN -distance ELSE distance
  IN  /\ size * Percent >= Risk.liqPercent * r.price * 1000 * lev
      /\ size * Atr >= Risk.liqAtr * r.atr * 1000 * lev
      /\ distance > Stop(r) * 1000 * lev

Approved(r, ctx) ==
  /\ StopDistanceGuard(r) /\ AccountLimits(r, ctx)
  /\ HasDistance(r) /\ Minimums(r, ctx)
  /\ Exposure(r, ctx) /\ LiquidationGuard(r, ctx)
=============================================================================
