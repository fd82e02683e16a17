----------------------------- MODULE EntryGuards -----------------------------
(***************************************************************************)
(* The guards that remember: GlobalKillSwitch and CooldownTracker.  What   *)
(* they remember of an event is its time; here it is the event's age, and  *)
(* an age beyond every window that looks at it is dropped.                 *)
(***************************************************************************)
EXTENDS Integers, Sequences, SequencesExt

CONSTANTS
  Symbols,         \* traded symbols
  Modes,           \* entry modes
  SymbolWindow,    \* symbol_cooldown_after_loss_min
  SymbolWindow2,   \* symbol_cooldown_after_2_losses_min
  GlobalWindow,    \* global_cooldown_after_3_losses_min
  ModeWindow,      \* entry_mode_cooldown_after_loss_min
  FailureWindow,   \* _FIVE_MIN
  DropWindow,      \* _TEN_MIN
  Limits           \* the counts of the section global_kill_switch

ASSUME GuardsAssumption ==
  /\ {SymbolWindow, SymbolWindow2, GlobalWindow, ModeWindow, FailureWindow, DropWindow} \subseteq Nat
  /\ SymbolWindow2 >= SymbolWindow
  /\ {Limits.streak, Limits.failures, Limits.drops, Limits.mismatches, Limits.emergencies,
      Limits.slippages} \subseteq Nat \ {0}

\* Ages that are still within a window, a tick later; the oldest come first.
Aged(ages, window) ==
  LET older == [i \in DOMAIN ages |-> ages[i] + 1]
      out == {i \in DOMAIN ages : older[i] > window}
  IN  SubSeq(older, Cardinality(out) + 1, Len(older))

-----------------------------------------------------------------------------
(* CooldownTracker: bySymbol, all and byMode hold the ages of the losses,  *)
(* oldest first.                                                           *)

NoLosses == [bySymbol |-> [s \in Symbols |-> << >>], all |-> << >>, byMode |-> [m \in Modes |-> << >>]]

\* record_result of a loss; a mode keeps the last one.
LossRecorded(c, s, m) ==
  [bySymbol |-> [c.bySymbol EXCEPT ![s] = Append(@, 0)],
   all |-> Append(c.all, 0),
   byMode |-> [c.byMode EXCEPT ![m] = <<0>>]]

LossesAged(c) ==
  [bySymbol |-> [s \in Symbols |-> Aged(c.bySymbol[s], SymbolWindow2)],
   all |-> Aged(c.all, GlobalWindow),
   byMode |-> [m \in Modes |-> Aged(c.byMode[m], ModeWindow)]]

\* Two losses within the longer window block for as long as both are in it.
InSymbolCooldown(c, s) ==
  LET losses == c.bySymbol[s]
  IN  losses # << >> /\ (Len(losses) >= 2 \/ Last(losses) <= SymbolWindow)

InGlobalCooldown(c) == Len(c.all) >= 3

InModeCooldown(c, m) == c.byMode[m] # << >>

-----------------------------------------------------------------------------
(* GlobalKillSwitch.                                                       *)

NotTripped == [tripped |-> FALSE, streak |-> 0, failures |-> << >>, drops |-> << >>,
               mismatches |-> 0, emergencies |-> 0, slippages |-> 0, daily |-> FALSE]

\* Nobody but the dashboard reads the counters of a tripped switch, or tells a count
\* beyond its limit from one at it.
Tripped == [NotTripped EXCEPT !.tripped = TRUE]

Counts(k, field) ==
  IF k.tripped \/ k[field] = Limits[field] THEN k ELSE [k EXCEPT ![field] = @ + 1]
Times(k, field) == IF k.tripped THEN k ELSE [k EXCEPT ![field] = Append(@, 0)]

OrderFailure(k) == Times(k, "failures")
Disconnect(k) == Times(k, "drops")
Mismatch(k) == Counts(k, "mismatches")
EmergencyCloseFailure(k) == Counts(k, "emergencies")
SlippageBreach(k) == Counts(k, "slippages")

TradeResult(k, win) ==
  IF win THEN [k EXCEPT !.streak = 0] ELSE Counts(k, "streak")

\* update_pnl: breached says that the day's loss is beyond a limit.
PnlUpdated(k, breached) == IF k.tripped THEN k ELSE [k EXCEPT !.daily = breached]

\* _prune runs before the counts are read: what it drops is dropped at once here.
SwitchAged(k) ==
  [k EXCEPT !.failures = Aged(@, FailureWindow), !.drops = Aged(@, DropWindow)]

Breached(k) ==
  \/ k.daily
  \/ k.streak >= Limits.streak
  \/ Len(k.failures) >= Limits.failures
  \/ Len(k.drops) >= Limits.drops
  \/ k.mismatches >= Limits.mismatches
  \/ k.emergencies >= Limits.emergencies
  \/ k.slippages >= Limits.slippages

\* evaluate latches.
Evaluated(k) == IF k.tripped \/ Breached(k) THEN Tripped ELSE k

\* What evaluate returns is not None.
Trips(k) == k.tripped \/ Breached(k)
=============================================================================
