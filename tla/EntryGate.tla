------------------------------ MODULE EntryGate ------------------------------
(***************************************************************************)
(* The way of a new entry through TradingService.evaluate_entry: _pre_gate *)
(* and RiskManager.approve, the await of the order book, _post_gate, the   *)
(* order and its protection.  The trading loop works on one entry at a     *)
(* time, but commands, reconciliations, the PnL loop and websocket         *)
(* callbacks run whenever it awaits, and change what it has looked at.     *)
(***************************************************************************)
EXTENDS EntryGuards, RiskManager

CONSTANTS
  Requests,    \* what the strategy may ask approval for
  Slip,        \* ticks by which a bad fill is off the price of the request
  CloseFails,  \* an exit may fail
  Intervenes,  \* the account's owner may trade by hand
  MaxRisk,     \* bound: a position that risks as much is not added to
  MaxCallers   \* bound: callers of _apply_kill_switch_trip that announce at once

ASSUME GateAssumption ==
  /\ Modes = EntryModes /\ IsFiniteSet(Symbols)
  /\ Requests \subseteq Request /\ \A r \in Requests : r.symbol \in Symbols
  /\ {Slip, MaxRisk, MaxCallers} \subseteq Nat /\ CloseFails \in BOOLEAN /\ Intervenes \in BOOLEAN

VARIABLES
  state,   \* BotStateMachine: "RUNNING", "PAUSED", or the lock that ended both
  paused,  \* RuntimeState.new_entries_paused
  reg,     \* RuntimeState.positions
  switch,  \* GlobalKillSwitch
  losses,  \* CooldownTracker
  told,    \* _last_kill_switch_trip_reason is the reason of the trip, or of the next one
  calls,   \* calls of _apply_kill_switch_trip that await the announcement
  entry,   \* the entry the trading loop is at
  booking, \* closes whose result is not booked yet: the trading loop's, a command's
  late     \* history: orders sent while the switch was tripped

vars == <<state, paused, reg, switch, losses, told, calls, entry, booking, late>>
guards == <<switch, losses>>
trip == <<told, calls>>

NoEntry == [stage |-> "NONE"]
NoPosition == [status |-> "NONE", bot |-> FALSE, symbol |-> "", side |-> "LONG", mode |-> "SCOUT",
               risk |-> 0]

\* Who closes positions, and what _close knows between CLOSED and the booking; old: the
\* guards it books in have been replaced.
Closers == {"loop", "command"}
NoBooking == [due |-> FALSE, symbol |-> "", mode |-> "SCOUT", old |-> FALSE]

IsBot(s, statuses) == reg[s].bot /\ reg[s].status \in statuses

\* Mutant: a position whose protection is not confirmed is not counted.
Bug_Context == [open |-> {reg[s] : s \in {t \in Symbols : IsBot(t, {"ACTIVE"})}},
                losses |-> 0, dailyLoss |-> 0, drawdown |-> 0]

\* RuntimeState.active_bot_positions, and the context that evaluate_entry makes of it:
\* it passes on neither the losses nor the day's result.
ActiveBot == {reg[s] : s \in {t \in Symbols : IsBot(t, {"PENDING", "ACTIVE"})}}
Context == [open |-> ActiveBot, losses |-> 0, dailyLoss |-> 0, drawdown |-> 0]

At(stage) == entry.stage = stage
Entering(s) == ~At("NONE") /\ entry.r.symbol = s

\* RuntimeState.has_bot_order_settling_for_symbol.
Settling(s) == Entering(s) \/ \E c \in Closers : booking[c].due /\ booking[c].symbol = s

\* The task is not in the middle of something: of an entry or a close, of a command.
LoopIdle == At("NONE") /\ ~booking["loop"].due
CommandIdle == ~booking["command"].due

TypeOK ==
  /\ state \in {"RUNNING", "PAUSED", "RISK_LOCKED", "ORDER_LOCKED", "EMERGENCY_STOP"}
  /\ paused \in BOOLEAN
  /\ \A s \in Symbols : /\ reg[s].status \in {"NONE", "PENDING", "ACTIVE", "CLOSING"}
                        /\ Len(losses.bySymbol[s]) <= 2
  /\ Len(losses.all) <= 2 + MaxPositions
  /\ told \in BOOLEAN /\ calls \in 0..MaxCallers
  /\ entry.stage \in {"NONE", "BOOK", "SENT", "PROTECT"}
  /\ \A c \in Closers : booking[c].due => booking[c].symbol \in Symbols
  /\ late \in Nat

Init ==
  /\ state = "RUNNING"
  /\ paused = FALSE
  /\ reg = [s \in Symbols |-> NoPosition]
  /\ switch = NotTripped
  /\ losses = NoLosses
  /\ told = FALSE
  /\ calls = 0
  /\ entry = NoEntry
  /\ booking = [c \in Closers |-> NoBooking]
  /\ late = 0

-----------------------------------------------------------------------------
(* The entry.                                                              *)

\* Mutant: _pre_gate does not ask the kill switch.
Bug_PreGate(s) == state = "RUNNING" /\ ~paused /\ ~InGlobalCooldown(losses) /\ ~InSymbolCooldown(losses, s)

\* Mutant: _pre_gate looks at the global cooldown only.
Bug_PreGateSymbol(s) == state = "RUNNING" /\ ~paused /\ ~Trips(switch) /\ ~InGlobalCooldown(losses)

PreGate(s) ==
  /\ state = "RUNNING" /\ ~paused
  /\ ~Trips(switch)
  /\ ~InGlobalCooldown(losses) /\ ~InSymbolCooldown(losses, s)

\* _process_symbol finds no active position of the bot and the entry is approved.  The
\* history: a close of the symbol was still to be booked, a position was increased since.
Gate(r) ==
  /\ LoopIdle /\ ~IsBot(r.symbol, {"ACTIVE"})
  /\ PreGate(r.symbol) /\ Approved(r, Context)
  /\ entry' = [stage |-> "BOOK", r |-> r, moved |-> FALSE, orphan |-> FALSE,
               unbooked |-> Settling(r.symbol)]
  /\ UNCHANGED <<state, paused, reg, guards, trip, booking, late>>

\* _pre_gate evaluates the kill switch, which latches; the state stays as it is.
GateLatches ==
  /\ LoopIdle /\ state = "RUNNING" /\ ~paused
  /\ Trips(switch) /\ ~switch.tripped
  /\ switch' = Evaluated(switch)
  /\ UNCHANGED <<state, paused, reg, losses, trip, entry, booking, late>>

\* _post_gate passes, once the order book has come: only the entry mode's cooldown is
\* looked at again.  After a reload the service still looks at the old tracker.
PostGate ==
  /\ At("BOOK")
  /\ entry.orphan \/ ~InModeCooldown(losses, entry.r.mode)
  /\ entry' = [entry EXCEPT !.stage = "SENT"]
  /\ late' = IF switch.tripped THEN late + 1 ELSE late
  /\ UNCHANGED <<state, paused, reg, guards, trip, booking>>

\* The cooldown, or PreOrderCheck, blocks it; or the order raises, which records nothing.
Abandoned ==
  /\ At("BOOK") \/ At("SENT")
  /\ entry' = NoEntry
  /\ UNCHANGED <<state, paused, reg, guards, trip, booking, late>>

\* What the service records, unless a reload has replaced the switch it records in.
Records(k) == switch' = IF entry.orphan THEN switch ELSE k

OrderFails ==
  /\ At("SENT")
  /\ Records(OrderFailure(switch))
  /\ entry' = NoEntry
  /\ UNCHANGED <<state, paused, reg, losses, trip, booking, late>>

\* The order fills; a fill at a better price moves the stop, so that the risk stays
\* (_fill_adjusted_levels), one at a worse price adds to it and may be a breach.
OrderFills(slip) ==
  /\ At("SENT")
  /\ LET r == entry.r
         filled == [status |-> "PENDING", bot |-> TRUE, symbol |-> r.symbol, side |-> r.side,
                    mode |-> r.mode, risk |-> Quantity(r, Context) * (Stop(r) + slip)]
     IN  reg' = [reg EXCEPT ![r.symbol] = filled]
  /\ Records(IF slip > 0 THEN SlippageBreach(switch) ELSE switch)
  /\ entry' = [entry EXCEPT !.stage = "PROTECT"]
  /\ UNCHANGED <<state, paused, losses, trip, booking, late>>

\* protect returns or raises; an exception leaves the position PENDING.
Protected(status) ==
  /\ At("PROTECT")
  /\ reg' = [reg EXCEPT ![entry.r.symbol].status = status]
  /\ entry' = NoEntry
  /\ UNCHANGED <<state, paused, guards, trip, booking, late>>

\* protect fails and closes the position, or fails to.
ProtectionFails(closed) ==
  /\ At("PROTECT")
  /\ IF closed
     THEN /\ reg' = [reg EXCEPT ![entry.r.symbol] = NoPosition]
          /\ state' = "ORDER_LOCKED"
          /\ Records(OrderFailure(switch))
     ELSE /\ state' = "EMERGENCY_STOP"
          /\ Records(EmergencyCloseFailure(OrderFailure(switch)))
          /\ UNCHANGED <<reg>>
  /\ entry' = NoEntry
  /\ UNCHANGED <<paused, losses, trip, booking, late>>

-----------------------------------------------------------------------------
(* The end of positions.                                                   *)

Frees(s) == reg' = [reg EXCEPT ![s] = NoPosition]

\* The exit has been executed, or found the exchange flat: _close and
\* _mark_exchange_already_flat set CLOSED, and the rows of the trade are awaited.  A command
\* closes while the loop is at another symbol (at the same one: see PositionSync).
Closed(s, by) ==
  /\ IsBot(s, IF by = "loop" THEN {"ACTIVE"} ELSE {"PENDING", "ACTIVE"})
  /\ IF by = "loop" THEN LoopIdle ELSE CommandIdle /\ ~Entering(s)
  /\ Frees(s)
  /\ booking' = [booking EXCEPT ![by] = [due |-> TRUE, symbol |-> s, mode |-> reg[s].mode,
                                         old |-> FALSE]]
  /\ UNCHANGED <<state, paused, guards, trip, entry, late>>

\* Only then the result is booked, in the guards of the service that closed.
Booked(by, win) ==
  LET b == booking[by]
  IN  /\ b.due
      /\ losses' = IF win \/ b.old THEN losses ELSE LossRecorded(losses, b.symbol, b.mode)
      /\ switch' = IF b.old THEN switch ELSE TradeResult(switch, win)
      /\ booking' = [booking EXCEPT ![by] = NoBooking]
      /\ UNCHANGED <<state, paused, reg, trip, entry, late>>

\* A row cannot be written: the exception leaves _close before the result is booked.
NeverBooked(by) ==
  /\ booking[by].due
  /\ booking' = [booking EXCEPT ![by] = NoBooking]
  /\ UNCHANGED <<state, paused, reg, guards, trip, entry, late>>

\* The exit that evaluate decided executes nothing or raises.
ExitFails(s) ==
  /\ CloseFails
  /\ IsBot(s, {"ACTIVE"}) /\ LoopIdle
  /\ reg' = [reg EXCEPT ![s].status = "CLOSING"]
  /\ UNCHANGED <<state, paused, guards, trip, entry, booking, late>>

\* A reconciliation finds a position gone, by its stop loss: handle_bot_exchange_close.
StopFired(s) ==
  /\ IsBot(s, {"PENDING", "ACTIVE", "CLOSING"}) /\ ~Settling(s)
  /\ Frees(s)
  /\ UNCHANGED <<state, paused, guards, trip, entry, booking, late>>

-----------------------------------------------------------------------------
(* Trades by hand.                                                         *)

\* handle_external_position.
ExternalOpened(s) ==
  /\ Intervenes
  /\ reg[s].status = "NONE" /\ ~Settling(s)
  /\ reg' = [reg EXCEPT ![s] = [NoPosition EXCEPT !.status = "ACTIVE", !.symbol = s]]
  /\ paused' = TRUE
  /\ UNCHANGED <<state, guards, trip, entry, booking, late>>

\* handle_external_close; the reconciliation counts as a mismatch.
ExternalClosed(s) ==
  /\ reg[s].status = "ACTIVE" /\ ~reg[s].bot /\ ~Settling(s)
  /\ reg' = [reg EXCEPT ![s] = NoPosition]
  /\ paused' = TRUE
  /\ switch' = Mismatch(switch)
  /\ UNCHANGED <<state, losses, trip, entry, booking, late>>

\* handle_qty_mismatch, of a position of the bot that has grown.
ManualAdd(s) ==
  /\ Intervenes
  /\ IsBot(s, {"ACTIVE"}) /\ ~Settling(s) /\ ~Trips(switch)
  /\ reg[s].risk < MaxRisk
  /\ reg' = [reg EXCEPT ![s].risk = 2 * @]
  /\ paused' = TRUE
  /\ switch' = Mismatch(switch)
  /\ entry' = IF At("NONE") THEN entry ELSE [entry EXCEPT !.moved = TRUE]
  /\ UNCHANGED <<state, losses, trip, booking, late>>

PauseEnds ==
  /\ paused
  /\ paused' = FALSE
  /\ UNCHANGED <<state, reg, guards, trip, entry, booking, late>>

-----------------------------------------------------------------------------
(* The runtime.                                                            *)

Locks == IF state = "RUNNING" THEN "RISK_LOCKED" ELSE state

\* The reason was not announced before: that is remembered, and the announcement awaited.
Announces(k) == Trips(k) /\ ~told /\ calls < MaxCallers /\ told' = TRUE /\ calls' = calls + 1

\* Mutant: what has been announced is taken for done.
Bug_Applies(k) ==
  /\ switch' = Evaluated(k)
  /\ \/ Announces(k)
     \/ ~(Trips(k) /\ ~told) /\ UNCHANGED trip
  /\ UNCHANGED state

\* _apply_kill_switch_trip, up to the await or to its end.
Applies(k) ==
  /\ switch' = Evaluated(k)
  /\ \/ Announces(k) /\ UNCHANGED state
     \/ ~Trips(k) /\ UNCHANGED <<state, trip>>
     \/ Trips(k) /\ told /\ state' = Locks /\ UNCHANGED trip

\* The rest of it, unless the announcement raises: the next call will find the reason
\* remembered and go on at once.
Announced(ok) ==
  /\ calls > 0
  /\ calls' = calls - 1
  /\ state' = IF ok THEN Locks ELSE state
  /\ UNCHANGED <<paused, reg, guards, told, entry, booking, late>>

\* The PnL loop, the reconciliation loop and the tasks of private events call it, each
\* behind calls that may raise and then leave it out.
Apply ==
  /\ Applies(switch)
  /\ UNCHANGED <<paused, reg, losses, entry, booking, late>>

\* _handle_ws_disconnect.
Dropped ==
  /\ ~switch.tripped
  /\ Applies(Disconnect(switch))
  /\ UNCHANGED <<paused, reg, losses, entry, booking, late>>

\* _publish_and_persist_pnl: the day's loss is the worse of what it lost, as daily and
\* intraday.
UpdatePnl(breached) ==
  /\ ~switch.tripped /\ switch.daily # breached
  /\ Applies(PnlUpdated(switch, breached))
  /\ UNCHANGED <<paused, reg, losses, entry, booking, late>>

Pause ==
  /\ CommandIdle /\ state = "RUNNING"
  /\ state' = "PAUSED"
  /\ UNCHANGED <<paused, reg, guards, trip, entry, booking, late>>

Resume ==
  /\ CommandIdle /\ state = "PAUSED"
  /\ state' = "RUNNING"
  /\ UNCHANGED <<paused, reg, guards, trip, entry, booking, late>>

\* _reload_config builds new guards; the entry and the close under way keep the old ones.
\* The reason remembered may be that of the next trip, too.
Reload ==
  /\ CommandIdle
  /\ switch' = NotTripped
  /\ losses' = NoLosses
  /\ told' \in {told, FALSE}
  /\ entry' = IF At("NONE") THEN entry ELSE [entry EXCEPT !.orphan = TRUE]
  /\ booking' = [booking EXCEPT !["loop"].old = booking["loop"].due]
  /\ late' = 0
  /\ UNCHANGED <<state, paused, reg, calls>>

Tick ==
  /\ switch' = SwitchAged(switch)
  /\ losses' = LossesAged(losses)
  /\ UNCHANGED <<state, paused, reg, trip, entry, booking, late>>

Loop ==
  \/ \E r \in Requests : Gate(r)
  \/ GateLatches \/ PostGate \/ Abandoned \/ OrderFails
  \/ \E slip \in {0, Slip} : OrderFills(slip)
  \/ \E status \in {"ACTIVE", "PENDING"} : Protected(status)
  \/ \E closed \in BOOLEAN : ProtectionFails(closed)

Others ==
  \/ \E by \in Closers : \/ \E s \in Symbols : Closed(s, by)
                         \/ \E win \in BOOLEAN : Booked(by, win)
                         \/ NeverBooked(by)
  \/ \E s \in Symbols : \/ ExitFails(s) \/ StopFired(s)
                        \/ ExternalOpened(s) \/ ExternalClosed(s) \/ ManualAdd(s)
  \/ PauseEnds \/ Dropped \/ Pause \/ Resume \/ Reload \/ Tick
  \/ \E breached \in BOOLEAN : UpdatePnl(breached)

Next == Loop \/ Others \/ Apply \/ \E ok \in BOOLEAN : Announced(ok)

Spec == Init /\ [][Next]_vars

\* The PnL loop and the reconciliation loop come round at their intervals whatever a
\* round of theirs raises, and an announcement is bounded by the timeouts of Redis.  What
\* is assumed is that not all rounds for ever raise before they get to the trip: that the
\* exchange, Redis and the database answer again some day.
FairSpec ==
  /\ Spec
  /\ WF_vars(Apply) /\ WF_vars(\E ok \in BOOLEAN : Announced(ok))

-----------------------------------------------------------------------------
(* Properties.                                                             *)

\* Whatever is closed, adopted or changed while an entry awaits its order book, its
\* order and its protection, the bot's positions stay within max_active_positions and
\* max_same_direction_positions (RiskManager: "if it rejects, the order is never placed").
WithinLimits ==
  /\ Cardinality(ActiveBot) <= MaxPositions
  /\ \A side \in Sides : Cardinality({p \in ActiveBot : p.side = side}) <= Risk.sameDirection

\* When an order has filled, the risk of the open positions is within
\* max_total_open_risk_percent of the equity of the request, up to what the fill slipped
\* -- unless a position was increased by hand while the order was under way.
OpenRiskBounded ==
  [][At("SENT") /\ entry'.stage = "PROTECT" /\ ~entry.moved
       => LET r == entry.r
              slipped == Slip * Quantity(r, Context)
          IN  (OpenRisk(Context') - slipped) * Percent <= Risk.total * r.equity]_vars

\* After the kill switch has tripped at most one more order is sent, that of the entry
\* which had passed _pre_gate already -- although a trip that is noticed while the bot is
\* paused does not lock it, and RESUME lets it run again.
OneLateOrder == late <= 1

\* An order fills for a symbol in its cooldown only if a close of the symbol was still to
\* be booked when the entry was approved: otherwise whatever is closed and booked during
\* its awaits, by the loop or by a command, belongs to other symbols.
SymbolCooldownHolds ==
  [][At("SENT") /\ entry'.stage = "PROTECT" /\ ~entry.orphan /\ ~entry.unbooked
       => ~InSymbolCooldown(losses, entry.r.symbol)]_vars

\* A switch that has tripped does not leave the bot RUNNING, although the trip may be
\* noticed by a gate that only latches it, its announcement may raise, the bot may be
\* paused while it is announced, and a reload may bring another reason.
TripLocks == switch.tripped ~> (state # "RUNNING" \/ ~switch.tripped)

-----------------------------------------------------------------------------
(* What the documentation says and the code does not do.                   *)

\* "Duplicate positions on one symbol: forbidden" (strategy flow document, 9.2).  A
\* position whose exit failed is CLOSING, neither active for _process_symbol nor among
\* active_bot_positions: the next signal opens another one and replaces its record.
OnePositionPerSymbol ==
  [][At("SENT") /\ entry'.stage = "PROTECT" => reg[entry.r.symbol].status = "NONE"]_vars

\* "Symbol cooldown: the symbol is in its cooldown" blocks an entry (6).  The entry of a
\* symbol whose close is not booked yet is not blocked.
NoEntryInCooldown ==
  [][At("SENT") /\ entry'.stage = "PROTECT" /\ ~entry.orphan
       => ~InSymbolCooldown(losses, entry.r.symbol)]_vars

\* "Two losses on a symbol within 60 minutes: 60 minutes" (15).  The second loss blocks
\* only until the first is 60 minutes old, or for symbol_cooldown_after_loss_min.
TwoLossesBlock ==
  [][\A s \in Symbols : Len(losses.bySymbol[s]) >= 2 /\ Len(losses'.bySymbol[s]) < 2
       => losses'.bySymbol[s] = << >>]_losses

\* "On a loss the counters of cooldown and kill switch are updated" (14).  A stop loss
\* that the exchange executes is not counted.
StopLossesCount ==
  [][\A s \in Symbols : IsBot(s, {"ACTIVE"}) /\ reg'[s].status = "NONE"
       => switch' # switch \/ losses' # losses \/ switch.tripped]_vars

\* "Once tripped it is latched until a manual reset" (16).  RELOAD_CONFIG resets it.
TripIsLatched == [][switch.tripped => switch'.tripped]_vars
=============================================================================
