---------------------------- MODULE PositionSync ----------------------------
(***************************************************************************)
(* One symbol of the LIVE engine: the position that Bybit holds, the       *)
(* bot's own record of it, and the asyncio tasks that act on the pair --   *)
(* the trading loop (enter, protect, manage), the command loop             *)
(* (CLOSE_POSITION) and the reconciliations (interval loop and private     *)
(* web-socket events).  The tasks interleave at every await.               *)
(*                                                                         *)
(* Sizes are numbers of lots and all positions have one side.  A Position  *)
(* object outlives its place in RuntimeState.positions as long as a task   *)
(* refers to it, so objects have identities here.                          *)
(***************************************************************************)
EXTENDS Integers, FiniteSets, FiniteSetsExt

CONSTANTS
  Recs,            \* tasks that may run reconcile_once at the same time
  Lots,            \* lots of one entry
  MaxSize,         \* bound: lots the exchange position may reach
  PartialCommands, \* whether CLOSE_POSITION is given a close_percent below 100
  Faults           \* "partial": a market order may execute in part
                   \* "error": a request, an event or a log may raise, except an
                   \* entry's request
                   \* "lost": executor.open may raise, even once filled
                   \* "unattached": a stop that was accepted, with the entry or
                   \* later, may not be on the position
                   \* "mismatch": the stop may fail its verification
                   \* "setstop": set_trading_stop may raise
                   \* "user": somebody trades the symbol by hand

ASSUME SyncAssumption ==
  /\ IsFiniteSet(Recs)
  /\ Recs \cap {"loop", "cmd"} = {}
  /\ Lots \in Nat \ {0}
  /\ MaxSize \in Nat
  /\ Lots <= MaxSize
  /\ PartialCommands \in BOOLEAN
  /\ Faults \subseteq {"partial", "error", "lost", "unattached",
                       "mismatch", "setstop", "user"}

Tasks == {"loop", "cmd"} \cup Recs

\* Enough identities for every task's object and a new one.
Objs == 1 .. Cardinality(Tasks) + 1

VARIABLES
  ex,      \* exchange: size of the position
  sl,      \* exchange: the position carries the bot's stop loss
  reg,     \* RuntimeState.positions[symbol]: an object, or 0
  obj,     \* the Position objects
  upd,     \* RuntimeState.position_update_symbols[symbol]
  paused,  \* RuntimeState.new_entries_paused
  lock,    \* state machine: "no", "ORDER_LOCKED" or "EMERGENCY_STOP"
  task,    \* where each task is suspended, and what it holds
  amiss    \* history, read by no action: one of the events noted with Notes
           \* below has happened, from which the code's guards do not protect
           \* the agreement of record and exchange

vars == <<ex, sl, reg, obj, upd, paused, lock, task, amiss>>

\* pc: what the task awaits; o: its Position; qty, full: its exit order;
\* got: the answer it was given; ok: the answer of a TP/SL query.
Blank == [src |-> "BOT", st |-> "CLOSED", qty |-> 0, booked |-> 0]
Idle == [pc |-> "idle", o |-> 0, qty |-> 0, full |-> FALSE, got |-> 0, ok |-> FALSE]

\* The answer "current position is zero" (110017).
Flat == -1

ProtectPcs == {"confirm", "confirmed", "verify", "verified", "set", "reverify",
               "reverified", "flattening", "flattened"}
ClosePcs == {"closing", "closed", "logging"}
EntryPcs == {"gated", "opening", "opened"}
Pcs == {"idle", "snapped", "exiting"} \cup EntryPcs \cup ProtectPcs \cup ClosePcs

TypeOK ==
  /\ ex \in 0..MaxSize
  /\ sl \in BOOLEAN
  /\ reg \in {0} \cup Objs
  /\ obj \in [Objs -> [src : {"BOT", "EXTERNAL"},
                       st : {"PENDING", "ACTIVE", "CLOSING", "CLOSED"},
                       qty : -2 * MaxSize .. MaxSize, booked : 0..2]]
  /\ upd \in 0..2
  /\ paused \in BOOLEAN
  /\ lock \in {"no", "ORDER_LOCKED", "EMERGENCY_STOP"}
  /\ task \in [Tasks -> [pc : Pcs, o : {0} \cup Objs, qty : -2 * MaxSize .. MaxSize,
                         full : BOOLEAN, got : Flat .. MaxSize, ok : BOOLEAN]]
  /\ amiss \in BOOLEAN

Init ==
  /\ ex = 0
  /\ sl = FALSE
  /\ reg = 0
  /\ obj = [o \in Objs |-> Blank]
  /\ upd = 0
  /\ paused = FALSE
  /\ lock = "no"
  /\ task = [t \in Tasks |-> Idle]
  /\ amiss = FALSE

-----------------------------------------------------------------------------
(* Helpers.                                                                *)

\* The registered position is one the bot has not closed.
Open == reg # 0 /\ obj[reg].st # "CLOSED"

\* The registered position is one the bot manages, in one of these states.
BotIn(states) == reg # 0 /\ obj[reg].src = "BOT" /\ obj[reg].st \in states

\* has_bot_order_settling_for_symbol.
Settling == upd > 0 \/ \E r \in Recs : task[r].pc \in {"flattening", "flattened"}

Becomes(t, r) == task' = [task EXCEPT ![t] = r]
Goes(t, pc) == Becomes(t, [task[t] EXCEPT !.pc = pc, !.got = 0, !.ok = FALSE])

\* A new object takes the place of the registered one, which lives on while a
\* task refers to it.
Register(src, st, qty) ==
  LET used == {task[t].o : t \in Tasks}
      new == Min(Objs \ used)
  IN  /\ reg' = new
      /\ obj' = [o \in Objs |->
                   IF o = new
                   THEN [src |-> src, st |-> st, qty |-> qty, booked |-> 0]
                   ELSE IF o \in used THEN obj[o] ELSE Blank]

\* The objects that something other than task t refers to.
Kept(t, positions) ==
  [o \in Objs |-> IF o = reg \/ \E u \in Tasks \ {t} : task[u].o = o
                  THEN positions[o] ELSE Blank]

\* Mutant: a handler that raises keeps its update open.
Bug_Finish(t, positions) ==
  /\ Becomes(t, Idle)
  /\ obj' = Kept(t, positions)
  /\ UNCHANGED upd

\* A task is done; entries and closes end their position update.
Finish(t, positions) ==
  /\ Becomes(t, Idle)
  /\ obj' = Kept(t, positions)
  /\ upd' = IF t \in Recs THEN upd ELSE upd - 1

\* The exchange position shrinks to size n; a flat position has no stop.
Shrinks(n) == ex' = n /\ sl' = (sl /\ n > 0)

\* What this step does belongs to the events that amiss remembers.
Notes(event) == amiss' = (amiss \/ event)

-----------------------------------------------------------------------------
(* evaluate_entry.                                                         *)

\* _pre_gate and RiskManager.approve, up to the await of the order book.
Approve ==
  /\ task["loop"].pc = "idle"
  /\ lock = "no"
  /\ ~paused
  /\ ~BotIn({"ACTIVE", "PENDING"})
  /\ Goes("loop", "gated")
  /\ UNCHANGED <<ex, sl, reg, obj, upd, paused, lock, amiss>>

\* begin_position_update and the entry order.
SendEntry ==
  /\ task["loop"].pc = "gated"
  /\ upd' = upd + 1
  /\ Goes("loop", "opening")
  /\ UNCHANGED <<ex, sl, reg, obj, paused, lock, amiss>>

\* The exchange executes the entry order, or lets it expire.  Amiss: it is
\* executed while a record is still open, which it will replace.
FillEntry ==
  /\ task["loop"].pc = "opening"
  /\ \E f \in IF "partial" \in Faults THEN 0..Lots ELSE {0, Lots} :
       /\ ex + f <= MaxSize
       /\ ex' = ex + f
       /\ sl' \in {sl \/ f > 0} \cup IF "unattached" \in Faults THEN {sl} ELSE {}
       /\ Becomes("loop", [task["loop"] EXCEPT !.pc = "opened", !.got = f])
       /\ Notes(f > 0 /\ Open)
  /\ UNCHANGED <<reg, obj, upd, paused, lock>>

\* No fill: nothing is registered.
EntryUnfilled ==
  /\ task["loop"].pc = "opened"
  /\ task["loop"].got = 0
  /\ Finish("loop", obj)
  /\ UNCHANGED <<ex, sl, reg, paused, lock, amiss>>

\* executor.open raises, whatever the exchange did.  Amiss: it had executed
\* the order.
EntryRaises ==
  /\ "lost" \in Faults
  /\ task["loop"].pc \in {"opening", "opened"}
  /\ Finish("loop", obj)
  /\ Notes(task["loop"].pc = "opened" /\ task["loop"].got > 0)
  /\ UNCHANGED <<ex, sl, reg, paused, lock>>

\* The fill becomes the registered PENDING position, whatever was there.
EntryFilled ==
  /\ task["loop"].pc = "opened"
  /\ task["loop"].got > 0
  /\ Register("BOT", "PENDING", task["loop"].got)
  /\ Becomes("loop", [Idle EXCEPT !.pc = "confirm", !.o = reg'])
  /\ UNCHANGED <<ex, sl, upd, paused, lock, amiss>>

-----------------------------------------------------------------------------
(* PositionProtectionManager.protect, by the trading loop after an entry   *)
(* and by a reconciliation after a quantity mismatch.  Its answers are used *)
(* as they came, whatever has happened since.                              *)

\* _confirm_position asks for the position; a failing request is ignored.
Confirm(t) ==
  /\ task[t].pc = "confirm"
  /\ \E s \in {ex} \cup IF "error" \in Faults THEN {0} ELSE {} :
       Becomes(t, [task[t] EXCEPT !.pc = "confirmed", !.got = s])
  /\ UNCHANGED <<ex, sl, reg, obj, upd, paused, lock, amiss>>

\* _confirm_position trusts a size that the exchange reports.  Amiss: it is
\* not that of the record, because an exit of the bot has been executed.
Confirmed(t) ==
  /\ task[t].pc = "confirmed"
  /\ obj' = IF task[t].got > 0
            THEN [obj EXCEPT ![task[t].o].qty = task[t].got] ELSE obj
  /\ Goes(t, "verify")
  /\ LET p == obj[task[t].o]
     IN  Notes(task[t].got > 0 /\ p.st # "CLOSED" /\ p.qty # task[t].got)
  /\ UNCHANGED <<ex, sl, reg, upd, paused, lock>>

\* The last query of _verify, before or after set_trading_stop.
Verify(t) ==
  /\ task[t].pc \in {"verify", "reverify"}
  /\ \E ok \in {sl} \cup IF "mismatch" \in Faults THEN {FALSE} ELSE {} :
       Becomes(t, [task[t] EXCEPT
         !.pc = IF @ = "verify" THEN "verified" ELSE "reverified", !.ok = ok])
  /\ UNCHANGED <<ex, sl, reg, obj, upd, paused, lock, amiss>>

\* Mutant: the answer is not looked at once the stop has been set.
Bug_Activate(t) ==
  /\ task[t].pc \in {"verified", "reverified"}
  /\ task[t].ok \/ task[t].pc = "reverified"
  /\ Finish(t, [obj EXCEPT ![task[t].o].st = "ACTIVE"])
  /\ Notes(obj[task[t].o].st = "CLOSED")
  /\ UNCHANGED <<ex, sl, reg, paused, lock>>

\* _activate, without a look at the status the position has by now.  Amiss:
\* it had been closed.
Activate(t) ==
  /\ task[t].pc \in {"verified", "reverified"}
  /\ task[t].ok
  /\ Finish(t, [obj EXCEPT ![task[t].o].st = "ACTIVE"])
  /\ Notes(obj[task[t].o].st = "CLOSED")
  /\ UNCHANGED <<ex, sl, reg, paused, lock>>

\* The stop is missing: set it.
Unverified(t) ==
  /\ task[t].pc = "verified"
  /\ ~task[t].ok
  /\ Goes(t, "set")
  /\ UNCHANGED <<ex, sl, reg, obj, upd, paused, lock, amiss>>

SetStop(t) ==
  /\ task[t].pc = "set"
  /\ ex > 0
  /\ sl' \in {TRUE} \cup IF "unattached" \in Faults THEN {sl} ELSE {}
  /\ Goes(t, "reverify")
  /\ UNCHANGED <<ex, reg, obj, upd, paused, lock, amiss>>

\* set_trading_stop raises (always, on a flat position); so does protect.
SetStopRaises(t) ==
  /\ task[t].pc = "set"
  /\ "setstop" \in Faults \/ ex = 0
  /\ Finish(t, obj)
  /\ UNCHANGED <<ex, sl, reg, paused, lock, amiss>>

\* A query of _verify raises, or the event that comes before the resync or
\* before the emergency order; so does protect.
ProtectRaises(t) ==
  /\ "error" \in Faults
  /\ \/ task[t].pc \in {"verify", "reverify"}
     \/ task[t].pc = "reverified" /\ ~task[t].ok
     \/ task[t].pc = "confirm" /\ t \in Recs
  /\ Finish(t, obj)
  /\ UNCHANGED <<ex, sl, reg, paused, lock, amiss>>

\* _emergency_close sends its reduce-only market order.
Flatten(t) ==
  /\ task[t].pc = "reverified"
  /\ ~task[t].ok
  /\ Becomes(t, [task[t] EXCEPT !.pc = "flattening", !.qty = obj[task[t].o].qty])
  /\ UNCHANGED <<ex, sl, reg, obj, upd, paused, lock, amiss>>

\* Any fill closes the record; the entry path also locks the state machine,
\* unless the event of the emergency close raises.
Flattened(t) ==
  /\ task[t].pc = "flattened"
  /\ task[t].got # Flat
  /\ \/ lock' = IF t \in Recs THEN lock
                ELSE IF task[t].got > 0 THEN "ORDER_LOCKED" ELSE "EMERGENCY_STOP"
     \/ "error" \in Faults /\ task[t].got > 0 /\ UNCHANGED lock
  /\ Finish(t, IF task[t].got > 0
               THEN [obj EXCEPT ![task[t].o].st = "CLOSED"] ELSE obj)
  /\ UNCHANGED <<ex, sl, reg, paused, amiss>>

\* place_exit raises; so does protect.
FlattenRaises(t) ==
  /\ \/ task[t].pc = "flattened" /\ task[t].got = Flat
     \/ /\ task[t].pc \in {"flattening", "flattened"}
        /\ "error" \in Faults \/ task[t].qty <= 0
  /\ Finish(t, obj)
  /\ UNCHANGED <<ex, sl, reg, paused, lock, amiss>>

-----------------------------------------------------------------------------
(* manage, close_position and _close.                                      *)

SendClose(t, o, q, full) ==
  /\ upd' = upd + 1
  /\ Becomes(t, [Idle EXCEPT !.pc = "closing", !.o = o, !.qty = q, !.full = full])

\* manage decides an EXIT: PositionManager._exit sets CLOSING.  Events that
\* come before the exit are awaited.
Exit ==
  /\ task["loop"].pc = "idle"
  /\ BotIn({"ACTIVE"})
  /\ obj' = [obj EXCEPT ![reg].st = "CLOSING"]
  /\ Becomes("loop", [Idle EXCEPT !.pc = "exiting", !.o = reg])
  /\ UNCHANGED <<ex, sl, reg, upd, paused, lock, amiss>>

\* The exit order is for all that the record holds by now, whatever its status.
SendExit ==
  /\ task["loop"].pc = "exiting"
  /\ LET o == task["loop"].o IN SendClose("loop", o, obj[o].qty, TRUE)
  /\ UNCHANGED <<ex, sl, reg, obj, paused, lock, amiss>>

\* An event before the exit raises.
ExitUnsent ==
  /\ "error" \in Faults
  /\ task["loop"].pc = "exiting"
  /\ Becomes("loop", Idle)
  /\ obj' = Kept("loop", obj)
  /\ UNCHANGED <<ex, sl, reg, upd, paused, lock, amiss>>

\* manage, PARTIAL_TP, REDUCE and the funding reduction.
Reduce ==
  /\ task["loop"].pc = "idle"
  /\ BotIn({"ACTIVE"})
  /\ \E q \in 1 .. obj[reg].qty - 1 : SendClose("loop", reg, q, FALSE)
  /\ UNCHANGED <<ex, sl, reg, obj, paused, lock, amiss>>

\* close_position, for CLOSE_POSITION and for STOP with close_positions.
Command ==
  /\ task["cmd"].pc = "idle"
  /\ BotIn({"ACTIVE", "PENDING"})
  /\ \E q \in 1 .. obj[reg].qty :
       /\ PartialCommands \/ q = obj[reg].qty
       /\ SendClose("cmd", reg, q, q = obj[reg].qty)
  /\ UNCHANGED <<ex, sl, reg, obj, paused, lock, amiss>>

\* The exchange executes a reduce-only market order.  Amiss: the record
\* it was sent for is closed, or it was to close the position and leaves a part.
Execute(t) ==
  /\ task[t].pc \in {"closing", "flattening"}
  /\ LET done == IF task[t].pc = "closing" THEN "closed" ELSE "flattened"
         most == Min({task[t].qty, ex})
     IN  IF ex = 0
         THEN /\ Becomes(t, [task[t] EXCEPT !.pc = done, !.got = Flat])
              /\ UNCHANGED <<ex, sl, amiss>>
         ELSE \E f \in IF "partial" \in Faults THEN 0..most ELSE {most} :
                /\ task[t].qty > 0
                /\ Shrinks(ex - f)
                /\ Becomes(t, [task[t] EXCEPT !.pc = done, !.got = f])
                /\ Notes(f > 0 /\ \/ obj[task[t].o].st = "CLOSED"
                                  \/ (task[t].full \/ done = "flattened") /\ f < ex)
  /\ UNCHANGED <<reg, obj, upd, paused, lock>>

\* What _close makes of an answer that is not empty.
Closed(p, got, full) ==
  IF got = Flat THEN [p EXCEPT !.st = "CLOSED", !.qty = 0]
  ELSE [p EXCEPT !.qty = @ - got,
                 !.st = IF full \/ p.qty <= got THEN "CLOSED" ELSE @]

\* Nothing was filled, or the position has been closed in the meantime.
CloseIgnored(t) ==
  /\ task[t].pc = "closed"
  /\ task[t].got = 0 \/ obj[task[t].o].st = "CLOSED"
  /\ Finish(t, obj)
  /\ UNCHANGED <<ex, sl, reg, paused, lock, amiss>>

\* Mutant: _close and _mark_exchange_already_flat do not look for CLOSED.
Bug_CloseReturns(t) ==
  LET o == task[t].o IN
  /\ task[t].pc = "closed"
  /\ task[t].got # 0
  /\ obj' = [obj EXCEPT ![o] = Closed(@, task[t].got, task[t].full)]
  /\ Becomes(t, [task[t] EXCEPT !.pc = "logging"])
  /\ Notes(/\ obj'[o].st = "CLOSED"
           /\ \E u \in Tasks \ {t} : task[u].pc = "logging" /\ task[u].o = o)
  /\ UNCHANGED <<ex, sl, reg, upd, paused, lock>>

\* The answer goes into the record, and the record is logged.  Amiss: another
\* task is logging its own part of the position that is closed here.
CloseReturns(t) ==
  LET o == task[t].o IN
  /\ task[t].pc = "closed"
  /\ task[t].got # 0 /\ obj[o].st # "CLOSED"
  /\ obj' = [obj EXCEPT ![o] = Closed(@, task[t].got, task[t].full)]
  /\ Becomes(t, [task[t] EXCEPT !.pc = "logging"])
  /\ Notes(/\ obj'[o].st = "CLOSED"
           /\ \E u \in Tasks \ {t} : task[u].pc = "logging" /\ task[u].o = o)
  /\ UNCHANGED <<ex, sl, reg, upd, paused, lock>>

\* The result goes to cooldown and kill switch if the position is closed by
\* now (the count saturates at 2).
Book(t) ==
  LET o == task[t].o IN
  /\ task[t].pc = "logging"
  /\ Finish(t, IF obj[o].st = "CLOSED" \/ task[t].got = Flat
               THEN [obj EXCEPT ![o].booked = Min({2, @ + 1})] ELSE obj)
  /\ UNCHANGED <<ex, sl, reg, paused, lock, amiss>>

\* executor.close raises something else (always, on an empty order), or a log
\* does; the status stays as it is.  Amiss: a reduction had been executed.
CloseRaises(t) ==
  /\ task[t].pc \in ClosePcs
  /\ "error" \in Faults \/ (task[t].pc # "logging" /\ task[t].qty <= 0)
  /\ Finish(t, obj)
  /\ Notes(task[t].pc = "closed" /\ task[t].got > 0 /\ ~task[t].full)
  /\ UNCHANGED <<ex, sl, reg, paused, lock>>

-----------------------------------------------------------------------------
(* ReconciliationManager._reconcile_positions.                             *)

\* get_positions is answered with what the exchange holds now ...
Snapshot(r) ==
  /\ task[r].pc = "idle"
  /\ Becomes(r, [Idle EXCEPT !.pc = "snapped", !.got = ex])
  /\ UNCHANGED <<ex, sl, reg, obj, upd, paused, lock, amiss>>

\* ... and used when the task runs again.  Amiss: something is done about an
\* answer that the exchange has overtaken.
Overtaken(r) == task[r].got # ex

\* Mutant: a settling order is not taken into account.
Bug_Adopt(r) ==
  /\ task[r].pc = "snapped"
  /\ task[r].got > 0
  /\ ~Open
  /\ Register("EXTERNAL", "ACTIVE", task[r].got)
  /\ paused' = TRUE
  /\ Becomes(r, Idle)
  /\ Notes(Overtaken(r))
  /\ UNCHANGED <<ex, sl, upd, lock>>

\* handle_external_position.
Adopt(r) ==
  /\ task[r].pc = "snapped"
  /\ task[r].got > 0
  /\ ~Open
  /\ ~Settling
  /\ Register("EXTERNAL", "ACTIVE", task[r].got)
  /\ paused' = TRUE
  /\ Becomes(r, Idle)
  /\ Notes(Overtaken(r))
  /\ UNCHANGED <<ex, sl, upd, lock>>

\* An adopted position is kept in step.
SyncAdopted(r) ==
  /\ task[r].pc = "snapped"
  /\ task[r].got > 0
  /\ Open
  /\ obj[reg].src = "EXTERNAL"
  /\ obj' = [obj EXCEPT ![reg].qty = task[r].got]
  /\ Becomes(r, Idle)
  /\ UNCHANGED <<ex, sl, reg, upd, paused, lock, amiss>>

\* Mutant: the bot's own exit in flight passes for a manual one.
Bug_Mismatch(r) ==
  /\ task[r].pc = "snapped"
  /\ task[r].got > 0
  /\ BotIn({"PENDING", "ACTIVE", "CLOSING"})
  /\ obj[reg].qty # task[r].got
  /\ obj' = [obj EXCEPT ![reg].qty = task[r].got]
  /\ paused' = TRUE
  /\ Becomes(r, [Idle EXCEPT !.pc = "confirm", !.o = reg])
  /\ Notes(Overtaken(r))
  /\ UNCHANGED <<ex, sl, reg, upd, lock>>

\* handle_qty_mismatch, up to the protection resync it awaits.
Mismatch(r) ==
  /\ task[r].pc = "snapped"
  /\ task[r].got > 0
  /\ BotIn({"PENDING", "ACTIVE", "CLOSING"})
  /\ obj[reg].qty # task[r].got
  /\ ~Settling
  /\ obj' = [obj EXCEPT ![reg].qty = task[r].got]
  /\ paused' = TRUE
  /\ Becomes(r, [Idle EXCEPT !.pc = "confirm", !.o = reg])
  /\ Notes(Overtaken(r))
  /\ UNCHANGED <<ex, sl, reg, upd, lock>>

\* handle_bot_exchange_close (nothing is booked) and handle_external_close.
Gone(r) ==
  /\ task[r].pc = "snapped"
  /\ task[r].got = 0
  /\ Open
  /\ ~Settling
  /\ obj' = [obj EXCEPT ![reg].st = "CLOSED", ![reg].qty = 0]
  /\ paused' = (paused \/ obj[reg].src = "EXTERNAL")
  /\ Becomes(r, Idle)
  /\ Notes(Overtaken(r))
  /\ UNCHANGED <<ex, sl, reg, upd, lock>>

\* In step, or settling: nothing to do.
Leave(r) ==
  /\ task[r].pc = "snapped"
  /\ \/ task[r].got = 0 /\ ~Open
     \/ Settling /\ ~(Open /\ obj[reg].src = "EXTERNAL" /\ task[r].got > 0)
     \/ BotIn({"PENDING", "ACTIVE", "CLOSING"}) /\ obj[reg].qty = task[r].got
  /\ Becomes(r, Idle)
  /\ UNCHANGED <<ex, sl, reg, obj, upd, paused, lock, amiss>>

-----------------------------------------------------------------------------
(* The surroundings.                                                       *)

\* The exchange triggers the stop.
StopFires ==
  /\ ex > 0
  /\ sl
  /\ Shrinks(0)
  /\ UNCHANGED <<reg, obj, upd, paused, lock, task, amiss>>

\* A user of the account buys or sells a lot.
UserTrades ==
  /\ "user" \in Faults
  /\ \/ ex < MaxSize /\ ex' = ex + 1 /\ UNCHANGED sl
     \/ ex > 0 /\ Shrinks(ex - 1)
  /\ Notes(TRUE)
  /\ UNCHANGED <<reg, obj, upd, paused, lock, task>>

PauseExpires ==
  /\ paused
  /\ paused' = FALSE
  /\ UNCHANGED <<ex, sl, reg, obj, upd, lock, task, amiss>>

Enter == Approve \/ SendEntry \/ FillEntry \/ EntryUnfilled \/ EntryRaises \/ EntryFilled

Protect(t) ==
  \/ Confirm(t) \/ Confirmed(t) \/ Verify(t) \/ Activate(t) \/ Unverified(t)
  \/ SetStop(t) \/ SetStopRaises(t) \/ ProtectRaises(t)
  \/ Flatten(t) \/ Flattened(t) \/ FlattenRaises(t)

Manage == Exit \/ SendExit \/ ExitUnsent \/ Reduce

Close(t) == Execute(t) \/ CloseIgnored(t) \/ CloseReturns(t) \/ Book(t) \/ CloseRaises(t)

Reconcile(r) ==
  Snapshot(r) \/ Adopt(r) \/ SyncAdopted(r) \/ Mismatch(r) \/ Gone(r) \/ Leave(r)

Next ==
  \/ Enter
  \/ Manage \/ Command
  \/ \E t \in Tasks : Protect(t) \/ Close(t)
  \/ \E r \in Recs : Reconcile(r)
  \/ StopFires \/ UserTrades \/ PauseExpires

Spec == Init /\ [][Next]_vars

-----------------------------------------------------------------------------
(* Properties.                                                             *)

\* Whenever no update is open, the record and the exchange agree: an open
\* position of the bot is on the exchange in full or was stopped out, and
\* without one the exchange is flat.  This is what makes it safe for
\* reconciliation to read every difference as somebody else's doing.
InStep ==
  ~amiss /\ ~Settling =>
    IF BotIn({"PENDING", "ACTIVE", "CLOSING"}) THEN ex \in {0, obj[reg].qty} ELSE ex = 0

\* Two closers, the exchange's stop and "already flat" answers may race, but
\* a position's result reaches cooldown and kill switch at most once.
BookedOnce == ~amiss => \A o \in Objs : obj[o].booked <= 1

\* Reconciliation takes for a foreign position only what the bot did not open
\* (handle_external_position): while nobody else trades, it adopts nothing.
AdoptsOnlyForeign == ~amiss => \A o \in Objs : obj[o].src # "EXTERNAL"

\* An ACTIVE position of the bot that the exchange still holds carries its
\* stop loss (require_tpsl_after_entry), however its protection and its
\* exits went.
ActiveIsProtected == ~amiss /\ BotIn({"ACTIVE"}) /\ ex > 0 => sl

\* Where a task has no position update open.
QuietPcs == {"idle", "gated", "exiting"}

\* The updates that task t has begun and not ended.
Updates(t) == IF task[t].pc \in QuietPcs THEN 0 ELSE 1

\* Every update that an entry or a close opens is open exactly as long as
\* that task is inside it, so reconciliation is never shut out for good and
\* never let in too early.
UpdatesBalanced == upd = Updates("loop") + Updates("cmd")

-----------------------------------------------------------------------------
(* What the documentation says and the code does not do.                   *)

\* manual_intervention_handler.py:60: an external position is one "the bot did
\* not open", so nothing is adopted while nobody but the bot trades.
AdoptsNoneOfItsOwn == \A o \in Objs : obj[o].src # "EXTERNAL"

\* handle_bot_exchange_close closes the record of a position that "is already
\* flat on Bybit".
GoneMeansFlat ==
  [][(\E r \in Recs : task[r].pc = "snapped" /\ task'[r].pc = "idle")
       /\ BotIn({"PENDING", "ACTIVE", "CLOSING"}) /\ obj'[reg].st = "CLOSED"
     => ex = 0]_vars

\* An adopted position that is still open is not auto-managed: it is never
\* replaced by a position of the bot.
AdoptedStaysAdopted ==
  [][Open /\ obj[reg].src = "EXTERNAL"
     => reg' = reg /\ obj'[reg].src = "EXTERNAL"]_vars

\* After an emergency close the state machine is ORDER_LOCKED or in
\* EMERGENCY_STOP, whoever asked for the protection.
EmergencyCloseLocks ==
  [][\A t \in Tasks : task[t].pc = "flattened" /\ task[t].got # Flat
       /\ task'[t].pc = "idle" => lock' # "no"]_vars

\* "Position flattened -> ORDER_LOCKED": the lock stands for a flat position.
LockedMeansFlat == lock = "ORDER_LOCKED" => ex = 0

\* A stop that cannot be set on an open position stops new entries.
SetFailureStopsEntries ==
  [][\A t \in Tasks : task[t].pc = "set" /\ task'[t].pc = "idle" /\ ex > 0
       => lock' # "no" \/ paused']_vars
=============================================================================
