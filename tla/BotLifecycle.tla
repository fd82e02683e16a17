---------------------------- MODULE BotLifecycle ----------------------------
(***************************************************************************)
(* The control plane of the Bot Engine: the API routes that accept user    *)
(* commands, the Redis command list, and the asyncio tasks of one          *)
(* BotRuntime that share the BotStateMachine -- command loop,              *)
(* reconciliation loop, PnL loop, private-event and WebSocket-recovery     *)
(* tasks, the trading loop's entry path, and shutdown.                     *)
(*                                                                         *)
(* asyncio runs one task at a time and switches only at an await, so an    *)
(* action is what a task does between two awaits; a task that is           *)
(* suspended in an await is a program counter other than "idle".           *)
(* Positions and orders are abstracted here to what they do to the state   *)
(* machine; PositionSync models them.                                      *)
(***************************************************************************)
EXTENDS Integers, Sequences, BotStateMachine

CONSTANTS
  WsTasks,      \* WebSocket disconnect callbacks that may be in flight
  ReconcileTasks, \* who reconciles besides: the "loop", and the "event"s of
                \* the private WebSocket
  Commands,     \* the command types users send in this instance
  MaxCommands,  \* bound: commands sent over the whole behaviour
  MaxRuns,      \* bound: process starts (the container restarts the bot)
  Faults        \* what may raise: "reconcile" and "recover", reconcile_once
                \* of a WebSocket recovery ("recover") or of anyone else;
                \* "publish", the events that a command was received or has
                \* failed, and the beat of START_BOT; "announce", the event
                \* that the kill switch tripped; "close", the closing of the
                \* positions by STOP_BOT

\* "STOP_CLOSE" is a STOP_BOT whose payload asks for close_positions.
CommandTypes == {"START", "STOP", "STOP_CLOSE", "PAUSE", "RESUME", "RELOAD", "SYNC"}

ASSUME ConstantsAssumption ==
  /\ ReconcileTasks \subseteq {"loop", "event"}
  /\ Commands \subseteq CommandTypes
  /\ MaxCommands \in Nat
  /\ MaxRuns \in Nat
  /\ Faults \subseteq {"reconcile", "recover", "publish", "announce", "close"}

VARIABLES
  state,      \* BotStateMachine._state
  main,       \* BotRuntime.run: "booting", "serving", "stopping", "down"
  shutdown,   \* BotRuntime._shutdown, the asyncio.Event
  published,  \* Redis bot:status as the API reads it; "NONE" before any
  queue,      \* Redis list commands:bot, oldest first; survives the process
  sent,       \* number of commands accepted by the API so far
  cmd,        \* command loop: "idle", "starting", "syncing", "stopping",
              \* "closing" (a stop that closes the positions), or "dead"
              \* once cancelled or killed by an exception
  rec,        \* ReconcileTasks -> "idle", "busy", "announcing" a trip, "dead"
  pnl,        \* PnL loop: "idle", "announcing" a trip, "dead"
  ws,         \* WsTasks -> [pc, resume]: resume is the local was_running
  trader,     \* entry in the trading loop: [pc, old]; old: RELOAD_CONFIG
              \* rebuilt the trading modules while this entry was in flight
  breach,     \* a threshold of the current GlobalKillSwitch is reached
  told,       \* _last_kill_switch_trip_reason is the reason of that breach,
              \* or will be that of the next one
  started,    \* history: this process has executed a START_BOT
  late,       \* history: entry orders sent since the state left RUNNING
  runs        \* process starts so far

vars == <<state, main, shutdown, published, queue, sent, cmd, rec, pnl, ws,
          trader, breach, told, started, late, runs>>

\* What the tasks share and few actions change.
process == <<main, shutdown, runs>>
api == <<published, queue, sent>>

IdleWs == [pc |-> "idle", resume |-> FALSE]
IdleTrader == [pc |-> "idle", old |-> FALSE]

TypeOK ==
  /\ state \in States
  /\ main \in {"booting", "serving", "stopping", "down"}
  /\ shutdown \in BOOLEAN
  /\ published \in States \cup {"NONE"}
  /\ queue \in Seq(Commands)
  /\ sent \in 0..MaxCommands
  /\ cmd \in {"idle", "starting", "syncing", "stopping", "closing", "dead"}
  /\ rec \in [ReconcileTasks -> {"idle", "busy", "announcing", "dead"}]
  /\ pnl \in {"idle", "announcing", "dead"}
  /\ ws \in [WsTasks -> [pc : {"idle", "announcing", "recovering"}, resume : BOOLEAN]]
  /\ trader \in [pc : {"idle", "approved", "ordered", "dead"}, old : BOOLEAN]
  /\ breach \in BOOLEAN
  /\ told \in BOOLEAN
  /\ started \in BOOLEAN
  /\ late \in Nat
  /\ runs \in Nat

Init ==
  /\ state = "BOOTING"
  /\ main = "booting"
  /\ shutdown = FALSE
  /\ published = "NONE"
  /\ queue = <<>>
  /\ sent = 0
  /\ cmd = "idle"
  /\ rec = [r \in ReconcileTasks |-> "idle"]
  /\ pnl = "idle"
  /\ ws = [w \in WsTasks |-> IdleWs]
  /\ trader = IdleTrader
  /\ breach = FALSE
  /\ told = FALSE
  /\ started = FALSE
  /\ late = 0
  /\ runs = 1

\* The process exists and its event loop runs tasks.
Alive == main \in {"serving", "stopping"}

\* The outcomes of awaiting a call of the given kind: it returns, and where
\* the instance lets that kind fail, it raises.
Outcomes(kind) == IF kind \in Faults THEN {TRUE, FALSE} ELSE {TRUE}

\* BotStateMachine.transition and force.  The history counts the entry orders
\* sent since RUNNING was last left.
Enter(s) ==
  /\ state' = s
  /\ late' = IF s = "RUNNING" THEN 0 ELSE late

-----------------------------------------------------------------------------
(* The API.                                                                *)

\* Route guards of apps/api/routers/bot.py, on the status last published.  The
\* age of the heartbeat is left out: a stale status may still count as alive.
Accepts(c) ==
  CASE c = "START"  -> published \in {"NONE", "STANDBY", "PAUSED", "STOPPED"}
    [] c = "PAUSE"  -> published = "RUNNING"
    [] c = "RESUME" -> published = "PAUSED"
    [] OTHER        -> TRUE

\* command_service.dispatch: LPUSH of an accepted command.
ApiSend(c) ==
  /\ sent < MaxCommands
  /\ Accepts(c)
  /\ queue' = Append(queue, c)
  /\ sent' = sent + 1
  /\ UNCHANGED <<state, late, process, published, cmd, rec, pnl, ws, trader, breach,
                 told, started>>

-----------------------------------------------------------------------------
(* Kill switch.                                                            *)

\* Mutant: the trip locks the bot from any state.
Bug_AfterTrip(s, tripped) == IF tripped THEN "RISK_LOCKED" ELSE s

\* The end of _apply_kill_switch_trip: the state it leaves behind.
AfterTrip(s, tripped) == IF tripped /\ s = "RUNNING" THEN "RISK_LOCKED" ELSE s

\* A reason that was not announced before is announced, which is awaited.
Announces(tripped) == tripped /\ ~told

\* _apply_kill_switch_trip up to that await, or to its end where there is none.  The
\* reason is remembered before it is announced.
Evaluated(tripped) ==
  /\ breach' = tripped
  /\ told' = (told \/ tripped)
  /\ Enter(IF Announces(tripped) THEN state ELSE AfterTrip(state, tripped))

\* The rest of _apply_kill_switch_trip, with the reason that evaluate returned before the
\* await.  An announcement that raises skips the look at the state, this time.
Announced ==
  /\ \E ok \in Outcomes("announce") : Enter(AfterTrip(state, ok))
  /\ UNCHANGED <<breach, told>>

-----------------------------------------------------------------------------
(* Process start.                                                          *)

\* startup: reconcile once, then STANDBY and a first heartbeat.  A startup
\* that raises ends the process with the state machine still in BOOTING.
Boot ==
  /\ main = "booting"
  /\ \E ok \in Outcomes("reconcile"), mismatch \in BOOLEAN :
       IF ok
       THEN /\ Enter("STANDBY")
            /\ published' = "STANDBY"
            /\ breach' = mismatch
            /\ main' = "serving"
       ELSE /\ main' = "down"
            /\ UNCHANGED <<state, late, published, breach>>
  /\ UNCHANGED <<shutdown, runs, queue, sent, cmd, rec, pnl, ws, trader, told, started>>

\* The container runtime starts the process again; Redis is untouched.
Restart ==
  /\ main = "down"
  /\ runs < MaxRuns
  /\ runs' = runs + 1
  /\ Enter("BOOTING")
  /\ main' = "booting"
  /\ shutdown' = FALSE
  /\ cmd' = "idle"
  /\ rec' = [r \in ReconcileTasks |-> "idle"]
  /\ pnl' = "idle"
  /\ ws' = [w \in WsTasks |-> IdleWs]
  /\ trader' = IdleTrader
  /\ breach' = FALSE
  /\ told' = FALSE
  /\ started' = FALSE
  /\ UNCHANGED api

-----------------------------------------------------------------------------
(* Command loop.                                                           *)

\* _dispatch of START_BOT: only from STANDBY; two transitions, then the await
\* of the pre-start reconciliation.
DispatchStart ==
  /\ IF state = "STANDBY"
     THEN Enter("SYNCING") /\ cmd' = "starting" /\ started' = TRUE
     ELSE UNCHANGED <<state, late, cmd, started>>
  /\ UNCHANGED <<trader, breach, told>>

\* _dispatch of PAUSE_TRADING and RESUME_TRADING: each acts in one state and
\* is silently dropped in every other.
DispatchPause ==
  /\ Enter(IF state = "RUNNING" THEN "PAUSED" ELSE state)
  /\ UNCHANGED <<cmd, trader, breach, told, started>>

\* Mutant of RESUME_TRADING: no check of the current state.
Bug_DispatchResume ==
  /\ Enter("RUNNING")
  /\ UNCHANGED <<cmd, trader, breach, told, started>>

DispatchResume ==
  /\ Enter(IF state = "PAUSED" THEN "RUNNING" ELSE state)
  /\ UNCHANGED <<cmd, trader, breach, told, started>>

\* _reload_config rebuilds the kill switch and the trading service; an entry
\* already in flight keeps reporting to the discarded ones.  The reason that was last
\* announced is remembered; the new switch may trip for the same one or for another.
DispatchReload ==
  /\ breach' = FALSE
  /\ told' \in {told, FALSE}
  /\ trader' = [trader EXCEPT !.old = trader.pc \in {"approved", "ordered"}]
  /\ UNCHANGED <<state, late, cmd, started>>

\* SYNC_NOW and STOP_BOT await before they change anything.
DispatchAwait(pc) ==
  /\ cmd' = pc
  /\ UNCHANGED <<state, late, trader, breach, told, started>>

Dispatch(c) ==
  \/ c = "START"      /\ DispatchStart
  \/ c = "STOP"       /\ DispatchAwait("stopping")
  \/ c = "STOP_CLOSE" /\ DispatchAwait("closing")
  \/ c = "SYNC"       /\ DispatchAwait("syncing")
  \/ c = "PAUSE"      /\ DispatchPause
  \/ c = "RESUME"     /\ DispatchResume
  \/ c = "RELOAD"     /\ DispatchReload

\* _command_loop: BRPOP, handle_command, _dispatch.  The COMMAND_RECEIVED
\* publish stands outside handle_command's try, so if it raises the loop's
\* task ends and no later command is read.
ConsumeCommand ==
  /\ main = "serving"
  /\ cmd = "idle"
  /\ queue # <<>>
  /\ queue' = Tail(queue)
  /\ \/ Dispatch(Head(queue))
     \/ /\ "publish" \in Faults
        /\ cmd' = "dead"
        /\ UNCHANGED <<state, late, trader, breach, told, started>>
  /\ UNCHANGED <<process, published, sent, rec, pnl, ws>>

\* The end of handle_command.  An exception of _dispatch is swallowed, but the
\* COMMAND_FAILED publish that reports it may raise in its turn and ends the task.
CommandEnds(ok) ==
  \/ cmd' = "idle"
  \/ ~ok /\ "publish" \in Faults /\ cmd' = "dead"

\* The rest of _start_trading.  If reconcile_once raises, or SYNCING was left
\* meanwhile, the state stays what it is.
FinishStart ==
  /\ main = "serving"
  /\ cmd = "starting"
  /\ \E ok \in Outcomes("reconcile"), beat \in Outcomes("publish"), mismatch \in BOOLEAN :
       LET ready == ok /\ CanTransition(state, "READY")
       IN  /\ breach' = (breach \/ (ok /\ mismatch))
           /\ IF ready THEN Enter("RUNNING") ELSE UNCHANGED <<state, late>>
           /\ published' = IF ready /\ beat THEN "RUNNING" ELSE published
           /\ CommandEnds(ready /\ beat)
  /\ UNCHANGED <<process, queue, sent, rec, pnl, ws, trader, told, started>>

\* SYNC_NOW records the result but does not apply the kill switch.
FinishSync ==
  /\ main = "serving"
  /\ cmd = "syncing"
  /\ \E ok \in Outcomes("reconcile"), mismatch \in BOOLEAN :
       /\ breach' = (breach \/ (ok /\ mismatch))
       /\ CommandEnds(ok)
  /\ UNCHANGED <<state, late, process, api, rec, pnl, ws, trader, told, started>>

\* Mutants of _stop_bot: a program point nothing continues from, and a stop
\* that closes up but never requests the shutdown.
Bug_FinishStopPc ==
  /\ main = "serving"
  /\ cmd \in {"stopping", "closing"}
  /\ cmd' = "stopped"
  /\ shutdown' = TRUE
  /\ UNCHANGED <<state, late, main, runs, api, rec, pnl, ws, trader, breach, told,
                 started>>

Bug_FinishStopNoRequest ==
  /\ main = "serving"
  /\ cmd = "stopping"
  /\ cmd' = "idle"
  /\ UNCHANGED <<state, late, process, api, rec, pnl, ws, trader, breach, told, started>>

\* _stop_bot: orders cancelled (failures are logged), positions closed if the payload
\* asks for it, then request_shutdown.  Nothing catches what _close_all_positions raises
\* but handle_command: then the shutdown is not requested.
FinishStop ==
  /\ main = "serving"
  /\ cmd \in {"stopping", "closing"}
  /\ \/ shutdown' = TRUE /\ cmd' = "idle"
     \/ /\ cmd = "closing" /\ CanManage(state) /\ "close" \in Faults
        /\ CommandEnds(FALSE)
        /\ UNCHANGED shutdown
  /\ UNCHANGED <<state, late, main, runs, api, rec, pnl, ws, trader, breach, told,
                 started>>

-----------------------------------------------------------------------------
(* Reconciliation loop, private events, PnL loop, heartbeat.               *)

\* The loop reconciles in four states only; a private WebSocket message makes
\* its own task at any time.
ReconcileBegin(r) ==
  /\ Alive
  /\ rec[r] = "idle"
  /\ r = "loop" => state \in {"RUNNING", "PAUSED", "STANDBY", "RISK_LOCKED"}
  /\ rec' = [rec EXCEPT ![r] = "busy"]
  /\ UNCHANGED <<state, late, process, api, cmd, pnl, ws, trader, breach, told, started>>

\* _record_reconciliation_risk, then _apply_kill_switch_trip, unless
\* reconcile_once raised.
ReconcileEnd(r) ==
  /\ Alive
  /\ rec[r] = "busy"
  /\ \E ok \in Outcomes("reconcile"), mismatch \in BOOLEAN :
       LET tripped == breach \/ mismatch
       IN  IF ok
           THEN /\ Evaluated(tripped)
                /\ rec' = [rec EXCEPT ![r] = IF Announces(tripped) THEN "announcing"
                                             ELSE "idle"]
           ELSE /\ rec' = [rec EXCEPT ![r] = "idle"]
                /\ UNCHANGED <<breach, told, state, late>>
  /\ UNCHANGED <<process, api, cmd, pnl, ws, trader, started>>

ReconcileAnnounced(r) ==
  /\ Alive
  /\ rec[r] = "announcing"
  /\ rec' = [rec EXCEPT ![r] = "idle"]
  /\ Announced
  /\ UNCHANGED <<process, api, cmd, pnl, ws, trader, started>>

\* Mutant: the PnL loop records the loss and leaves the trip to others.
Bug_PnlTick ==
  /\ main = "serving"
  /\ pnl = "idle"
  /\ \E loss \in BOOLEAN : breach' = (breach \/ loss)
  /\ UNCHANGED <<state, late, process, api, cmd, rec, pnl, ws, trader, told, started>>

\* _publish_and_persist_pnl, from update_pnl on.  What precedes it publishes the status
\* (Beat) and writes the database; a tick in which that raises changes nothing more.
PnlTick ==
  /\ main = "serving"
  /\ pnl = "idle"
  /\ \E loss \in BOOLEAN :
       LET tripped == breach \/ loss
       IN  /\ Evaluated(tripped)
           /\ pnl' = IF Announces(tripped) THEN "announcing" ELSE "idle"
  /\ UNCHANGED <<process, api, cmd, rec, ws, trader, started>>

PnlAnnounced ==
  /\ main = "serving"
  /\ pnl = "announcing"
  /\ pnl' = "idle"
  /\ Announced
  /\ UNCHANGED <<process, api, cmd, rec, ws, trader, started>>

\* bot:status is published: by the heartbeat and by the PnL loop.
Beat ==
  /\ main = "serving"
  /\ published' = state
  /\ UNCHANGED <<state, late, process, queue, sent, cmd, rec, pnl, ws, trader, breach,
                 told, started>>

-----------------------------------------------------------------------------
(* WebSocket recovery.                                                     *)

\* _handle_ws_disconnect behind the trip: remember was_running, and leave RUNNING.
Recovers(w, s) ==
  LET running == s = "RUNNING"
  IN  /\ Enter(IF running THEN "RECONCILING" ELSE s)
      /\ ws' = [ws EXCEPT ![w] = [pc |-> "recovering", resume |-> running]]

\* _handle_ws_disconnect once NEW_ENTRIES_PAUSED is published (if that raises, the task
\* ends before it did anything): count the disconnect, apply the trip.
WsDisconnect(w) ==
  /\ Alive
  /\ ws[w].pc = "idle"
  /\ \E threshold \in BOOLEAN :
       LET tripped == breach \/ threshold
       IN  /\ breach' = tripped
           /\ told' = (told \/ tripped)
           /\ IF Announces(tripped)
              THEN /\ ws' = [ws EXCEPT ![w].pc = "announcing"]
                   /\ UNCHANGED <<state, late>>
              ELSE Recovers(w, AfterTrip(state, tripped))
  /\ UNCHANGED <<process, api, cmd, rec, pnl, trader, started>>

\* The trip is announced; an exception ends the task.
WsAnnounced(w) ==
  /\ Alive
  /\ ws[w].pc = "announcing"
  /\ \E ok \in Outcomes("announce") :
       IF ok
       THEN Recovers(w, AfterTrip(state, TRUE))
       ELSE ws' = [ws EXCEPT ![w] = IdleWs] /\ UNCHANGED <<state, late>>
  /\ UNCHANGED <<process, api, cmd, rec, pnl, trader, breach, told, started>>

\* Mutants: the return to RUNNING without the second look at the state, and a
\* recovery that never returns.
Bug_ReturnUnchecked(s, resume) == IF resume THEN "RUNNING" ELSE s
Bug_NoReturn(s, resume) == s

\* The state the recovery of a disconnect seen in RUNNING comes back to.
AfterRecovery(s, resume) ==
  IF resume /\ s = "RECONCILING" THEN "RUNNING" ELSE s

\* The rest of _handle_ws_disconnect.  An exception of reconcile_once ends the
\* task before the transition back.
WsRecovered(w) ==
  /\ Alive
  /\ ws[w].pc = "recovering"
  /\ ws' = [ws EXCEPT ![w] = IdleWs]
  /\ \E ok \in Outcomes("recover"), mismatch \in BOOLEAN :
       IF ok
       THEN /\ breach' = (breach \/ mismatch)
            /\ Enter(AfterRecovery(state, ws[w].resume))
       ELSE UNCHANGED <<breach, state, late>>
  /\ UNCHANGED <<process, api, cmd, rec, pnl, trader, told, started>>

-----------------------------------------------------------------------------
(* The entry path of the trading loop.                                     *)

\* Mutant: no look at the state machine before an entry.
Bug_EntryApproved ==
  /\ main = "serving"
  /\ trader.pc = "idle"
  /\ ~breach
  /\ trader' = [pc |-> "approved", old |-> FALSE]
  /\ UNCHANGED <<state, late, process, api, cmd, rec, pnl, ws, breach, told, started>>

\* _pre_gate and the risk approval pass; the order book is then awaited.
EntryApproved ==
  /\ main = "serving"
  /\ trader.pc = "idle"
  /\ CanEnter(state)
  /\ ~breach
  /\ trader' = [pc |-> "approved", old |-> FALSE]
  /\ UNCHANGED <<state, late, process, api, cmd, rec, pnl, ws, breach, told, started>>

\* _post_gate looks at the entry-mode cooldown, the order book and the clock,
\* not at the state machine; executor.open then sends the order.
EntrySent ==
  /\ main = "serving"
  /\ trader.pc = "approved"
  /\ trader' = [trader EXCEPT !.pc = "ordered"]
  /\ late' = IF CanEnter(state) THEN late ELSE late + 1
  /\ UNCHANGED <<state, process, api, cmd, rec, pnl, ws, breach, told, started>>

\* _post_gate blocks, or set_leverage raises before any order.
EntryDropped ==
  /\ main = "serving"
  /\ trader.pc = "approved"
  /\ trader' = IdleTrader
  /\ UNCHANGED <<state, late, process, api, cmd, rec, pnl, ws, breach, told, started>>

\* The entry resolves: filled and protected; unfilled (an order failure); or
\* protection failed and _transition_after_protection_failure locks the bot,
\* by force when the table has no such transition.
EntryResolved ==
  /\ main = "serving"
  /\ trader.pc = "ordered"
  /\ trader' = IdleTrader
  /\ \E result \in {"filled", "unfilled", "ORDER_LOCKED", "EMERGENCY_STOP"},
        threshold \in BOOLEAN :
       /\ Enter(IF result \in {"ORDER_LOCKED", "EMERGENCY_STOP"}
                THEN result ELSE state)
       /\ breach' = (breach \/ (threshold /\ result # "filled" /\ ~trader.old))
  /\ UNCHANGED <<process, api, cmd, rec, pnl, ws, told, started>>

-----------------------------------------------------------------------------
(* Shutdown.                                                               *)

\* SIGTERM or SIGINT: request_shutdown.
Signal ==
  /\ main = "serving"
  /\ shutdown' = TRUE
  /\ UNCHANGED <<state, late, main, runs, api, cmd, rec, pnl, ws, trader, breach, told,
                 started>>

\* shutdown(), up to the awaits of the cancelled tasks.  Only the loops are in
\* _tasks: WebSocket and private-event tasks run on.
ShutdownBegin ==
  /\ main = "serving"
  /\ shutdown
  /\ main' = "stopping"
  /\ Enter("STOPPING")
  /\ cmd' = "dead"
  /\ rec' = [rec EXCEPT !["loop"] = "dead"]
  /\ pnl' = "dead"
  /\ trader' = [pc |-> "dead", old |-> FALSE]
  /\ UNCHANGED <<shutdown, runs, api, ws, breach, told, started>>

\* The lock is released and STOPPED is forced; run() returns and asyncio.run
\* cancels whatever is left.
ShutdownEnd ==
  /\ main = "stopping"
  /\ main' = "down"
  /\ Enter("STOPPED")
  /\ UNCHANGED <<shutdown, runs, api, cmd, rec, pnl, ws, trader, breach, told, started>>

-----------------------------------------------------------------------------
Next ==
  \/ \E c \in Commands : ApiSend(c)
  \/ Boot
  \/ Restart
  \/ ConsumeCommand
  \/ FinishStart
  \/ FinishSync
  \/ FinishStop
  \/ \E r \in ReconcileTasks : ReconcileBegin(r)
  \/ \E r \in ReconcileTasks : ReconcileEnd(r)
  \/ \E r \in ReconcileTasks : ReconcileAnnounced(r)
  \/ PnlTick
  \/ PnlAnnounced
  \/ Beat
  \/ \E w \in WsTasks : WsDisconnect(w)
  \/ \E w \in WsTasks : WsAnnounced(w)
  \/ \E w \in WsTasks : WsRecovered(w)
  \/ EntryApproved
  \/ EntrySent
  \/ EntryDropped
  \/ EntryResolved
  \/ Signal
  \/ ShutdownBegin
  \/ ShutdownEnd

Spec == Init /\ [][Next]_vars

\* Every await of the program is bounded by a timeout or by the exchange
\* client's retry limit, and the event loop serves its tasks round-robin, so a
\* task that can run does run.  Users, the network and signals owe nothing.
\* Of PnlTick it asks more: that not every tick for ever raises before it gets
\* to update_pnl.  The PnL loop catches the exception and ticks again, so this
\* is the assumption that Redis, the exchange and the database answer in time
\* again.  It is asked where a breach stands: no tick owes the bot a loss.
Fairness ==
  /\ WF_vars(Boot)
  /\ WF_vars(ConsumeCommand)
  /\ WF_vars(FinishStart)
  /\ WF_vars(FinishSync)
  /\ WF_vars(FinishStop)
  /\ \A r \in ReconcileTasks : WF_vars(ReconcileEnd(r)) /\ WF_vars(ReconcileAnnounced(r))
  /\ WF_vars(breach /\ PnlTick)
  /\ WF_vars(PnlAnnounced)
  /\ \A w \in WsTasks : WF_vars(WsAnnounced(w)) /\ WF_vars(WsRecovered(w))
  /\ WF_vars(ShutdownBegin)
  /\ WF_vars(ShutdownEnd)

FairSpec == Spec /\ Fairness

-----------------------------------------------------------------------------
(* Properties.                                                             *)

Locked == {"RISK_LOCKED", "ORDER_LOCKED", "EMERGENCY_STOP"}

\* A process trades, or is in any state that trading leads to, only after it
\* executed a user's START_BOT: no WebSocket recovery, resume, lock or restart
\* gets there on its own (cardinal rule 1 of bot_state_machine.py).
TradingOnlyAfterStart ==
  state \in {"SYNCING", "READY", "RUNNING", "PAUSED", "RECONCILING"} \cup Locked
    => started

\* However pause, trip, lock or disconnect interleave with an entry between
\* its approval and its order, at most one entry is sent after RUNNING is
\* left (evaluate_entry checks the state once, before it awaits).
AtMostOneLateEntry == late <= 1

\* A lock (RISK_LOCKED, ORDER_LOCKED, EMERGENCY_STOP) is left only by
\* stopping: no RESUME, START, reload or late WebSocket recovery lifts it.
LockLeadsOnlyToStop ==
  [][(state \in Locked /\ state' # state)
        => state' \in {"ORDER_LOCKED", "EMERGENCY_STOP", "STOPPING"}]_vars

\* Once shutdown began the state machine goes to STOPPED whatever the tasks
\* that shutdown does not cancel still do, until a new process boots.
ShutdownIsFinal ==
  [][(state \in {"STOPPING", "STOPPED"} /\ state' # state)
        => \/ state' = "STOPPED" /\ main' = "down"
           \/ state' = "BOOTING" /\ main' = "booting"]_vars

\* A breach that is not discarded by RELOAD_CONFIG or a restart takes the bot
\* out of RUNNING for good, also when it was recorded where no trip follows
\* (SYNC_NOW, the pre-start sync, a recovery) or while the bot was PAUSED.
BreachEndsTrading == <>[]breach => <>[](state # "RUNNING")

\* A WebSocket recovery does not leave the bot in RECONCILING, a state that no
\* loop and no command but STOP leaves.  It is checked without the fault
\* "recover": a reconcile_once that raises ends the task between its two
\* transitions (bot_runtime.py:606), and the bot stays in RECONCILING.
RecoveryEnds == state = "RECONCILING" ~> state # "RECONCILING"

\* An accepted STOP that does not ask for the positions to be closed ends the process,
\* whatever is queued before it and whatever the other tasks do.
StopEndsProcess ==
  (main = "serving" /\ \E i \in DOMAIN queue : queue[i] = "STOP")
    ~> main = "down"

-----------------------------------------------------------------------------
(* What the documentation says and the code does not do.                   *)

\* bot_state_machine.py:8: new entries are only allowed in RUNNING.
EntriesOnlyInRunning ==
  [][(trader.pc = "approved" /\ trader'.pc = "ordered") => CanEnter(state)]_vars

\* Engine document 17.2: after a private disconnect RUNNING comes back when
\* the reconciliation has completed.
RunningOnlyWhenRecovered ==
  \A w \in WsTasks : ws[w].pc = "recovering" => state # "RUNNING"

\* Backend document 10.3: POST /bot/pause stops new entries.  For instances
\* whose users never resume.
PauseIsHonoured ==
  (\E i \in DOMAIN queue : queue[i] = "PAUSE") ~> [](state # "RUNNING")

\* bot_runtime.py:1169, "Apply STOP options before graceful shutdown" (backend document
\* 10.2), where the option is close_positions.
StopClosesAndEnds ==
  (main = "serving" /\ \E i \in DOMAIN queue : queue[i] = "STOP_CLOSE")
    ~> main = "down"
=============================================================================
