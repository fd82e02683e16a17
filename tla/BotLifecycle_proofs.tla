------------------------- MODULE BotLifecycle_proofs -------------------------
(***************************************************************************)
(* Proofs of the safety properties of BotLifecycle for any number of       *)
(* WebSocket tasks, commands, restarts and any set of faults.              *)
(***************************************************************************)
EXTENDS BotLifecycle, TLAPS

\* main and the state machine agree: BotRuntime drives the two together.
Phase ==
  /\ main = "booting"  => state = "BOOTING"
  /\ main = "serving"  => state \notin {"BOOTING", "STOPPING", "STOPPED"}
  /\ main = "stopping" => state = "STOPPING"
  /\ main = "down"     => state \in {"BOOTING", "STOPPED"}

\* TradingOnlyAfterStart is not inductive alone: an entry in flight may lock
\* the bot from any state, so it too must belong to a started process.
StartedInv ==
  /\ TradingOnlyAfterStart
  /\ trader.pc \in {"approved", "ordered"} => started

\* AtMostOneLateEntry needs the entry that is approved but not yet sent.
LateInv ==
  /\ AtMostOneLateEntry
  /\ state = "RUNNING" \/ trader.pc = "approved" => late = 0

-----------------------------------------------------------------------------
(* Types.                                                                  *)

LEMMA InitTypeOK == Init => TypeOK
<1> SUFFICES ASSUME Init PROVE TypeOK
  OBVIOUS
<1>1. queue \in Seq(Commands) /\ sent \in 0..MaxCommands
  BY ConstantsAssumption DEF ConstantsAssumption, Init
<1>2. /\ rec \in [ReconcileTasks -> {"idle", "busy", "announcing", "dead"}]
      /\ ws \in [WsTasks -> [pc : {"idle", "announcing", "recovering"}, resume : BOOLEAN]]
      /\ trader \in [pc : {"idle", "approved", "ordered", "dead"}, old : BOOLEAN]
  BY DEF Init, IdleWs, IdleTrader
<1> QED
  BY <1>1, <1>2 DEF Init, TypeOK, States

\* The states that the trip and the recovery leave behind.
LEMMA TripInStates ==
  ASSUME NEW s \in States, NEW tripped
  PROVE  AfterTrip(s, tripped) \in States
  BY DEF AfterTrip, States

LEMMA RecoveryInStates ==
  ASSUME NEW s \in States, NEW resume
  PROVE  AfterRecovery(s, resume) \in States
  BY DEF AfterRecovery, States

LEMMA DispatchTypeOK ==
  ASSUME TypeOK, NEW c, Dispatch(c)
  PROVE  /\ state' \in States
         /\ late' \in Nat
         /\ cmd' \in {"idle", "starting", "syncing", "stopping", "closing", "dead"}
         /\ trader' \in [pc : {"idle", "approved", "ordered", "dead"},
                         old : BOOLEAN]
         /\ breach' \in BOOLEAN /\ told' \in BOOLEAN
         /\ started' \in BOOLEAN
<1>1. CASE DispatchStart
  BY <1>1 DEF DispatchStart, Enter, TypeOK, States
<1>2. CASE DispatchAwait("stopping") \/ DispatchAwait("closing") \/ DispatchAwait("syncing")
  BY <1>2 DEF DispatchAwait, TypeOK
<1>3. CASE DispatchPause
  BY <1>3 DEF DispatchPause, Enter, TypeOK, States
<1>4. CASE DispatchResume
  BY <1>4 DEF DispatchResume, Enter, TypeOK, States
<1>5. CASE DispatchReload
  <2> DEFINE inFlight == trader.pc \in {"approved", "ordered"}
  <2>1. trader' = [trader EXCEPT !.old = inFlight]
    BY <1>5 DEF DispatchReload
  <2>2. inFlight \in BOOLEAN
    OBVIOUS
  <2> HIDE DEF inFlight
  <2>3. trader' \in [pc : {"idle", "approved", "ordered", "dead"}, old : BOOLEAN]
    BY <2>1, <2>2 DEF TypeOK
  <2> QED
    BY <1>5, <2>3 DEF DispatchReload, TypeOK
<1> QED
  BY <1>1, <1>2, <1>3, <1>4, <1>5 DEF Dispatch

LEMMA EvaluatedTypeOK ==
  ASSUME TypeOK, NEW tripped \in BOOLEAN, Evaluated(tripped)
  PROVE  state' \in States /\ late' \in Nat /\ breach' \in BOOLEAN /\ told' \in BOOLEAN
  BY TripInStates DEF Evaluated, Enter, TypeOK

LEMMA RecoversTypeOK ==
  ASSUME TypeOK, NEW w \in WsTasks, NEW s \in States, Recovers(w, s)
  PROVE  /\ state' \in States /\ late' \in Nat
         /\ ws' \in [WsTasks -> [pc : {"idle", "announcing", "recovering"},
                                 resume : BOOLEAN]]
<1> DEFINE running == s = "RUNNING"
<1>1. running \in BOOLEAN /\ ws' = [ws EXCEPT ![w] = [pc |-> "recovering", resume |-> running]]
  BY DEF Recovers
<1>2. state' \in States /\ late' \in Nat
  BY DEF Recovers, Enter, TypeOK, States
<1> HIDE DEF running
<1> QED
  BY <1>1, <1>2 DEF TypeOK

\* What a command does to the state machine and to an entry in flight before it awaits.
LEMMA DispatchSteps ==
  ASSUME TypeOK, NEW c, Dispatch(c)
  PROVE  /\ trader'.pc = trader.pc
         /\ started => started'
         /\ \/ UNCHANGED <<state, late>>
            \/ state = "STANDBY" /\ state' = "SYNCING" /\ late' = late /\ started'
            \/ state = "RUNNING" /\ state' = "PAUSED" /\ late' = late
            \/ state \in {"PAUSED", "RUNNING"} /\ state' = "RUNNING" /\ late' = 0
<1>1. CASE DispatchStart
  BY <1>1 DEF DispatchStart, Enter
<1>2. CASE DispatchAwait("stopping") \/ DispatchAwait("closing") \/ DispatchAwait("syncing")
  BY <1>2 DEF DispatchAwait
<1>3. CASE DispatchPause
  BY <1>3 DEF DispatchPause, Enter
<1>4. CASE DispatchResume
  BY <1>4 DEF DispatchResume, Enter
<1>5. CASE DispatchReload
  <2> DEFINE inFlight == trader.pc \in {"approved", "ordered"}
  <2>1. trader' = [trader EXCEPT !.old = inFlight] /\ UNCHANGED <<state, late, started>>
    BY <1>5 DEF DispatchReload
  <2> HIDE DEF inFlight
  <2>2. trader'.pc = trader.pc
    BY <2>1 DEF TypeOK
  <2> QED
    BY <2>1, <2>2
<1> QED
  BY <1>1, <1>2, <1>3, <1>4, <1>5 DEF Dispatch

LEMMA NextTypeOK == TypeOK /\ [Next]_vars => TypeOK'
<1> SUFFICES ASSUME TypeOK, [Next]_vars PROVE TypeOK'
  OBVIOUS
<1> USE DEF process, api
<1>1. ASSUME NEW c \in Commands, ApiSend(c) PROVE TypeOK'
  <2>1. queue' \in Seq(Commands)
    BY <1>1 DEF ApiSend, TypeOK
  <2>2. sent' \in 0..MaxCommands
    BY <1>1, ConstantsAssumption DEF ConstantsAssumption, ApiSend, TypeOK
  <2> QED
    BY <1>1, <2>1, <2>2 DEF ApiSend, TypeOK
<1>2. CASE Boot
  BY <1>2 DEF Boot, Enter, Outcomes, TypeOK, States
<1>3. CASE Restart
  <2>1. /\ rec' \in [ReconcileTasks -> {"idle", "busy", "announcing", "dead"}]
        /\ ws' \in [WsTasks -> [pc : {"idle", "announcing", "recovering"}, resume : BOOLEAN]]
        /\ trader' \in [pc : {"idle", "approved", "ordered", "dead"},
                        old : BOOLEAN]
    BY <1>3 DEF Restart, IdleWs, IdleTrader
  <2>2. state' \in States /\ late' \in Nat /\ runs' \in Nat
    BY <1>3 DEF Restart, Enter, TypeOK, States
  <2>3. /\ main' = "booting" /\ shutdown' = FALSE /\ cmd' = "idle"
        /\ breach' = FALSE /\ started' = FALSE /\ pnl' = "idle" /\ told' = FALSE
        /\ UNCHANGED <<published, queue, sent>>
    BY <1>3 DEF Restart
  <2> QED
    BY <2>1, <2>2, <2>3 DEF TypeOK
<1>4. CASE ConsumeCommand
  <2>1. queue' \in Seq(Commands)
    BY <1>4 DEF ConsumeCommand, TypeOK
  <2>2. CASE Dispatch(Head(queue))
    BY <1>4, <2>1, <2>2, DispatchTypeOK DEF ConsumeCommand, TypeOK
  <2>3. CASE cmd' = "dead" /\ UNCHANGED <<state, late, trader, breach, told, started>>
    <3>1. UNCHANGED <<main, shutdown, published, sent, rec, pnl, ws, runs>>
      BY <1>4 DEF ConsumeCommand
    <3> QED
      BY <2>1, <2>3, <3>1 DEF TypeOK
  <2> QED
    BY <1>4, <2>2, <2>3 DEF ConsumeCommand
<1>5. CASE FinishStart
  BY <1>5 DEF FinishStart, CommandEnds, Enter, Outcomes, TypeOK, States
<1>6. CASE FinishSync
  BY <1>6 DEF FinishSync, CommandEnds, Outcomes, TypeOK
<1>7. CASE FinishStop
  BY <1>7 DEF FinishStop, CommandEnds, TypeOK
<1>8. ASSUME NEW r \in ReconcileTasks, ReconcileBegin(r) PROVE TypeOK'
  BY <1>8 DEF ReconcileBegin, TypeOK
<1>9. ASSUME NEW r \in ReconcileTasks, ReconcileEnd(r) PROVE TypeOK'
  <2>1. /\ state' \in States /\ late' \in Nat /\ breach' \in BOOLEAN /\ told' \in BOOLEAN
        /\ \E pc \in {"idle", "announcing"} : rec' = [rec EXCEPT ![r] = pc]
    BY <1>9, EvaluatedTypeOK DEF ReconcileEnd, TypeOK
  <2>2. rec' \in [ReconcileTasks -> {"idle", "busy", "announcing", "dead"}]
    BY <2>1 DEF TypeOK
  <2> QED
    BY <1>9, <2>1, <2>2 DEF ReconcileEnd, TypeOK
<1>10. CASE PnlTick
  <2>1. /\ state' \in States /\ late' \in Nat /\ breach' \in BOOLEAN /\ told' \in BOOLEAN
        /\ pnl' \in {"idle", "announcing"}
    BY <1>10, EvaluatedTypeOK DEF PnlTick, TypeOK
  <2> QED
    BY <1>10, <2>1 DEF PnlTick, TypeOK
<1>11. CASE Beat
  BY <1>11 DEF Beat, TypeOK
<1>12. ASSUME NEW w \in WsTasks, WsDisconnect(w) PROVE TypeOK'
  <2>1. PICK threshold \in BOOLEAN :
          LET tripped == breach \/ threshold
          IN  /\ breach' = tripped
              /\ told' = (told \/ tripped)
              /\ IF Announces(tripped)
                 THEN /\ ws' = [ws EXCEPT ![w].pc = "announcing"]
                      /\ UNCHANGED <<state, late>>
                 ELSE Recovers(w, AfterTrip(state, tripped))
    BY <1>12 DEF WsDisconnect
  <2>2. /\ state' \in States /\ late' \in Nat
        /\ ws' \in [WsTasks -> [pc : {"idle", "announcing", "recovering"}, resume : BOOLEAN]]
    BY <2>1, TripInStates, RecoversTypeOK DEF TypeOK
  <2> QED
    BY <1>12, <2>1, <2>2 DEF WsDisconnect, TypeOK
<1>13. ASSUME NEW w \in WsTasks, WsRecovered(w) PROVE TypeOK'
  BY <1>13, RecoveryInStates
     DEF WsRecovered, Enter, Outcomes, TypeOK, IdleWs
<1>14. CASE EntryApproved
  BY <1>14 DEF EntryApproved, TypeOK
<1>15. CASE EntrySent
  BY <1>15 DEF EntrySent, TypeOK
<1>16. CASE EntryDropped
  BY <1>16 DEF EntryDropped, TypeOK, IdleTrader
<1>17. CASE EntryResolved
  BY <1>17 DEF EntryResolved, Enter, TypeOK, IdleTrader, States
<1>18. CASE Signal
  BY <1>18 DEF Signal, TypeOK
<1>19. CASE ShutdownBegin
  BY <1>19 DEF ShutdownBegin, Enter, TypeOK, States
<1>20. CASE ShutdownEnd
  BY <1>20 DEF ShutdownEnd, Enter, TypeOK, States
<1>21. CASE UNCHANGED vars
  BY <1>21 DEF vars, TypeOK
<1>22. ASSUME NEW r \in ReconcileTasks, ReconcileAnnounced(r) PROVE TypeOK'
  BY <1>22, TripInStates DEF ReconcileAnnounced, Announced, Enter, Outcomes, TypeOK
<1>23. CASE PnlAnnounced
  BY <1>23, TripInStates DEF PnlAnnounced, Announced, Enter, Outcomes, TypeOK
<1>24. ASSUME NEW w \in WsTasks, WsAnnounced(w) PROVE TypeOK'
  <2>1. /\ state' \in States /\ late' \in Nat
        /\ ws' \in [WsTasks -> [pc : {"idle", "announcing", "recovering"}, resume : BOOLEAN]]
    <3>1. AfterTrip(state, TRUE) \in States
      BY TripInStates DEF TypeOK
    <3>2. CASE Recovers(w, AfterTrip(state, TRUE))
      BY <3>1, <3>2, RecoversTypeOK
    <3>3. CASE ws' = [ws EXCEPT ![w] = IdleWs] /\ UNCHANGED <<state, late>>
      BY <3>3 DEF IdleWs, TypeOK
    <3> QED
      BY <1>24, <3>2, <3>3 DEF WsAnnounced
  <2> QED
    BY <1>24, <2>1 DEF WsAnnounced, TypeOK
<1> QED
  BY <1>1, <1>2, <1>3, <1>4, <1>5, <1>6, <1>7, <1>8, <1>9, <1>10, <1>11,
     <1>12, <1>13, <1>14, <1>15, <1>16, <1>17, <1>18, <1>19, <1>20, <1>21,
     <1>22, <1>23, <1>24 DEF Next

\* Every reachable state of the control plane is well typed.
THEOREM TypeCorrect == Spec => []TypeOK
  BY InitTypeOK, NextTypeOK, PTL DEF Spec

-----------------------------------------------------------------------------
(* The process phase and the state machine.                                *)

LEMMA NextPhase == TypeOK /\ Phase /\ [Next]_vars => Phase'
<1> SUFFICES ASSUME TypeOK, Phase, [Next]_vars PROVE Phase'
  OBVIOUS
<1> USE DEF process, api, TypeOK
<1>1. ASSUME NEW c \in Commands, ApiSend(c) PROVE Phase'
  BY <1>1 DEF ApiSend, Phase
<1>2. CASE Boot
  BY <1>2 DEF Boot, Enter, Phase
<1>3. CASE Restart
  BY <1>3 DEF Restart, Enter, IdleTrader, Phase
<1>4. CASE ConsumeCommand
  <2>1. CASE Dispatch(Head(queue))
    BY <1>4, <2>1, DispatchSteps DEF ConsumeCommand, Phase
  <2>2. CASE UNCHANGED <<state, late, trader, breach, told, started>>
    BY <1>4, <2>2 DEF ConsumeCommand, Phase
  <2> QED
    BY <1>4, <2>1, <2>2 DEF ConsumeCommand
<1>5. CASE FinishStart
  BY <1>5 DEF FinishStart, Enter, Phase
<1>6. CASE FinishSync
  BY <1>6 DEF FinishSync, Phase
<1>7. CASE FinishStop
  BY <1>7 DEF FinishStop, Phase
<1>8. ASSUME NEW r \in ReconcileTasks, ReconcileBegin(r) PROVE Phase'
  BY <1>8 DEF ReconcileBegin, Phase
<1>9. ASSUME NEW r \in ReconcileTasks, ReconcileEnd(r) PROVE Phase'
  BY <1>9 DEF ReconcileEnd, Enter, AfterTrip, Announces, Evaluated, Phase
<1>10. CASE PnlTick
  BY <1>10 DEF PnlTick, Enter, AfterTrip, Announces, Evaluated, Phase
<1>11. CASE Beat
  BY <1>11 DEF Beat, Phase
<1>12. ASSUME NEW w \in WsTasks, WsDisconnect(w) PROVE Phase'
  BY <1>12 DEF WsDisconnect, Recovers, Enter, AfterTrip, Announces, Evaluated, Phase
<1>13. ASSUME NEW w \in WsTasks, WsRecovered(w) PROVE Phase'
  BY <1>13 DEF WsRecovered, Enter, AfterRecovery, Phase
<1>14. CASE EntryApproved
  BY <1>14 DEF EntryApproved, CanEnter, Phase
<1>15. CASE EntrySent
  BY <1>15 DEF EntrySent, CanEnter, Phase
<1>16. CASE EntryDropped
  BY <1>16 DEF EntryDropped, IdleTrader, Phase
<1>17. CASE EntryResolved
  BY <1>17 DEF EntryResolved, Enter, IdleTrader, Phase
<1>18. CASE Signal
  BY <1>18 DEF Signal, Phase
<1>19. CASE ShutdownBegin
  BY <1>19 DEF ShutdownBegin, Enter, Phase
<1>20. CASE ShutdownEnd
  BY <1>20 DEF ShutdownEnd, Enter, Phase
<1>21. CASE UNCHANGED vars
  BY <1>21 DEF vars, Phase
<1>22. ASSUME NEW r \in ReconcileTasks, ReconcileAnnounced(r) PROVE Phase'
  BY <1>22 DEF ReconcileAnnounced, Announced, Recovers, Enter, AfterTrip, Announces, Evaluated, Phase
<1>23. CASE PnlAnnounced
  BY <1>23 DEF PnlAnnounced, Announced, Recovers, Enter, AfterTrip, Announces, Evaluated, Phase
<1>24. ASSUME NEW w \in WsTasks, WsAnnounced(w) PROVE Phase'
  BY <1>24 DEF WsAnnounced, Recovers, Enter, AfterTrip, Announces, Evaluated, Phase
<1> QED
  BY <1>1, <1>2, <1>3, <1>4, <1>5, <1>6, <1>7, <1>8, <1>9, <1>10,
     <1>11, <1>12, <1>13, <1>14, <1>15, <1>16, <1>17, <1>18, <1>19, <1>20,
     <1>21,
     <1>22, <1>23, <1>24 DEF Next

\* Throughout a process the state machine is where the run loop put it.
THEOREM PhaseCorrect == Spec => []Phase
<1>1. Init => Phase
  BY DEF Init, Phase
<1> QED
  BY <1>1, TypeCorrect, NextPhase, PTL DEF Spec

-----------------------------------------------------------------------------
(* No trading without a START.                                             *)

LEMMA NextStarted ==
  TypeOK /\ Phase /\ StartedInv /\ [Next]_vars => StartedInv'
<1> SUFFICES ASSUME TypeOK, Phase, StartedInv, [Next]_vars PROVE StartedInv'
  OBVIOUS
<1> USE DEF process, api, TypeOK, Phase
<1>1. ASSUME NEW c \in Commands, ApiSend(c) PROVE StartedInv'
  BY <1>1 DEF ApiSend, StartedInv, TradingOnlyAfterStart, Locked
<1>2. CASE Boot
  BY <1>2 DEF Boot, Enter, StartedInv, TradingOnlyAfterStart, Locked
<1>3. CASE Restart
  BY <1>3 DEF Restart, Enter, IdleTrader, StartedInv, TradingOnlyAfterStart,
     Locked
<1>4. CASE ConsumeCommand
  <2>1. CASE Dispatch(Head(queue))
    BY <1>4, <2>1, DispatchSteps
       DEF ConsumeCommand, StartedInv, TradingOnlyAfterStart, Locked
  <2>2. CASE UNCHANGED <<state, late, trader, breach, told, started>>
    BY <1>4, <2>2 DEF ConsumeCommand, StartedInv, TradingOnlyAfterStart, Locked
  <2> QED
    BY <1>4, <2>1, <2>2 DEF ConsumeCommand
<1>5. CASE FinishStart
  BY <1>5 DEF FinishStart, Enter, CanTransition, Allowed, States, StartedInv,
     TradingOnlyAfterStart, Locked
<1>6. CASE FinishSync
  BY <1>6 DEF FinishSync, StartedInv, TradingOnlyAfterStart, Locked
<1>7. CASE FinishStop
  BY <1>7 DEF FinishStop, StartedInv, TradingOnlyAfterStart, Locked
<1>8. ASSUME NEW r \in ReconcileTasks, ReconcileBegin(r) PROVE StartedInv'
  BY <1>8 DEF ReconcileBegin, StartedInv, TradingOnlyAfterStart, Locked
<1>9. ASSUME NEW r \in ReconcileTasks, ReconcileEnd(r) PROVE StartedInv'
  BY <1>9 DEF ReconcileEnd, Enter, AfterTrip, Announces, Evaluated, StartedInv,
     TradingOnlyAfterStart, Locked
<1>10. CASE PnlTick
  BY <1>10 DEF PnlTick, Enter, AfterTrip, Announces, Evaluated, StartedInv, TradingOnlyAfterStart,
     Locked
<1>11. CASE Beat
  BY <1>11 DEF Beat, StartedInv, TradingOnlyAfterStart, Locked
<1>12. ASSUME NEW w \in WsTasks, WsDisconnect(w) PROVE StartedInv'
  BY <1>12 DEF WsDisconnect, Recovers, Enter, AfterTrip, Announces, Evaluated, StartedInv,
     TradingOnlyAfterStart, Locked
<1>13. ASSUME NEW w \in WsTasks, WsRecovered(w) PROVE StartedInv'
  BY <1>13 DEF WsRecovered, Enter, AfterRecovery, StartedInv,
     TradingOnlyAfterStart, Locked
<1>14. CASE EntryApproved
  BY <1>14 DEF EntryApproved, CanEnter, StartedInv, TradingOnlyAfterStart,
     Locked
<1>15. CASE EntrySent
  BY <1>15 DEF EntrySent, CanEnter, StartedInv, TradingOnlyAfterStart, Locked
<1>16. CASE EntryDropped
  BY <1>16 DEF EntryDropped, IdleTrader, StartedInv, TradingOnlyAfterStart,
     Locked
<1>17. CASE EntryResolved
  BY <1>17 DEF EntryResolved, Enter, IdleTrader, StartedInv,
     TradingOnlyAfterStart, Locked
<1>18. CASE Signal
  BY <1>18 DEF Signal, StartedInv, TradingOnlyAfterStart, Locked
<1>19. CASE ShutdownBegin
  BY <1>19 DEF ShutdownBegin, Enter, StartedInv, TradingOnlyAfterStart, Locked
<1>20. CASE ShutdownEnd
  BY <1>20 DEF ShutdownEnd, Enter, StartedInv, TradingOnlyAfterStart, Locked
<1>21. CASE UNCHANGED vars
  BY <1>21 DEF vars, StartedInv, TradingOnlyAfterStart, Locked
<1>22. ASSUME NEW r \in ReconcileTasks, ReconcileAnnounced(r) PROVE StartedInv'
  BY <1>22 DEF ReconcileAnnounced, Announced, Recovers, Enter, AfterTrip, Announces, Evaluated, StartedInv,
     TradingOnlyAfterStart, Locked
<1>23. CASE PnlAnnounced
  BY <1>23 DEF PnlAnnounced, Announced, Recovers, Enter, AfterTrip, Announces, Evaluated, StartedInv,
     TradingOnlyAfterStart, Locked
<1>24. ASSUME NEW w \in WsTasks, WsAnnounced(w) PROVE StartedInv'
  BY <1>24 DEF WsAnnounced, Recovers, Enter, AfterTrip, Announces, Evaluated, StartedInv,
     TradingOnlyAfterStart, Locked
<1> QED
  BY <1>1, <1>2, <1>3, <1>4, <1>5, <1>6, <1>7, <1>8, <1>9, <1>10,
     <1>11, <1>12, <1>13, <1>14, <1>15, <1>16, <1>17, <1>18, <1>19, <1>20,
     <1>21,
     <1>22, <1>23, <1>24 DEF Next

\* Trading, and every state trading leads to, follows a START_BOT of the same
\* process.
THEOREM TradesOnlyAfterStart == Spec => []TradingOnlyAfterStart
<1>1. Init => StartedInv
  BY DEF Init, StartedInv, TradingOnlyAfterStart, Locked, IdleTrader
<1>2. StartedInv => TradingOnlyAfterStart
  BY DEF StartedInv
<1> QED
  BY <1>1, <1>2, TypeCorrect, PhaseCorrect, NextStarted, PTL DEF Spec

-----------------------------------------------------------------------------
(* Late entries.                                                           *)

LEMMA NextLate == TypeOK /\ LateInv /\ [Next]_vars => LateInv'
<1> SUFFICES ASSUME TypeOK, LateInv, [Next]_vars PROVE LateInv'
  OBVIOUS
<1> USE DEF process, api, TypeOK
<1>1. ASSUME NEW c \in Commands, ApiSend(c) PROVE LateInv'
  BY <1>1 DEF ApiSend, LateInv, AtMostOneLateEntry
<1>2. CASE Boot
  BY <1>2 DEF Boot, Enter, LateInv, AtMostOneLateEntry
<1>3. CASE Restart
  BY <1>3 DEF Restart, Enter, IdleTrader, LateInv, AtMostOneLateEntry
<1>4. CASE ConsumeCommand
  <2>1. CASE Dispatch(Head(queue))
    BY <1>4, <2>1, DispatchSteps DEF ConsumeCommand, LateInv, AtMostOneLateEntry
  <2>2. CASE UNCHANGED <<state, late, trader, breach, told, started>>
    BY <1>4, <2>2 DEF ConsumeCommand, LateInv, AtMostOneLateEntry
  <2> QED
    BY <1>4, <2>1, <2>2 DEF ConsumeCommand
<1>5. CASE FinishStart
  BY <1>5 DEF FinishStart, Enter, LateInv, AtMostOneLateEntry
<1>6. CASE FinishSync
  BY <1>6 DEF FinishSync, LateInv, AtMostOneLateEntry
<1>7. CASE FinishStop
  BY <1>7 DEF FinishStop, LateInv, AtMostOneLateEntry
<1>8. ASSUME NEW r \in ReconcileTasks, ReconcileBegin(r) PROVE LateInv'
  BY <1>8 DEF ReconcileBegin, LateInv, AtMostOneLateEntry
<1>9. ASSUME NEW r \in ReconcileTasks, ReconcileEnd(r) PROVE LateInv'
  BY <1>9 DEF ReconcileEnd, Enter, AfterTrip, Announces, Evaluated, LateInv, AtMostOneLateEntry
<1>10. CASE PnlTick
  BY <1>10 DEF PnlTick, Enter, AfterTrip, Announces, Evaluated, LateInv, AtMostOneLateEntry
<1>11. CASE Beat
  BY <1>11 DEF Beat, LateInv, AtMostOneLateEntry
<1>12. ASSUME NEW w \in WsTasks, WsDisconnect(w) PROVE LateInv'
  BY <1>12 DEF WsDisconnect, Recovers, Enter, AfterTrip, Announces, Evaluated, LateInv, AtMostOneLateEntry
<1>13. ASSUME NEW w \in WsTasks, WsRecovered(w) PROVE LateInv'
  BY <1>13 DEF WsRecovered, Enter, AfterRecovery, LateInv, AtMostOneLateEntry
<1>14. CASE EntryApproved
  BY <1>14 DEF EntryApproved, CanEnter, LateInv, AtMostOneLateEntry
<1>15. CASE EntrySent
  BY <1>15 DEF EntrySent, CanEnter, LateInv, AtMostOneLateEntry
<1>16. CASE EntryDropped
  BY <1>16 DEF EntryDropped, IdleTrader, LateInv, AtMostOneLateEntry
<1>17. CASE EntryResolved
  BY <1>17 DEF EntryResolved, Enter, IdleTrader, LateInv, AtMostOneLateEntry
<1>18. CASE Signal
  BY <1>18 DEF Signal, LateInv, AtMostOneLateEntry
<1>19. CASE ShutdownBegin
  BY <1>19 DEF ShutdownBegin, Enter, LateInv, AtMostOneLateEntry
<1>20. CASE ShutdownEnd
  BY <1>20 DEF ShutdownEnd, Enter, LateInv, AtMostOneLateEntry
<1>21. CASE UNCHANGED vars
  BY <1>21 DEF vars, LateInv, AtMostOneLateEntry
<1>22. ASSUME NEW r \in ReconcileTasks, ReconcileAnnounced(r) PROVE LateInv'
  BY <1>22 DEF ReconcileAnnounced, Announced, Recovers, Enter, AfterTrip, Announces, Evaluated, LateInv, AtMostOneLateEntry
<1>23. CASE PnlAnnounced
  BY <1>23 DEF PnlAnnounced, Announced, Recovers, Enter, AfterTrip, Announces, Evaluated, LateInv, AtMostOneLateEntry
<1>24. ASSUME NEW w \in WsTasks, WsAnnounced(w) PROVE LateInv'
  BY <1>24 DEF WsAnnounced, Recovers, Enter, AfterTrip, Announces, Evaluated, LateInv, AtMostOneLateEntry
<1> QED
  BY <1>1, <1>2, <1>3, <1>4, <1>5, <1>6, <1>7, <1>8, <1>9, <1>10,
     <1>11, <1>12, <1>13, <1>14, <1>15, <1>16, <1>17, <1>18, <1>19, <1>20,
     <1>21,
     <1>22, <1>23, <1>24 DEF Next

\* At most one entry is sent after RUNNING is left, however the tasks
\* interleave.
THEOREM OneLateEntry == Spec => []AtMostOneLateEntry
<1>1. Init => LateInv
  BY DEF Init, LateInv, AtMostOneLateEntry
<1>2. LateInv => AtMostOneLateEntry
  BY DEF LateInv
<1> QED
  BY <1>1, <1>2, TypeCorrect, NextLate, PTL DEF Spec

-----------------------------------------------------------------------------
(* Locks and shutdown: what a step may never do.                           *)

\* The steps of LockLeadsOnlyToStop and ShutdownIsFinal.
KeepsLock ==
  (state \in Locked /\ state' # state)
    => state' \in {"ORDER_LOCKED", "EMERGENCY_STOP", "STOPPING"}

KeepsShutdown ==
  (state \in {"STOPPING", "STOPPED"} /\ state' # state)
    => \/ state' = "STOPPED" /\ main' = "down"
       \/ state' = "BOOTING" /\ main' = "booting"

LEMMA NextKeepsLock == TypeOK /\ Phase /\ [Next]_vars => KeepsLock
<1> SUFFICES ASSUME TypeOK, Phase, [Next]_vars PROVE KeepsLock
  OBVIOUS
<1> USE DEF process, api, TypeOK, Phase
<1>1. ASSUME NEW c \in Commands, ApiSend(c) PROVE KeepsLock
  BY <1>1 DEF ApiSend, KeepsLock, Locked
<1>2. CASE Boot
  BY <1>2 DEF Boot, Enter, KeepsLock, Locked
<1>3. CASE Restart
  BY <1>3 DEF Restart, Enter, IdleTrader, KeepsLock, Locked
<1>4. CASE ConsumeCommand
  <2>1. CASE Dispatch(Head(queue))
    BY <1>4, <2>1, DispatchSteps DEF ConsumeCommand, KeepsLock, Locked
  <2>2. CASE UNCHANGED <<state, late, trader, breach, told, started>>
    BY <1>4, <2>2 DEF ConsumeCommand, KeepsLock, Locked
  <2> QED
    BY <1>4, <2>1, <2>2 DEF ConsumeCommand
<1>5. CASE FinishStart
  BY <1>5 DEF FinishStart, Enter, CanTransition, Allowed, States, KeepsLock,
     Locked
<1>6. CASE FinishSync
  BY <1>6 DEF FinishSync, KeepsLock, Locked
<1>7. CASE FinishStop
  BY <1>7 DEF FinishStop, KeepsLock, Locked
<1>8. ASSUME NEW r \in ReconcileTasks, ReconcileBegin(r) PROVE KeepsLock
  BY <1>8 DEF ReconcileBegin, KeepsLock, Locked
<1>9. ASSUME NEW r \in ReconcileTasks, ReconcileEnd(r) PROVE KeepsLock
  BY <1>9 DEF ReconcileEnd, Enter, AfterTrip, Announces, Evaluated, KeepsLock, Locked
<1>10. CASE PnlTick
  BY <1>10 DEF PnlTick, Enter, AfterTrip, Announces, Evaluated, KeepsLock, Locked
<1>11. CASE Beat
  BY <1>11 DEF Beat, KeepsLock, Locked
<1>12. ASSUME NEW w \in WsTasks, WsDisconnect(w) PROVE KeepsLock
  BY <1>12 DEF WsDisconnect, Recovers, Enter, AfterTrip, Announces, Evaluated, KeepsLock, Locked
<1>13. ASSUME NEW w \in WsTasks, WsRecovered(w) PROVE KeepsLock
  BY <1>13 DEF WsRecovered, Enter, AfterRecovery, KeepsLock, Locked
<1>14. CASE EntryApproved
  BY <1>14 DEF EntryApproved, CanEnter, KeepsLock, Locked
<1>15. CASE EntrySent
  BY <1>15 DEF EntrySent, CanEnter, KeepsLock, Locked
<1>16. CASE EntryDropped
  BY <1>16 DEF EntryDropped, IdleTrader, KeepsLock, Locked
<1>17. CASE EntryResolved
  BY <1>17 DEF EntryResolved, Enter, IdleTrader, KeepsLock, Locked
<1>18. CASE Signal
  BY <1>18 DEF Signal, KeepsLock, Locked
<1>19. CASE ShutdownBegin
  BY <1>19 DEF ShutdownBegin, Enter, KeepsLock, Locked
<1>20. CASE ShutdownEnd
  BY <1>20 DEF ShutdownEnd, Enter, KeepsLock, Locked
<1>21. CASE UNCHANGED vars
  BY <1>21 DEF vars, KeepsLock, Locked
<1>22. ASSUME NEW r \in ReconcileTasks, ReconcileAnnounced(r) PROVE KeepsLock
  BY <1>22 DEF ReconcileAnnounced, Announced, Recovers, Enter, AfterTrip, Announces, Evaluated, KeepsLock, Locked
<1>23. CASE PnlAnnounced
  BY <1>23 DEF PnlAnnounced, Announced, Recovers, Enter, AfterTrip, Announces, Evaluated, KeepsLock, Locked
<1>24. ASSUME NEW w \in WsTasks, WsAnnounced(w) PROVE KeepsLock
  BY <1>24 DEF WsAnnounced, Recovers, Enter, AfterTrip, Announces, Evaluated, KeepsLock, Locked
<1> QED
  BY <1>1, <1>2, <1>3, <1>4, <1>5, <1>6, <1>7, <1>8, <1>9, <1>10,
     <1>11, <1>12, <1>13, <1>14, <1>15, <1>16, <1>17, <1>18, <1>19, <1>20,
     <1>21,
     <1>22, <1>23, <1>24 DEF Next

\* A lock is left only by stopping the process.
THEOREM LocksHold == Spec => LockLeadsOnlyToStop
<1>1. TypeOK /\ Phase /\ [Next]_vars
        => [(state \in Locked /\ state' # state)
              => state' \in {"ORDER_LOCKED", "EMERGENCY_STOP", "STOPPING"}]_vars
  BY NextKeepsLock DEF KeepsLock
<1> QED
  BY <1>1, TypeCorrect, PhaseCorrect, PTL DEF Spec, LockLeadsOnlyToStop

LEMMA NextKeepsShutdown == TypeOK /\ Phase /\ [Next]_vars => KeepsShutdown
<1> SUFFICES ASSUME TypeOK, Phase, [Next]_vars PROVE KeepsShutdown
  OBVIOUS
<1> USE DEF process, api, TypeOK, Phase
<1>1. ASSUME NEW c \in Commands, ApiSend(c) PROVE KeepsShutdown
  BY <1>1 DEF ApiSend, KeepsShutdown
<1>2. CASE Boot
  BY <1>2 DEF Boot, Enter, KeepsShutdown
<1>3. CASE Restart
  BY <1>3 DEF Restart, Enter, IdleTrader, KeepsShutdown
<1>4. CASE ConsumeCommand
  <2>1. CASE Dispatch(Head(queue))
    BY <1>4, <2>1, DispatchSteps DEF ConsumeCommand, KeepsShutdown
  <2>2. CASE UNCHANGED <<state, late, trader, breach, told, started>>
    BY <1>4, <2>2 DEF ConsumeCommand, KeepsShutdown
  <2> QED
    BY <1>4, <2>1, <2>2 DEF ConsumeCommand
<1>5. CASE FinishStart
  BY <1>5 DEF FinishStart, Enter, CanTransition, Allowed, States, KeepsShutdown
<1>6. CASE FinishSync
  BY <1>6 DEF FinishSync, KeepsShutdown
<1>7. CASE FinishStop
  BY <1>7 DEF FinishStop, KeepsShutdown
<1>8. ASSUME NEW r \in ReconcileTasks, ReconcileBegin(r) PROVE KeepsShutdown
  BY <1>8 DEF ReconcileBegin, KeepsShutdown
<1>9. ASSUME NEW r \in ReconcileTasks, ReconcileEnd(r) PROVE KeepsShutdown
  BY <1>9 DEF ReconcileEnd, Enter, AfterTrip, Announces, Evaluated, KeepsShutdown
<1>10. CASE PnlTick
  BY <1>10 DEF PnlTick, Enter, AfterTrip, Announces, Evaluated, KeepsShutdown
<1>11. CASE Beat
  BY <1>11 DEF Beat, KeepsShutdown
<1>12. ASSUME NEW w \in WsTasks, WsDisconnect(w) PROVE KeepsShutdown
  BY <1>12 DEF WsDisconnect, Recovers, Enter, AfterTrip, Announces, Evaluated, KeepsShutdown
<1>13. ASSUME NEW w \in WsTasks, WsRecovered(w) PROVE KeepsShutdown
  BY <1>13 DEF WsRecovered, Enter, AfterRecovery, KeepsShutdown
<1>14. CASE EntryApproved
  BY <1>14 DEF EntryApproved, CanEnter, KeepsShutdown
<1>15. CASE EntrySent
  BY <1>15 DEF EntrySent, CanEnter, KeepsShutdown
<1>16. CASE EntryDropped
  BY <1>16 DEF EntryDropped, IdleTrader, KeepsShutdown
<1>17. CASE EntryResolved
  BY <1>17 DEF EntryResolved, Enter, IdleTrader, KeepsShutdown
<1>18. CASE Signal
  BY <1>18 DEF Signal, KeepsShutdown
<1>19. CASE ShutdownBegin
  BY <1>19 DEF ShutdownBegin, Enter, KeepsShutdown
<1>20. CASE ShutdownEnd
  BY <1>20 DEF ShutdownEnd, Enter, KeepsShutdown
<1>21. CASE UNCHANGED vars
  BY <1>21 DEF vars, KeepsShutdown
<1>22. ASSUME NEW r \in ReconcileTasks, ReconcileAnnounced(r) PROVE KeepsShutdown
  BY <1>22 DEF ReconcileAnnounced, Announced, Recovers, Enter, AfterTrip, Announces, Evaluated, KeepsShutdown
<1>23. CASE PnlAnnounced
  BY <1>23 DEF PnlAnnounced, Announced, Recovers, Enter, AfterTrip, Announces, Evaluated, KeepsShutdown
<1>24. ASSUME NEW w \in WsTasks, WsAnnounced(w) PROVE KeepsShutdown
  BY <1>24 DEF WsAnnounced, Recovers, Enter, AfterTrip, Announces, Evaluated, KeepsShutdown
<1> QED
  BY <1>1, <1>2, <1>3, <1>4, <1>5, <1>6, <1>7, <1>8, <1>9, <1>10,
     <1>11, <1>12, <1>13, <1>14, <1>15, <1>16, <1>17, <1>18, <1>19, <1>20,
     <1>21,
     <1>22, <1>23, <1>24 DEF Next

\* Nothing that shutdown leaves running brings the state machine back.
THEOREM ShutdownHolds == Spec => ShutdownIsFinal
<1>1. TypeOK /\ Phase /\ [Next]_vars
        => [(state \in {"STOPPING", "STOPPED"} /\ state' # state)
              => \/ state' = "STOPPED" /\ main' = "down"
                 \/ state' = "BOOTING" /\ main' = "booting"]_vars
  BY NextKeepsShutdown DEF KeepsShutdown
<1> QED
  BY <1>1, TypeCorrect, PhaseCorrect, PTL DEF Spec, ShutdownIsFinal
=============================================================================
