-------------------------- MODULE BotStateMachine --------------------------
(***************************************************************************)
(* The transition table of the Bot Engine and the guards the runtime       *)
(* derives from it (apps/bot/runtime/bot_state_machine.py).  A constant    *)
(* module: the state itself is a variable of the modules that EXTEND it.   *)
(***************************************************************************)

\* enum BotState
States ==
  {"BOOTING", "STANDBY", "START_REQUESTED", "SYNCING", "READY", "RUNNING",
   "PAUSED", "RISK_LOCKED", "RECONCILING", "ORDER_LOCKED", "EMERGENCY_STOP",
   "STOPPING", "STOPPED"}

\* _ALLOWED: the targets that transition() accepts from each source.
Allowed ==
  [ BOOTING         |-> {"STANDBY", "STOPPING"},
    STANDBY         |-> {"START_REQUESTED", "STOPPING"},
    START_REQUESTED |-> {"SYNCING", "STANDBY", "STOPPING"},
    SYNCING         |-> {"READY", "STANDBY", "RECONCILING",
                         "EMERGENCY_STOP", "STOPPING"},
    READY           |-> {"RUNNING", "STANDBY", "STOPPING"},
    RUNNING         |-> {"PAUSED", "RISK_LOCKED", "RECONCILING",
                         "ORDER_LOCKED", "EMERGENCY_STOP", "STOPPING"},
    PAUSED          |-> {"RUNNING", "RISK_LOCKED", "RECONCILING",
                         "EMERGENCY_STOP", "STOPPING"},
    RISK_LOCKED     |-> {"RUNNING", "PAUSED", "EMERGENCY_STOP", "STOPPING"},
    RECONCILING     |-> {"RUNNING", "PAUSED", "STANDBY", "ORDER_LOCKED",
                         "EMERGENCY_STOP", "STOPPING"},
    ORDER_LOCKED    |-> {"RECONCILING", "RUNNING", "EMERGENCY_STOP",
                         "STOPPING"},
    EMERGENCY_STOP  |-> {"STOPPING", "STOPPED"},
    STOPPING        |-> {"STOPPED"},
    STOPPED         |-> {} ]

\* _ENTRY_ALLOWED_STATES and can_enter_new_position.
CanEnter(s) == s = "RUNNING"

\* _MANAGEMENT_ALLOWED_STATES and can_manage_positions.
CanManage(s) ==
  s \in {"RUNNING", "PAUSED", "RISK_LOCKED", "ORDER_LOCKED", "RECONCILING",
         "EMERGENCY_STOP"}

\* transition: entering the current state again is a no-op, and a target the
\* table does not list raises InvalidTransition.
CanTransition(from, to) == to = from \/ to \in Allowed[from]
=============================================================================
