---------------------------- MODULE SingleEngine ----------------------------
(***************************************************************************)
(* What the runtime lock promises: "The Bot Engine must not run twice"     *)
(* (packages/messaging/runtime_lock.py).  An engine comes up only when no  *)
(* other is up, and goes down on its own account.                          *)
(***************************************************************************)
CONSTANT Engines     \* incarnations of the Bot Engine process

VARIABLE up          \* the engines that are past their lock acquisition

Init == up = {}

ComeUp(e) == up = {} /\ up' = {e}

GoDown(e) == e \in up /\ up' = up \ {e}

Next == \E e \in Engines : ComeUp(e) \/ GoDown(e)

Spec == Init /\ [][Next]_up
=============================================================================
