----------------------------- MODULE RuntimeLock -----------------------------
(***************************************************************************)
(* The single-instance lock of the Bot Engine: a Redis key with a TTL and  *)
(* the owner's token (packages/messaging/runtime_lock.py), acquired by     *)
(* BotRuntime.startup, extended by the heartbeat and released by shutdown. *)
(*                                                                         *)
(* An engine is one incarnation of the process: a restart makes another,   *)
(* because RuntimeLock draws a new token.  Time is counted in ticks; the   *)
(* key's remaining life and each engine's time since its last beat are the *)
(* only clocks.                                                            *)
(***************************************************************************)
EXTENDS Integers

CONSTANTS
  Engines,    \* incarnations of the process, which may overlap
  NoEngine,   \* the key is absent
  TTL,        \* life of the key, in ticks: max(10, 4 * heartbeat interval)
  MaxGap      \* bound: ticks an engine may live between two beats

ASSUME LockAssumption ==
  /\ NoEngine \notin Engines
  /\ TTL \in Nat \ {0}
  /\ MaxGap \in Nat

VARIABLES
  owner,   \* token stored in lock:quantbot:live
  ttl,     \* remaining life of the key; 0 when absent
  pc,      \* Engines -> "new", "starting", "running", "stopping", "down"
  held,    \* Engines -> RuntimeLock._held
  gap      \* Engines -> ticks since the engine's last beat reached Redis

vars == <<owner, ttl, pc, held, gap>>

Live == {"starting", "running", "stopping"}

TypeOK ==
  /\ owner \in Engines \cup {NoEngine}
  /\ ttl \in 0..TTL
  /\ pc \in [Engines -> {"new", "down"} \cup Live]
  /\ held \in [Engines -> BOOLEAN]
  /\ gap \in [Engines -> 0..MaxGap]

Init ==
  /\ owner = NoEngine
  /\ ttl = 0
  /\ pc = [e \in Engines |-> "new"]
  /\ held = [e \in Engines |-> FALSE]
  /\ gap = [e \in Engines |-> 0]

-----------------------------------------------------------------------------
Bug_Acquire(e) ==
  /\ pc[e] = "new"
  /\ owner' = e
  /\ ttl' = TTL
  /\ held' = [held EXCEPT ![e] = TRUE]
  /\ pc' = [pc EXCEPT ![e] = "starting"]
  /\ UNCHANGED gap

\* acquire: SET key token NX PX ttl succeeds.
Acquire(e) ==
  /\ pc[e] = "new"
  /\ owner = NoEngine
  /\ owner' = e
  /\ ttl' = TTL
  /\ held' = [held EXCEPT ![e] = TRUE]
  /\ pc' = [pc EXCEPT ![e] = "starting"]
  /\ UNCHANGED gap

\* The key exists: startup raises RuntimeLockError and the process ends.
Refused(e) ==
  /\ pc[e] = "new"
  /\ owner # NoEngine
  /\ pc' = [pc EXCEPT ![e] = "down"]
  /\ UNCHANGED <<owner, ttl, held, gap>>

\* Mutant of refresh: the TTL is extended whoever owns the key.
Bug_Refresh(e) ==
  IF held[e] /\ owner # NoEngine
  THEN ttl' = TTL /\ UNCHANGED held
  ELSE held' = [held EXCEPT ![e] = FALSE] /\ UNCHANGED ttl

\* refresh: extend the key if it still carries this token; otherwise _held
\* becomes FALSE and no later refresh asks Redis again.
Refresh(e) ==
  IF held[e] /\ owner = e
  THEN ttl' = TTL /\ UNCHANGED held
  ELSE held' = [held EXCEPT ![e] = FALSE] /\ UNCHANGED ttl

\* Heartbeat.beat_once, first at the end of startup and then from the
\* heartbeat loop.  Its caller ignores what refresh returns.  A beat that
\* raises changes nothing: the loop logs it and waits for the next.
Beat(e) ==
  /\ pc[e] \in {"starting", "running"}
  /\ pc' = [pc EXCEPT ![e] = "running"]
  /\ Refresh(e)
  /\ gap' = [gap EXCEPT ![e] = 0]
  /\ UNCHANGED owner

\* shutdown: the heartbeat task is cancelled, the lock released afterwards.
Stop(e) ==
  /\ pc[e] = "running"
  /\ pc' = [pc EXCEPT ![e] = "stopping"]
  /\ UNCHANGED <<owner, ttl, held, gap>>

\* Mutant of release: a plain DEL.
Bug_Release(e) ==
  /\ pc[e] = "stopping"
  /\ pc' = [pc EXCEPT ![e] = "down"]
  /\ held' = [held EXCEPT ![e] = FALSE]
  /\ IF held[e]
     THEN owner' = NoEngine /\ ttl' = 0
     ELSE UNCHANGED <<owner, ttl>>
  /\ UNCHANGED gap

\* release: delete the key only if it still carries this token.
Release(e) ==
  /\ pc[e] = "stopping"
  /\ pc' = [pc EXCEPT ![e] = "down"]
  /\ held' = [held EXCEPT ![e] = FALSE]
  /\ IF held[e] /\ owner = e
     THEN owner' = NoEngine /\ ttl' = 0
     ELSE UNCHANGED <<owner, ttl>>
  /\ UNCHANGED gap

\* The process dies, or startup raises after the acquisition: nothing is
\* released and the key lives on.
Crash(e) ==
  /\ pc[e] \in Live
  /\ pc' = [pc EXCEPT ![e] = "down"]
  /\ UNCHANGED <<owner, ttl, held, gap>>

\* One tick passes: Redis ages the key and drops it at the end of its life.  No
\* live engine goes without a beat for more than MaxGap.
Tick ==
  /\ \A e \in Engines : pc[e] \in Live => gap[e] < MaxGap
  /\ gap' = [e \in Engines |-> IF pc[e] \in Live THEN gap[e] + 1 ELSE gap[e]]
  /\ ttl' = IF ttl > 0 THEN ttl - 1 ELSE 0
  /\ owner' = IF ttl > 1 THEN owner ELSE NoEngine
  /\ UNCHANGED <<pc, held>>

Next ==
  \/ \E e \in Engines : Acquire(e)
  \/ \E e \in Engines : Refused(e)
  \/ \E e \in Engines : Beat(e)
  \/ \E e \in Engines : Stop(e)
  \/ \E e \in Engines : Release(e)
  \/ \E e \in Engines : Crash(e)
  \/ Tick

Spec == Init /\ [][Next]_vars

\* Time passes and the heartbeat loop runs.
Fairness ==
  /\ WF_vars(Tick)
  /\ \A e \in Engines : WF_vars(Beat(e)) /\ WF_vars(Release(e))

FairSpec == Spec /\ Fairness

-----------------------------------------------------------------------------
(* Properties.                                                             *)

\* An engine whose last successful beat is less than a TTL old.
Fresh(e) == pc[e] \in Live /\ held[e] /\ gap[e] < TTL

\* Whatever stalls, restarts, late beats and late releases the others go
\* through, at most one engine has refreshed the key within its TTL.
OneFresh == \A e, f \in Engines : Fresh(e) /\ Fresh(f) => e = f

\* The lock keeps the promise of SingleEngine for the engines that beat in
\* time: one comes up by acquiring, when no other is up, and one that was late
\* is never up again.
Promise == INSTANCE SingleEngine WITH up <- {e \in Engines : Fresh(e)}
ImplementsSingleEngine == Promise!Spec

\* Whoever owns the key loses it only by its own release or by expiry, even
\* when an engine that lost the lock long ago shuts down late.
OnlyOwnerReleases ==
  [][\A e \in Engines :
       (owner = e /\ owner' # e) => pc[e] = "stopping" \/ ttl = 1]_vars

\* The life of the key is extended by its owner only: a beat of an engine that
\* lost the lock does not keep a dead owner's key alive.
OnlyOwnerRefreshes ==
  [][\A e \in Engines : (owner = e /\ pc[e] = "down") => ttl' <= ttl]_vars

\* The lock of an engine that died without releasing it becomes free.
DeadOwnerExpires ==
  \A e \in Engines : (owner = e /\ pc[e] = "down") ~> owner # e

-----------------------------------------------------------------------------
(* What the documentation says and the code does not do.                   *)

\* runtime_lock.py:3: the Bot Engine must not run twice, that is, at most one
\* engine is past its acquisition.  It holds where no engine goes a TTL
\* without a beat.
MutualExclusion ==
  \A e, f \in Engines : pc[e] \in Live /\ pc[f] \in Live => e = f
=============================================================================
