------------------------- MODULE RuntimeLock_proofs -------------------------
(***************************************************************************)
(* Proofs about RuntimeLock, for any number of engines and any TTL: type   *)
(* correctness; that one engine at a time is fresh, and the lock so        *)
(* implements SingleEngine; and, when beats are less than a TTL apart,     *)
(* mutual exclusion.                                                       *)
(***************************************************************************)
EXTENDS RuntimeLock, TLAPS

\* An engine that believes in its lock owns the key as long as it is fresh, and
\* the key's life and the time since its last beat add up to the TTL; once it
\* is not, the key is gone or another's.  OneFresh alone is not inductive: it
\* does not say that the key a fresh engine relies on is there.
OwnerInv ==
  \A e \in Engines :
    /\ pc[e] = "new" => gap[e] = 0
    /\ Fresh(e) => owner = e /\ ttl + gap[e] = TTL
    /\ pc[e] \in Live /\ held[e] /\ ~Fresh(e) => owner # e

\* No live engine has found its lock lost.
HeldInv == \A e \in Engines : pc[e] \in Live => held[e]

\* The key is present exactly while it has life left.
KeyInv == owner = NoEngine <=> ttl = 0

-----------------------------------------------------------------------------
LEMMA InitTypeOK == Init => TypeOK
  BY LockAssumption DEF LockAssumption, Init, TypeOK, Live

LEMMA NextTypeOK == TypeOK /\ [Next]_vars => TypeOK'
<1> SUFFICES ASSUME TypeOK, [Next]_vars PROVE TypeOK'
  OBVIOUS
<1> USE LockAssumption DEF LockAssumption, TypeOK, Live
<1>1. ASSUME NEW e \in Engines, Acquire(e) PROVE TypeOK'
  BY <1>1 DEF Acquire
<1>2. ASSUME NEW e \in Engines, Refused(e) PROVE TypeOK'
  BY <1>2 DEF Refused
<1>3. ASSUME NEW e \in Engines, Beat(e) PROVE TypeOK'
  <2>1. held' \in [Engines -> BOOLEAN] /\ ttl' \in 0..TTL
    <3>1. CASE held[e] /\ owner = e
      BY <1>3, <3>1 DEF Beat, Refresh
    <3>2. CASE ~(held[e] /\ owner = e)
      BY <1>3, <3>2 DEF Beat, Refresh
    <3> QED
      BY <3>1, <3>2
  <2>2. pc' \in [Engines -> {"new", "down"} \cup Live]
    BY <1>3 DEF Beat
  <2>3. gap' \in [Engines -> 0..MaxGap] /\ owner' = owner
    BY <1>3 DEF Beat
  <2> QED
    BY <2>1, <2>2, <2>3
<1>4. ASSUME NEW e \in Engines, Stop(e) PROVE TypeOK'
  BY <1>4 DEF Stop
<1>5. ASSUME NEW e \in Engines, Release(e) PROVE TypeOK'
  BY <1>5 DEF Release
<1>6. ASSUME NEW e \in Engines, Crash(e) PROVE TypeOK'
  BY <1>6 DEF Crash
<1>7. CASE Tick
  <2>1. gap' \in [Engines -> 0..MaxGap]
    BY <1>7 DEF Tick
  <2>2. ttl' \in 0..TTL /\ owner' \in Engines \cup {NoEngine}
    BY <1>7 DEF Tick
  <2> QED
    BY <1>7, <2>1, <2>2 DEF Tick
<1>8. CASE UNCHANGED vars
  BY <1>8 DEF vars
<1> QED
  BY <1>1, <1>2, <1>3, <1>4, <1>5, <1>6, <1>7, <1>8 DEF Next

\* Every reachable state of the lock is well typed.
THEOREM TypeCorrect == Spec => []TypeOK
  BY InitTypeOK, NextTypeOK, PTL DEF Spec

-----------------------------------------------------------------------------
LEMMA NextKeyInv == TypeOK /\ KeyInv /\ [Next]_vars => KeyInv'
<1> SUFFICES ASSUME TypeOK, KeyInv, [Next]_vars PROVE KeyInv'
  OBVIOUS
<1> USE LockAssumption DEF LockAssumption, TypeOK, KeyInv
<1>1. ASSUME NEW e \in Engines, Acquire(e) PROVE KeyInv'
  BY <1>1 DEF Acquire
<1>2. ASSUME NEW e \in Engines, Refused(e) \/ Stop(e) \/ Crash(e) PROVE KeyInv'
  BY <1>2 DEF Refused, Stop, Crash
<1>3. ASSUME NEW e \in Engines, Beat(e) PROVE KeyInv'
  BY <1>3 DEF Beat, Refresh
<1>4. ASSUME NEW e \in Engines, Release(e) PROVE KeyInv'
  BY <1>4 DEF Release
<1>5. CASE Tick
  BY <1>5 DEF Tick
<1>6. CASE UNCHANGED vars
  BY <1>6 DEF vars
<1> QED
  BY <1>1, <1>2, <1>3, <1>4, <1>5, <1>6 DEF Next

LEMMA NextOwnerInv ==
  ASSUME TypeOK, KeyInv, OwnerInv, [Next]_vars
  PROVE  OwnerInv'
<1> USE LockAssumption DEF LockAssumption, TypeOK, KeyInv, OwnerInv, Live, Fresh
<1>1. ASSUME NEW e \in Engines, Acquire(e) PROVE OwnerInv'
  <2>1. \A f \in Engines : ~Fresh(f)
    BY <1>1 DEF Acquire
  <2>2. gap[e] = 0
    BY <1>1 DEF Acquire
  <2> QED
    BY <1>1, <2>1, <2>2 DEF Acquire
<1>2. ASSUME NEW e \in Engines, Refused(e) PROVE OwnerInv'
  BY <1>2 DEF Refused
<1>3. ASSUME NEW e \in Engines, Beat(e) PROVE OwnerInv'
  <2>1. CASE held[e] /\ owner = e
    BY <1>3, <2>1 DEF Beat, Refresh
  <2>2. CASE ~(held[e] /\ owner = e)
    BY <1>3, <2>2 DEF Beat, Refresh
  <2> QED
    BY <2>1, <2>2
<1>4. ASSUME NEW e \in Engines, Stop(e) PROVE OwnerInv'
  BY <1>4 DEF Stop
<1>5. ASSUME NEW e \in Engines, Release(e) PROVE OwnerInv'
  BY <1>5 DEF Release
<1>6. ASSUME NEW e \in Engines, Crash(e) PROVE OwnerInv'
  BY <1>6 DEF Crash
<1>7. CASE Tick
  BY <1>7 DEF Tick
<1>8. CASE UNCHANGED vars
  BY <1>8 DEF vars
<1> QED
  BY <1>1, <1>2, <1>3, <1>4, <1>5, <1>6, <1>7, <1>8 DEF Next

LEMMA OwnerInvCorrect == Spec => [](TypeOK /\ KeyInv /\ OwnerInv)
<1>1. Init => TypeOK /\ KeyInv /\ OwnerInv
  BY InitTypeOK DEF Init, KeyInv, OwnerInv, Live, Fresh
<1>2. TypeOK /\ KeyInv /\ OwnerInv /\ [Next]_vars
        => (TypeOK /\ KeyInv /\ OwnerInv)'
  BY NextTypeOK, NextKeyInv, NextOwnerInv
<1> QED
  BY <1>1, <1>2, PTL DEF Spec

\* At most one engine has refreshed the key within its TTL.
THEOREM OneEngineIsFresh == Spec => []OneFresh
<1>1. OwnerInv => OneFresh
  BY DEF OwnerInv, OneFresh
<1> QED
  BY <1>1, OwnerInvCorrect, PTL

-----------------------------------------------------------------------------
(* Who touches the key.                                                    *)

LEMMA ReleaseStep ==
  ASSUME TypeOK, KeyInv, Next, NEW e \in Engines, owner = e, owner' # e
  PROVE  pc[e] = "stopping" \/ ttl = 1
<1> USE LockAssumption DEF LockAssumption, TypeOK, KeyInv
<1>1. ASSUME NEW f \in Engines, Acquire(f) PROVE FALSE
  BY <1>1 DEF Acquire
<1>2. ASSUME NEW f \in Engines, Refused(f) \/ Beat(f) \/ Stop(f) \/ Crash(f) PROVE FALSE
  BY <1>2 DEF Refused, Beat, Stop, Crash
<1>3. ASSUME NEW f \in Engines, Release(f) PROVE f = e /\ pc[e] = "stopping"
  BY <1>3 DEF Release
<1>4. CASE Tick
  BY <1>4 DEF Tick
<1> QED
  BY <1>1, <1>2, <1>3, <1>4 DEF Next

\* The owner loses the key by its own release or when its life ends, whatever the
\* engines that owned it before still do.
THEOREM OnlyOwnersRelease == Spec => OnlyOwnerReleases
<1>1. TypeOK /\ KeyInv /\ [Next]_vars
        => [\A e \in Engines :
              (owner = e /\ owner' # e) => pc[e] = "stopping" \/ ttl = 1]_vars
  BY ReleaseStep
<1> QED
  BY <1>1, OwnerInvCorrect, PTL DEF Spec, OnlyOwnerReleases

LEMMA RefreshStep ==
  ASSUME TypeOK, KeyInv, Next, NEW e \in Engines, owner = e, pc[e] = "down"
  PROVE  ttl' <= ttl
<1> USE LockAssumption DEF LockAssumption, TypeOK, KeyInv
<1>1. ASSUME NEW f \in Engines, Acquire(f) PROVE FALSE
  BY <1>1 DEF Acquire
<1>2. ASSUME NEW f \in Engines, Refused(f) \/ Stop(f) \/ Crash(f) PROVE ttl' = ttl
  BY <1>2 DEF Refused, Stop, Crash
<1>3. ASSUME NEW f \in Engines, Beat(f) PROVE ttl' = ttl
  BY <1>3 DEF Beat, Refresh
<1>4. ASSUME NEW f \in Engines, Release(f) PROVE ttl' <= ttl
  BY <1>4 DEF Release
<1>5. CASE Tick
  BY <1>5 DEF Tick
<1> QED
  BY <1>1, <1>2, <1>3, <1>4, <1>5 DEF Next

\* No beat of another engine keeps the key of a dead owner alive.
THEOREM OnlyOwnersRefresh == Spec => OnlyOwnerRefreshes
<1>1. TypeOK /\ KeyInv /\ [Next]_vars
        => [\A e \in Engines : (owner = e /\ pc[e] = "down") => ttl' <= ttl]_vars
  BY RefreshStep
<1> QED
  BY <1>1, OwnerInvCorrect, PTL DEF Spec, OnlyOwnerRefreshes

-----------------------------------------------------------------------------
(* When beats are less than a TTL apart.                                   *)

LEMMA NextHeldInv ==
  ASSUME MaxGap < TTL, TypeOK, OwnerInv, HeldInv, [Next]_vars
  PROVE  HeldInv'
<1> USE LockAssumption DEF LockAssumption, TypeOK, HeldInv, Live
<1>1. ASSUME NEW e \in Engines, Beat(e) PROVE HeldInv'
  <2>1. Fresh(e)
    BY <1>1 DEF Beat, Fresh
  <2>2. held[e] /\ owner = e
    BY <2>1 DEF OwnerInv, Fresh
  <2> QED
    BY <1>1, <2>2 DEF Beat, Refresh
<1>2. ASSUME NEW e \in Engines, Acquire(e) \/ Refused(e) \/ Stop(e) PROVE HeldInv'
  BY <1>2 DEF Acquire, Refused, Stop
<1>3. ASSUME NEW e \in Engines, Release(e) \/ Crash(e) PROVE HeldInv'
  BY <1>3 DEF Release, Crash
<1>4. CASE Tick \/ UNCHANGED vars
  BY <1>4 DEF Tick, vars
<1> QED
  BY <1>1, <1>2, <1>3, <1>4 DEF Next

\* The Bot Engine does not run twice, if its beats are less than a TTL apart.
THEOREM RunsOnce ==
  ASSUME MaxGap < TTL
  PROVE  Spec => []MutualExclusion
<1>1. Init => HeldInv
  BY DEF Init, HeldInv, Live
<1>2. TypeOK /\ OwnerInv /\ HeldInv /\ [Next]_vars => HeldInv'
  BY NextHeldInv
<1>3. TypeOK /\ OwnerInv /\ HeldInv => MutualExclusion
  BY LockAssumption
     DEF LockAssumption, TypeOK, OwnerInv, HeldInv, Fresh, MutualExclusion
<1> QED
  BY <1>1, <1>2, <1>3, OwnerInvCorrect, PTL DEF Spec

-----------------------------------------------------------------------------
(* The refinement.                                                         *)

LEMMA StepImplements ==
  ASSUME TypeOK, OwnerInv, [Next]_vars
  PROVE  [Promise!Next]_{e \in Engines : Fresh(e)}
<1> DEFINE Up == {e \in Engines : Fresh(e)}
<1> USE LockAssumption DEF LockAssumption, TypeOK, Live, Fresh
<1>1. ASSUME NEW e \in Engines, Acquire(e) PROVE Promise!ComeUp(e)
  <2>1. Up = {}
    BY <1>1 DEF Acquire, OwnerInv
  <2>2. gap[e] = 0
    BY <1>1 DEF Acquire, OwnerInv
  <2>3. Up' = {e}
    BY <1>1, <2>1, <2>2 DEF Acquire
  <2> QED
    BY <2>1, <2>3 DEF Promise!ComeUp
<1>2. ASSUME NEW e \in Engines, Release(e) \/ Crash(e)
      PROVE  Up' = Up \/ Promise!GoDown(e)
  <2>1. Up' = Up \ {e}
    BY <1>2 DEF Release, Crash
  <2> QED
    BY <2>1 DEF Promise!GoDown
<1>3. ASSUME NEW e \in Engines, Beat(e) PROVE Up' = Up
  <2>1. CASE held[e] /\ owner = e
    <3>1. Fresh(e)
      BY <1>3, <2>1 DEF Beat, OwnerInv
    <3>2. Fresh(e)'
      BY <1>3, <2>1 DEF Beat, Refresh
    <3>3. \A f \in Engines \ {e} : Fresh(f)' <=> Fresh(f)
      BY <1>3, <2>1 DEF Beat, Refresh
    <3> QED
      BY <3>1, <3>2, <3>3
  <2>2. CASE ~(held[e] /\ owner = e)
    <3>1. ~Fresh(e)
      BY <2>2 DEF OwnerInv
    <3>2. ~Fresh(e)'
      BY <1>3, <2>2 DEF Beat, Refresh
    <3>3. \A f \in Engines \ {e} : Fresh(f)' <=> Fresh(f)
      BY <1>3, <2>2 DEF Beat, Refresh
    <3> QED
      BY <3>1, <3>2, <3>3
  <2> QED
    BY <2>1, <2>2
<1>4. ASSUME NEW e \in Engines, Refused(e) \/ Stop(e) PROVE Up' = Up
  BY <1>4 DEF Refused, Stop
<1>5. CASE Tick
  <2>1. Up' \subseteq Up
    BY <1>5 DEF Tick
  <2>2. \A e, f \in Up : e = f
    BY DEF OwnerInv
  <2>3. Up' = Up \/ \E e \in Engines : e \in Up /\ Up' = Up \ {e}
    BY <2>1, <2>2
  <2> QED
    BY <2>3 DEF Promise!Next, Promise!GoDown
<1>6. CASE UNCHANGED vars
  BY <1>6 DEF vars
<1> QED
  BY <1>1, <1>2, <1>3, <1>4, <1>5, <1>6 DEF Next, Promise!Next

\* The lock implements the abstract engine that never runs twice.
THEOREM LockImplementsSingleEngine == Spec => ImplementsSingleEngine
<1>1. Init => Promise!Init
  BY DEF Init, Promise!Init, Live, Fresh
<1>2. TypeOK /\ OwnerInv /\ [Next]_vars
        => [Promise!Next]_{e \in Engines : Fresh(e)}
  BY StepImplements
<1> QED
  BY <1>1, <1>2, OwnerInvCorrect, PTL
     DEF Spec, Promise!Spec, ImplementsSingleEngine
=============================================================================
