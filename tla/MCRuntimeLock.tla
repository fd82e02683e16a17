--------------------------- MODULE MCRuntimeLock ---------------------------
(***************************************************************************)
(* Instances of RuntimeLock for TLC.                                       *)
(***************************************************************************)
EXTENDS RuntimeLock, TLC

\* Engines are interchangeable; for the instances without liveness properties.
EngineSymmetry == Permutations(Engines)
=============================================================================
