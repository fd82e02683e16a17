--------------------------- MODULE MCOrderManager ---------------------------
(***************************************************************************)
(* Instances of OrderManager for TLC: four lots, of which three are kept   *)
(* (0.70 of four, rounded up), the configured single reorder, and a        *)
(* position that two partial exits would exceed.                           *)
(***************************************************************************)
EXTENDS OrderManager

MCQty == 4
MCHeld == 6
MCKeep == 3
MCTries == 2
=============================================================================
