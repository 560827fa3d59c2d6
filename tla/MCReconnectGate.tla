--------------------------- MODULE MCReconnectGate ---------------------------
(***************************************************************************)
(* Small instances of ReconnectGate for TLC.                               *)
(***************************************************************************)
EXTENDS ReconnectGate, TLC

Symmetry == Permutations(ActionReqs) \cup Permutations(PlainReqs)
=============================================================================
