---------------------------- MODULE MCEventPlane ----------------------------
(***************************************************************************)
(* Small instances of EventPlane for TLC.  Each of the two halves of the   *)
(* plane is explored to its own bound, with the other held down: a         *)
(* subscriber among events of no thread, and the store without one.        *)
(***************************************************************************)
EXTENDS EventPlane, Functions, TLC

CONSTANT MaxStored      \* events of a behaviour without a subscriber

Symmetry == Permutations(Threads)

Entered == Range(recorded) \cup (IF stage = "idle" THEN {} ELSE {event})
ToStream == clock = 0 /\ \A e \in Entered : e.thread = None /\ e.size = 1
ToStore ==
    /\ mode = "closed" /\ atSequence <= MaxStored
    /\ Cardinality({t \in Threads : anchor[t] # "none"}) <= 1
Bounds == ToStream \/ ToStore
=============================================================================
