---------------------------- MODULE MCActionControl ----------------------------
(***************************************************************************)
(* Small instances of ActionControl for TLC: one thread, a turn that an    *)
(* interrupt and a steer name, and a turn that a start may create.         *)
(***************************************************************************)
EXTENDS ActionControl, TLC

CONSTANTS u1, t1

OneTarget == [a \in Interrupts \cup Steers |-> u1]
OneThread == [x \in Actions \cup Turns |-> t1]
=============================================================================
