------------------------------ MODULE MCIngest ------------------------------
(* Three threads, one of which has two turns and one none, a cap of one     *)
(* subscription, and pages of one thread.  The thread without turns takes a *)
(* place in the list, so that a page can end before the threads do.         *)
EXTENDS Ingest, TLC

CONSTANTS t1, t2, t3, u1, u2, u3

MCThreadOf == u1 :> t1 @@ u2 :> t1 @@ u3 :> t2

\* The turns of the first thread are interchangeable.
Symmetry == Permutations({u1, u2})

\* The second thread is active all along, and is updated before a list or between
\* its pages only; no connection is lost before the first pass has succeeded; of the
\* thread without turns, of which no property speaks, no read fails.
Bounds ==
    /\ status[u3] = "running" /\ (conn > 1 => booted)
    /\ listed /\ pass # "page" /\ t2 \in above => t2 \in moved
    /\ t3 \notin skipped
    /\ Len(feed) <= 2 /\ \A t \in Threads : signals[t] + cancels[t] <= 1
=============================================================================
