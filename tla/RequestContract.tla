--------------------------- MODULE RequestContract ---------------------------
(***************************************************************************)
(* What RpcClient::request and request_action promise to their callers,    *)
(* as RequestError spells it out: a result says how much the caller may    *)
(* conclude about the daemon.  Ok and Rejected are the daemon's own        *)
(* answer; NotWritten and Closed say that the daemon has not seen the      *)
(* request and never will, so that sending it again is safe; Unknown and   *)
(* TimedOut say nothing, and the daemon may still perform the request      *)
(* after the caller has been told.  In no case is a request performed      *)
(* twice.                                                                  *)
(***************************************************************************)
EXTENDS Naturals

CONSTANT Reqs       \* calls of request / request_action, one identifier each

VARIABLES
    call,           \* call[r]: "idle", "open" or the result it returned
    runs,           \* runs[r]: how often the daemon has performed r
    verdict         \* verdict[r]: what the daemon decided about r

contractVars == <<call, runs, verdict>>

Verdicts == {"Ok", "Rejected"}
SafeToRetry == {"NotWritten", "Closed"}
Ambiguous == {"Unknown", "TimedOut"}
Results == Verdicts \cup SafeToRetry \cup Ambiguous

Init ==
    /\ call = [r \in Reqs |-> "idle"]
    /\ runs = [r \in Reqs |-> 0]
    /\ verdict = [r \in Reqs |-> "none"]

Begin(r) ==
    /\ call[r] = "idle"
    /\ call' = [call EXCEPT ![r] = "open"]
    /\ UNCHANGED <<runs, verdict>>

\* The gate turns an action request away before it becomes a command.
Refuse(r) ==
    /\ call[r] = "idle"
    /\ call' = [call EXCEPT ![r] = "NotWritten"]
    /\ UNCHANGED <<runs, verdict>>

\* The daemon performs r: once, and only if r may have been written.
Perform(r, v) ==
    /\ call[r] # "idle"
    /\ call[r] \notin SafeToRetry
    /\ runs[r] = 0
    /\ runs' = [runs EXCEPT ![r] = 1]
    /\ verdict' = [verdict EXCEPT ![r] = v]
    /\ UNCHANGED call

Return(r, res) ==
    /\ call[r] = "open"
    /\ res \in SafeToRetry => runs[r] = 0
    /\ res \in Verdicts => verdict[r] = res
    /\ call' = [call EXCEPT ![r] = res]
    /\ UNCHANGED <<runs, verdict>>

Next == \E r \in Reqs :
    \/ Begin(r) \/ Refuse(r)
    \/ \E v \in Verdicts : Perform(r, v)
    \/ \E res \in Results : Return(r, res)

Spec == Init /\ [][Next]_contractVars
=============================================================================
