----------------------------- MODULE ActionControl -----------------------------
(***************************************************************************)
(* Controller of crate control: interrupt, steer and start, one lock per   *)
(* thread, retries of what was not written, and the confirmation by events *)
(* of the reducer.  The RPC client below it is RequestContract, which      *)
(* Transport implements.  Attempt k of action a is the request <<a, k>>.   *)
(*                                                                         *)
(* The daemon is external: turns start and end there on their own or by    *)
(* the user interface, and its notifications reach the reducer in order,   *)
(* those sent while the client is disconnected excepted.                   *)
(***************************************************************************)
EXTENDS Naturals, Sequences

CONSTANTS
    Interrupts, Steers, Starts,     \* the calls of the three methods
    Turns,                          \* turns that exist or may be created
    Target,                         \* Target[a]: the turn a names
    Threads,
    ThreadOf,                       \* the thread of an action or of a turn
    Retries                         \* not_written_retries (2 in the code)

Actions == Interrupts \cup Steers \cup Starts

ASSUME Kinds == /\ Interrupts \cap Steers = {} /\ Interrupts \cap Starts = {}
                /\ Steers \cap Starts = {} /\ Actions \cap Turns = {}
                /\ Turns \cap {"none", "set"} = {}
ASSUME Targets == /\ Target \in [Interrupts \cup Steers -> Turns]
                  /\ ThreadOf \in [Actions \cup Turns -> Threads]
ASSUME RetriesBound == Retries \in Nat

Attempts == Actions \X (1 .. Retries + 1)

VARIABLES
    call, runs, verdict,    \* the client: see RequestContract
    status,         \* status[u] at the daemon
    made,           \* made[x]: the turn the daemon created for attempt x
    feed,           \* notifications on their way to the reducer
    log,            \* notifications the reducer has applied
    line,           \* line[t]: holder of t's lock, and those waiting for it
    pc,             \* pc[a]: where the call of a is
    try,            \* try[a]: the number of its current attempt
    waiter,         \* waiter[a]: its waiter in the reducer, or the turn seen
    since,          \* since[a]: length of log when a had got its lock
    named,          \* the starts whose response named the turn it created
    outcome,        \* outcome[a]: the ActionOutcome returned
    observed        \* observed[a]: the turn of the event in its evidence

clientVars == <<call, runs, verdict>>
daemonVars == <<status, made>>
eventVars == <<feed, log>>
controlVars == <<line, pc, try, since, named, outcome, observed>>
vars == <<clientVars, daemonVars, eventVars, controlVars, waiter>>

Client == INSTANCE RequestContract WITH Reqs <- Attempts

None == "none"
Started(u) == [method |-> "turn/started", turn |-> u]
Completed(u) == [method |-> "turn/completed", turn |-> u]
Events == {Started(u) : u \in Turns} \cup {Completed(u) : u \in Turns}

Current(a) == <<a, try[a]>>
Answer(a) == call[Current(a)]

TypeOK ==
    /\ call \in [Attempts -> {"idle", "open"} \cup Client!Results]
    /\ runs \in [Attempts -> Nat]
    /\ verdict \in [Attempts -> {None} \cup Client!Verdicts]
    /\ status \in [Turns -> {"unborn", "running", "ended"}]
    /\ made \in [Attempts -> Turns \cup {None}]
    /\ feed \in Seq(Events) /\ log \in Seq(Events)
    /\ line \in [Threads -> Seq(Actions)]
    /\ pc \in [Actions -> {"idle", "queued", "sending", "awaiting",
                           "correlating", "reading", "done"}]
    /\ try \in [Actions -> 1 .. Retries + 1]
    /\ waiter \in [Actions -> Turns \cup {None, "set"}]
    /\ since \in [Actions -> Nat]
    /\ named \subseteq Starts
    /\ outcome \in [Actions -> {None, "Confirmed", "Rejected", "OutcomeUnknown"}]
    /\ observed \in [Actions -> Turns \cup {None}]

Init ==
    /\ Client!Init
    /\ status \in [Turns -> {"unborn", "running"}]
    /\ made = [x \in Attempts |-> None]
    /\ feed = <<>> /\ log = <<>>
    /\ line = [t \in Threads |-> <<>>]
    /\ pc = [a \in Actions |-> "idle"] /\ try = [a \in Actions |-> 1]
    /\ waiter = [a \in Actions |-> None] /\ since = [a \in Actions |-> 0]
    /\ named = {}
    /\ outcome = [a \in Actions |-> None] /\ observed = [a \in Actions |-> None]

-----------------------------------------------------------------------------
(* The daemon and the way of its notifications                             *)

Begins(u) ==
    /\ status[u] = "unborn"
    /\ status' = [status EXCEPT ![u] = "running"]
    /\ feed' = Append(feed, Started(u))

TurnStarts(u) ==
    /\ Begins(u)
    /\ UNCHANGED <<clientVars, made, log, controlVars, waiter>>

TurnEnds(u) ==
    /\ status[u] = "running"
    /\ status' = [status EXCEPT ![u] = "ended"]
    /\ feed' = Append(feed, Completed(u))
    /\ UNCHANGED <<clientVars, made, log, controlVars, waiter>>

\* The daemon performs an attempt; a start it accepts creates a turn.
Perform(x, v) ==
    /\ Client!Perform(x, v)
    /\ IF x[1] \in Starts /\ v = "Ok"
       THEN \E u \in Turns : /\ ThreadOf[u] = ThreadOf[x[1]] /\ Begins(u)
                             /\ made' = [made EXCEPT ![x] = u]
       ELSE UNCHANGED <<status, made, feed>>
    /\ UNCHANGED <<log, controlVars, waiter>>

\* A notification sent while the client was disconnected.
Miss ==
    /\ feed # <<>> /\ feed' = Tail(feed)
    /\ UNCHANGED <<clientVars, daemonVars, log, controlVars, waiter>>

\* The predicates of the two waiters.
Matches(a, e) ==
    \/ a \in Interrupts /\ e = Completed(Target[a])
    \/ a \in Starts /\ e.method = "turn/started" /\ ThreadOf[e.turn] = ThreadOf[a]

\* Reducer.apply hands the event to every waiter it satisfies.
Apply ==
    /\ feed # <<>> /\ feed' = Tail(feed)
    /\ log' = Append(log, Head(feed))
    /\ waiter' = [a \in Actions |->
                    IF waiter[a] = "set" /\ Matches(a, Head(feed))
                    THEN Head(feed).turn ELSE waiter[a]]
    /\ UNCHANGED <<clientVars, daemonVars, controlVars>>

-----------------------------------------------------------------------------
(* The controller                                                          *)

Invoke(a) ==
    /\ pc[a] = "idle"
    /\ pc' = [pc EXCEPT ![a] = "queued"]
    /\ line' = [line EXCEPT ![ThreadOf[a]] = Append(@, a)]
    /\ UNCHANGED <<clientVars, daemonVars, eventVars, waiter,
                   try, since, named, outcome, observed>>

\* Mutant: nothing is registered before the send.
RegisterLate(a) == UNCHANGED waiter

\* interrupt and start register their waiter before they send; steer has none.
Register(a) ==
    waiter' = [waiter EXCEPT ![a] = IF a \in Steers THEN None ELSE "set"]

\* The lock of the thread: tokio's mutex serves its waiters in turn.
Acquire(a) ==
    /\ pc[a] = "queued"
    /\ line[ThreadOf[a]] # <<>> /\ Head(line[ThreadOf[a]]) = a
    /\ pc' = [pc EXCEPT ![a] = "sending"]
    /\ since' = [since EXCEPT ![a] = Len(log)]
    /\ Register(a)
    /\ UNCHANGED <<clientVars, daemonVars, eventVars,
                   line, try, named, outcome, observed>>

\* request_action, which the gate may refuse.
Send(a) ==
    /\ pc[a] = "sending"
    /\ Client!Begin(Current(a)) \/ Client!Refuse(Current(a))
    /\ pc' = [pc EXCEPT ![a] = "awaiting"]
    /\ UNCHANGED <<daemonVars, eventVars, waiter,
                   line, try, since, named, outcome, observed>>

\* The client returns.
ClientReturns(a) ==
    /\ pc[a] = "awaiting"
    /\ \E res \in Client!Results : Client!Return(Current(a), res)
    /\ UNCHANGED <<daemonVars, eventVars, controlVars, waiter>>

\* Mutant: a timeout is retried as well.
RetryAmbiguous == {"NotWritten", "TimedOut"}

Retriable == {"NotWritten"}

\* Mutant: the retries are not counted against the limit.
RetryForever(a) ==
    /\ pc[a] = "awaiting" /\ Answer(a) \in Retriable
    /\ pc' = [pc EXCEPT ![a] = "sending"]
    /\ try' = [try EXCEPT ![a] = @ + 1]
    /\ UNCHANGED <<clientVars, daemonVars, eventVars, waiter,
                   line, since, named, outcome, observed>>

\* send_not_written_safe sleeps and tries again.
Retry(a) ==
    /\ pc[a] = "awaiting" /\ Answer(a) \in Retriable /\ try[a] <= Retries
    /\ pc' = [pc EXCEPT ![a] = "sending"]
    /\ try' = [try EXCEPT ![a] = @ + 1]
    /\ UNCHANGED <<clientVars, daemonVars, eventVars, waiter,
                   line, since, named, outcome, observed>>

\* Mutant: the lock is not released.
FinishLocked(a, o, u) ==
    /\ pc' = [pc EXCEPT ![a] = "done"]
    /\ outcome' = [outcome EXCEPT ![a] = o]
    /\ observed' = [observed EXCEPT ![a] = u]
    /\ UNCHANGED line

\* The action returns outcome o with the event of turn u, and drops its lock.
Finish(a, o, u) ==
    /\ pc' = [pc EXCEPT ![a] = "done"]
    /\ outcome' = [outcome EXCEPT ![a] = o]
    /\ observed' = [observed EXCEPT ![a] = u]
    /\ line' = [line EXCEPT ![ThreadOf[a]] = Tail(@)]

\* Mutant: every failure is reported as a refusal.
RejectAll == Client!Results \ {"Ok"}

\* The errors that mean the daemon has not accepted the request.
Refusals == {"Rejected", "Closed", "NotWritten"}

Refused(a) ==
    /\ pc[a] = "awaiting" /\ Answer(a) \in Refusals
    /\ Answer(a) \in Retriable => try[a] > Retries
    /\ Finish(a, "Rejected", None)
    /\ UNCHANGED <<clientVars, daemonVars, eventVars, waiter, try, since, named>>

\* No answer: an interrupt can still be looked up, the others cannot.
Unanswered(a) ==
    /\ pc[a] = "awaiting" /\ Answer(a) \in Client!Ambiguous \ Refusals
    /\ Answer(a) \in Retriable => try[a] > Retries
    /\ IF a \in Interrupts
       THEN /\ pc' = [pc EXCEPT ![a] = "reading"]
            /\ UNCHANGED <<line, outcome, observed>>
       ELSE Finish(a, "OutcomeUnknown", None)
    /\ UNCHANGED <<clientVars, daemonVars, eventVars, waiter, try, since, named>>

SteerAccepted(a) ==
    /\ pc[a] = "awaiting" /\ Answer(a) = "Ok" /\ a \in Steers
    /\ Finish(a, "Confirmed", None)
    /\ UNCHANGED <<clientVars, daemonVars, eventVars, waiter, try, since, named>>

\* The response of a start may or may not carry the identifier of its turn.
Accepted(a) ==
    /\ pc[a] = "awaiting" /\ Answer(a) = "Ok" /\ a \notin Steers
    /\ pc' = [pc EXCEPT ![a] = "correlating"]
    /\ named' \in {named, named \cup ({a} \cap Starts)}
    /\ UNCHANGED <<clientVars, daemonVars, eventVars, waiter,
                   line, try, since, outcome, observed>>

InterruptObserved(a) ==
    /\ pc[a] = "correlating" /\ a \in Interrupts /\ waiter[a] \in Turns
    /\ Finish(a, "Confirmed", waiter[a])
    /\ UNCHANGED <<clientVars, daemonVars, eventVars, waiter, try, since, named>>

InterruptWindowElapses(a) ==
    /\ pc[a] = "correlating" /\ a \in Interrupts /\ waiter[a] = "set"
    /\ pc' = [pc EXCEPT ![a] = "reading"]
    /\ UNCHANGED <<clientVars, daemonVars, eventVars, waiter,
                   line, try, since, named, outcome, observed>>

\* The event counts only if it is of the turn the response names.
Evidence(a) ==
    IF a \in named /\ waiter[a] \in Turns /\ waiter[a] = made[Current(a)]
    THEN waiter[a] ELSE None

\* The event came or the window elapsed: start decides by the response alone.
StartCorrelated(a) ==
    /\ pc[a] = "correlating" /\ a \in Starts
    /\ Finish(a, IF a \in named THEN "Confirmed" ELSE "OutcomeUnknown", Evidence(a))
    /\ UNCHANGED <<clientVars, daemonVars, eventVars, waiter, try, since, named>>

\* Mutant: the answer to the read is enough.
TerminalIfRead(a) == TRUE

\* thread/read shows the target turn completed, failed or interrupted.
Terminal(a) == status[Target[a]] = "ended"

\* reconcile_interrupt: the read may show the turn as it was a while ago.
InterruptRead(a) ==
    /\ pc[a] = "reading"
    /\ \/ Terminal(a) /\ Finish(a, "Confirmed", None)
       \/ Finish(a, "OutcomeUnknown", None)
    /\ UNCHANGED <<clientVars, daemonVars, eventVars, waiter, try, since, named>>

-----------------------------------------------------------------------------
Daemon ==
    \/ \E u \in Turns : TurnStarts(u) \/ TurnEnds(u)
    \/ \E x \in Attempts, v \in Client!Verdicts : Perform(x, v)
    \/ Miss \/ Apply

Step(a) ==
    \/ Acquire(a) \/ Send(a) \/ ClientReturns(a) \/ Retry(a)
    \/ Refused(a) \/ Unanswered(a) \/ SteerAccepted(a) \/ Accepted(a)
    \/ InterruptObserved(a) \/ InterruptWindowElapses(a)
    \/ StartCorrelated(a) \/ InterruptRead(a)

Finished == \A a \in Actions : pc[a] = "done"

Next ==
    \/ Daemon
    \/ \E a \in Actions : Invoke(a) \/ Step(a)
    \/ Finished /\ UNCHANGED vars

Spec == Init /\ [][Next]_vars

-----------------------------------------------------------------------------
(* Properties                                                              *)

\* However its attempts end, an action reaches the daemon once: only what was
\* certainly not written is sent again.
AtMostOnce ==
    \A a \in Actions : \A j, k \in 1 .. Retries + 1 :
        runs[<<a, j>>] > 0 /\ runs[<<a, k>>] > 0 => j = k /\ runs[<<a, j>>] = 1

\* A caller told Rejected knows that the daemon has not accepted the action,
\* and never will, whatever is still on a socket.
RejectedNeverHappens ==
    \A a \in Actions : outcome[a] = "Rejected" =>
        \A k \in 1 .. Retries + 1 : verdict[<<a, k>>] # "Ok"

\* Confirmed: the daemon accepted the start or the steer; the turn that was to
\* be interrupted is over.
ConfirmedHappened ==
    \A a \in Actions : outcome[a] = "Confirmed" =>
        IF a \in Interrupts THEN status[Target[a]] = "ended"
        ELSE verdict[Current(a)] = "Ok"

\* When the response of a start names its turn, the turn/started of that turn that
\* was applied since the start got its lock makes its evidence, also when it overtook
\* the response; only another turn of the thread seen to start before it, one of the
\* user interface, takes the place in the waiter.
StartSeesItsTurn ==
    \A a \in Starts : pc[a] = "correlating" /\ a \in named =>
        \A i \in since[a] + 1 .. Len(log) : log[i] = Started(made[Current(a)]) =>
            \/ Evidence(a) = made[Current(a)]
            \/ \E j \in since[a] + 1 .. i - 1 : log[j] = Started(waiter[a])

\* A completion applied since the interrupt got its lock has reached its
\* waiter, also when it overtook the response.
NoCompletionMissed ==
    \A a \in Interrupts : pc[a] = "correlating" /\ waiter[a] \notin Turns =>
        \A i \in since[a] + 1 .. Len(log) : log[i] # Completed(Target[a])

\* Calls of the client return, the read and the window come to an end.
Fairness == \A a \in Actions : WF_vars(Step(a))
FairSpec == Spec /\ Fairness

\* Every action returns an outcome, also the last in line for its thread.
EveryActionEnds == \A a \in Actions : pc[a] = "queued" ~> pc[a] = "done"
=============================================================================
