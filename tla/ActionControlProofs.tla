-------------------------- MODULE ActionControlProofs --------------------------
(***************************************************************************)
(* Theorems about ActionControl, for any actions, turns, threads and       *)
(* number of retries, above any client that keeps RequestContract.         *)
(***************************************************************************)
EXTENDS ActionControl, TLAPS

Holding == {"sending", "awaiting", "correlating", "reading"}

\* What a result of the client says of the daemon.
ClientInv(x) ==
    /\ runs[x] \in {0, 1}
    /\ runs[x] = 0 => verdict[x] = None
    /\ call[x] \in {"idle"} \cup Client!SafeToRetry => runs[x] = 0
    /\ call[x] \in Client!Verdicts => runs[x] = 1 /\ verdict[x] = call[x]

\* Earlier attempts were not written, later ones not begun; the outcome is
\* that of the current one.
AttemptInv(a) ==
    /\ \A k \in 1 .. Retries + 1 : /\ k < try[a] => call[<<a, k>>] = "NotWritten"
                                   /\ k > try[a] => call[<<a, k>>] = "idle"
    /\ pc[a] \in {"idle", "queued", "sending"} => Answer(a) = "idle"
    /\ pc[a] = "correlating" => Answer(a) = "Ok" /\ a \notin Steers
    /\ pc[a] = "reading" => a \in Interrupts
    /\ outcome[a] # None => pc[a] = "done"
    /\ outcome[a] = "Rejected" => Answer(a) \in Refusals
    /\ outcome[a] = "Confirmed" =>
         IF a \in Interrupts THEN status[Target[a]] = "ended" ELSE Answer(a) = "Ok"

\* A completion that is on its way, or has been observed, has happened.
EventInv ==
    /\ \A i \in DOMAIN feed : feed[i].method = "turn/completed" => status[feed[i].turn] = "ended"
    /\ \A a \in Interrupts : waiter[a] \in Turns => waiter[a] = Target[a] /\ status[Target[a]] = "ended"

\* An action under way is at the head of its thread's line.
LockInv ==
    \A a \in Actions : pc[a] \in Holding =>
        line[ThreadOf[a]] # <<>> /\ Head(line[ThreadOf[a]]) = a

IInv ==
    /\ TypeOK /\ EventInv /\ LockInv
    /\ \A x \in Attempts : ClientInv(x)
    /\ \A a \in Actions : AttemptInv(a)

-----------------------------------------------------------------------------
LEMMA AppendSeq ==
    ASSUME NEW S, NEW q \in Seq(S), NEW e \in S
    PROVE  /\ Append(q, e) \in Seq(S) /\ Append(q, e) # <<>>
           /\ \A i \in DOMAIN Append(q, e) :
                \/ i \in DOMAIN q /\ Append(q, e)[i] = q[i]
                \/ Append(q, e)[i] = e
           /\ q # <<>> => Head(Append(q, e)) = Head(q)
  OBVIOUS

LEMMA TailSeq ==
    ASSUME NEW S, NEW q \in Seq(S), q # <<>>
    PROVE  /\ Tail(q) \in Seq(S) /\ Head(q) \in S
           /\ 1 \in DOMAIN q /\ Head(q) = q[1]
           /\ \A i \in DOMAIN Tail(q) : i + 1 \in DOMAIN q /\ Tail(q)[i] = q[i + 1]
  OBVIOUS

LEMMA AttemptsOf ==
    /\ \A a \in Actions, k \in 1 .. Retries + 1 : <<a, k>> \in Attempts
    /\ TypeOK => \A a \in Actions : Current(a) \in Attempts /\ Answer(a) \in {"idle", "open"} \cup Client!Results
  BY DEF Attempts, TypeOK, Current, Answer

\* What the step of another party leaves of an action.
LEMMA AttemptFrame ==
    ASSUME NEW b \in Actions, TypeOK, AttemptInv(b),
           pc'[b] = pc[b], try'[b] = try[b], outcome'[b] = outcome[b],
           \A k \in 1 .. Retries + 1 : call'[<<b, k>>] = call[<<b, k>>],
           \A u \in Turns : status[u] = "ended" => status'[u] = "ended"
    PROVE  AttemptInv(b)'
  <1>1. try[b] \in 1 .. Retries + 1
    BY DEF TypeOK
  <1>2. Answer(b)' = Answer(b)
    BY <1>1 DEF Answer, Current
  <1>3. b \in Interrupts => Target[b] \in Turns
    BY Targets
  <1> QED BY <1>1, <1>2, <1>3 DEF AttemptInv

LEMMA InvInit == Init => IInv
  <1> SUFFICES ASSUME Init PROVE IInv
    OBVIOUS
  <1> USE DEF Init, Client!Init
  <1>0. Retries \in Nat /\ 1 \in 1 .. Retries + 1
    BY RetriesBound
  <1>1. TypeOK
    BY <1>0 DEF TypeOK, None
  <1>2. EventInv /\ LockInv
    BY Kinds DEF EventInv, LockInv, Holding, None, Actions
  <1>3. ASSUME NEW x \in Attempts PROVE ClientInv(x)
    BY <1>3 DEF ClientInv, Client!SafeToRetry, Client!Verdicts, None
  <1>4. ASSUME NEW a \in Actions PROVE AttemptInv(a)
    BY <1>0, <1>4, AttemptsOf DEF AttemptInv, Answer, Current, None
  <1> QED BY <1>1, <1>2, <1>3, <1>4 DEF IInv
-----------------------------------------------------------------------------
(* Steps of the controller that leave client, daemon and events alone.     *)

Untouched == UNCHANGED <<clientVars, daemonVars, eventVars, waiter>>

\* The action a moves on with its lock held.
LEMMA MoveStep ==
    ASSUME NEW a \in Actions, NEW p \in Holding, IInv, Untouched,
           pc[a] \in Holding, pc' = [pc EXCEPT ![a] = p],
           try' \in [Actions -> 1 .. Retries + 1],
           \A b \in Actions \ {a} : try'[b] = try[b],
           named' \subseteq Starts, UNCHANGED <<line, since, outcome, observed>>,
           AttemptInv(a)'
    PROVE  IInv'
  <1> USE DEF IInv, Untouched, clientVars, daemonVars, eventVars
  <1>1. TypeOK'
    BY DEF TypeOK, Holding
  <1>2. EventInv'
    BY DEF EventInv
  <1>3. LockInv'
    BY DEF LockInv, TypeOK
  <1>4. \A x \in Attempts : ClientInv(x)'
    BY DEF ClientInv
  <1>5. ASSUME NEW b \in Actions PROVE AttemptInv(b)'
    <2>1. CASE b = a
      BY <2>1
    <2>2. CASE b # a
      <3>1. pc'[b] = pc[b] /\ try'[b] = try[b] /\ outcome'[b] = outcome[b]
        BY <2>2 DEF TypeOK
      <3> QED BY <3>1, AttemptFrame
    <2> QED BY <2>1, <2>2
  <1> QED BY <1>1, <1>2, <1>3, <1>4, <1>5

\* The action a returns and its lock goes to the next in line.
LEMMA FinishStep ==
    ASSUME NEW a \in Actions, NEW o \in {"Confirmed", "Rejected", "OutcomeUnknown"},
           NEW u \in Turns \cup {None}, IInv, Untouched,
           pc[a] \in Holding, Finish(a, o, u), UNCHANGED <<try, since, named>>,
           o = "Rejected" => Answer(a) \in Refusals,
           o = "Confirmed" => IF a \in Interrupts THEN status[Target[a]] = "ended"
                              ELSE Answer(a) = "Ok"
    PROVE  IInv'
  <1> USE DEF IInv, Untouched, clientVars, daemonVars, eventVars
  <1>t. ThreadOf[a] \in Threads /\ line[ThreadOf[a]] \in Seq(Actions)
        /\ line[ThreadOf[a]] # <<>> /\ Head(line[ThreadOf[a]]) = a
    BY Targets DEF TypeOK, LockInv
  <1>l. Tail(line[ThreadOf[a]]) \in Seq(Actions)
    BY <1>t, TailSeq
  <1>1. TypeOK'
    BY <1>t, <1>l DEF TypeOK, Finish
  <1>2. EventInv'
    BY DEF EventInv
  <1>3. ASSUME NEW b \in Actions, pc'[b] \in Holding
        PROVE  line'[ThreadOf[b]] # <<>> /\ Head(line'[ThreadOf[b]]) = b
    <2>1. b # a /\ pc[b] \in Holding
      BY <1>3 DEF Finish, TypeOK, Holding
    <2>2. line[ThreadOf[b]] # <<>> /\ Head(line[ThreadOf[b]]) = b
      BY <2>1 DEF LockInv
    <2>3. ThreadOf[b] \in Threads /\ ThreadOf[b] # ThreadOf[a]
      BY <2>1, <2>2, <1>t, Targets
    <2>4. line'[ThreadOf[b]] = line[ThreadOf[b]]
      BY <2>3 DEF Finish, TypeOK
    <2> QED BY <2>2, <2>4
  <1>4. \A x \in Attempts : ClientInv(x)'
    BY DEF ClientInv
  <1>5. ASSUME NEW b \in Actions PROVE AttemptInv(b)'
    <2>1. CASE b = a
      <3>1. pc'[a] = "done" /\ outcome'[a] = o /\ try'[a] = try[a] /\ Answer(a)' = Answer(a)
        BY DEF Finish, TypeOK, Answer, Current
      <3>2. AttemptInv(a)
        OBVIOUS
      <3> QED BY <2>1, <3>1, <3>2 DEF AttemptInv
    <2>2. CASE b # a
      <3>1. pc'[b] = pc[b] /\ try'[b] = try[b] /\ outcome'[b] = outcome[b]
        BY <2>2 DEF TypeOK, Finish
      <3> QED BY <3>1, AttemptFrame
    <2> QED BY <2>1, <2>2
  <1> QED BY <1>1, <1>2, <1>3, <1>4, <1>5 DEF LockInv

LEMMA ReturnSteps ==
    ASSUME NEW a \in Actions, IInv,
           \/ Refused(a) \/ SteerAccepted(a) \/ InterruptObserved(a)
           \/ StartCorrelated(a) \/ InterruptRead(a)
    PROVE  IInv'
  <1>1. CASE Refused(a)
    BY <1>1, FinishStep DEF Refused, Untouched, Holding, None
  <1>2. CASE SteerAccepted(a)
    BY <1>2, FinishStep, Kinds DEF SteerAccepted, Untouched, Holding, None
  <1>3. CASE InterruptObserved(a)
    BY <1>3, FinishStep DEF InterruptObserved, Untouched, Holding, IInv, EventInv
  <1>4. CASE StartCorrelated(a)
    <2> DEFINE o == IF a \in named THEN "Confirmed" ELSE "OutcomeUnknown"
    <2>1. /\ pc[a] = "correlating" /\ a \in Starts /\ Finish(a, o, Evidence(a)) /\ Untouched
          /\ UNCHANGED <<try, since, named>>
      BY <1>4 DEF StartCorrelated, Untouched
    <2>2. Evidence(a) \in Turns \cup {None} /\ o \in {"Confirmed", "OutcomeUnknown"}
      BY DEF Evidence
    <2>3. Answer(a) = "Ok" /\ a \notin Interrupts
      BY <2>1, Kinds DEF IInv, AttemptInv
    <2> HIDE DEF o
    <2> QED BY <2>1, <2>2, <2>3, FinishStep DEF Holding
  <1>5. CASE InterruptRead(a)
    <2>1. a \in Interrupts
      BY <1>5 DEF InterruptRead, IInv, AttemptInv
    <2> QED BY <1>5, <2>1, FinishStep DEF InterruptRead, Terminal, Untouched, Holding, None
  <1> QED BY <1>1, <1>2, <1>3, <1>4, <1>5

LEMMA MoveSteps ==
    ASSUME NEW a \in Actions, IInv,
           Retry(a) \/ Unanswered(a) \/ Accepted(a) \/ InterruptWindowElapses(a)
    PROVE  IInv'
  <1>1. CASE Retry(a)
    <2>1. /\ pc[a] = "awaiting" /\ Answer(a) = "NotWritten" /\ Untouched
          /\ try[a] \in 1 .. Retries + 1 /\ try[a] <= Retries
          /\ pc' = [pc EXCEPT ![a] = "sending"] /\ try' = [try EXCEPT ![a] = try[a] + 1]
          /\ named' = named /\ UNCHANGED <<line, since, outcome, observed>>
      BY <1>1 DEF Retry, Retriable, Untouched, IInv, TypeOK
    <2>2. try[a] + 1 \in 1 .. Retries + 1
      BY <2>1, RetriesBound
    <2>3. /\ try' \in [Actions -> 1 .. Retries + 1] /\ try'[a] = try[a] + 1
          /\ \A b \in Actions \ {a} : try'[b] = try[b]
          /\ pc'[a] = "sending" /\ outcome'[a] = None
      BY <2>1, <2>2 DEF IInv, TypeOK, AttemptInv
    <2>4. AttemptInv(a)'
      <3>1. \A k \in 1 .. Retries + 1 : call'[<<a, k>>] = call[<<a, k>>]
        BY <2>1 DEF Untouched, clientVars
      <3>2. call[<<a, try[a]>>] = "NotWritten" /\ AttemptInv(a)
        BY <2>1 DEF Answer, Current, IInv
      <3>3. \A k \in 1 .. Retries + 1 : /\ k < try'[a] => call'[<<a, k>>] = "NotWritten"
                                        /\ k > try'[a] => call'[<<a, k>>] = "idle"
        BY <2>1, <2>3, <3>1, <3>2, RetriesBound DEF AttemptInv
      <3>4. Answer(a)' = "idle"
        BY <2>1, <2>2, <2>3, <3>1, <3>2 DEF AttemptInv, Answer, Current
      <3> QED BY <2>3, <3>3, <3>4 DEF AttemptInv, None
    <2> QED BY <2>1, <2>3, <2>4, MoveStep DEF Holding, IInv, TypeOK
  <1>2. CASE Unanswered(a)
    <2>1. CASE a \in Interrupts
      <3>1. /\ Untouched /\ pc[a] = "awaiting" /\ pc' = [pc EXCEPT ![a] = "reading"]
            /\ UNCHANGED <<try, since, named, line, outcome, observed>>
        BY <1>2, <2>1 DEF Unanswered, Untouched
      <3>2. AttemptInv(a)'
        BY <2>1, <3>1 DEF AttemptInv, IInv, TypeOK, Untouched, clientVars, daemonVars, Answer, Current
      <3> QED BY <3>1, <3>2, MoveStep DEF Holding, IInv, TypeOK
    <2>2. CASE a \notin Interrupts
      BY <1>2, <2>2, FinishStep DEF Unanswered, Untouched, Holding, None
    <2> QED BY <2>1, <2>2
  <1>3. CASE Accepted(a)
    <2>1. /\ Untouched /\ pc[a] = "awaiting" /\ pc' = [pc EXCEPT ![a] = "correlating"]
          /\ Answer(a) = "Ok" /\ a \notin Steers
          /\ named' \subseteq Starts /\ UNCHANGED <<try, since, line, outcome, observed>>
      BY <1>3 DEF Accepted, Untouched, IInv, TypeOK
    <2>2. AttemptInv(a)'
      BY <2>1 DEF AttemptInv, IInv, TypeOK, Untouched, clientVars, daemonVars, Answer, Current
    <2> QED BY <2>1, <2>2, MoveStep DEF Holding, IInv, TypeOK
  <1>4. CASE InterruptWindowElapses(a)
    <2>1. /\ Untouched /\ pc[a] = "correlating" /\ pc' = [pc EXCEPT ![a] = "reading"]
          /\ a \in Interrupts /\ UNCHANGED <<try, since, named, line, outcome, observed>>
      BY <1>4 DEF InterruptWindowElapses, Untouched
    <2>2. AttemptInv(a)'
      BY <2>1 DEF AttemptInv, IInv, TypeOK, Untouched, clientVars, daemonVars, Answer, Current
    <2> QED BY <2>1, <2>2, MoveStep DEF Holding, IInv, TypeOK
  <1> QED BY <1>1, <1>2, <1>3, <1>4

LEMMA BeginSteps ==
    ASSUME NEW a \in Actions, IInv, Invoke(a) \/ Acquire(a)
    PROVE  IInv'
  <1> USE DEF IInv
  <1>t. ThreadOf[a] \in Threads /\ line[ThreadOf[a]] \in Seq(Actions)
    BY Targets DEF TypeOK
  <1>1. CASE Invoke(a)
    <2> USE DEF clientVars, daemonVars, eventVars
    <2>1. Append(line[ThreadOf[a]], a) \in Seq(Actions)
      BY <1>t, AppendSeq
    <2>2. TypeOK'
      BY <1>1, <1>t, <2>1 DEF Invoke, TypeOK
    <2>3. EventInv' /\ \A x \in Attempts : ClientInv(x)'
      BY <1>1 DEF Invoke, EventInv, ClientInv
    <2>4. ASSUME NEW b \in Actions, pc'[b] \in Holding
          PROVE  line'[ThreadOf[b]] # <<>> /\ Head(line'[ThreadOf[b]]) = b
      <3>1. pc[b] \in Holding
        BY <1>1, <2>4 DEF Invoke, TypeOK, Holding
      <3>2. line[ThreadOf[b]] # <<>> /\ Head(line[ThreadOf[b]]) = b /\ ThreadOf[b] \in Threads
        BY <3>1, Targets DEF LockInv
      <3>3. line' = [line EXCEPT ![ThreadOf[a]] = Append(line[ThreadOf[a]], a)]
            /\ line \in [Threads -> Seq(Actions)]
        BY <1>1 DEF Invoke, TypeOK
      <3>4. CASE ThreadOf[b] = ThreadOf[a]
        BY <1>t, <3>2, <3>3, <3>4, AppendSeq
      <3>5. CASE ThreadOf[b] # ThreadOf[a]
        BY <3>2, <3>3, <3>5
      <3> QED BY <3>4, <3>5
    <2>5. AttemptInv(a)'
      BY <1>1 DEF Invoke, TypeOK, AttemptInv, Answer, Current
    <2>6. ASSUME NEW b \in Actions \ {a} PROVE AttemptInv(b)'
      <3>1. pc'[b] = pc[b] /\ try'[b] = try[b] /\ outcome'[b] = outcome[b]
        BY <1>1 DEF Invoke, TypeOK
      <3> QED BY <1>1, <3>1, AttemptFrame DEF Invoke
    <2> QED BY <2>2, <2>3, <2>4, <2>5, <2>6 DEF LockInv
  <1>2. CASE Acquire(a)
    <2> USE DEF clientVars, daemonVars, eventVars
    <2>1. waiter' \in [Actions -> Turns \cup {None, "set"}]
          /\ since' \in [Actions -> Nat]
      BY <1>2 DEF Acquire, Register, TypeOK
    <2>2. TypeOK'
      BY <1>2, <2>1 DEF Acquire, TypeOK
    <2>3. \A b \in Actions : waiter'[b] \in Turns => waiter'[b] = waiter[b]
      BY <1>2, Kinds DEF Acquire, Register, TypeOK, None
    <2>4. EventInv'
      BY <1>2, <2>3 DEF Acquire, EventInv, Actions
    <2>5. \A x \in Attempts : ClientInv(x)'
      BY <1>2 DEF Acquire, ClientInv
    <2>6. LockInv'
      BY <1>2 DEF Acquire, LockInv, TypeOK, Holding
    <2>7. AttemptInv(a)'
      BY <1>2 DEF Acquire, TypeOK, AttemptInv, Answer, Current
    <2>8. ASSUME NEW b \in Actions \ {a} PROVE AttemptInv(b)'
      <3>1. pc'[b] = pc[b] /\ try'[b] = try[b] /\ outcome'[b] = outcome[b]
        BY <1>2 DEF Acquire, TypeOK
      <3> QED BY <1>2, <3>1, AttemptFrame DEF Acquire
    <2> QED BY <2>2, <2>4, <2>5, <2>6, <2>7, <2>8
  <1> QED BY <1>1, <1>2

-----------------------------------------------------------------------------
(* Steps of the client.                                                    *)

\* Whatever the client does to one attempt, the others are as they were.
LEMMA ClientStep ==
    ASSUME NEW x \in Attempts, IInv,
           \/ Client!Begin(x) \/ Client!Refuse(x)
           \/ \E v \in Client!Verdicts : Client!Perform(x, v)
           \/ \E res \in Client!Results : Client!Return(x, res)
    PROVE  /\ call' \in [Attempts -> {"idle", "open"} \cup Client!Results]
           /\ runs' \in [Attempts -> Nat]
           /\ verdict' \in [Attempts -> {None} \cup Client!Verdicts]
           /\ \A y \in Attempts \ {x} : call'[y] = call[y]
           /\ \A y \in Attempts : ClientInv(y)'
  <1> USE DEF IInv, TypeOK, ClientInv, Client!Verdicts, Client!SafeToRetry, Client!Ambiguous,
              Client!Results, None
  <1>0. CASE Client!Begin(x)
    BY <1>0 DEF Client!Begin
  <1>1. CASE Client!Refuse(x)
    BY <1>1 DEF Client!Refuse
  <1>2. ASSUME NEW v \in Client!Verdicts, Client!Perform(x, v)
        PROVE  /\ UNCHANGED call /\ runs' \in [Attempts -> Nat]
               /\ verdict' \in [Attempts -> {None} \cup Client!Verdicts]
               /\ \A y \in Attempts : ClientInv(y)'
    BY <1>2 DEF Client!Perform
  <1>3. ASSUME NEW res \in Client!Results, Client!Return(x, res)
        PROVE  /\ call' \in [Attempts -> {"idle", "open"} \cup Client!Results]
               /\ UNCHANGED <<runs, verdict>>
               /\ \A y \in Attempts \ {x} : call'[y] = call[y]
               /\ \A y \in Attempts : ClientInv(y)'
    BY <1>3 DEF Client!Return
  <1> QED BY <1>0, <1>1, <1>2, <1>3

LEMMA SendSteps ==
    ASSUME NEW a \in Actions, IInv, Send(a) \/ ClientReturns(a)
    PROVE  IInv'
  <1> USE DEF IInv
  <1>x. Current(a) \in Attempts /\ try[a] \in 1 .. Retries + 1
    BY AttemptsOf DEF TypeOK
  <1>c. /\ call' \in [Attempts -> {"idle", "open"} \cup Client!Results]
        /\ runs' \in [Attempts -> Nat]
        /\ verdict' \in [Attempts -> {None} \cup Client!Verdicts]
        /\ \A y \in Attempts \ {Current(a)} : call'[y] = call[y]
        /\ \A y \in Attempts : ClientInv(y)'
    BY <1>x, ClientStep DEF Send, ClientReturns
  <1>p. /\ pc[a] \in {"sending", "awaiting"} /\ pc' = [pc EXCEPT ![a] = "awaiting"]
        /\ UNCHANGED <<daemonVars, eventVars, waiter, line, try, since, named, outcome, observed>>
    BY DEF Send, ClientReturns, controlVars, TypeOK
  <1>1. TypeOK'
    BY <1>c, <1>p DEF TypeOK, daemonVars, eventVars
  <1>2. EventInv' /\ LockInv'
    BY <1>p DEF EventInv, LockInv, Holding, TypeOK, daemonVars, eventVars
  <1>3. AttemptInv(a)'
    <2>1. \A k \in 1 .. Retries + 1 : k # try[a] => call'[<<a, k>>] = call[<<a, k>>]
      BY <1>c, AttemptsOf DEF Current
    <2>2. pc'[a] = "awaiting" /\ outcome'[a] = None /\ try'[a] = try[a]
      BY <1>p DEF TypeOK, AttemptInv
    <2> QED BY <2>1, <2>2 DEF AttemptInv, None
  <1>4. ASSUME NEW b \in Actions \ {a} PROVE AttemptInv(b)'
    <2>1. pc'[b] = pc[b] /\ try'[b] = try[b] /\ outcome'[b] = outcome[b] /\ UNCHANGED status
      BY <1>p DEF TypeOK, daemonVars
    <2>2. \A k \in 1 .. Retries + 1 : call'[<<b, k>>] = call[<<b, k>>]
      BY <1>c, AttemptsOf DEF Current
    <2> QED BY <2>1, <2>2, AttemptFrame
  <1> QED BY <1>1, <1>2, <1>3, <1>4, <1>c

-----------------------------------------------------------------------------
(* Steps of the daemon.                                                    *)

\* A turn changes and its notification goes out; clients and controllers see
\* nothing of it yet.
LEMMA TurnStep ==
    ASSUME IInv, NEW u \in Turns, UNCHANGED <<call, log, controlVars, waiter>>,
           \/ Begins(u)
           \/ /\ status[u] = "running" /\ status' = [status EXCEPT ![u] = "ended"]
              /\ feed' = Append(feed, Completed(u))
    PROVE  /\ status' \in [Turns -> {"unborn", "running", "ended"}] /\ feed' \in Seq(Events)
           /\ EventInv' /\ LockInv'
           /\ \A b \in Actions : AttemptInv(b)'
  <1> USE DEF IInv
  <1>s. /\ status' \in [Turns -> {"unborn", "running", "ended"}]
        /\ \A w \in Turns : status[w] = "ended" => status'[w] = "ended"
    BY DEF Begins, TypeOK
  <1>f. PICK e \in Events : /\ feed' = Append(feed, e)
                            /\ e.method = "turn/completed" => status'[e.turn] = "ended"
    <2>1. CASE Begins(u)
      BY <2>1 DEF Begins, Events, Started
    <2>2. CASE ~Begins(u)
      BY <2>2 DEF Events, Completed, TypeOK
    <2> QED BY <2>1, <2>2
  <1>q. /\ feed' \in Seq(Events)
        /\ \A i \in DOMAIN feed' : \/ i \in DOMAIN feed /\ feed'[i] = feed[i]
                                   \/ feed'[i] = e
    BY <1>f, AppendSeq DEF TypeOK
  <1>e. \A i \in DOMAIN feed : feed[i].turn \in Turns
    BY DEF TypeOK, Events, Started, Completed
  <1>1. EventInv'
    BY <1>s, <1>f, <1>q, <1>e, Targets DEF EventInv
  <1>2. LockInv'
    BY DEF LockInv, controlVars
  <1>3. ASSUME NEW b \in Actions PROVE AttemptInv(b)'
    BY <1>3, <1>s, AttemptFrame DEF controlVars
  <1> QED BY <1>s, <1>q, <1>1, <1>2, <1>3

LEMMA DaemonStep == ASSUME IInv, Daemon PROVE IInv'
  <1> USE DEF IInv
  <1>1. ASSUME NEW u \in Turns, TurnStarts(u) \/ TurnEnds(u) PROVE IInv'
    <2>1. /\ UNCHANGED <<clientVars, made, log, controlVars, waiter>>
          /\ status' \in [Turns -> {"unborn", "running", "ended"}] /\ feed' \in Seq(Events)
          /\ EventInv' /\ LockInv' /\ \A b \in Actions : AttemptInv(b)'
      BY <1>1, TurnStep DEF TurnStarts, TurnEnds, clientVars
    <2>2. TypeOK' /\ \A x \in Attempts : ClientInv(x)'
      BY <2>1 DEF TypeOK, ClientInv, clientVars, controlVars
    <2> QED BY <2>1, <2>2
  <1>2. ASSUME NEW x \in Attempts, NEW v \in Client!Verdicts, Perform(x, v) PROVE IInv'
    <2>1. /\ Client!Perform(x, v) /\ UNCHANGED <<call, log, controlVars, waiter>>
      BY <1>2 DEF Perform, Client!Perform
    <2>2. /\ runs' \in [Attempts -> Nat] /\ verdict' \in [Attempts -> {None} \cup Client!Verdicts]
          /\ \A y \in Attempts : ClientInv(y)'
      BY <2>1, ClientStep
    <2>3. CASE x[1] \in Starts /\ v = "Ok"
      <3>1. PICK u \in Turns : Begins(u) /\ made' = [made EXCEPT ![x] = u]
        BY <1>2, <2>3 DEF Perform
      <3>2. /\ status' \in [Turns -> {"unborn", "running", "ended"}] /\ feed' \in Seq(Events)
            /\ EventInv' /\ LockInv' /\ \A b \in Actions : AttemptInv(b)'
        BY <2>1, <3>1, TurnStep
      <3>3. TypeOK'
        BY <2>1, <2>2, <3>1, <3>2 DEF TypeOK, controlVars
      <3> QED BY <2>2, <3>2, <3>3
    <2>4. CASE ~(x[1] \in Starts /\ v = "Ok")
      <3>1. UNCHANGED <<status, made, feed>>
        BY <1>2, <2>4 DEF Perform
      <3>2. TypeOK' /\ EventInv' /\ LockInv'
        BY <2>1, <2>2, <3>1 DEF TypeOK, EventInv, LockInv, controlVars
      <3>3. ASSUME NEW b \in Actions PROVE AttemptInv(b)'
        BY <2>1, <3>1, <3>3, AttemptFrame DEF controlVars
      <3> QED BY <2>2, <3>2, <3>3
    <2> QED BY <2>3, <2>4
  <1>3. CASE Miss \/ Apply
    <2>1. /\ feed # <<>> /\ feed' = Tail(feed)
          /\ UNCHANGED <<clientVars, daemonVars, controlVars>>
      BY <1>3 DEF Miss, Apply
    <2>2. /\ feed' \in Seq(Events) /\ Head(feed) \in Events /\ Head(feed).turn \in Turns
          /\ 1 \in DOMAIN feed /\ Head(feed) = feed[1]
          /\ \A i \in DOMAIN feed' : i + 1 \in DOMAIN feed /\ feed'[i] = feed[i + 1]
      BY <2>1, TailSeq DEF TypeOK, Events, Started, Completed
    <2>3. log' \in Seq(Events)
      <3>1. CASE Miss
        BY <3>1 DEF Miss, TypeOK
      <3>2. CASE Apply
        <4>1. log' = Append(log, Head(feed)) /\ log \in Seq(Events)
          BY <3>2 DEF Apply, TypeOK
        <4> QED BY <4>1, <2>2, AppendSeq
      <3> QED BY <1>3, <3>1, <3>2
    <2>4. /\ waiter' \in [Actions -> Turns \cup {None, "set"}]
          /\ \A a \in Interrupts :
               waiter'[a] # waiter[a] => /\ Head(feed) = Completed(Target[a])
                                         /\ waiter'[a] = Target[a]
      <3>1. CASE Miss
        BY <3>1 DEF Miss, TypeOK
      <3>2. CASE Apply
        <4>1. waiter' \in [Actions -> Turns \cup {None, "set"}]
          BY <2>2, <3>2 DEF Apply, TypeOK
        <4>2. ASSUME NEW a \in Interrupts, waiter'[a] # waiter[a]
              PROVE  Head(feed) = Completed(Target[a]) /\ waiter'[a] = Target[a]
          <5>1. a \in Actions /\ a \notin Starts
            BY Kinds DEF Actions
          <5>2. Matches(a, Head(feed)) /\ waiter'[a] = Head(feed).turn
            BY <3>2, <4>2, <5>1 DEF Apply
          <5> QED BY <5>1, <5>2 DEF Matches, Completed
        <4> QED BY <4>1, <4>2
      <3> QED BY <1>3, <3>1, <3>2
    <2>5. TypeOK'
      BY <2>1, <2>2, <2>3, <2>4 DEF TypeOK, clientVars, daemonVars, controlVars
    <2>6. EventInv'
      <3>1. \A i \in DOMAIN feed' :
                feed'[i].method = "turn/completed" => status'[feed'[i].turn] = "ended"
        BY <2>1, <2>2 DEF EventInv, daemonVars
      <3>2. ASSUME NEW a \in Interrupts, waiter'[a] \in Turns
            PROVE  waiter'[a] = Target[a] /\ status'[Target[a]] = "ended"
        <4>1. CASE waiter'[a] = waiter[a]
          BY <2>1, <3>2, <4>1 DEF EventInv, daemonVars
        <4>2. CASE waiter'[a] # waiter[a]
          BY <2>1, <2>2, <2>4, <3>2, <4>2 DEF EventInv, daemonVars, Completed
        <4> QED BY <4>1, <4>2
      <3> QED BY <3>1, <3>2 DEF EventInv
    <2>7. LockInv' /\ \A x \in Attempts : ClientInv(x)'
      BY <2>1 DEF LockInv, ClientInv, clientVars, controlVars
    <2>8. ASSUME NEW b \in Actions PROVE AttemptInv(b)'
      BY <2>1, <2>8, AttemptFrame DEF clientVars, daemonVars, controlVars
    <2> QED BY <2>5, <2>6, <2>7, <2>8
  <1> QED BY <1>1, <1>2, <1>3 DEF Daemon

-----------------------------------------------------------------------------
LEMMA InvStep == IInv /\ [Next]_vars => IInv'
  <1> SUFFICES ASSUME IInv, [Next]_vars PROVE IInv'
    OBVIOUS
  <1>1. CASE Daemon
    BY <1>1, DaemonStep
  <1>2. ASSUME NEW a \in Actions, Invoke(a) \/ Step(a) PROVE IInv'
    BY <1>2, BeginSteps, SendSteps, ReturnSteps, MoveSteps DEF Step
  <1>3. CASE UNCHANGED vars
    <2>1. UNCHANGED <<clientVars, daemonVars, eventVars, controlVars, waiter>>
      BY <1>3 DEF vars
    <2>2. TypeOK' /\ EventInv' /\ LockInv' /\ \A x \in Attempts : ClientInv(x)'
      BY <2>1 DEF IInv, TypeOK, EventInv, LockInv, ClientInv, clientVars, daemonVars, eventVars,
                  controlVars
    <2>3. ASSUME NEW b \in Actions PROVE AttemptInv(b)'
      BY <2>1, <2>3, AttemptFrame DEF IInv, clientVars, daemonVars, controlVars
    <2> QED BY <2>2, <2>3 DEF IInv
  <1> QED BY <1>1, <1>2, <1>3 DEF Next

\* The inductive invariant of the controller.
THEOREM Invariance == Spec => []IInv
  BY InvInit, InvStep, PTL DEF Spec

\* Every variable keeps its type; no attempt past the last retry is made.
THEOREM TypeCorrect == Spec => []TypeOK
  <1>1. IInv => TypeOK
    BY DEF IInv
  <1> QED BY <1>1, Invariance, PTL

\* send_not_written_safe never lets the daemon perform an action twice.
THEOREM OncePerAction == Spec => []AtMostOnce
  <1>1. ASSUME IInv PROVE AtMostOnce
    <2> SUFFICES ASSUME NEW a \in Actions, NEW j \in 1 .. Retries + 1,
                        NEW k \in 1 .. Retries + 1,
                        runs[<<a, j>>] > 0, runs[<<a, k>>] > 0
                 PROVE  j = k /\ runs[<<a, j>>] = 1
      BY DEF AtMostOnce
    <2>1. ASSUME NEW i \in 1 .. Retries + 1, runs[<<a, i>>] > 0
          PROVE  i = try[a] /\ runs[<<a, i>>] = 1
      <3>1. ClientInv(<<a, i>>) /\ AttemptInv(a) /\ try[a] \in 1 .. Retries + 1
        BY <1>1, AttemptsOf DEF IInv, TypeOK
      <3>2. call[<<a, i>>] \notin {"idle", "NotWritten"} /\ runs[<<a, i>>] = 1
        BY <2>1, <3>1 DEF ClientInv, Client!SafeToRetry
      <3> QED BY <3>1, <3>2, RetriesBound DEF AttemptInv
    <2> QED BY <2>1
  <1> QED BY <1>1, Invariance, PTL

\* Rejected is final: the daemon has not accepted the action and never will.
THEOREM RejectionIsFinal == Spec => []RejectedNeverHappens
  <1>1. ASSUME IInv PROVE RejectedNeverHappens
    <2> SUFFICES ASSUME NEW a \in Actions, outcome[a] = "Rejected", NEW k \in 1 .. Retries + 1
                 PROVE  verdict[<<a, k>>] # "Ok"
      BY DEF RejectedNeverHappens
    <2>1. /\ ClientInv(<<a, k>>) /\ AttemptInv(a) /\ try[a] \in 1 .. Retries + 1
      BY <1>1, AttemptsOf DEF IInv, TypeOK
    <2>2. call[<<a, k>>] \in {"idle"} \cup Refusals
      BY <2>1, RetriesBound DEF AttemptInv, Answer, Current, Refusals
    <2> QED BY <2>1, <2>2 DEF ClientInv, Refusals, Client!SafeToRetry, Client!Verdicts, None
  <1> QED BY <1>1, Invariance, PTL

\* Confirmed is backed by the daemon's acceptance or by the end of the turn.
THEOREM ConfirmationIsSound == Spec => []ConfirmedHappened
  <1>1. ASSUME IInv PROVE ConfirmedHappened
    <2> SUFFICES ASSUME NEW a \in Actions, outcome[a] = "Confirmed"
                 PROVE  IF a \in Interrupts THEN status[Target[a]] = "ended"
                        ELSE verdict[Current(a)] = "Ok"
      BY DEF ConfirmedHappened
    <2>1. AttemptInv(a) /\ ClientInv(Current(a))
      BY <1>1, AttemptsOf DEF IInv
    <2> QED BY <2>1 DEF AttemptInv, ClientInv, Answer, Client!Verdicts
  <1> QED BY <1>1, Invariance, PTL

-----------------------------------------------------------------------------
(* The waiter of an interrupt                                              *)

\* While an interrupt is under way its waiter is registered, and what has been
\* applied since is not the completion of its turn, or the waiter has got it.
WatchInv ==
    \A a \in Interrupts : pc[a] \in Holding /\ waiter[a] \notin Turns =>
        /\ waiter[a] = "set"
        /\ \A i \in since[a] + 1 .. Len(log) : log[i] # Completed(Target[a])

\* Steps other than Acquire and Apply take no interrupt under way and leave the
\* log and the waiters as they are.
LEMMA WatchFrame ==
    ASSUME IInv, [Next]_vars, ~Apply, \A b \in Actions : ~Acquire(b)
    PROVE  /\ UNCHANGED <<log, waiter, since>>
           /\ \A a \in Actions : pc'[a] \in Holding => pc[a] \in Holding
  <1> USE DEF IInv, TypeOK, Holding, eventVars, controlVars
  <1>1. CASE UNCHANGED vars
    BY <1>1 DEF vars
  <1>2. CASE Daemon
    BY <1>2 DEF Daemon, TurnStarts, TurnEnds, Perform, Miss
  <1>3. ASSUME NEW b \in Actions, Invoke(b) \/ Step(b)
        PROVE  /\ UNCHANGED <<log, waiter, since>>
               /\ \A a \in Actions : pc'[a] \in Holding => pc[a] \in Holding
    <2>1. CASE Invoke(b)
      BY <2>1 DEF Invoke
    <2>2. CASE Send(b) \/ ClientReturns(b) \/ Retry(b)
      BY <2>2 DEF Send, ClientReturns, Retry
    <2>3. CASE Refused(b) \/ SteerAccepted(b) \/ InterruptObserved(b)
      BY <2>3 DEF Refused, SteerAccepted, InterruptObserved, Finish
    <2>4. CASE Accepted(b) \/ InterruptWindowElapses(b)
      BY <2>4 DEF Accepted, InterruptWindowElapses
    <2>5. CASE Unanswered(b)
      BY <2>5 DEF Unanswered, Finish
    <2>6. CASE StartCorrelated(b) \/ InterruptRead(b)
      BY <2>6 DEF StartCorrelated, InterruptRead, Finish
    <2> QED BY <1>3, <2>1, <2>2, <2>3, <2>4, <2>5, <2>6 DEF Step
  <1> QED BY <1>1, <1>2, <1>3 DEF Next

\* interrupt registers its waiter before it sends, so a completion applied at any
\* time after that is in the waiter's hands when the response comes.
THEOREM InterruptSeesCompletion == Spec => []NoCompletionMissed
  <1>1. Init => WatchInv
    BY DEF Init, WatchInv, Holding, Actions
  <1>2. ASSUME IInv, WatchInv, [Next]_vars PROVE WatchInv'
    <2> SUFFICES ASSUME NEW a \in Interrupts, pc'[a] \in Holding, waiter'[a] \notin Turns
                 PROVE  /\ waiter'[a] = "set"
                        /\ \A i \in since'[a] + 1 .. Len(log') : log'[i] # Completed(Target[a])
      BY DEF WatchInv
    <2>0. /\ a \in Actions /\ a \notin Steers /\ a \notin Starts
          /\ Target[a] \in Turns /\ log \in Seq(Events) /\ since[a] \in Nat
      BY <1>2, Kinds, Targets DEF Actions, IInv, TypeOK
    <2>1. CASE Apply
      <3>1. pc[a] \in Holding /\ since'[a] = since[a] /\ log' = Append(log, Head(feed))
            /\ Head(feed) \in Events
        BY <1>2, <2>1, TailSeq DEF Apply, controlVars, IInv, TypeOK
      <3>2. /\ waiter'[a] = IF waiter[a] = "set" /\ Matches(a, Head(feed))
                            THEN Head(feed).turn ELSE waiter[a]
        BY <2>0, <2>1 DEF Apply
      <3>3. waiter[a] \notin Turns
        BY <3>2, Kinds
      <3>4. waiter[a] = "set" /\ \A i \in since[a] + 1 .. Len(log) : log[i] # Completed(Target[a])
        BY <1>2, <3>1, <3>3 DEF WatchInv
      <3>5. Head(feed) # Completed(Target[a]) /\ waiter'[a] = "set"
        BY <2>0, <3>2, <3>4 DEF Matches, Completed
      <3>6. ASSUME NEW i \in since[a] + 1 .. Len(log) + 1
            PROVE  Append(log, Head(feed))[i] # Completed(Target[a])
        BY <2>0, <3>1, <3>4, <3>5
      <3> QED BY <2>0, <3>1, <3>5, <3>6
    <2>2. ASSUME NEW b \in Actions, Acquire(b)
          PROVE  /\ waiter'[a] = "set"
                 /\ \A i \in since'[a] + 1 .. Len(log') : log'[i] # Completed(Target[a])
      <3>1. CASE b = a
        BY <1>2, <2>0, <2>2, <3>1 DEF Acquire, Register, eventVars, IInv, TypeOK
      <3>2. CASE b # a
        <4>1. /\ pc[a] \in Holding /\ waiter'[a] = waiter[a]
              /\ since'[a] = since[a] /\ log' = log
          BY <1>2, <2>0, <2>2, <3>2 DEF Acquire, Register, eventVars, IInv, TypeOK
        <4> QED BY <1>2, <4>1 DEF WatchInv
      <3> QED BY <3>1, <3>2
    <2>3. CASE ~Apply /\ \A b \in Actions : ~Acquire(b)
      BY <1>2, <2>0, <2>3, WatchFrame DEF WatchInv
    <2> QED BY <2>1, <2>2, <2>3
  <1>3. WatchInv => NoCompletionMissed
    BY DEF WatchInv, NoCompletionMissed, Holding
  <1> QED BY <1>1, <1>2, <1>3, Invariance, PTL DEF Spec

-----------------------------------------------------------------------------
(* The waiter of a start                                                   *)

\* A turn that was made for an attempt is of the thread of its action.
MadeInv == \A x \in Attempts : made[x] \in Turns => ThreadOf[made[x]] = ThreadOf[x[1]]

\* While a start is under way its waiter is registered, and has taken the first
\* event it accepts of those applied since.
FirstInv ==
    \A a \in Starts : pc[a] \in Holding =>
        /\ waiter[a] \in Turns \cup {"set"} /\ since[a] <= Len(log)
        /\ waiter[a] = "set" =>
              \A i \in since[a] + 1 .. Len(log) : ~Matches(a, log[i])
        /\ waiter[a] \in Turns =>
              \E i \in since[a] + 1 .. Len(log) :
                 /\ log[i] = Started(waiter[a])
                 /\ \A j \in since[a] + 1 .. i - 1 : ~Matches(a, log[j])

LEMMA MadeStep == IInv /\ MadeInv /\ [Next]_vars => MadeInv'
  <1> SUFFICES ASSUME IInv, MadeInv, [Next]_vars PROVE MadeInv'
    OBVIOUS
  <1> USE DEF MadeInv, daemonVars
  <1>1. CASE UNCHANGED made
    BY <1>1
  <1>2. ASSUME NEW x \in Attempts, NEW v \in Client!Verdicts, Perform(x, v) PROVE MadeInv'
    <2>1. CASE UNCHANGED made
      BY <2>1
    <2>2. CASE \E u \in Turns : ThreadOf[u] = ThreadOf[x[1]] /\ made' = [made EXCEPT ![x] = u]
      BY <2>2 DEF IInv, TypeOK
    <2> QED BY <1>2, <2>1, <2>2 DEF Perform
  <1>3. CASE UNCHANGED vars \/ Miss \/ Apply \/ \E u \in Turns : TurnStarts(u) \/ TurnEnds(u)
    BY <1>1, <1>3 DEF vars, Miss, Apply, TurnStarts, TurnEnds
  <1>4. ASSUME NEW b \in Actions, Invoke(b) \/ Step(b) PROVE UNCHANGED made
    BY <1>4 DEF Invoke, Step, Acquire, Send, ClientReturns, Retry, Refused, Unanswered,
                SteerAccepted, Accepted, InterruptObserved, InterruptWindowElapses,
                StartCorrelated, InterruptRead
  <1> QED BY <1>1, <1>2, <1>3, <1>4 DEF Next, Daemon

\* An event is applied: a waiter that is still set takes it if it accepts it.
LEMMA FirstApplied ==
    ASSUME IInv, FirstInv, Apply, NEW a \in Starts, pc'[a] \in Holding
    PROVE  /\ waiter'[a] \in Turns \cup {"set"} /\ since'[a] <= Len(log')
           /\ waiter'[a] = "set" =>
                 \A i \in since'[a] + 1 .. Len(log') : ~Matches(a, log'[i])
           /\ waiter'[a] \in Turns =>
                 \E i \in since'[a] + 1 .. Len(log') :
                    /\ log'[i] = Started(waiter'[a])
                    /\ \A j \in since'[a] + 1 .. i - 1 : ~Matches(a, log'[j])
  <1> DEFINE e == Head(feed)
             n == Len(log) + 1
  <1>0. /\ a \in Actions /\ a \notin Interrupts
        /\ log \in Seq(Events) /\ since[a] \in Nat /\ feed \in Seq(Events) /\ feed # <<>>
    BY Kinds DEF Actions, IInv, TypeOK, Apply
  <1>1. /\ pc[a] \in Holding /\ since'[a] = since[a] /\ log' = Append(log, e) /\ e \in Events
        /\ waiter'[a] = IF waiter[a] = "set" /\ Matches(a, e) THEN e.turn ELSE waiter[a]
    BY <1>0, TailSeq DEF Apply, controlVars
  <1>2. /\ n \in Nat /\ Len(log') = n /\ log'[n] = e
        /\ since[a] <= n - 1 /\ n - 1 = Len(log)
        /\ \A i \in since[a] + 1 .. n - 1 : log'[i] = log[i]
    BY <1>0, <1>1 DEF FirstInv
  <1>3. Matches(a, e) => e.turn \in Turns /\ e = Started(e.turn)
    BY <1>0, <1>1 DEF Matches, Events, Started, Completed
  <1>w. "set" \notin Turns
    BY Kinds
  <1> HIDE DEF e, n
  <1>4. CASE waiter[a] = "set"
    <2>1. \A i \in since[a] + 1 .. n - 1 : ~Matches(a, log[i])
      BY <1>1, <1>2, <1>4 DEF FirstInv
    <2>2. \A i \in since'[a] + 1 .. n - 1 : ~Matches(a, log'[i])
      BY <1>1, <1>2, <2>1
    <2>3. CASE Matches(a, e)
      <3>1. waiter'[a] = e.turn /\ waiter'[a] \in Turns /\ log'[n] = Started(waiter'[a])
        BY <1>1, <1>2, <1>3, <1>4, <2>3
      <3>2. n \in since'[a] + 1 .. Len(log') /\ since'[a] <= Len(log')
        BY <1>0, <1>1, <1>2
      <3> QED BY <1>w, <2>2, <3>1, <3>2
    <2>4. CASE ~Matches(a, e)
      <3>1. waiter'[a] = "set" /\ since'[a] <= Len(log')
        BY <1>0, <1>1, <1>2, <1>4, <2>4
      <3>2. \A i \in since'[a] + 1 .. Len(log') : i = n \/ i \in since'[a] + 1 .. n - 1
        BY <1>0, <1>1, <1>2
      <3>3. \A i \in since'[a] + 1 .. Len(log') : ~Matches(a, log'[i])
        BY <1>2, <2>2, <2>4, <3>2
      <3> QED BY <1>w, <3>1, <3>3
    <2> QED BY <2>3, <2>4
  <1>5. CASE waiter[a] # "set"
    <2>1. waiter'[a] = waiter[a] /\ waiter[a] \in Turns
      BY <1>1, <1>5 DEF FirstInv
    <2>2. PICK i \in since[a] + 1 .. n - 1 :
            /\ log[i] = Started(waiter[a])
            /\ \A j \in since[a] + 1 .. i - 1 : ~Matches(a, log[j])
      BY <1>1, <1>2, <2>1 DEF FirstInv
    <2>3. i \in since'[a] + 1 .. Len(log') /\ log'[i] = Started(waiter'[a])
          /\ since'[a] <= Len(log')
      BY <1>0, <1>1, <1>2, <2>1, <2>2
    <2>4. \A j \in since'[a] + 1 .. i - 1 : ~Matches(a, log'[j])
      <3> SUFFICES ASSUME NEW j \in since'[a] + 1 .. i - 1 PROVE ~Matches(a, log'[j])
        OBVIOUS
      <3>1. j \in since[a] + 1 .. i - 1 /\ j \in since[a] + 1 .. n - 1
        BY <1>0, <1>1, <1>2, <2>2
      <3> QED BY <1>2, <2>2, <3>1
    <2> QED BY <1>w, <2>1, <2>3, <2>4
  <1> QED BY <1>4, <1>5

\* The waiter of a start is registered before the request is sent, so the event of
\* its turn makes its evidence whenever it is applied, but for one of another turn
\* that has come first: for any starts, retries and turns of the user interface.
THEOREM StartSeesTurn == Spec => []StartSeesItsTurn
  <1>1. Init => FirstInv /\ MadeInv
    BY Kinds DEF Init, FirstInv, MadeInv, Holding, Actions, None
  <1>2. ASSUME IInv, FirstInv, [Next]_vars PROVE FirstInv'
    <2>1. CASE Apply
      <3>1. \A a : \A e : Matches(a, e)' = Matches(a, e)
        BY DEF Matches
      <3> QED BY <1>2, <2>1, <3>1, FirstApplied DEF FirstInv
    <2>2. ASSUME NEW b \in Actions, Acquire(b) PROVE FirstInv'
      <3> SUFFICES ASSUME NEW a \in Starts, pc'[a] \in Holding
                   PROVE  /\ waiter'[a] \in Turns \cup {"set"} /\ since'[a] <= Len(log')
                          /\ waiter'[a] = "set" =>
                                \A i \in since'[a] + 1 .. Len(log') : ~Matches(a, log'[i])
                          /\ waiter'[a] \in Turns =>
                                \E i \in since'[a] + 1 .. Len(log') :
                                   /\ log'[i] = Started(waiter'[a])
                                   /\ \A j \in since'[a] + 1 .. i - 1 : ~Matches(a, log'[j])
        BY DEF FirstInv, Matches
      <3>0. /\ a \in Actions /\ a \notin Steers /\ log' = log /\ Len(log) \in Nat
            /\ waiter \in [Actions -> Turns \cup {None, "set"}] /\ since \in [Actions -> Nat]
            /\ pc' = [pc EXCEPT ![b] = "sending"] /\ since' = [since EXCEPT ![b] = Len(log)]
            /\ waiter' = [waiter EXCEPT ![b] = IF b \in Steers THEN None ELSE "set"]
        BY <1>2, <2>2, Kinds DEF Actions, IInv, TypeOK, Acquire, Register, eventVars
      <3>1. CASE b = a
        <4>1. waiter'[a] = "set" /\ since'[a] = Len(log) /\ "set" \notin Turns
          BY <3>0, <3>1, Kinds
        <4> QED BY <3>0, <4>1
      <3>2. CASE b # a
        <4>1. pc[a] \in Holding /\ waiter'[a] = waiter[a] /\ since'[a] = since[a]
          BY <1>2, <3>0, <3>2 DEF IInv, TypeOK
        <4> QED BY <1>2, <3>0, <4>1 DEF FirstInv
      <3> QED BY <3>1, <3>2
    <2>3. CASE ~Apply /\ \A b \in Actions : ~Acquire(b)
      <3>1. /\ UNCHANGED <<log, waiter, since>>
            /\ \A a \in Starts : pc'[a] \in Holding => pc[a] \in Holding
        BY <1>2, <2>3, WatchFrame DEF Actions
      <3> QED BY <1>2, <3>1 DEF FirstInv, Matches
    <2> QED BY <2>1, <2>2, <2>3
  <1>3. ASSUME IInv, FirstInv, MadeInv PROVE StartSeesItsTurn
    <2> DEFINE u(a) == made[Current(a)]
    <2> SUFFICES ASSUME NEW a \in Starts, pc[a] = "correlating", a \in named,
                        NEW i \in since[a] + 1 .. Len(log), log[i] = Started(u(a)),
                        Evidence(a) # u(a)
                 PROVE  \E j \in since[a] + 1 .. i - 1 : log[j] = Started(waiter[a])
      BY DEF StartSeesItsTurn
    <2>1. /\ a \in Actions /\ Current(a) \in Attempts /\ Current(a)[1] = a
          /\ log \in Seq(Events) /\ since[a] \in Nat
      BY <1>3, AttemptsOf DEF Actions, IInv, TypeOK, Current
    <2>2. log[i] \in Events
      BY <2>1
    <2>3. u(a) \in Turns
      <3>1. PICK w \in Turns : log[i] \in {Started(w), Completed(w)}
        BY <2>2 DEF Events
      <3>2. log[i].turn = w
        BY <3>1 DEF Started, Completed
      <3> QED BY <3>2 DEF Started
    <2>4. Matches(a, log[i])
      BY <1>3, <2>1, <2>3 DEF Matches, Started, MadeInv
    <2>5. pc[a] \in Holding
      BY DEF Holding
    <2>6. waiter[a] \in Turns
      BY <1>3, <2>4, <2>5 DEF FirstInv
    <2>7. PICK k \in since[a] + 1 .. Len(log) :
            /\ log[k] = Started(waiter[a])
            /\ \A j \in since[a] + 1 .. k - 1 : ~Matches(a, log[j])
      BY <1>3, <2>5, <2>6 DEF FirstInv
    <2>8. k <= i
      BY <2>1, <2>4, <2>7
    <2>9. k # i
      BY <2>3, <2>6, <2>7 DEF Evidence, Started
    <2> QED BY <2>1, <2>7, <2>8, <2>9
  <1> QED BY <1>1, <1>2, <1>3, MadeStep, Invariance, PTL DEF Spec
=============================================================================
