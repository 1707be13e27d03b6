--------------------------- MODULE CompilerRuntime ---------------------------
(***************************************************************************)
(* The static weekly compiler runtime: a queue of requests in front of one *)
(* child-process group at a time, replaced after a timeout, a crash or a   *)
(* change of profile, and the health check that initializes it.            *)
(*                                                                         *)
(* Node runs the continuations of settled promises in the order in which   *)
(* they became runnable, before any other event. `jobs` is that queue; a   *)
(* continuation behind k intermediate promises enters it with ticks = k.   *)
(***************************************************************************)
EXTENDS Naturals, Sequences, FiniteSets

CONSTANTS
    Requests,       \* one compile or preparation call each
    Checks,         \* one health check each, at most one at a time
    Profile,        \* the worker profile a request needs
    MaxOutstanding  \* maxOutstandingRequests

ASSUME ProfileAssumption == Profile \in [Requests -> {"compiler", "fixed-pending"}]
ASSUME CallerAssumption ==
    Requests \cap Checks = {} /\ {"shutdown", "nobody"} \cap (Requests \cup Checks) = {}
ASSUME QueueAssumption == MaxOutstanding \in Nat \ {0}

VARIABLES
    closed, shut,   \* closed, and how far shutdown() is
    generation,     \* generation: workers forked so far
    worker,         \* the current worker's generation, or 0
    ready,          \* state = "ready" with the worker's evidence
    profile,        \* workerProfile of the current worker
    init,           \* the worker whose initialization record is unsettled, or 0
    pending,        \* the request sent to the worker, or Nobody
    teardown,       \* the teardown promise
    dying,          \* teardownCandidate: the generation being torn down, or 0
    live,           \* generations whose process group is not proven absent
    queue,          \* outstanding requests in the order of tail
    pc,             \* where each caller is
    verdict,        \* what a request is, or will be, answered
    cancelled,      \* requests aborted or past their deadline
    jobs,           \* continuations ready to run
    waitT, waitI    \* callers awaiting the teardown, the initialization

workerVars == <<generation, worker, ready, profile, init, pending, teardown,
                dying, live>>
jobVars == <<jobs, waitT, waitI>>
vars == <<closed, shut, workerVars, queue, pc, verdict, cancelled, jobVars>>

Callers == Requests \cup Checks
Nobody == "nobody"
ProfileOf(c) == IF c \in Requests THEN Profile[c] ELSE "compiler"

\* start() and what send() does around it, then the request itself.
Starting == {"start", "init", "switch", "forked", "owner", "started"}
Steps == {"idle", "queued", "thrown", "caught", "working", "reaping", "closing",
          "done"} \cup Starting
Verdicts == {"none", "result", "cancelled", "closed", "busy", "failed",
             "unavailable", "unproven"}
Job == [c : Callers \cup {"shutdown"}, ok : BOOLEAN, ticks : 0..3]

\* The variables have their shapes, and the tail serializes send(): only the
\* request at the head of the queue is anywhere between its turn and its answer,
\* including while it is being cancelled and its worker reaped (enqueue()).
TypeOK ==
    /\ closed \in BOOLEAN
    /\ shut \in {"no", "tearing", "draining", "failing", "done", "failed"}
    /\ generation \in Nat
    /\ worker \in 0..generation /\ init \in {0, worker}
    /\ ready \in BOOLEAN
    /\ profile \in {"none", "compiler", "fixed-pending"}
    /\ pending \in Requests \cup {Nobody}
    /\ teardown \in {"done", "pending", "unproven"}
    /\ dying \in 0..generation /\ live \in SUBSET (1..generation)
    /\ queue \in Seq(Requests)
    /\ pc \in [Callers -> Steps]
    /\ verdict \in [Requests -> Verdicts]
    /\ cancelled \in SUBSET Requests
    /\ jobs \in Seq(Job)
    /\ waitT \in Seq(Callers \cup {"shutdown"}) /\ waitI \in Seq(Callers)
    /\ \A r \in Requests :
           pc[r] \notin {"idle", "queued", "done"} => queue # <<>> /\ r = Head(queue)

Init ==
    /\ closed = FALSE /\ shut = "no"
    /\ generation = 0 /\ worker = 0 /\ init = 0 /\ dying = 0 /\ live = {}
    /\ ready = FALSE /\ profile = "none"
    /\ pending = Nobody
    /\ teardown = "done"
    /\ queue = <<>> /\ jobs = <<>> /\ waitT = <<>> /\ waitI = <<>>
    /\ pc = [c \in Callers |-> "idle"]
    /\ verdict = [r \in Requests |-> "none"]
    /\ cancelled = {}

-----------------------------------------------------------------------------
\* Continuations

\* An event of its own: every ready continuation has run.
Quiet == jobs = <<>>

\* The continuation of c is next, and c is at step.
Turn(c, step) ==
    ~Quiet /\ Head(jobs).c = c /\ Head(jobs).ticks = 0 /\ c \in Callers /\ pc[c] = step

Continue(c, ok, ticks) == <<[c |-> c, ok |-> ok, ticks |-> ticks]>>
Wake(waiting, ok) == [i \in 1..Len(waiting) |-> Continue(waiting[i], ok, 0)[1]]
Waits(c, waiting) == {i \in 1..Len(waiting) : waiting[i] = c}
\* One waits at most once.
Others(waiting, c) ==
    IF Waits(c, waiting) = {} THEN waiting
    ELSE LET i == CHOOSE j \in Waits(c, waiting) : TRUE
         IN  SubSeq(waiting, 1, i - 1) \o SubSeq(waiting, i + 1, Len(waiting))

\* An intermediate promise settles.
Tick ==
    /\ ~Quiet /\ Head(jobs).ticks > 0
    /\ jobs' = Append(Tail(jobs), [Head(jobs) EXCEPT !.ticks = @ - 1])
    /\ UNCHANGED <<closed, shut, workerVars, queue, pc, verdict, cancelled, waitT, waitI>>

\* Mutant: the teardown is not awaited.
AwaitNothing(c, step, rest) ==
    /\ pc' = [pc EXCEPT ![c] = step]
    /\ waitT' = waitT /\ jobs' = rest \o Continue(c, TRUE, 0)

\* `await teardown`, with rest the jobs ahead.
AwaitTeardown(c, step, rest) ==
    /\ pc' = [pc EXCEPT ![c] = step]
    /\ IF teardown = "pending"
       THEN waitT' = Append(waitT, c) /\ jobs' = rest
       ELSE waitT' = waitT /\ jobs' = rest \o Continue(c, teardown = "done", 0)

\* discard(): the current worker is killed, and awaited by those in waiting.
Discard(waiting) ==
    /\ worker' = 0 /\ ready' = FALSE /\ profile' = "none"
    /\ teardown' = "pending" /\ dying' = worker
    /\ waitT' = waitT \o waiting

\* Mutant: a rejected request breaks the chain of the tail.
AnswerBreaksTail(r, v, rest) ==
    /\ pc' = [pc EXCEPT ![r] = "done"]
    /\ verdict' = [verdict EXCEPT ![r] = v]
    /\ queue' = Tail(queue)
    /\ jobs' = rest \o (IF Len(queue) > 1 /\ v = "result" THEN Continue(queue[2], TRUE, 3)
                       ELSE <<>>)

\* The next request of the queue starts once its predecessor is answered.
Answer(r, v, rest) ==
    /\ pc' = [pc EXCEPT ![r] = "done"]
    /\ verdict' = [verdict EXCEPT ![r] = v]
    /\ queue' = Tail(queue)
    /\ jobs' = rest \o (IF Len(queue) > 1 THEN Continue(queue[2], TRUE, 3) ELSE <<>>)

\* start() throws: a health check fails, a request reaches send()'s catch.
Throw(c, v, rest) ==
    IF c \in Requests
    THEN /\ pc' = [pc EXCEPT ![c] = "thrown"]
         /\ verdict' = [verdict EXCEPT ![c] = v]
         /\ jobs' = rest \o Continue(c, TRUE, 1)
    ELSE /\ pc' = [pc EXCEPT ![c] = "done"]
         /\ jobs' = rest
         /\ UNCHANGED verdict

-----------------------------------------------------------------------------
\* Admission

\* enqueue(): refused, or counted in outstanding and chained to the tail.
Enqueue(r) ==
    /\ Quiet /\ pc[r] = "idle"
    /\ \/ /\ closed \/ Len(queue) >= MaxOutstanding
          /\ pc' = [pc EXCEPT ![r] = "done"]
          /\ verdict' = [verdict EXCEPT ![r] = IF closed THEN "closed" ELSE "busy"]
          /\ UNCHANGED <<queue, jobs>>
       \/ /\ ~closed /\ Len(queue) < MaxOutstanding
          /\ pc' = [pc EXCEPT ![r] = "queued"]
          /\ queue' = Append(queue, r)
          /\ jobs' = IF queue = <<>> THEN Continue(r, TRUE, 0) ELSE jobs
          /\ UNCHANGED verdict
    /\ UNCHANGED <<closed, shut, workerVars, cancelled, waitT, waitI>>

\* initialize() from a health check; behind requests it only reports.
Initialize(c) ==
    /\ Quiet /\ pc[c] = "idle" /\ \A d \in Checks : pc[d] \in {"idle", "done"}
    /\ \/ /\ queue # <<>>
          /\ pc' = [pc EXCEPT ![c] = "done"]
          /\ UNCHANGED <<jobs, waitT>>
       \/ queue = <<>> /\ AwaitTeardown(c, "start", jobs)
    /\ UNCHANGED <<closed, shut, workerVars, queue, verdict, cancelled, waitI>>

\* send() begins when the request's turn in the tail comes.
SendBegin(r) ==
    /\ Turn(r, "queued")
    /\ IF r \in cancelled
       THEN Answer(r, "cancelled", Tail(jobs)) /\ UNCHANGED waitT
       ELSE AwaitTeardown(r, "start", Tail(jobs)) /\ UNCHANGED <<queue, verdict>>
    /\ UNCHANGED <<closed, shut, workerVars, cancelled, waitI>>

-----------------------------------------------------------------------------
\* start()

\* Mutant: start() looks at closed only before it waits for the teardown.
RefusedUnproven == ~Head(jobs).ok

Refused == ~Head(jobs).ok \/ closed

\* A proof of the teardown failed, or the runtime closed meanwhile.
StartRefused(c) ==
    /\ Turn(c, "start") /\ Refused
    /\ Throw(c, IF Head(jobs).ok THEN "closed" ELSE "unproven", Tail(jobs))
    /\ UNCHANGED <<closed, shut, workerVars, queue, cancelled, waitT, waitI>>

\* The request's deadline has passed, its timer has not run yet.
StartExpires(r) ==
    /\ Turn(r, "start") /\ Head(jobs).ok /\ r \notin cancelled
    /\ cancelled' = cancelled \cup {r}
    /\ Throw(r, "cancelled", Tail(jobs))
    /\ UNCHANGED <<closed, shut, workerVars, queue, waitT, waitI>>

\* Mutant: the profile of the ready worker is not compared.
StartFindsAny(c) ==
    /\ Turn(c, "start") /\ ~Refused
    /\ ready
    /\ pc' = [pc EXCEPT ![c] = IF c \in Requests THEN "started" ELSE "done"]
    /\ jobs' = Tail(jobs) \o (IF c \in Requests THEN Continue(c, TRUE, 1) ELSE <<>>)
    /\ UNCHANGED <<closed, shut, workerVars, queue, verdict, cancelled, waitT, waitI>>

\* The worker is ready under the wanted profile.
StartFinds(c) ==
    /\ Turn(c, "start") /\ ~Refused
    /\ ready /\ profile = ProfileOf(c)
    /\ pc' = [pc EXCEPT ![c] = IF c \in Requests THEN "started" ELSE "done"]
    /\ jobs' = Tail(jobs) \o (IF c \in Requests THEN Continue(c, TRUE, 1) ELSE <<>>)
    /\ UNCHANGED <<closed, shut, workerVars, queue, verdict, cancelled, waitT, waitI>>

\* Another caller's initialization is awaited first.
StartJoins(c) ==
    /\ Turn(c, "start") /\ ~Refused /\ init # 0
    /\ pc' = [pc EXCEPT ![c] = "init"]
    /\ waitI' = Append(waitI, c)
    /\ jobs' = Tail(jobs)
    /\ UNCHANGED <<closed, shut, workerVars, queue, verdict, cancelled, waitT>>

\* A worker of the other profile is discarded first.
StartSwitches(c) ==
    /\ Turn(c, "start") /\ ~Refused
    /\ init = 0 /\ worker # 0 /\ ~(ready /\ profile = ProfileOf(c))
    /\ Discard(<<c>>)
    /\ pc' = [pc EXCEPT ![c] = "switch"]
    /\ jobs' = Tail(jobs)
    /\ UNCHANGED <<closed, shut, generation, init, pending, live, queue, verdict,
                   cancelled, waitI>>

\* A worker is forked and its initialization awaited, one tick later.
StartForks(c) ==
    /\ Turn(c, "start") /\ ~Refused /\ init = 0 /\ worker = 0
    /\ generation' = generation + 1
    /\ worker' = generation' /\ init' = generation'
    /\ live' = live \cup {generation'}
    /\ profile' = ProfileOf(c)
    /\ ready' = FALSE
    /\ pc' = [pc EXCEPT ![c] = "forked"]
    /\ jobs' = Tail(jobs) \o Continue(c, TRUE, 0)
    /\ UNCHANGED <<closed, shut, pending, teardown, dying, queue, verdict,
                   cancelled, waitT, waitI>>

StartOwns(c) ==
    /\ Turn(c, "forked")
    /\ pc' = [pc EXCEPT ![c] = "owner"]
    /\ waitI' = Append(waitI, c)
    /\ jobs' = Tail(jobs)
    /\ UNCHANGED <<closed, shut, workerVars, queue, verdict, cancelled, waitT>>

\* What was awaited settled: start() is entered again, or throws.
StartAgain(c) ==
    /\ \E step \in {"init", "switch"} :
         /\ Turn(c, step)
         /\ IF Head(jobs).ok
            THEN AwaitTeardown(c, "start", Tail(jobs)) /\ UNCHANGED verdict
            ELSE /\ Throw(c, IF step = "init" THEN "failed" ELSE "unproven", Tail(jobs))
                 /\ UNCHANGED waitT
    /\ UNCHANGED <<closed, shut, workerVars, queue, cancelled, waitI>>

\* The initialization this caller started settled.
StartReturns(c) ==
    /\ Turn(c, "owner")
    /\ IF Head(jobs).ok
       THEN /\ pc' = [pc EXCEPT ![c] = IF c \in Requests THEN "started" ELSE "done"]
            /\ jobs' = Tail(jobs) \o (IF c \in Requests THEN Continue(c, TRUE, 1) ELSE <<>>)
            /\ UNCHANGED verdict
       ELSE Throw(c, "failed", Tail(jobs))
    /\ UNCHANGED <<closed, shut, workerVars, queue, cancelled, waitT, waitI>>

-----------------------------------------------------------------------------
\* send() after start()

\* The request goes to the current worker, if there still is one.
Send(r) ==
    /\ Turn(r, "started")
    /\ \/ /\ worker # 0 /\ ready
          /\ pending' = r
          /\ pc' = [pc EXCEPT ![r] = "working"]
          /\ jobs' = Tail(jobs)
          /\ UNCHANGED <<verdict, queue>>
       \/ /\ worker = 0 \/ ~ready
          /\ Answer(r, "unavailable", Tail(jobs))
          /\ UNCHANGED pending
    /\ UNCHANGED <<closed, shut, generation, worker, ready, profile, init, teardown,
                   dying, live, cancelled, waitT, waitI>>

\* The deadline passed between the start and the send.
SendExpires(r) ==
    /\ Turn(r, "started") /\ r \notin cancelled
    /\ cancelled' = cancelled \cup {r}
    /\ Answer(r, "cancelled", Tail(jobs))
    /\ UNCHANGED <<closed, shut, workerVars, waitT, waitI>>

\* Mutant: the error of start() is rethrown at once.
SendCatchRethrows(r) ==
    /\ Turn(r, "thrown")
    /\ pc' = [pc EXCEPT ![r] = "caught"]
    /\ jobs' = Tail(jobs) \o Continue(r, TRUE, 0)
    /\ UNCHANGED <<closed, shut, workerVars, queue, verdict, cancelled, waitT, waitI>>

\* The catch of start() waits for the teardown in progress.
SendCatch(r) ==
    /\ Turn(r, "thrown")
    /\ AwaitTeardown(r, "caught", Tail(jobs))
    /\ UNCHANGED <<closed, shut, workerVars, queue, verdict, cancelled, waitI>>

\* A cleanup that is not proven is what the request is answered with.
SendThrows(r) ==
    /\ \E step \in {"caught", "reaping", "closing"} : Turn(r, step)
    /\ Answer(r, IF Head(jobs).ok THEN verdict[r] ELSE "unproven", Tail(jobs))
    /\ UNCHANGED <<closed, shut, workerVars, cancelled, waitT, waitI>>

-----------------------------------------------------------------------------
\* Events of the worker

Ready ==
    /\ Quiet /\ init # 0
    /\ ready' = TRUE /\ init' = 0
    /\ jobs' = Wake(waitI, TRUE) /\ waitI' = <<>>
    /\ UNCHANGED <<closed, shut, generation, worker, profile, pending, teardown, dying,
                   live, queue, pc, verdict, cancelled, waitT>>

Result ==
    /\ Quiet /\ pending # Nobody
    /\ pending' = Nobody
    /\ Answer(pending, "result", jobs)
    /\ UNCHANGED <<closed, shut, generation, worker, ready, profile, init, teardown,
                   dying, live, cancelled, waitT, waitI>>

\* Mutant: the initialization record outlives its worker.
FailActiveKeepsInitialization(v) ==
    /\ waitI' = <<>> /\ init' = init
    /\ pending' = Nobody
    /\ IF pending = Nobody
       THEN Discard(<<>>) /\ UNCHANGED <<pc, verdict>>
       ELSE /\ Discard(<<pending>>)
            /\ pc' = [pc EXCEPT ![pending] = "reaping"]
            /\ verdict' = [verdict EXCEPT ![pending] = v]

\* failActive(): the initialization is rejected, the pending request is
\* rejected after the cleanup, the worker is discarded.
FailActive(v) ==
    /\ init' = 0 /\ waitI' = <<>>
    /\ pending' = Nobody
    /\ IF pending = Nobody
       THEN Discard(<<>>) /\ UNCHANGED <<pc, verdict>>
       ELSE /\ Discard(<<pending>>)
            /\ pc' = [pc EXCEPT ![pending] = "reaping"]
            /\ verdict' = [verdict EXCEPT ![pending] = v]

\* An initialization error or timeout, a protocol violation, or the close of a
\* crashed process.
WorkerFails ==
    /\ Quiet /\ worker # 0
    /\ FailActive("failed")
    /\ jobs' = Wake(waitI, FALSE)
    /\ UNCHANGED <<closed, shut, generation, live, queue, cancelled>>

\* The discarded group is seen to be gone, or its cleanup deadline passes.
Reaped(proven) ==
    /\ Quiet /\ teardown = "pending"
    /\ teardown' = IF proven THEN "done" ELSE "unproven"
    /\ dying' = 0
    /\ live' = IF proven THEN live \ {dying} ELSE live
    /\ jobs' = Wake(waitT, proven) /\ waitT' = <<>>
    /\ UNCHANGED <<closed, shut, generation, worker, ready, profile, init, pending,
                   queue, pc, verdict, cancelled, waitI>>

-----------------------------------------------------------------------------
\* Cancellation: the caller's signal aborts or the request's deadline passes

CancelQueued(r) ==
    /\ Quiet /\ r \notin cancelled /\ pc[r] = "queued"
    /\ cancelled' = cancelled \cup {r}
    /\ UNCHANGED <<closed, shut, workerVars, queue, pc, verdict, jobVars>>

\* Whoever started it, an initialization in progress is failed; the race in
\* send() is lost and start() has no further effect.
CancelStarting(r) ==
    /\ Quiet /\ r \notin cancelled /\ pc[r] \in Starting
    /\ cancelled' = cancelled \cup {r}
    /\ pc' = [pc EXCEPT ![r] = "thrown"]
    /\ verdict' = [verdict EXCEPT ![r] = "cancelled"]
    /\ waitI' = IF init # 0 THEN <<>> ELSE Others(waitI, r)
    /\ IF init # 0
       THEN /\ worker' = 0 /\ ready' = FALSE /\ profile' = "none" /\ init' = 0
            /\ teardown' = "pending" /\ dying' = worker
            /\ jobs' = Wake(Others(waitI, r), FALSE) \o Continue(r, TRUE, 1)
       ELSE /\ jobs' = Continue(r, TRUE, 1)
            /\ UNCHANGED <<worker, ready, profile, init, teardown, dying>>
    /\ waitT' = Others(waitT, r)
    /\ UNCHANGED <<closed, shut, generation, pending, live, queue>>

\* The worker's group is reaped before the cancellation is reported.
CancelWorking(r) ==
    /\ Quiet /\ r \notin cancelled /\ pending = r
    /\ cancelled' = cancelled \cup {r}
    /\ FailActive("cancelled")
    /\ UNCHANGED <<closed, shut, generation, live, queue, jobs>>

-----------------------------------------------------------------------------
\* shutdown()

ShutdownBegin ==
    /\ Quiet /\ ~closed
    /\ closed' = TRUE
    /\ shut' = IF worker = 0 THEN "draining" ELSE "tearing"
    /\ IF worker = 0
       THEN UNCHANGED <<worker, ready, profile, init, pending, teardown, dying,
                      waitT, pc, verdict>>
       ELSE /\ Discard(<<"shutdown">>)
            /\ init' = 0 /\ pending' = Nobody
            /\ pc' = IF pending = Nobody THEN pc ELSE [pc EXCEPT ![pending] = "closing"]
            /\ verdict' = IF pending = Nobody THEN verdict
                          ELSE [verdict EXCEPT ![pending] = "closed"]
    /\ UNCHANGED <<generation, live, queue, cancelled, jobs, waitI>>

\* The group is reaped: the interrupted initialization and request are rejected.
ShutdownReaped ==
    /\ ~Quiet /\ Head(jobs).c = "shutdown"
    /\ shut' = IF Head(jobs).ok THEN "draining" ELSE "failing"
    /\ jobs' = Tail(jobs) \o Wake(waitI, FALSE)
                 \o (IF queue # <<>> /\ pc[Head(queue)] = "closing"
                     THEN Continue(Head(queue), Head(jobs).ok, 0) ELSE <<>>)
    /\ waitI' = <<>>
    /\ UNCHANGED <<closed, workerVars, queue, pc, verdict, cancelled, waitT>>

\* `await tail`: every outstanding request has been answered.
ShutdownEnd ==
    /\ Quiet /\ queue = <<>>
    /\ \/ shut = "draining" /\ shut' = "done"
       \/ shut = "failing" /\ shut' = "failed"
    /\ UNCHANGED <<closed, workerVars, queue, pc, verdict, cancelled, jobVars>>

-----------------------------------------------------------------------------
Start(c) ==
    \/ StartRefused(c) \/ StartFinds(c) \/ StartJoins(c) \/ StartSwitches(c)
    \/ StartForks(c) \/ StartOwns(c) \/ StartAgain(c) \/ StartReturns(c)

Continuation ==
    \/ Tick \/ ShutdownReaped
    \/ \E c \in Callers : Start(c)
    \/ \E r \in Requests : 
         SendBegin(r) \/ StartExpires(r) \/ SendExpires(r) \/ Send(r)
         \/ SendCatch(r) \/ SendThrows(r)

Cancel(r) == CancelQueued(r) \/ CancelStarting(r) \/ CancelWorking(r)

Next ==
    \/ Continuation
    \/ \E r \in Requests : Enqueue(r) \/ Cancel(r)
    \/ \E c \in Checks : Initialize(c)
    \/ Ready \/ Result \/ WorkerFails \/ (\E proven \in BOOLEAN : Reaped(proven))
    \/ ShutdownBegin \/ ShutdownEnd

Spec == Init /\ [][Next]_vars

\* The event loop runs, every wait has a timer behind it: initialization and
\* request deadlines, and the verification of a teardown.
Fairness ==
    /\ WF_vars(Continuation)
    /\ WF_vars(\E proven \in BOOLEAN : Reaped(proven))
    /\ WF_vars(init # 0 /\ (Ready \/ WorkerFails))
    /\ \A r \in Requests : WF_vars(CancelStarting(r) \/ CancelWorking(r))
    /\ WF_vars(ShutdownEnd)

FairSpec == Spec /\ Fairness
-----------------------------------------------------------------------------
\* Properties

\* One owned group, never a pool: whatever interleaving of switches, failures,
\* cancellations and shutdown, start() forks only after every earlier group has
\* been proven absent (the await of teardown in start(), discard()).
OneGroup == \A g, h \in live : g = h

\* A request is at work on a live, ready worker of the profile it asked for: no
\* health check or failure replaces the worker under it (start(), send()).
OwnProfile ==
    pending # Nobody => worker # 0 /\ ready /\ profile = Profile[pending] /\ worker \in live

\* A request whose worker was discarded, by a failure, an abort, a deadline or
\* the shutdown, is answered only when no discarded group is left, or is told
\* that this is unproven (send()'s catch, onAbort, failActive(), shutdown()).
ReapedBeforeReported ==
    [][\A r \in Requests :
          pc[r] \in {"reaping", "closing", "caught"} /\ pc'[r] = "done"
             => live \subseteq {worker} \/ verdict'[r] = "unproven"]_vars

\* Nothing is forked once shutdown() has begun, and when it has resolved no
\* worker and no request is left, nor comes again (closed in start(), the await
\* of tail in shutdown()).
ShutdownIsFinal ==
    [][closed => generation' = generation
               /\ (shut' = "done" => worker' = 0 /\ queue' = <<>>)]_vars

\* The continuation of c is among those of J.
Runs(c, J) == \E i \in 1..Len(J) : J[i].c = c

\* Nobody waits for what cannot come: a caller between two awaits is ready, or
\* waits for a teardown or an initialization that is in progress; a queued
\* request has its place in the tail, and its turn once it is the first; a request
\* at work, or on its way, still has its deadline; who is interrupted by shutdown()
\* is released by its teardown (enqueue(), send(), start(), failActive(),
\* discard(), shutdown()).
NobodyForgotten ==
    /\ \A c \in Callers : pc[c] \in Starting \cup {"thrown", "caught", "reaping"} =>
           Runs(c, jobs) \/ Waits(c, waitT) # {} \/ Waits(c, waitI) # {}
    /\ \A r \in Requests :
           /\ pc[r] = "queued" =>
                  \E i \in 1..Len(queue) : queue[i] = r /\ (i = 1 => Runs(r, jobs))
           /\ pc[r] = "working" => pending = r
           /\ pc[r] \in Starting \cup {"working"} => r \notin cancelled
           /\ pc[r] = "closing" => shut = "tearing" \/ Runs(r, jobs)
    /\ waitT # <<>> => teardown = "pending"
    /\ waitI # <<>> => init # 0 \/ shut = "tearing"
    /\ shut = "tearing" => Runs("shutdown", jobs) \/ Waits("shutdown", waitT) # {}

\* Every admitted request is answered: no cancellation, failure, switch or
\* shutdown breaks the chain of the tail (enqueue(), send()); and shutdown()
\* settles although a request or an initialization was interrupted and other
\* requests are still queued.
Answered ==
    /\ \A r \in Requests : pc[r] = "queued" ~> pc[r] = "done"
    /\ closed ~> shut \in {"done", "failed"}
-----------------------------------------------------------------------------
\* The service this runtime implements

Interrupted == {"thrown", "caught", "reaping", "closing"}

\* How far the request at the head of the tail is.
First ==
    IF pending # Nobody THEN "served"
    ELSE IF queue # <<>> /\ pc[Head(queue)] \in Interrupted THEN "interrupted"
    ELSE "waits"

\* What the callers have been told.
Told == [r \in Requests |-> IF pc[r] = "done" THEN verdict[r] ELSE "none"]

\* What is left of the process groups.
Left == IF worker # 0 THEN "owned" ELSE IF live = {} THEN "none" ELSE "dropped"

Service == INSTANCE CompilerService WITH
    line <- queue, first <- First, answer <- Told, group <- Left,
    open <- ~closed, ended <- shut \in {"done", "failed"}

\* In terms of its callers the runtime is that service: one line, one group, one
\* answer each, a result only for who was served, nothing new after shutdown().
ImplementsService == Service!Spec
=============================================================================
