------------------------ MODULE CompilerService_proofs ------------------------
(***************************************************************************)
(* CompilerRuntime implements CompilerService: every step is one of the    *)
(* service's or none.  Beside the runtime's invariant this needs to know   *)
(* what an interrupted request is going to be told (Truthful).             *)
(***************************************************************************)
EXTENDS CompilerRuntime_proofs

-----------------------------------------------------------------------------
\* An interrupted request already has its reason, and one told that the cleanup is
\* unproven is right (start(), failActive(), onAbort, shutdown()).
Truthful ==
    \A r \in Requests : pc[r] \in Interrupted =>
        /\ verdict[r] \in Service!Failures
        /\ verdict[r] = "unproven" => teardown = "unproven"

\* A step that moves one caller on and gives it no reason it has not.
LEMMA MovesOn ==
    ASSUME Truthful, Scalars, NEW c \in Callers, NEW s, pc' = [pc EXCEPT ![c] = s],
           c \in Requests /\ s \in Interrupted => pc[c] \in Interrupted,
           \A r \in Requests : r = c \/ verdict'[r] = verdict[r],
           c \in Requests => verdict'[c] = verdict[c] \/ s \notin Interrupted,
           teardown = "unproven" => teardown' = "unproven"
    PROVE  Truthful'
<1>1. ASSUME NEW r \in Requests, pc'[r] \in Interrupted
      PROVE  pc[r] \in Interrupted /\ verdict'[r] = verdict[r]
  <2>1. r \in Callers /\ (r # c => pc'[r] = pc[r]) /\ (r = c => pc'[r] = s)
    BY DEF Scalars, Callers
  <2>2. QED  BY <1>1, <2>1
<1>2. QED  BY <1>1 DEF Truthful

\* A step that interrupts one request, and says why.
LEMMA Interrupting ==
    ASSUME Truthful, Scalars, NEW c \in Requests, NEW s, NEW v \in Service!Failures,
           pc' = [pc EXCEPT ![c] = s], verdict' = [verdict EXCEPT ![c] = v],
           v = "unproven" => teardown' = "unproven",
           teardown = "unproven" => teardown' = "unproven"
    PROVE  Truthful'
<1>1. ASSUME NEW r \in Requests, r # c, pc'[r] \in Interrupted
      PROVE  pc[r] \in Interrupted /\ verdict'[r] = verdict[r]
  BY <1>1 DEF Scalars, Callers
<1>2. verdict'[c] = v
  BY DEF Scalars
<1>3. ASSUME NEW r \in Requests, pc'[r] \in Interrupted
      PROVE  /\ verdict'[r] \in Service!Failures
             /\ verdict'[r] = "unproven" => teardown' = "unproven"
  BY <1>1, <1>2, <1>3 DEF Truthful
<1>4. QED  BY <1>3 DEF Truthful

LEMMA StillTruthful ==
    ASSUME Truthful, pc' = pc, verdict' = verdict, teardown = "unproven" => teardown' = "unproven"
    PROVE  Truthful'
BY DEF Truthful

\* What start() throws is a reason.
LEMMA ThrowTruthful ==
    ASSUME Truthful, Scalars, NEW c \in Callers, NEW v \in Service!Failures,
           Throw(c, v, Tail(jobs)), v = "unproven" => teardown = "unproven",
           UNCHANGED teardown
    PROVE  Truthful'
<1>1. CASE c \in Requests
  BY <1>1, Interrupting DEF Throw
<1>2. CASE c \notin Requests
  <2>1. pc' = [pc EXCEPT ![c] = "done"] /\ verdict' = verdict /\ "done" \notin Interrupted
    BY <1>2 DEF Throw, Interrupted
  <2>2. QED  BY <1>2, <2>1, MovesOn
<1>3. QED  BY <1>1, <1>2

LEMMA StartTruthful ==
    ASSUME IInv, Truthful, NEW c \in Callers, Start(c) PROVE Truthful'
<1>1. Scalars /\ Group /\ pc[c] \in Starting /\ pc[c] \notin Interrupted
  BY DEF IInv, Start, StartRefused, StartFinds, StartJoins, StartSwitches, StartForks, StartOwns,
         StartAgain, StartReturns, Turn, Starting, Interrupted
<1>2. jobs # <<>> /\ c = Head(jobs).c
  BY DEF Start, StartRefused, StartFinds, StartJoins, StartSwitches, StartForks, StartOwns,
         StartAgain, StartReturns, Turn, Quiet
<1>3. MayRun(c, Head(jobs).ok)
  BY <1>2, Running
<1>4. {"failed", "closed", "cancelled", "unproven"} \subseteq Service!Failures
  BY DEF Service!Failures
<1>5. CASE StartRefused(c)
  <2>1. PICK v : v = IF Head(jobs).ok THEN "closed" ELSE "unproven"
    OBVIOUS
  <2>2. Throw(c, v, Tail(jobs)) /\ pc[c] = "start" /\ teardown' = teardown
    BY <1>5, <2>1 DEF StartRefused, Turn, workerVars
  <2>3. v \in Service!Failures /\ (v = "unproven" => teardown = "unproven")
    BY <1>3, <1>4, <2>1, <2>2 DEF MayRun
  <2>4. QED  BY <1>1, <2>2, <2>3, ThrowTruthful
<1>6. CASE StartAgain(c)
  <2>1. PICK step \in {"init", "switch"} :
            /\ Turn(c, step)
            /\ IF Head(jobs).ok
               THEN AwaitTeardown(c, "start", Tail(jobs)) /\ UNCHANGED verdict
               ELSE /\ Throw(c, IF step = "init" THEN "failed" ELSE "unproven", Tail(jobs))
                    /\ UNCHANGED waitT
    BY <1>6 DEF StartAgain
  <2>2. teardown' = teardown /\ pc[c] = step
    BY <1>6, <2>1 DEF StartAgain, Turn, workerVars
  <2>3. CASE Head(jobs).ok
    <3>1. pc' = [pc EXCEPT ![c] = "start"] /\ verdict' = verdict
      BY <2>1, <2>3 DEF AwaitTeardown
    <3>2. QED  BY <1>1, <2>2, <3>1, MovesOn DEF Interrupted
  <2>4. CASE ~Head(jobs).ok
    <3>1. PICK v : v = IF step = "init" THEN "failed" ELSE "unproven"
      OBVIOUS
    <3>2. Throw(c, v, Tail(jobs))
      BY <2>1, <2>4, <3>1
    <3>3. v \in Service!Failures /\ (v = "unproven" => teardown = "unproven")
      BY <1>3, <1>4, <2>2, <2>4, <3>1 DEF MayRun
    <3>4. QED  BY <1>1, <2>2, <3>2, <3>3, ThrowTruthful
  <2>5. QED  BY <2>3, <2>4
<1>7. CASE StartReturns(c)
  <2>1. teardown' = teardown
    BY <1>7 DEF StartReturns, workerVars
  <2>2. CASE Head(jobs).ok
    <3>1. PICK s \in {"started", "done"} : pc' = [pc EXCEPT ![c] = s] /\ verdict' = verdict
      BY <1>7, <2>2 DEF StartReturns
    <3>2. QED  BY <1>1, <2>1, <3>1, MovesOn DEF Interrupted
  <2>3. CASE ~Head(jobs).ok
    <3>1. Throw(c, "failed", Tail(jobs))
      BY <1>7, <2>3 DEF StartReturns
    <3>2. QED  BY <1>1, <1>4, <2>1, <3>1, ThrowTruthful
  <2>4. QED  BY <2>2, <2>3
<1>8. CASE StartFinds(c) \/ StartJoins(c) \/ StartSwitches(c) \/ StartForks(c) \/ StartOwns(c)
  <2>1. PICK s \in {"started", "done", "init", "switch", "forked", "owner"} :
            pc' = [pc EXCEPT ![c] = s] /\ verdict' = verdict
    BY <1>8 DEF StartFinds, StartJoins, StartSwitches, StartForks, StartOwns
  <2>2. teardown = "unproven" => teardown' = "unproven"
    BY <1>1, <1>8 DEF StartFinds, StartJoins, StartSwitches, StartForks, StartOwns, Group, workerVars
  <2>3. QED  BY <1>1, <2>1, <2>2, MovesOn DEF Interrupted
<1>9. QED  BY <1>5, <1>6, <1>7, <1>8 DEF Start

LEMMA SendTruthful ==
    ASSUME IInv, Truthful, NEW r \in Requests,
           SendBegin(r) \/ StartExpires(r) \/ SendExpires(r) \/ Send(r) \/ SendCatch(r) \/ SendThrows(r)
    PROVE  Truthful'
<1>1. Scalars /\ r \in Callers
  BY DEF IInv, Callers
<1>2. teardown' = teardown
  BY DEF SendBegin, StartExpires, SendExpires, Send, SendCatch, SendThrows, workerVars
<1>3. CASE StartExpires(r)
  <2>1. Throw(r, "cancelled", Tail(jobs)) /\ "cancelled" \in Service!Failures
    BY <1>3 DEF StartExpires, Service!Failures
  <2>2. QED  BY <1>1, <1>2, <2>1, ThrowTruthful
<1>4. CASE SendCatch(r)
  <2>1. pc' = [pc EXCEPT ![r] = "caught"] /\ verdict' = verdict /\ pc[r] \in Interrupted
    BY <1>4 DEF SendCatch, AwaitTeardown, Turn, Interrupted
  <2>2. QED  BY <1>1, <1>2, <2>1, MovesOn
<1>5. CASE \E v : pc' = [pc EXCEPT ![r] = "done"] /\ verdict' = [verdict EXCEPT ![r] = v]
  <2>1. \A q \in Requests : q = r \/ verdict'[q] = verdict[q]
    BY <1>1, <1>5 DEF Scalars
  <2>2. QED  BY <1>1, <1>2, <1>5, <2>1, MovesOn DEF Interrupted
<1>6. CASE \E s \in {"start", "working"} : pc' = [pc EXCEPT ![r] = s] /\ verdict' = verdict
  BY <1>1, <1>2, <1>6, MovesOn DEF Interrupted
<1>7. QED  BY <1>3, <1>4, <1>5, <1>6 DEF SendBegin, SendExpires, Send, SendThrows, Answer, AwaitTeardown

LEMMA EventTruthful ==
    ASSUME IInv, Truthful, Next,
           ~\E c \in Callers : Start(c),
           ~\E r \in Requests : SendBegin(r) \/ StartExpires(r) \/ SendExpires(r) \/ Send(r)
                                  \/ SendCatch(r) \/ SendThrows(r)
    PROVE  Truthful'
<1>1. Scalars /\ Group /\ Line
  BY DEF IInv
<1>2. {"failed", "closed", "cancelled"} \subseteq Service!Failures
  BY DEF Service!Failures
<1>3. ASSUME NEW r \in Requests, Enqueue(r) PROVE Truthful'
  <2>1. /\ r \in Callers /\ teardown' = teardown
        /\ \E s \in {"queued", "done"} : pc' = [pc EXCEPT ![r] = s]
        /\ verdict' = verdict \/ \E v : verdict' = [verdict EXCEPT ![r] = v]
    BY <1>3 DEF Enqueue, Callers, workerVars
  <2>2. \A q \in Requests : q = r \/ verdict'[q] = verdict[q]
    BY <1>1, <2>1 DEF Scalars
  <2>3. QED  BY <1>1, <2>1, <2>2, MovesOn DEF Interrupted
<1>4. ASSUME NEW c \in Checks, Initialize(c) PROVE Truthful'
  <2>1. /\ c \in Callers /\ teardown' = teardown /\ verdict' = verdict
        /\ \E s \in {"start", "done"} : pc' = [pc EXCEPT ![c] = s]
    BY <1>4 DEF Initialize, AwaitTeardown, Callers, workerVars
  <2>2. QED  BY <1>1, <2>1, MovesOn DEF Interrupted
<1>5. ASSUME NEW v \in Service!Failures, FailActive(v), worker # 0, v # "unproven" PROVE Truthful'
  <2>1. teardown # "unproven"
    BY <1>1, <1>5 DEF Group
  <2>2. CASE pending = Nobody
    BY <1>5, <2>1, <2>2, StillTruthful DEF FailActive
  <2>3. CASE pending # Nobody
    <3>1. PICK p \in Requests : p = pending
      BY <1>1, <2>3 DEF Scalars
    <3>2. pc' = [pc EXCEPT ![p] = "reaping"] /\ verdict' = [verdict EXCEPT ![p] = v]
      BY <1>5, <2>3, <3>1 DEF FailActive
    <3>3. QED  BY <1>1, <1>5, <2>1, <3>2, Interrupting
  <2>4. QED  BY <2>2, <2>3
<1>6. ASSUME WorkerFails \/ \E r \in Requests : CancelWorking(r) PROVE Truthful'
  <2>1. \E v \in {"failed", "cancelled"} : FailActive(v)
    BY <1>6 DEF WorkerFails, CancelWorking
  <2>2. worker # 0
    BY <1>1, <1>6, CallerAssumption DEF WorkerFails, CancelWorking, Group, Nobody
  <2>3. QED  BY <1>2, <1>5, <2>1, <2>2
<1>7. ASSUME NEW r \in Requests, CancelStarting(r) PROVE Truthful'
  <2>1. teardown = "unproven" => teardown' = "unproven"
    BY <1>1, <1>7 DEF CancelStarting, Group, Scalars
  <2>2. pc' = [pc EXCEPT ![r] = "thrown"] /\ verdict' = [verdict EXCEPT ![r] = "cancelled"]
    BY <1>7 DEF CancelStarting
  <2>3. QED  BY <1>1, <1>2, <2>1, <2>2, Interrupting
<1>8. ASSUME ShutdownBegin PROVE Truthful'
  <2>1. teardown = "unproven" => teardown' = "unproven"
    BY <1>1, <1>8 DEF ShutdownBegin, Discard, Group
  <2>2. CASE worker = 0 \/ pending = Nobody
    <3>1. pc' = pc /\ verdict' = verdict
      BY <1>8, <2>2 DEF ShutdownBegin
    <3>2. QED  BY <2>1, <3>1, StillTruthful
  <2>3. CASE worker # 0 /\ pending # Nobody
    <3>1. PICK p \in Requests : p = pending
      BY <1>1, <2>3 DEF Scalars
    <3>2. pc' = [pc EXCEPT ![p] = "closing"] /\ verdict' = [verdict EXCEPT ![p] = "closed"]
      BY <1>8, <2>3, <3>1 DEF ShutdownBegin
    <3>3. QED  BY <1>1, <1>2, <2>1, <3>2, Interrupting
  <2>4. QED  BY <2>2, <2>3
<1>9. ASSUME Result PROVE Truthful'
  <2>1. PICK p \in Requests : p = pending
    BY <1>1, <1>9 DEF Result, Scalars
  <2>2. /\ p \in Callers /\ teardown' = teardown
        /\ pc' = [pc EXCEPT ![p] = "done"] /\ verdict' = [verdict EXCEPT ![p] = "result"]
    BY <1>9, <2>1 DEF Result, Answer, Callers
  <2>3. \A q \in Requests : q = p \/ verdict'[q] = verdict[q]
    BY <1>1, <2>2 DEF Scalars
  <2>4. QED  BY <1>1, <2>2, <2>3, MovesOn DEF Interrupted
<1>10. ASSUME \/ Tick \/ ShutdownReaped \/ Ready \/ ShutdownEnd
              \/ \E r \in Requests : CancelQueued(r)
              \/ \E proven \in BOOLEAN : Reaped(proven)
       PROVE  Truthful'
  <2>1. pc' = pc /\ verdict' = verdict /\ (teardown = "unproven" => teardown' = "unproven")
    BY <1>10 DEF Tick, ShutdownReaped, Ready, ShutdownEnd, CancelQueued, Reaped, workerVars
  <2>2. QED  BY <2>1, StillTruthful
<1>11. QED  BY <1>3, <1>4, <1>6, <1>7, <1>8, <1>9, <1>10 DEF Next, Continuation, Cancel

LEMMA AlwaysTruthful == Spec => []Truthful
<1>1. Init => Truthful
  BY DEF Init, Truthful, Interrupted, Callers
<1>2. IInv /\ Truthful /\ [Next]_vars => Truthful'
  <2>1. UNCHANGED vars /\ Truthful => Truthful'
    BY StillTruthful DEF vars, workerVars
  <2>2. IInv /\ Truthful /\ Next => Truthful'
    BY StartTruthful, SendTruthful, EventTruthful
  <2>3. QED  BY <2>1, <2>2
<1>3. QED  BY <1>1, <1>2, Invariance, PTL DEF Spec

-----------------------------------------------------------------------------
\* What the service sees of a step

Ended == shut \in {"done", "failed"}

\* Nothing, when none of its variables changes.
LEMMA Unseen ==
    ASSUME queue' = queue, First' = First, Told' = Told, Left' = Left, closed' = closed,
           Ended' <=> Ended
    PROVE  UNCHANGED Service!vars
<1>1. (shut \in {"done", "failed"})' = (shut \in {"done", "failed"})
  BY DEF Ended
<1>2. (~closed)' = ~closed
  OBVIOUS
<1>3. QED  BY <1>1, <1>2 DEF Service!vars

\* The request at work is the first of the line.
LEMMA AtWork ==
    ASSUME IInv, pending # Nobody
    PROVE  /\ First = "served" /\ queue # <<>> /\ pending = Head(queue)
           /\ pending \in Requests /\ pc[pending] = "working" /\ worker # 0
<1>1. pending \in Requests /\ pc[pending] = "working" /\ worker # 0
  BY DEF IInv, Scalars, Line, Group
<1>2. queue # <<>> /\ pending = Head(queue)
  BY <1>1 DEF IInv, Line
<1>3. QED  BY <1>1, <1>2 DEF First

\* So is one between its turn and its answer.
LEMMA AtTurn ==
    ASSUME IInv, NEW r \in Requests, pc[r] \in Starting \cup Interrupted
    PROVE  /\ queue # <<>> /\ r = Head(queue) /\ pending = Nobody
           /\ First = IF pc[r] \in Interrupted THEN "interrupted" ELSE "waits"
<1>1. queue # <<>> /\ r = Head(queue)
  BY DEF IInv, Line, Starting, Interrupted
<1>2. pending = Nobody
  BY <1>1, AtWork DEF Starting, Interrupted
<1>3. QED  BY <1>1, <1>2 DEF First

LEMMA HeadAsked == ASSUME IInv, queue # <<>> PROVE Head(queue) \in Requests
<1>1. queue \in Seq(Outstanding)
  BY DEF IInv, Line
<1>2. Head(queue) \in Outstanding
  BY <1>1
<1>3. QED  BY <1>2 DEF Outstanding

LEMMA KeepsFirst ==
    ASSUME IInv, NEW c \in Callers, NEW s, pc' = [pc EXCEPT ![c] = s],
           c \in Requests => (pc[c] \in Interrupted <=> s \in Interrupted),
           UNCHANGED <<pending, queue>>
    PROVE  First' = First
<1>1. queue # <<>> => (pc'[Head(queue)] \in Interrupted <=> pc[Head(queue)] \in Interrupted)
  <2> SUFFICES ASSUME queue # <<>>
               PROVE  pc'[Head(queue)] \in Interrupted <=> pc[Head(queue)] \in Interrupted
    OBVIOUS
  <2>1. PICK h \in Requests : h = Head(queue)
    BY HeadAsked
  <2>2. h \in Callers /\ pc \in [Callers -> Steps]
    BY DEF IInv, Scalars, Callers
  <2>3. (h # c => pc'[h] = pc[h]) /\ (h = c => pc'[h] = s)
    BY <2>2
  <2>4. QED  BY <2>1, <2>3
<1>2. QED  BY <1>1 DEF First

LEMMA KeepsTold ==
    ASSUME IInv, NEW c \in Callers, NEW s, pc' = [pc EXCEPT ![c] = s],
           c \in Requests => pc[c] # "done" /\ s # "done",
           \A r \in Requests : r = c \/ verdict'[r] = verdict[r]
    PROVE  Told' = Told
<1>1. pc \in [Callers -> Steps]
  BY DEF IInv, Scalars
<1>2. ASSUME NEW r \in Requests
      PROVE  (IF pc'[r] = "done" THEN verdict'[r] ELSE "none")
                = (IF pc[r] = "done" THEN verdict[r] ELSE "none")
  <2>1. r \in Callers /\ (r # c => pc'[r] = pc[r]) /\ (r = c => pc'[r] = s)
    BY <1>1 DEF Callers
  <2>2. QED  BY <2>1
<1>3. QED  BY <1>2, Zenon DEF Told

LEMMA NewlyTold ==
    ASSUME IInv, NEW r \in Requests, NEW v, pc' = [pc EXCEPT ![r] = "done"],
           verdict' = [verdict EXCEPT ![r] = v]
    PROVE  Told' = [Told EXCEPT ![r] = v]
<1>1. pc \in [Callers -> Steps] /\ verdict \in [Requests -> Verdicts] /\ r \in Callers
  BY DEF IInv, Scalars, Callers
<1>2. ASSUME NEW q \in Requests
      PROVE  (IF pc'[q] = "done" THEN verdict'[q] ELSE "none")
                = IF q = r THEN v ELSE IF pc[q] = "done" THEN verdict[q] ELSE "none"
  <2>1. q \in Callers
    BY DEF Callers
  <2>2. QED  BY <1>1, <2>1
<1>3. Told' = [q \in Requests |-> IF pc'[q] = "done" THEN verdict'[q] ELSE "none"]
  BY DEF Told
<1>4. [Told EXCEPT ![r] = v]
         = [q \in Requests |-> IF q = r THEN v ELSE IF pc[q] = "done" THEN verdict[q] ELSE "none"]
  BY DEF Told
<1>5. QED  BY <1>2, <1>3, <1>4

\* The request is answered and leaves the line, whose next one waits.
LEMMA NextWaits ==
    ASSUME IInv, NEW r \in Requests, queue # <<>>, r = Head(queue), pending' = Nobody,
           queue' = Tail(queue), pc' = [pc EXCEPT ![r] = "done"]
    PROVE  First' = "waits"
<1>1. SUFFICES ASSUME queue' # <<>> PROVE pc'[Head(queue')] \notin Interrupted
  BY DEF First
<1>2. PICK h : h = Head(queue')
  OBVIOUS
<1>3. /\ queue \in Seq(Outstanding) /\ \A i, j \in 1..Len(queue) : queue[i] = queue[j] => i = j
      /\ \A q \in Requests : pc[q] \notin {"idle", "queued", "done"} => q = Head(queue)
      /\ pc \in [Callers -> Steps]
  BY DEF IInv, Line, Scalars
<1>4. h \in Outstanding /\ h # r
  <2>1. queue' \in Seq(Outstanding) /\ 1 \in 1..Len(queue') /\ h = queue'[1]
    BY <1>1, <1>2, <1>3, TailIndex
  <2>2. 2 \in 1..Len(queue) /\ h = queue[2] /\ 1 \in 1..Len(queue) /\ r = queue[1]
    BY <1>1, <1>3, <2>1, TailIndex
  <2>3. h \in Outstanding
    BY <2>1
  <2>4. QED  BY <1>3, <2>2, <2>3
<1>5. h \in Requests /\ h \in Callers /\ pc[h] = "queued" /\ pc'[h] = pc[h]
  BY <1>3, <1>4 DEF Outstanding, Callers, Steps
<1>6. QED  BY <1>2, <1>5 DEF Interrupted

\* An answer is one the service may give.
LEMMA Answers ==
    ASSUME IInv, NEW r \in Requests, NEW v, NEW rest, queue # <<>>, r = Head(queue),
           Answer(r, v, rest), pending' = Nobody,
           First = "served" => v = "result",
           First = "waits" => v \in {"cancelled", "unavailable"},
           First = "interrupted" =>
               v \in Service!Failures /\ (v = "unproven" <=> Left = "dropped"),
           Left' = Left, closed' = closed, shut' = shut
    PROVE  Service!Next
<1>1. /\ pc' = [pc EXCEPT ![r] = "done"] /\ verdict' = [verdict EXCEPT ![r] = v]
      /\ queue' = Tail(queue)
  BY DEF Answer
<1>2. First' = "waits"
  BY <1>1, NextWaits
<1>3. Told' = [Told EXCEPT ![Head(queue)] = v]
  BY <1>1, NewlyTold
<1>4. (~closed)' = ~closed /\ (shut \in {"done", "failed"})' = (shut \in {"done", "failed"})
  OBVIOUS
<1>5. Service!Answer(v)
  BY <1>1, <1>2, <1>3, <1>4 DEF Service!Answer
<1>6. v \in Service!Failures \cup {"result", "unavailable"}
  BY DEF First, Service!Failures
<1>7. QED  BY <1>5, <1>6 DEF Service!Next

\* start() throws: the request is interrupted, a health check is not seen.
LEMMA ThrowSeen ==
    ASSUME IInv, NEW c \in Callers, NEW v, Throw(c, v, Tail(jobs)), pc[c] \in Starting,
           Left' = Left, UNCHANGED <<closed, shut, pending, queue>>
    PROVE  Service!Next \/ UNCHANGED Service!vars
<1>0. Starting \cap Interrupted = {} /\ "done" \notin Starting
  BY DEF Starting, Interrupted
<1>1. CASE c \in Requests
  <2>1. /\ pc' = [pc EXCEPT ![c] = "thrown"] /\ verdict' = [verdict EXCEPT ![c] = v]
        /\ pc'[c] = "thrown"
    BY <1>1 DEF Throw, IInv, Scalars
  <2>2. queue # <<>> /\ c = Head(queue) /\ pending = Nobody /\ First = "waits"
    BY <1>0, <1>1, AtTurn
  <2>3. First' = "interrupted"
    BY <2>1, <2>2 DEF First, Interrupted
  <2>4. \A r \in Requests : r = c \/ verdict'[r] = verdict[r]
    BY <2>1 DEF IInv, Scalars
  <2>5. Told' = Told
    BY <1>0, <2>1, <2>4, KeepsTold
  <2>6. (~closed)' = ~closed /\ (shut \in {"done", "failed"})' = (shut \in {"done", "failed"})
    OBVIOUS
  <2>7. Service!Interrupt
    BY <2>2, <2>3, <2>5, <2>6 DEF Service!Interrupt
  <2>8. QED  BY <2>7 DEF Service!Next
<1>2. CASE c \notin Requests
  <2>1. pc' = [pc EXCEPT ![c] = "done"] /\ verdict' = verdict
    BY <1>2 DEF Throw
  <2>2. First' = First
    BY <1>2, <2>1, KeepsFirst
  <2>3. Told' = Told
    BY <1>2, <2>1, KeepsTold
  <2>4. QED  BY <2>2, <2>3, Unseen DEF Ended
<1>3. QED  BY <1>1, <1>2

\* A step of start() that only moves its caller on is not seen.
LEMMA StartUnseen ==
    ASSUME IInv, NEW c \in Callers, pc[c] \in Starting, NEW s \in Starting \cup {"done"},
           s = "done" => c \notin Requests, pc' = [pc EXCEPT ![c] = s], verdict' = verdict,
           Left' = Left, UNCHANGED <<closed, shut, pending, queue>>
    PROVE  UNCHANGED Service!vars
<1>1. Starting \cap Interrupted = {} /\ "done" \notin Starting
  BY DEF Starting, Interrupted
<1>2. First' = First
  BY <1>1, KeepsFirst
<1>3. Told' = Told
  BY <1>1, KeepsTold
<1>4. QED  BY <1>2, <1>3, Unseen DEF Ended

LEMMA StartImplements ==
    ASSUME IInv, IInv', NEW c \in Callers, Start(c) PROVE Service!Next \/ UNCHANGED Service!vars
<1>1. Scalars /\ Group /\ pc[c] \in Starting /\ UNCHANGED <<closed, shut, pending, queue>>
  BY DEF IInv, Start, StartRefused, StartFinds, StartJoins, StartSwitches, StartForks, StartOwns,
         StartAgain, StartReturns, Turn, Starting, workerVars
<1>2. (~closed)' = ~closed /\ (shut \in {"done", "failed"})' = (shut \in {"done", "failed"})
  BY <1>1
<1>3. /\ "started" \in Starting /\ "init" \in Starting /\ "switch" \in Starting
      /\ "forked" \in Starting /\ "owner" \in Starting /\ "start" \in Starting
      /\ Starting \cap Interrupted = {} /\ "done" \notin Starting
  BY DEF Starting, Interrupted
<1>4. CASE StartRefused(c)
  <2>1. PICK v : Throw(c, v, Tail(jobs))
    BY <1>4 DEF StartRefused
  <2>2. Left' = Left
    BY <1>4 DEF StartRefused, Left, workerVars
  <2>3. QED  BY <1>1, <2>1, <2>2, ThrowSeen
<1>5. CASE StartAgain(c) \/ StartReturns(c)
  <2>1. Left' = Left
    BY <1>5 DEF StartAgain, StartReturns, Left, workerVars
  <2>2. CASE \E v : Throw(c, v, Tail(jobs))
    BY <1>1, <2>1, <2>2, ThrowSeen
  <2>3. CASE \E s \in {"start", "started", "done"} :
                 pc' = [pc EXCEPT ![c] = s] /\ verdict' = verdict /\ (s = "done" => c \notin Requests)
    BY <1>1, <1>3, <2>1, <2>3, StartUnseen
  <2>4. QED  BY <1>5, <2>2, <2>3 DEF StartAgain, StartReturns, AwaitTeardown
<1>6. CASE StartFinds(c) \/ StartJoins(c) \/ StartOwns(c)
  <2>1. Left' = Left
    BY <1>6 DEF StartFinds, StartJoins, StartOwns, Left, workerVars
  <2>2. \E s \in {"started", "done", "init", "owner"} :
            pc' = [pc EXCEPT ![c] = s] /\ verdict' = verdict /\ (s = "done" => c \notin Requests)
    BY <1>6 DEF StartFinds, StartJoins, StartOwns
  <2>3. QED  BY <1>1, <1>3, <2>1, <2>2, StartUnseen
<1>7. CASE StartSwitches(c)
  <2>1. /\ pc' = [pc EXCEPT ![c] = "switch"] /\ verdict' = verdict
        /\ worker # 0 /\ worker' = 0 /\ live' = live
    BY <1>7 DEF StartSwitches, Discard
  <2>2. First' = First
    BY <1>1, <1>3, <2>1, KeepsFirst
  <2>3. Told' = Told
    BY <1>1, <1>3, <2>1, KeepsTold
  <2>4. Left = "owned" /\ Left' = "dropped"
    BY <1>1, <2>1 DEF Left, Group
  <2>5. First # "served"
    <3>1. pending' = Nobody
      BY <2>1 DEF IInv, Group
    <3>2. QED  BY <1>1, <3>1 DEF First
  <2>6. Service!Drop
    BY <1>1, <1>2, <2>2, <2>3, <2>4, <2>5 DEF Service!Drop
  <2>7. QED  BY <2>6 DEF Service!Next
<1>8. CASE StartForks(c)
  <2>1. /\ pc' = [pc EXCEPT ![c] = "forked"] /\ verdict' = verdict
        /\ worker = 0 /\ worker' = generation + 1 /\ ~closed /\ jobs # <<>>
        /\ c = Head(jobs).c /\ Head(jobs).ok /\ pc[c] = "start"
    BY <1>8, Headed DEF StartForks, Refused
  <2>2. First' = First
    BY <1>1, <1>3, <2>1, KeepsFirst
  <2>3. Told' = Told
    BY <1>1, <1>3, <2>1, KeepsTold
  <2>4. live = {}
    <3>1. teardown = "done"
      BY <2>1, Running DEF MayRun
    <3>2. QED  BY <1>1, <2>1, <3>1 DEF Group, Scalars
  <2>5. Left = "none" /\ Left' = "owned"
    BY <1>1, <2>1, <2>4 DEF Left, Scalars
  <2>6. Service!Fork
    BY <1>1, <1>2, <2>1, <2>2, <2>3, <2>5 DEF Service!Fork
  <2>7. QED  BY <2>6 DEF Service!Next
<1>9. QED  BY <1>4, <1>5, <1>6, <1>7, <1>8 DEF Start

LEMMA SendThrowsImplements ==
    ASSUME IInv, Truthful, NEW r \in Requests, SendThrows(r) PROVE Service!Next
<1>1. jobs # <<>> /\ r \in Callers /\ r = Head(jobs).c /\ pc[r] \in {"caught", "reaping", "closing"}
  BY DEF SendThrows, Turn, Quiet
<1>2. queue # <<>> /\ r = Head(queue) /\ pending = Nobody /\ First = "interrupted"
  BY <1>1, AtTurn DEF Interrupted
<1>3. PICK v : v = IF Head(jobs).ok THEN verdict[r] ELSE "unproven"
  OBVIOUS
<1>4. Answer(r, v, Tail(jobs)) /\ pending' = pending /\ Left' = Left /\ closed' = closed /\ shut' = shut
  BY <1>3 DEF SendThrows, Left, workerVars
<1>5. Head(jobs).ok \in BOOLEAN /\ MayRun(r, Head(jobs).ok)
  BY <1>1, Running DEF Job
<1>6. CASE Head(jobs).ok
  <2>1. teardown = "done" /\ live \subseteq {worker} /\ Left # "dropped"
    BY <1>1, <1>5, <1>6 DEF MayRun, IInv, Group, Left, Scalars
  <2>2. v \in Service!Failures /\ v # "unproven"
    BY <1>1, <1>3, <1>6, <2>1 DEF Truthful, Interrupted
  <2>3. QED  BY <1>2, <1>4, <2>1, <2>2, Answers
<1>7. CASE ~Head(jobs).ok
  <2>1. teardown = "unproven" /\ live # {} /\ worker = 0
    BY <1>1, <1>5, <1>7 DEF MayRun, IInv, Group
  <2>2. Left = "dropped" /\ v = "unproven" /\ v \in Service!Failures
    BY <1>3, <1>7, <2>1 DEF Left, Service!Failures
  <2>3. QED  BY <1>2, <1>4, <2>2, Answers
<1>8. QED  BY <1>6, <1>7

LEMMA SendImplements ==
    ASSUME IInv, Truthful, NEW r \in Requests,
           SendBegin(r) \/ StartExpires(r) \/ SendExpires(r) \/ Send(r) \/ SendCatch(r) \/ SendThrows(r)
    PROVE  Service!Next \/ UNCHANGED Service!vars
<1>1. /\ Scalars /\ r \in Callers /\ Left' = Left
      /\ UNCHANGED <<closed, shut, worker, live>>
  BY DEF IInv, Callers, SendBegin, StartExpires, SendExpires, Send, SendCatch, SendThrows, Left, workerVars
<1>2. (~closed)' = ~closed /\ (shut \in {"done", "failed"})' = (shut \in {"done", "failed"})
  BY <1>1
<1>3. CASE SendBegin(r)
  <2>1. jobs # <<>> /\ r = Head(jobs).c /\ pc[r] = "queued" /\ pending' = pending
    BY <1>3 DEF SendBegin, Turn, Quiet, workerVars
  <2>2. queue # <<>> /\ r = Head(queue)
    BY <1>1, <2>1, Running
  <2>3. pending = Nobody /\ First = "waits"
    <3>1. pending = Nobody
      BY <2>1, <2>2, AtWork
    <3>2. QED  BY <2>1, <2>2, <3>1 DEF First, Interrupted
  <2>4. CASE r \in cancelled
    <3>1. Answer(r, "cancelled", Tail(jobs))
      BY <1>3, <2>4 DEF SendBegin
    <3>2. QED  BY <1>1, <2>1, <2>2, <2>3, <3>1, Answers
  <2>5. CASE r \notin cancelled
    <3>1. pc' = [pc EXCEPT ![r] = "start"] /\ verdict' = verdict /\ queue' = queue
      BY <1>3, <2>5 DEF SendBegin, AwaitTeardown
    <3>2. First' = First
      BY <1>1, <2>1, <3>1, KeepsFirst DEF Interrupted
    <3>3. Told' = Told
      BY <1>1, <2>1, <3>1, KeepsTold
    <3>4. QED  BY <1>1, <3>1, <3>2, <3>3, Unseen DEF Ended
  <2>6. QED  BY <2>4, <2>5
<1>4. CASE StartExpires(r)
  <2>1. Throw(r, "cancelled", Tail(jobs)) /\ pc[r] \in Starting /\ pending' = pending /\ queue' = queue
    BY <1>4 DEF StartExpires, Turn, Starting, workerVars
  <2>2. QED  BY <1>1, <2>1, ThrowSeen
<1>5. CASE SendExpires(r) \/ Send(r)
  <2>1. pc[r] = "started" /\ pc[r] \in Starting /\ pc[r] \notin Interrupted
    BY <1>5 DEF SendExpires, Send, Turn, Starting, Interrupted
  <2>2. queue # <<>> /\ r = Head(queue) /\ pending = Nobody /\ First = "waits"
    BY <2>1, AtTurn
  <2>3. CASE \E v \in {"cancelled", "unavailable"} : Answer(r, v, Tail(jobs)) /\ pending' = pending
    BY <1>1, <2>2, <2>3, Answers
  <2>4. CASE /\ worker # 0 /\ pending' = r /\ pc' = [pc EXCEPT ![r] = "working"]
             /\ verdict' = verdict /\ queue' = queue
    <3>1. First' = "served"
      BY <2>4, CallerAssumption DEF First, Nobody
    <3>2. Told' = Told
      BY <1>1, <2>1, <2>4, KeepsTold
    <3>3. Left = "owned"
      BY <2>4 DEF Left
    <3>4. Service!Serve
      BY <1>1, <1>2, <2>2, <2>4, <3>1, <3>2, <3>3 DEF Service!Serve
    <3>5. QED  BY <3>4 DEF Service!Next
  <2>5. QED  BY <1>5, <2>3, <2>4 DEF SendExpires, Send, workerVars
<1>6. CASE SendCatch(r)
  <2>1. /\ pc[r] = "thrown" /\ pc' = [pc EXCEPT ![r] = "caught"] /\ verdict' = verdict
        /\ UNCHANGED <<pending, queue>>
    BY <1>6 DEF SendCatch, AwaitTeardown, Turn, workerVars
  <2>2. First' = First
    BY <1>1, <2>1, KeepsFirst DEF Interrupted
  <2>3. Told' = Told
    BY <1>1, <2>1, KeepsTold
  <2>4. QED  BY <1>1, <2>1, <2>2, <2>3, Unseen DEF Ended
<1>7. CASE SendThrows(r)
  BY <1>7, SendThrowsImplements
<1>8. QED  BY <1>3, <1>4, <1>5, <1>6, <1>7

\* A request is admitted behind the others, or refused.
LEMMA EnqueueImplements == ASSUME IInv, NEW r \in Requests, Enqueue(r) PROVE Service!Next
<1>1. /\ Scalars /\ r \in Callers /\ pc[r] = "idle" /\ Left' = Left
      /\ UNCHANGED <<closed, shut, pending>>
  BY DEF IInv, Callers, Enqueue, Left, workerVars
<1>2. (~closed)' = ~closed /\ (shut \in {"done", "failed"})' = (shut \in {"done", "failed"})
  BY <1>1
<1>3. queue \in Seq(Outstanding)
  BY DEF IInv, Line
<1>0. Len(queue) \in Nat /\ MaxOutstanding \in Nat
  BY <1>3, QueueAssumption
<1>4. \A i \in 1..Len(queue) : queue[i] # r
  BY <1>1, <1>3 DEF Outstanding
<1>5. Told[r] = "none"
  BY <1>1 DEF Told
<1>6. CASE closed \/ Len(queue) >= MaxOutstanding
  <2>1. PICK v \in {"closed", "busy"} : v = IF closed THEN "closed" ELSE "busy"
    OBVIOUS
  <2>2. CASE pc' = [pc EXCEPT ![r] = "done"] /\ verdict' = [verdict EXCEPT ![r] = v] /\ queue' = queue
    <3>1. Told' = [Told EXCEPT ![r] = v]
      BY <2>2, NewlyTold
    <3>2. First' = First
      BY <1>1, <2>2, KeepsFirst DEF Interrupted
    <3>3. Service!Refuse(r, v)
      BY <1>1, <1>2, <1>4, <1>5, <1>6, <2>1, <2>2, <3>1, <3>2 DEF Service!Refuse
    <3>4. QED  BY <3>3 DEF Service!Next, Service!Refusals
  <2>3. QED
    <3>1. ~(~closed /\ Len(queue) < MaxOutstanding)
      BY <1>0, <1>6
    <3>2. QED  BY <2>1, <2>2, <3>1 DEF Enqueue
<1>7. CASE ~closed /\ Len(queue) < MaxOutstanding
  <2>1. pc' = [pc EXCEPT ![r] = "queued"] /\ queue' = Append(queue, r) /\ verdict' = verdict
    <3>1. ~(closed \/ Len(queue) >= MaxOutstanding)
      BY <1>0, <1>7
    <3>2. QED  BY <3>1 DEF Enqueue
  <2>2. Told' = Told
    BY <1>1, <2>1, KeepsTold
  <2>3. First' = First
    <3>1. CASE queue = <<>>
      <4>1. pending = Nobody
        BY <3>1, AtWork
      <4>2. queue' = <<r>> /\ Head(queue') = r /\ pc'[r] = "queued"
        BY <1>1, <2>1, <3>1 DEF Scalars
      <4>3. QED  BY <1>1, <3>1, <4>1, <4>2 DEF First, Interrupted
    <3>2. CASE queue # <<>>
      <4>1. queue' # <<>> /\ Head(queue') = Head(queue)
        BY <1>3, <2>1, <3>2
      <4>2. PICK h \in Requests : h = Head(queue)
        BY <3>2, HeadAsked
      <4>3. pc'[h] \in Interrupted <=> pc[h] \in Interrupted
        BY <1>1, <2>1, <4>2 DEF Scalars, Interrupted
      <4>4. QED  BY <1>1, <3>2, <4>1, <4>2, <4>3 DEF First
    <3>3. QED  BY <3>1, <3>2
  <2>4. Service!Admit(r)
    BY <1>1, <1>2, <1>4, <1>5, <1>7, <2>1, <2>2, <2>3 DEF Service!Admit
  <2>5. QED  BY <2>4 DEF Service!Next
<1>8. QED  BY <1>0, <1>6, <1>7

\* An event of the worker, a cancellation, or a step of shutdown().
LEMMA FailActiveImplements ==
    ASSUME IInv, NEW v, FailActive(v), worker # 0, UNCHANGED <<closed, shut, live, queue>>
    PROVE  Service!Next
<1>1. /\ worker' = 0 /\ pending' = Nobody /\ Scalars /\ live = {worker}
      /\ Left = "owned" /\ Left' = "dropped"
  BY DEF FailActive, Discard, IInv, Group, Left
<1>2. (~closed)' = ~closed /\ (shut \in {"done", "failed"})' = (shut \in {"done", "failed"})
  OBVIOUS
<1>3. /\ Told' = Told
      /\ First' = IF First = "served" THEN "interrupted" ELSE First
  <2>1. CASE pending = Nobody
    <3>1. pc' = pc /\ verdict' = verdict
      BY <2>1 DEF FailActive
    <3>2. First' = First /\ First # "served" /\ Told' = Told
      BY <1>1, <2>1, <3>1 DEF First, Told
    <3>3. QED  BY <3>2
  <2>2. CASE pending # Nobody
    <3>1. PICK p \in Requests : p = pending
      BY <1>1, <2>2 DEF Scalars
    <3>2. p \in Callers /\ pc[p] = "working" /\ queue # <<>> /\ p = Head(queue) /\ First = "served"
      BY <2>2, <3>1, AtWork DEF Callers
    <3>3. pc' = [pc EXCEPT ![p] = "reaping"] /\ verdict' = [verdict EXCEPT ![p] = v]
      BY <2>2, <3>1 DEF FailActive
    <3>4. \A r \in Requests : r = p \/ verdict'[r] = verdict[r]
      BY <1>1, <3>3 DEF Scalars
    <3>5. Told' = Told
      BY <3>2, <3>3, <3>4, KeepsTold
    <3>6. First' = "interrupted"
      BY <1>1, <3>2, <3>3 DEF First, Interrupted, Scalars
    <3>7. QED  BY <3>2, <3>5, <3>6
  <2>3. QED  BY <2>1, <2>2
<1>4. Service!Drop
  BY <1>1, <1>2, <1>3 DEF Service!Drop
<1>5. QED  BY <1>4 DEF Service!Next

LEMMA ResultImplements == ASSUME IInv, Result PROVE Service!Next
<1>1. PICK p \in Requests : p = pending
  BY DEF Result, IInv, Scalars
<1>2. /\ pending # Nobody /\ pending' = Nobody /\ Answer(p, "result", jobs)
      /\ Left' = Left /\ closed' = closed /\ shut' = shut
  BY <1>1 DEF Result, Left
<1>3. First = "served" /\ queue # <<>> /\ p = Head(queue)
  BY <1>1, <1>2, AtWork
<1>4. QED  BY <1>2, <1>3, Answers

LEMMA CancelStartingImplements ==
    ASSUME IInv, NEW r \in Requests, CancelStarting(r) PROVE Service!Next
<1>1. /\ Scalars /\ Group /\ r \in Callers /\ pc[r] \in Starting
      /\ pc' = [pc EXCEPT ![r] = "thrown"] /\ verdict' = [verdict EXCEPT ![r] = "cancelled"]
      /\ UNCHANGED <<closed, shut, pending, live, queue>>
  BY DEF IInv, Callers, CancelStarting
<1>2. queue # <<>> /\ r = Head(queue) /\ pending = Nobody /\ First = "waits"
  BY <1>1, AtTurn DEF Starting, Interrupted
<1>3. First' = "interrupted"
  BY <1>1, <1>2 DEF First, Interrupted, Scalars
<1>4. Told' = Told
  <2>1. \A q \in Requests : q = r \/ verdict'[q] = verdict[q]
    BY <1>1 DEF Scalars
  <2>2. QED  BY <1>1, <2>1, KeepsTold DEF Starting
<1>5. Left' \in {Left} \cup (IF Left = "owned" THEN {"dropped"} ELSE {})
  <2>1. CASE init # 0
    <3>1. worker # 0 /\ live = {worker} /\ worker' = 0 /\ live' = live
      BY <1>1, <2>1 DEF CancelStarting, Group, Scalars
    <3>2. Left = "owned" /\ Left' = "dropped"
      BY <3>1 DEF Left
    <3>3. QED  BY <3>2
  <2>2. CASE init = 0
    <3>1. worker' = worker /\ live' = live
      BY <2>2 DEF CancelStarting
    <3>2. QED  BY <3>1 DEF Left
  <2>3. QED  BY <2>1, <2>2
<1>6. (~closed)' = ~closed /\ (shut \in {"done", "failed"})' = (shut \in {"done", "failed"})
  BY <1>1
<1>7. Service!Interrupt
  BY <1>1, <1>2, <1>3, <1>4, <1>5, <1>6 DEF Service!Interrupt
<1>8. QED  BY <1>7 DEF Service!Next

\* The group is proven gone, or it is not.
LEMMA ReapedImplements ==
    ASSUME IInv, NEW proven \in BOOLEAN, Reaped(proven)
    PROVE  Service!Next \/ UNCHANGED Service!vars
<1>1. /\ worker = 0 /\ worker' = 0 /\ live = {dying}
      /\ live' = (IF proven THEN {} ELSE live)
      /\ UNCHANGED <<closed, shut, pending, queue, pc, verdict>>
  BY DEF Reaped, IInv, Group
<1>2. First' = First /\ Told' = Told
  BY <1>1 DEF First, Told
<1>3. CASE proven
  <2>1. Left = "dropped" /\ Left' = "none"
    BY <1>1, <1>3 DEF Left
  <2>2. (~closed)' = ~closed /\ (shut \in {"done", "failed"})' = (shut \in {"done", "failed"})
    BY <1>1
  <2>3. Service!Reap
    BY <1>1, <1>2, <2>1, <2>2 DEF Service!Reap
  <2>4. QED  BY <2>3 DEF Service!Next
<1>4. CASE ~proven
  <2>1. Left' = Left
    BY <1>1, <1>4 DEF Left
  <2>2. QED  BY <1>1, <1>2, <2>1, Unseen DEF Ended
<1>5. QED  BY <1>3, <1>4

\* shutdown() closes the line and drops the group.
LEMMA ShutdownBeginImplements == ASSUME IInv, ShutdownBegin PROVE Service!Next
<1>1. /\ ~closed /\ closed' = TRUE /\ Scalars /\ Group
      /\ shut \notin {"done", "failed"} /\ shut' \notin {"done", "failed"}
      /\ UNCHANGED <<live, queue>>
  BY DEF ShutdownBegin, IInv, Shut
<1>2. (shut \in {"done", "failed"})' = (shut \in {"done", "failed"})
  BY <1>1
<1>3. CASE worker = 0
  <2>1. UNCHANGED <<worker, pending, pc, verdict>> /\ pending = Nobody
    BY <1>1, <1>3 DEF ShutdownBegin, Group
  <2>2. First' = First /\ First # "served" /\ Told' = Told /\ Left' = Left /\ Left # "owned"
    BY <1>1, <1>3, <2>1 DEF First, Told, Left
  <2>3. Service!Close
    BY <1>1, <1>2, <2>2 DEF Service!Close
  <2>4. QED  BY <2>3 DEF Service!Next
<1>4. CASE worker # 0
  <2>1. worker' = 0 /\ pending' = Nobody /\ live = {worker} /\ Left = "owned" /\ Left' = "dropped"
    BY <1>1, <1>4 DEF ShutdownBegin, Discard, Group, Left
  <2>2. CASE pending = Nobody
    <3>1. pc' = pc /\ verdict' = verdict
      BY <1>4, <2>2 DEF ShutdownBegin
    <3>2. First' = First /\ First # "served" /\ Told' = Told
      BY <1>1, <2>1, <2>2, <3>1 DEF First, Told
    <3>3. Service!Close
      BY <1>1, <1>2, <2>1, <3>2 DEF Service!Close
    <3>4. QED  BY <3>3 DEF Service!Next
  <2>3. CASE pending # Nobody
    <3>1. PICK p \in Requests : p = pending
      BY <1>1, <2>3 DEF Scalars
    <3>2. p \in Callers /\ pc[p] = "working" /\ queue # <<>> /\ p = Head(queue) /\ First = "served"
      BY <2>3, <3>1, AtWork DEF Callers
    <3>3. pc' = [pc EXCEPT ![p] = "closing"] /\ verdict' = [verdict EXCEPT ![p] = "closed"]
      BY <1>4, <2>3, <3>1 DEF ShutdownBegin
    <3>4. \A r \in Requests : r = p \/ verdict'[r] = verdict[r]
      BY <1>1, <3>3 DEF Scalars
    <3>5. Told' = Told
      BY <3>2, <3>3, <3>4, KeepsTold
    <3>6. First' = "interrupted"
      BY <1>1, <2>1, <3>2, <3>3 DEF First, Interrupted, Scalars
    <3>7. Service!Close
      BY <1>1, <1>2, <2>1, <3>2, <3>5, <3>6 DEF Service!Close
    <3>8. QED  BY <3>7 DEF Service!Next
  <2>4. QED  BY <2>2, <2>3
<1>5. QED  BY <1>3, <1>4

LEMMA ShutdownEndImplements == ASSUME IInv, ShutdownEnd PROVE Service!Next
<1>1. /\ closed /\ worker = 0 /\ queue = <<>> /\ shut' \in {"done", "failed"}
      /\ UNCHANGED <<closed, workerVars, queue, pc, verdict>>
  BY DEF ShutdownEnd, IInv, Shut
<1>2. First' = First /\ Told' = Told /\ Left' = Left /\ Left # "owned"
  BY <1>1 DEF First, Told, Left, workerVars
<1>3. (shut \in {"done", "failed"})' = TRUE /\ (~closed)' = ~closed
  BY <1>1
<1>4. Service!End
  BY <1>1, <1>2, <1>3 DEF Service!End
<1>5. QED  BY <1>4 DEF Service!Next

\* Whatever step the runtime takes, its service takes one or stands still.
LEMMA StepImplements ==
    ASSUME IInv, IInv', Truthful, [Next]_vars PROVE [Service!Next]_(Service!vars)
<1>1. ASSUME NEW c \in Checks, Initialize(c) PROVE UNCHANGED Service!vars
  <2>1. /\ c \in Callers /\ c \notin Requests /\ verdict' = verdict /\ Left' = Left
        /\ UNCHANGED <<closed, shut, pending, queue>>
    BY <1>1, CallerAssumption DEF Initialize, Callers, Left, workerVars
  <2>2. PICK s \in {"start", "done"} : pc' = [pc EXCEPT ![c] = s]
    BY <1>1 DEF Initialize, AwaitTeardown
  <2>3. First' = First
    BY <2>1, <2>2, KeepsFirst
  <2>4. Told' = Told
    BY <2>1, <2>2, KeepsTold
  <2>5. QED  BY <2>1, <2>3, <2>4, Unseen DEF Ended
<1>2. ASSUME Tick \/ ShutdownReaped \/ Ready \/ (\E r \in Requests : CancelQueued(r)) \/ UNCHANGED vars
      PROVE  UNCHANGED Service!vars
  <2>1. UNCHANGED <<closed, worker, live, pending, queue, pc, verdict>>
    BY <1>2 DEF Tick, ShutdownReaped, Ready, CancelQueued, vars, workerVars
  <2>2. First' = First /\ Told' = Told /\ Left' = Left
    BY <2>1 DEF First, Told, Left
  <2>3. Ended' <=> Ended
    <3>1. CASE ShutdownReaped
      <4>1. jobs # <<>> /\ Head(jobs).c = "shutdown" /\ jobs \in Seq(Runnable)
        BY <3>1 DEF ShutdownReaped, Quiet, IInv, Placed
      <4>2. shut = "tearing"
        BY <4>1, TailIndex DEF Runnable
      <4>3. QED  BY <3>1, <4>2 DEF ShutdownReaped, Ended
    <3>2. CASE ~ShutdownReaped
      BY <1>2, <3>2 DEF Tick, Ready, CancelQueued, vars, Ended
    <3>3. QED  BY <3>1, <3>2
  <2>4. QED  BY <2>1, <2>2, <2>3, Unseen
<1>3. ASSUME WorkerFails \/ \E r \in Requests : CancelWorking(r) PROVE Service!Next
  <2>1. PICK v : FailActive(v)
    BY <1>3 DEF WorkerFails, CancelWorking
  <2>2. worker # 0 /\ UNCHANGED <<closed, shut, live, queue>>
    BY <1>3, CallerAssumption DEF WorkerFails, CancelWorking, IInv, Group, Nobody
  <2>3. QED  BY <2>1, <2>2, FailActiveImplements
<1>4. QED
  BY <1>1, <1>2, <1>3, StartImplements, SendImplements, EnqueueImplements, ResultImplements,
     CancelStartingImplements, ReapedImplements, ShutdownBeginImplements, ShutdownEndImplements
  DEF Next, Continuation, Cancel

\* In terms of its callers the runtime is the service that CompilerService states: one
\* bounded line answered in order, one process group, a result for exactly those who
\* were served, and after an interruption the truth about the group it left
\* (enqueue(), send(), start(), discard(), shutdown()).
THEOREM RuntimeImplementsService == Spec => ImplementsService
<1>1. Init => Service!Init
  <2> SUFFICES ASSUME Init PROVE Service!Init
    OBVIOUS
  <2>1. First = "waits" /\ Left = "none"
    BY DEF Init, First, Left
  <2>2. Told = [r \in Requests |-> "none"]
    BY DEF Init, Told, Callers
  <2>3. (~closed) = TRUE /\ (shut \in {"done", "failed"}) = FALSE
    BY DEF Init
  <2>4. QED  BY <2>1, <2>2, <2>3 DEF Init, Service!Init
<1>2. IInv /\ IInv' /\ Truthful /\ [Next]_vars => [Service!Next]_(Service!vars)
  BY StepImplements
<1>3. QED  BY <1>1, <1>2, Invariance, AlwaysTruthful, PTL DEF Spec, ImplementsService, Service!Spec
=============================================================================
