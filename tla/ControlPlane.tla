----------------------------- MODULE ControlPlane -----------------------------
(***************************************************************************)
(* The static weekly control plane: admission of manager operations, their *)
(* database transaction on a pooled client, the health check beside them,  *)
(* the answer a manager gets, and the shutdown.                            *)
(*                                                                         *)
(* A client and the server are apart: destroying a socket rejects the      *)
(* query at the client at once, while the server may still be executing    *)
(* the statement it was sent.                                              *)
(***************************************************************************)
EXTENDS Naturals, Sequences, FiniteSets

CONSTANTS
    Requests,       \* one manager operation each
    Previews,       \* those that are rollbackOnly
    Checks,         \* the coalesced health check, or none
    Concurrency,    \* transactionConcurrency
    MaxQueued,      \* maxQueuedTransactions
    PoolMax,        \* max of the pool
    Events,         \* BOUND: what else happens, of "pause", "lose" and "end",
                    \* the shutdown past the compiler, which nothing else reads
    Revocable,      \* BOUND: the requests whose manager may be revoked
    Alone           \* BOUND: the requests that never come beside a check

ASSUME OwnerAssumption ==
    Previews \subseteq Requests /\ Checks \cap Requests = {} /\ \A c, d \in Checks : c = d
ASSUME LimitAssumption ==
    Concurrency \in Nat \ {0} /\ MaxQueued \in Nat \ {0} /\ PoolMax \in Nat \ {0}

VARIABLES
    closing, close,     \* closing, and how far close() is
    active, queue,      \* activeTransactionPromises, transactionQueue
    poolQueue, pool,    \* connects in the order they wait, and where each is
    late,               \* requests that no longer wait for their connect
    pc, failure,        \* where each operation is, and what it threw
    aborted,            \* which signal aborted a request, if any
    socket,             \* of the client a transaction holds
    stmt, reply,        \* the statement at the server, and its unread reply
    tx, locks,          \* the server's transaction, and the rows it holds
    returned,           \* clients given back to the pool for reuse
    lease, answer,      \* the restore lease of a request, and its answer
    revoked,            \* managers revoked
    paused, fenced      \* restore paused mutations, and has the fence to itself

admissionVars == <<closing, close, active, queue>>
poolVars == <<poolQueue, pool, late, returned>>
serverVars == <<stmt, reply, tx, locks>>
answerVars == <<lease, answer>>
worldVars == <<revoked, paused, fenced>>
vars == <<admissionVars, poolVars, pc, failure, aborted, socket, serverVars,
          answerVars, worldVars>>

Owners == Requests \cup Checks

\* What a transaction does in turn; "compile" awaits no statement.
Phases == {"begin", "fence", "actor", "compile", "work", "recheck", "commit", "discard"}
Unread == {"none", "ok", "error"}
Failures == {"none", "refused", "aborted", "lost", "closing", "busy", "expired", "outcome"}

TypeOK ==
    /\ closing \in BOOLEAN
    /\ close \in {"no", "compiler", "settling", "ended", "failed"}
    /\ active \subseteq Requests /\ Cardinality(active) <= Concurrency
    /\ queue \in Seq(Requests) /\ Len(queue) <= MaxQueued
    /\ poolQueue \in Seq(Owners)
    /\ pool \in [Owners -> {"none", "waiting", "opening", "held"}]
    /\ late \subseteq Requests /\ returned \subseteq Owners
    /\ pc \in [Owners -> Phases \cup {"idle", "queued", "admitted", "connecting",
                                      "rollback", "solver", "settled", "answered"}]
    /\ failure \in [Owners -> Failures]
    /\ aborted \in [Requests -> {"no", "lease", "request"}]
    /\ socket \in [Owners -> {"up", "ended", "lost"}]
    /\ stmt \in [Owners -> Phases \cup {"none", "rollback"}]
    /\ reply \in [Owners -> Unread]
    /\ tx \in [Owners -> {"none", "open", "failed", "committed", "rolledback"}]
    /\ locks \in [Owners -> SUBSET {"fence", "actor"}]
    /\ lease \in [Requests -> {"held", "releasing", "released"}]
    /\ answer \in [Requests -> {"none", "ok", "accepted", "rejected", "unknown"}]
    /\ revoked \subseteq Requests /\ paused \in BOOLEAN /\ fenced \in BOOLEAN

\* Every request has its restore lease when its operation starts.
Init ==
    /\ closing = FALSE /\ close = "no" /\ active = {} /\ queue = <<>>
    /\ poolQueue = <<>> /\ pool = [o \in Owners |-> "none"]
    /\ late = {} /\ returned = {}
    /\ pc = [o \in Owners |-> "idle"] /\ failure = [o \in Owners |-> "none"]
    /\ aborted = [r \in Requests |-> "no"]
    /\ socket = [o \in Owners |-> "up"]
    /\ stmt = [o \in Owners |-> "none"] /\ reply = [o \in Owners |-> "none"]
    /\ tx = [o \in Owners |-> "none"] /\ locks = [o \in Owners |-> {}]
    /\ lease = [r \in Requests |-> "held"] /\ answer = [r \in Requests |-> "none"]
    /\ revoked = {} /\ paused = FALSE /\ fenced = FALSE

IsAborted(o) == o \in Requests /\ aborted[o] # "no"

-----------------------------------------------------------------------------
\* Settlement and admission

Ending(o) == IF o \in Previews THEN "discard" ELSE "commit"

\* Mutant: the generation fence is not taken.
NextPhaseUnfenced(o, p) ==
    CASE p = "begin" -> IF o \in Checks THEN "work" ELSE "actor"
      [] p = "actor" -> "compile"
      [] p = "compile" -> "work"
      [] p = "work" -> IF o \in Checks THEN "commit" ELSE "recheck"
      [] OTHER -> Ending(o)

NextPhase(o, p) ==
    CASE p = "begin" -> IF o \in Checks THEN "work" ELSE "fence"
      [] p = "fence" -> "actor"
      [] p = "actor" -> "compile"
      [] p = "compile" -> "work"
      [] p = "work" -> IF o \in Checks THEN "commit" ELSE "recheck"
      [] OTHER -> Ending(o)

\* The operation of o settles; respond() starts to release its lease.
SettledPc(o, why) ==
    IF o \notin Checks THEN "settled" ELSE IF why = "none" THEN "solver" ELSE "idle"
LeaseOnSettle(o) ==
    lease' = IF o \in Checks THEN lease ELSE [lease EXCEPT ![o] = "releasing"]

\* Mutant: the promise of a failed execution stays active.
SettleKeepsFailed(o, why) ==
    /\ failure' = [failure EXCEPT ![o] = IF o \in Checks THEN "none" ELSE why]
    /\ LeaseOnSettle(o)
    /\ pc' = [pc EXCEPT ![o] = SettledPc(o, why)]
    /\ active' = IF why = "none" THEN active \ {o} ELSE active
    /\ UNCHANGED <<closing, close, queue, answer>>

\* The execution of o settles: its slot is free and the queue is drained.
Settle(o, why) ==
    /\ failure' = [failure EXCEPT ![o] = IF o \in Checks THEN "none" ELSE why]
    /\ LeaseOnSettle(o)
    /\ IF o \in active /\ ~closing /\ queue # <<>>
       THEN /\ active' = (active \ {o}) \cup {Head(queue)}
            /\ queue' = Tail(queue)
            /\ pc' = [pc EXCEPT ![o] = SettledPc(o, why), ![Head(queue)] = "admitted"]
       ELSE /\ active' = active \ {o}
            /\ queue' = queue
            /\ pc' = [pc EXCEPT ![o] = SettledPc(o, why)]
    /\ UNCHANGED <<closing, close, answer>>

\* client.release: destroyed after an error of the connection or an abort.
Release(o) ==
    /\ pool' = [pool EXCEPT ![o] = "none"]
    /\ returned' = IF socket[o] = "up" THEN returned \cup {o} ELSE returned
    /\ UNCHANGED <<poolQueue, late>>

\* A request that never entered, or left, the queue.
Refuse(r, why) ==
    /\ pc' = [pc EXCEPT ![r] = "settled"]
    /\ failure' = [failure EXCEPT ![r] = why]
    /\ lease' = [lease EXCEPT ![r] = "releasing"]
    /\ UNCHANGED <<closing, close, active, answer>>

\* Mutant: one too many.
SlotFreeInclusive == Cardinality(active) <= Concurrency

SlotFree == Cardinality(active) < Concurrency

Began(o) == pc[o] # "idle" \/ tx[o] # "none"
Apart(r) == r \in Alone => ~\E h \in Checks : Began(h)

\* admitTransaction().
Admit(r) ==
    /\ pc[r] = "idle" /\ answer[r] = "none" /\ Apart(r)
    /\ \/ /\ IsAborted(r)
          /\ Refuse(r, "aborted") /\ UNCHANGED queue
       \/ /\ ~IsAborted(r) /\ closing
          /\ Refuse(r, "closing") /\ UNCHANGED queue
       \/ /\ ~IsAborted(r) /\ ~closing /\ Len(queue) >= MaxQueued
          /\ Refuse(r, "busy") /\ UNCHANGED queue
       \/ /\ ~IsAborted(r) /\ ~closing /\ Len(queue) < MaxQueued
          /\ IF SlotFree
             THEN /\ active' = active \cup {r} /\ queue' = queue
                  /\ pc' = [pc EXCEPT ![r] = "admitted"]
             ELSE /\ queue' = Append(queue, r) /\ active' = active
                  /\ pc' = [pc EXCEPT ![r] = "queued"]
          /\ UNCHANGED <<closing, close, failure, answerVars>>
    /\ UNCHANGED <<poolVars, aborted, socket, serverVars, worldVars>>

\* One that waits in q is taken out.
Leaves(o, q, r) ==
    \E i \in 1..Len(q) : q[i] = o /\ r = SubSeq(q, 1, i - 1) \o SubSeq(q, i + 1, Len(q))

\* The admission timer of a queued request.
QueueTimeout(r) ==
    /\ Leaves(r, queue, queue')
    /\ Refuse(r, "expired")
    /\ UNCHANGED <<poolVars, aborted, socket, serverVars, worldVars>>

\* admitHealthCheck(): a probe while one is active joins it.
Probe(h) ==
    /\ pc[h] = "idle" /\ ~closing /\ ~\E r \in Alone : Began(r)
    /\ pc' = [pc EXCEPT ![h] = "admitted"]
    /\ socket' = [socket EXCEPT ![h] = "up"]
    /\ stmt' = [stmt EXCEPT ![h] = "none"]
    /\ reply' = [reply EXCEPT ![h] = "none"]
    /\ tx' = [tx EXCEPT ![h] = "none"]
    /\ returned' = returned \ {h}
    /\ UNCHANGED <<admissionVars, poolQueue, pool, late, failure, aborted, locks,
                   answerVars, worldVars>>

\* execute() up to database.connect().
Start(o) ==
    /\ pc[o] = "admitted"
    /\ \/ /\ IsAborted(o) \/ closing
          /\ Settle(o, IF IsAborted(o) THEN "aborted" ELSE "closing")
          /\ UNCHANGED <<poolQueue, pool>>
       \/ /\ ~IsAborted(o) /\ ~closing
          /\ pc' = [pc EXCEPT ![o] = "connecting"]
          /\ pool' = [pool EXCEPT ![o] = "waiting"]
          /\ poolQueue' = Append(poolQueue, o)
          /\ UNCHANGED <<admissionVars, failure, answerVars>>
    /\ UNCHANGED <<late, returned, aborted, socket, serverVars, worldVars>>

-----------------------------------------------------------------------------
\* The pool (pg-pool)

InPool == {o \in Owners : pool[o] \in {"opening", "held"}}

\* The oldest connect gets an idle client or a new connection.
PoolGrant ==
    /\ poolQueue # <<>> /\ Cardinality(InPool) < PoolMax
    /\ pool' = [pool EXCEPT ![Head(poolQueue)] = "opening"]
    /\ poolQueue' = Tail(poolQueue)
    /\ UNCHANGED <<admissionVars, late, returned, pc, failure, aborted, socket,
                   serverVars, answerVars, worldVars>>

\* A checkout after the request has failed starts no transaction.
LateConnect(o) == pool' = [pool EXCEPT ![o] = "none"]

Connected(o) ==
    /\ pool[o] = "opening"
    /\ IF o \in late
       THEN /\ LateConnect(o)
            /\ UNCHANGED <<pc, stmt>>
       ELSE /\ pool' = [pool EXCEPT ![o] = "held"]
            /\ pc' = [pc EXCEPT ![o] = "begin"]
            /\ stmt' = [stmt EXCEPT ![o] = "begin"]
    /\ UNCHANGED <<admissionVars, poolQueue, late, returned, failure, aborted, socket,
                   reply, tx, locks, answerVars, worldVars>>

\* The connection is refused, or connectionTimeoutMillis passed.
ConnectFails(o) ==
    /\ pool[o] \in {"waiting", "opening"}
    /\ pool' = [pool EXCEPT ![o] = "none"]
    /\ IF pool[o] = "waiting" THEN Leaves(o, poolQueue, poolQueue') ELSE UNCHANGED poolQueue
    /\ IF o \in late
       THEN UNCHANGED <<admissionVars, pc, failure, answerVars>>
       ELSE Settle(o, "lost")
    /\ UNCHANGED <<late, returned, aborted, socket, serverVars, worldVars>>

-----------------------------------------------------------------------------
\* The server

\* What a statement locks until the transaction ends: the shared side of the
\* restore fence, and the rows of the manager.
Locks(o, s) == IF s = "fence" THEN {"fence"}
               ELSE IF s \in {"actor", "recheck"} THEN {"actor"} ELSE {}

\* A fence statement reads the pause after it has the lock, and one that waits
\* for a restore that has the fence to itself can only time out.
Refused(o, s) == \/ s = "fence" /\ paused
                 \/ s \in {"actor", "recheck"} /\ o \in revoked

Reply(o, r) == reply' = [reply EXCEPT ![o] = IF socket[o] = "up" THEN r ELSE "none"]

\* An error rolls the transaction back inside the server and frees its rows.
ServerFails(o, s) ==
    /\ s \notin {"rollback", "discard"}
    /\ s \in {"work", "commit"} \/ Refused(o, s)
    /\ tx' = [tx EXCEPT ![o] = IF s = "commit" THEN "rolledback" ELSE "failed"]
    /\ locks' = [locks EXCEPT ![o] = {}]
    /\ Reply(o, "error")

\* COMMIT of a failed transaction succeeds, as a rollback.
ServerEnds(o, s) ==
    /\ s \in {"commit", "rollback", "discard"}
    /\ tx' = [tx EXCEPT ![o] = IF s = "commit" /\ tx[o] = "open" THEN "committed" ELSE "rolledback"]
    /\ locks' = [locks EXCEPT ![o] = {}]
    /\ Reply(o, "ok")

ServerRuns(o, s) ==
    /\ s \notin {"commit", "rollback", "discard"} /\ ~Refused(o, s)
    /\ tx' = [tx EXCEPT ![o] = "open"]
    /\ locks' = [locks EXCEPT ![o] = @ \cup Locks(o, s)]
    /\ Reply(o, "ok")

Serve(o) ==
    /\ stmt[o] # "none"
    /\ stmt' = [stmt EXCEPT ![o] = "none"]
    /\ ServerFails(o, stmt[o]) \/ ServerEnds(o, stmt[o]) \/ ServerRuns(o, stmt[o])
    /\ UNCHANGED <<admissionVars, poolVars, pc, failure, aborted, socket, answerVars, worldVars>>

\* The backend finds its socket gone, or never got the last statement.
ServerDrops(o) ==
    /\ socket[o] # "up" /\ tx[o] \in {"open", "failed"}
    /\ stmt' = [stmt EXCEPT ![o] = "none"]
    /\ tx' = [tx EXCEPT ![o] = "rolledback"]
    /\ locks' = [locks EXCEPT ![o] = {}]
    /\ UNCHANGED <<admissionVars, poolVars, pc, failure, aborted, socket, reply,
                   answerVars, worldVars>>

\* The connection is lost, or the server ends the session.
LoseConnection(o) ==
    /\ "lose" \in Events
    /\ pool[o] = "held" /\ socket[o] = "up"
    /\ socket' = [socket EXCEPT ![o] = "lost"]
    /\ reply' = [reply EXCEPT ![o] = "none"]
    /\ UNCHANGED <<admissionVars, poolVars, pc, failure, aborted, stmt, tx, locks,
                   answerVars, worldVars>>

\* BOUND: revocation, pause and fence come while a transaction is under way at the
\* server: an earlier one shows no sooner than there, a later one not at all.
Open(r) == stmt[r] # "none" \/ tx[r] \in {"open", "failed"}

\* A manager is revoked, which waits for the rows.
Revoke(r) ==
    /\ r \in Revocable \ revoked /\ "actor" \notin locks[r] /\ Open(r)
    /\ revoked' = revoked \cup {r}
    /\ UNCHANGED <<admissionVars, poolVars, pc, failure, aborted, socket, serverVars,
                   answerVars, paused, fenced>>

\* Restore pauses mutations under the lock of the admission of leases, which no
\* transaction here takes: those past their fence go on.
Pause ==
    /\ "pause" \in Events
    /\ ~paused /\ \E r \in Requests : Open(r)
    /\ paused' = TRUE
    /\ UNCHANGED <<admissionVars, poolVars, pc, failure, aborted, socket, serverVars,
                   answerVars, revoked, fenced>>

\* No lease row is left: each was released, or had expired, with its request
\* over or cut off by that, and was reconciled.
Drained ==
    \A r \in Requests : lease[r] = "released" \/ pc[r] = "answered" \/ aborted[r] = "lease"

\* The leases have drained, and restore takes the exclusive side of the fence
\* when no transaction has the shared one.
FenceExclusive ==
    /\ paused /\ ~fenced /\ Drained
    /\ \A r \in Requests : "fence" \notin locks[r]
    /\ \E r \in Requests : Open(r)
    /\ fenced' = TRUE
    /\ UNCHANGED <<admissionVars, poolVars, pc, failure, aborted, socket, serverVars,
                   answerVars, revoked, paused>>

-----------------------------------------------------------------------------
\* The transaction at the client

Send(o, s) ==
    /\ pc' = [pc EXCEPT ![o] = s]
    /\ stmt' = [stmt EXCEPT ![o] = IF s = "compile" THEN "none" ELSE s]
    /\ reply' = [reply EXCEPT ![o] = "none"]
    /\ UNCHANGED <<admissionVars, poolVars, failure, tx, locks, answerVars>>

End(o, why) ==
    /\ Settle(o, why) /\ Release(o)
    /\ reply' = [reply EXCEPT ![o] = "none"]
    /\ UNCHANGED <<stmt, tx, locks>>

\* A statement settles at the client: answered, or rejected with its socket.
Returned(o, r) == socket[o] = "up" /\ reply[o] = r
Rejected(o) == socket[o] # "up"

\* Mutant: the client is released without a rollback.
RollBackSkipped(o, why) == End(o, why)

\* The catch block; a rollback on a dead socket fails at once.
RollBack(o, why) ==
    IF socket[o] = "up"
    THEN /\ pc' = [pc EXCEPT ![o] = "rollback"]
         /\ stmt' = [stmt EXCEPT ![o] = "rollback"]
         /\ reply' = [reply EXCEPT ![o] = "none"]
         /\ failure' = [failure EXCEPT ![o] = why]
         /\ UNCHANGED <<admissionVars, poolVars, tx, locks, answerVars>>
    ELSE End(o, "lost")

Between == Phases \ {"compile", "commit", "discard"}

PhaseReturns(o) ==
    /\ pc[o] \in Between
    /\ \/ Returned(o, "ok") /\ Send(o, NextPhase(o, pc[o]))
       \/ Returned(o, "error") /\ RollBack(o, "refused")
       \/ Rejected(o) /\ RollBack(o, "lost")
    /\ UNCHANGED <<aborted, socket, worldVars>>

\* The isolated compiler answers, fails or is closed under the request.
CompileReturns(o) ==
    /\ pc[o] = "compile"
    /\ \/ socket[o] = "up" /\ Send(o, "work")
       \/ RollBack(o, "refused")
    /\ UNCHANGED <<aborted, socket, worldVars>>

\* Mutant: a commit that is rejected is one that was refused.
CommitReturnsPlainly(o) ==
    /\ pc[o] = "commit"
    /\ \/ Returned(o, "ok") /\ End(o, "none")
       \/ Returned(o, "error") /\ RollBack(o, "refused")
       \/ Rejected(o) /\ End(o, "refused")
    /\ UNCHANGED <<aborted, socket, worldVars>>

CommitReturns(o) ==
    /\ pc[o] = "commit"
    /\ \/ Returned(o, "ok") /\ End(o, "none")
       \/ Returned(o, "error") /\ RollBack(o, "refused")
       \/ Rejected(o) /\ IsAborted(o) /\ End(o, "outcome")
       \/ Rejected(o) /\ ~IsAborted(o) /\ RollBack(o, "lost")
    /\ UNCHANGED <<aborted, socket, worldVars>>

\* rollbackOnly: the candidate is returned once the rollback settled.
DiscardReturns(o) ==
    /\ pc[o] = "discard"
    /\ \/ Returned(o, "ok") /\ End(o, "none")
       \/ Rejected(o) /\ RollBack(o, "lost")
    /\ UNCHANGED <<aborted, socket, worldVars>>

RollbackReturns(o) ==
    /\ pc[o] = "rollback"
    /\ \/ Returned(o, "ok") /\ End(o, failure[o])
       \/ Rejected(o) /\ End(o, "lost")
    /\ UNCHANGED <<aborted, socket, worldVars>>

\* The rest of health(): initializeSolver() settles either way.
SolverReady(h) ==
    /\ pc[h] = "solver"
    /\ pc' = [pc EXCEPT ![h] = "idle"]
    /\ UNCHANGED <<admissionVars, poolVars, failure, aborted, socket, serverVars,
                   answerVars, worldVars>>

-----------------------------------------------------------------------------
\* Aborts, the answer and the shutdown

\* The request's deadline or disconnect, or the loss of its lease.
Abort(r, signal) ==
    /\ aborted[r] = "no" /\ pc[r] \notin {"answered", "settled"}
    /\ aborted' = [aborted EXCEPT ![r] = signal]
    /\ \/ /\ pc[r] = "queued"
          /\ Leaves(r, queue, queue')
          /\ Refuse(r, IF signal = "lease" THEN "refused" ELSE "expired")
          /\ UNCHANGED <<poolVars, socket>>
       \/ /\ pc[r] = "connecting"
          /\ Settle(r, "aborted")
          /\ late' = late \cup {r}
          /\ UNCHANGED <<poolQueue, pool, returned, socket>>
       \/ /\ pc[r] \in Phases \cup {"rollback"}
          /\ socket' = [socket EXCEPT ![r] = IF @ = "up" THEN "ended" ELSE @]
          /\ UNCHANGED <<admissionVars, poolVars, pc, failure, answerVars>>
       \/ /\ pc[r] \in {"idle", "admitted"}
          /\ UNCHANGED <<admissionVars, poolVars, pc, failure, answerVars, socket>>
    /\ UNCHANGED <<serverVars, worldVars>>

\* operation_outcome of respond(), with the lease confirmed released or not.
Outcome(r, confirmed) ==
    IF failure[r] = "none"
    THEN IF confirmed THEN "ok" ELSE "accepted"
    ELSE IF failure[r] = "refused" /\ confirmed THEN "rejected" ELSE "unknown"

Answer(r, confirmed) ==
    /\ pc' = [pc EXCEPT ![r] = "answered"]
    /\ answer' = [answer EXCEPT ![r] = Outcome(r, confirmed)]
    /\ failure' = [failure EXCEPT ![r] = "none"]
    /\ UNCHANGED <<admissionVars, poolVars, socket, serverVars, worldVars>>

\* settleBeforeSuccess(): the release is confirmed, refused or lost.
LeaseSettles(r) ==
    /\ pc[r] = "settled"
    /\ \/ /\ lease' = [lease EXCEPT ![r] = "released"]
          /\ Answer(r, aborted[r] # "request")
       \/ /\ lease' \in {lease, [lease EXCEPT ![r] = "released"]}
          /\ Answer(r, FALSE)
    /\ UNCHANGED aborted

\* The request ends while its release is in flight.
AbortSettling(r) ==
    /\ pc[r] = "settled"
    /\ aborted' = [aborted EXCEPT ![r] = "request"]
    /\ Answer(r, FALSE) /\ UNCHANGED lease

\* close(), to its first await.
Close ==
    LET Queued == {r \in Requests : pc[r] = "queued"} IN
    /\ ~closing
    /\ closing' = TRUE /\ close' = "compiler" /\ queue' = <<>>
    /\ pc' = [o \in Owners |-> IF o \in Queued THEN "settled" ELSE pc[o]]
    /\ failure' = [o \in Owners |-> IF o \in Queued THEN "closing" ELSE failure[o]]
    /\ lease' = [r \in Requests |-> IF r \in Queued THEN "releasing" ELSE lease[r]]
    /\ UNCHANGED <<active, answer, poolVars, aborted, socket, serverVars, worldVars>>

\* shutdownCompiler() resolves, or could not prove its worker absent.
CompilerDown ==
    /\ "end" \in Events
    /\ close = "compiler"
    /\ close' \in {"settling", "failed"}
    /\ UNCHANGED <<closing, active, queue, poolVars, pc, failure, aborted, socket,
                   serverVars, answerVars, worldVars>>

\* The active transactions and the health check have settled: database.end().
PoolEnds ==
    /\ close = "settling"
    /\ active = {} /\ \A h \in Checks : pc[h] = "idle"
    /\ close' = "ended"
    /\ UNCHANGED <<closing, active, queue, poolVars, pc, failure, aborted, socket,
                   serverVars, answerVars, worldVars>>

Operate(o) ==
    \/ Start(o) \/ Connected(o) \/ ConnectFails(o)
    \/ PhaseReturns(o) \/ CompileReturns(o) \/ CommitReturns(o)
    \/ DiscardReturns(o) \/ RollbackReturns(o)

Next ==
    \/ \E r \in Requests :
          \/ Admit(r) \/ QueueTimeout(r) \/ LeaseSettles(r) \/ AbortSettling(r) \/ Revoke(r)
          \/ \E signal \in {"lease", "request"} : Abort(r, signal)
    \/ \E o \in Owners : Operate(o) \/ Serve(o) \/ ServerDrops(o) \/ LoseConnection(o)
    \/ \E h \in Checks : Probe(h) \/ SolverReady(h)
    \/ PoolGrant \/ Pause \/ FenceExclusive \/ Close \/ CompilerDown \/ PoolEnds

Spec == Init /\ [][Next]_vars

\* Timers fire, statements and connects settle within their limits, the
\* compiler answers within its own.
Fairness ==
    /\ \A r \in Requests : WF_vars(QueueTimeout(r)) /\ WF_vars(LeaseSettles(r))
    /\ \A o \in Owners : WF_vars(Operate(o)) /\ WF_vars(Serve(o))
    /\ \A h \in Checks : WF_vars(SolverReady(h))
    /\ WF_vars(CompilerDown) /\ WF_vars(PoolEnds)

LiveSpec == Spec /\ Fairness

-----------------------------------------------------------------------------
\* Properties

\* A manager who reads "accepted" has a commit, and one who reads "rejected"
\* has a transaction that neither committed nor still can; a 200 also says that
\* the restore lease is released, and who asked for a preview has changed
\* nothing: whatever the order of aborts, lost replies, lost connections and
\* the release of the lease.
Truthful ==
    \A r \in Requests :
        /\ answer[r] \in {"ok", "accepted"} /\ r \notin Previews => tx[r] = "committed"
        /\ answer[r] = "ok" => lease[r] = "released"
        /\ answer[r] = "rejected" => tx[r] \in {"none", "rolledback"} /\ stmt[r] = "none"
        /\ r \in Previews => tx[r] # "committed"

\* A client that goes back to the pool for the next operation carries neither
\* a statement nor a transaction of the last, and the pool is ended only when
\* no execution holds a client of it.
CleanPool ==
    /\ \A o \in returned : tx[o] \in {"committed", "rolledback"} /\ stmt[o] = "none"
    /\ close = "ended" =>
           \A o \in Owners : pool[o] # "held" /\ pc[o] \notin Phases \cup {"rollback"}

Commits(r) == tx[r] # "committed" /\ tx'[r] = "committed"

\* Nothing commits while restore has the fence to itself, nor for a manager who
\* was revoked before the commit; between the pause and that only what had read
\* the fence before the pause. This holds of a transaction whose client and lease
\* are gone while the server still runs it.
NoCommitAfterWithdrawal ==
    [][\A r \in Requests : Commits(r) =>
          ~fenced /\ r \notin revoked /\ "fence" \in locks[r]]_vars

\* Every admitted operation is answered, whatever is closing or aborted, and
\* keeps no client of the pool, however late its connect came; and a shutdown
\* ends, with the pool or with the compiler's failure.
Answered ==
    /\ \A r \in Requests : pc[r] # "idle" ~> pc[r] = "answered" /\ pool[r] = "none"
    /\ closing ~> close \in {"ended", "failed"}
-----------------------------------------------------------------------------
\* The operations this control plane implements

\* What has come of each transaction: what the server did with it, or that none
\* was begun and none will be; and whether it is past its fence.
Effect ==
    [r \in Requests |->
        IF tx[r] = "committed" THEN "done"
        ELSE IF \/ tx[r] \in {"failed", "rolledback"}
                \/ tx[r] = "none" /\ stmt[r] = "none" /\ pc[r] \in {"settled", "answered"}
        THEN "never"
        ELSE IF "fence" \in locks[r] THEN "entered" ELSE "open"]

Operations == INSTANCE ManagerOperations WITH effect <- Effect, told <- answer

\* In terms of its managers the control plane does just that: an effect whole and
\* once, none of an operation that the pause kept out, none while restore has the
\* data or after the manager was revoked, and the truth about it.
ImplementsOperations == Operations!Spec
=============================================================================
