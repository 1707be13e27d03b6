# Formal models of memphis-zoo-mcp

The repository is the backend of a zoo's custodial operations: a Node service
(`src/src`), a PostgreSQL schema with much of the logic in SQL functions
(`src/supabase/migrations`), and the operator scripts that release, back up and
restore it (`src/scripts`). This directory holds TLA+ models of its concurrent
and failure-prone parts, the TLC runs that check them on small instances and the
TLAPS proofs of what matters most for instances of any size.

## 1. Inventory

| Part | State it keeps | Operations | Talks to | What makes it hard | What makes it correct |
|---|---|---|---|---|---|
| Restore mutation gate, `restore-mutation-gate.js` | per request: abort signal, lease id, settlement | begin a lease before a mutating route runs, release it after the last of its work, exit 70 when disconnected work never settles | fence SQL by RPC | an abort racing the begin reply; lost replies; work that outlives its response | work never runs without its lease row |
| Mutation fence, `20260827150000_disaster_recovery_global_mutation_fence.sql` | lease rows; advisory locks *admission* and *fence* | begin, heartbeat, release; statement and DDL guards | control row | lock waits against snapshots; expired rows whose work still runs | no lease is admitted, and no transaction passes the fence, after a pause |
| Restore control, `20260820125325_…_generation_authority.sql` | `restore_control`, `restore_manifests`, `restore_discrepancies`, `restore_events` | written by the scripts | everything above | partial records after a failure | the record says what was done |
| Production restore, `production-restore.mjs` (with `disaster-recovery-state.mjs`) | phase, locks held, manifest | pause, drain, fence, replace, reconcile authority, cron, Storage, verify, hold; error handler | control row, fence, archive | a crash or a lost reply between any two phases; retries | alone with the data; a held restore can be resumed |
| Restore intent, `create-production-restore-intent.mjs` | signed file | sign | control row, leases | stale signatures | one restore per generation |
| Abandoned-lease reconciliation, `create-…` / `apply-abandoned-mutation-lease-reconciliation.mjs` | signed file | sign, apply | leases, admission lock | a snapshot older than the lock wait | only leases of dead processes are removed |
| Restore reconciliation, `create-…` / `apply-production-restore-reconciliation.mjs` | signed file | sign, apply (resume production) | control row, manifest, discrepancies | resume against a concurrent retry | resumes only verified data |
| Release migrations, `apply-release-migration-plan.mjs` | one serializable transaction | apply | fence, DDL guard | snapshot older than the fence | DDL never lands on half-restored data |
| Compiler runtime, `static-weekly-schedule-compiler-runtime.js` | worker, generation, profile, queue, teardown promise | compile, prepare, initialize, shutdown | child process group | abort, timeout, crash, late messages, profile switches | one group at a time; each request settles once |
| Static weekly control plane, `static-weekly-control-plane*.js` | active and queued transactions, pool, health check, `closing` | run a manager operation in one transaction with deadlines, report its outcome, close | compiler runtime, database, restore gate | an abort or a lost connection while a statement or the commit is in flight | bounded admission; the answer is true; clean clients; no commit while restore has the data |
| Staffing commands, SQL ledger and acceptance | command rows, authority revisions, absences, cancellations | begin, prepare (stage), confirm (accept), cancel | control plane | retried and concurrent calls, a revision that moves while a preview is compiled | a command means what was shown, and takes effect once |
| Schedule solver, verifier, recurring derivation, lunch and shift-end coverage | none (pure) | compile, verify | compiler worker | size, boundary times | the verifier accepts only feasible weeks |
| Employee and manager notifications, `employee-notifications.js`, `manager-notifications.js` | jobs with leases, receipts, reminder instances, push registrations | enqueue, claim, prepare, send, record, release, finish | push provider | expired leases, ambiguous answers, token changes, reassignment | a notice is sent once; records and alerts are true |
| Phone activation and enrollment, `assigned-activation-transport.js`, `device-credential-auth.js` and their SQL | activations, one-use codes, enrollment operations, credentials and their lineage | request, claim, report, consume, confirm, cancel, native result, expire | manager, workstation, phone | lost and late replies, deadlines, reassignment and renewal between the steps | a stopped token is dead; the outcome on record is true; frozen work has at most one heir |
| Shared access and OAuth | sessions, codes | issue, exchange, revoke | database | request validation | a code is used once |
| Messaging, mail, feedback relay | claims, cursors | claim, send, acknowledge | providers | lost and duplicated deliveries | recognised when repeated |
| Gemini worker | run lease | claim, run, finish | provider | a run outliving its lease | one run at a time |
| Request handlers (schedule, events, Memphis AI, Moxie), GitHub and Supabase tools | none of their own | HTTP, MCP | database, services | input handling | outside the scope of these models |
| Archive, backup, Storage and import scripts | files, buckets | export, verify, upload | operating system | partial input and output | archive equals source |

`PROJECT.json` lists the same parts with their status, and the hazards of the
code with the property that would catch each of them.

## 2. Plan

1. `MutationFence`, with the abstract `RestoreExclusion`: modelled, checked,
   proved. Gate, fence SQL, lease reconciliation, restore and resume are one
   system, because its hazards are all interleavings between these parts.
2. `CompilerRuntime`, with the abstract `CompilerService`: modelled, checked,
   proved but for its liveness.
3. `ControlPlane`, with the abstract `ManagerOperations`: modelled, checked,
   proved but for its liveness. It sees the compiler runtime only through the
   health check and the shutdown; left: a composition of the two modules.
4. `StaffingLedger`, with the abstract `StaffingAuthority`: modelled, checked,
   proved. Left: the recovery path of an approved static week.
5. `PushDelivery`, with the abstract `NoticeHandover`: modelled, checked, proved.
   Left: the manager's queue.
6. `PhoneActivation`: modelled, checked, proved but for its liveness. Left: the
   legacy browser enrollment.
7. Not begun: messaging receipts, the Gemini run lease, and lunch and shift-end
   coverage as pure operators against a reference definition.

The proofs of each module lie in `<Module>_proofs`: type correctness, an
inductive invariant that carries the safety properties, the action properties
and, where there is one, the refinement of the abstract specification. (Two have
a module of their own: `CompilerService_proofs` holds the refinement of
`CompilerService`, `RestoreExclusion_proofs` what the exclusion implies.)
Liveness rests on fairness and `ENABLED`, which the prover does not handle, and
stays with TLC everywhere.

## 3. `MutationFence`

One module holds the actors that meet at three advisory locks: *admission*
(shared by lease begin, exclusive for the pause and both reconciliations),
*fence* (shared by every writing transaction, exclusive for the restore and for
a release migration) and *session* (one operator script at a time).

| Variable | Code |
|---|---|
| `control` | the `restore_control` row: generation, `mutations_paused`, state |
| `lease`, `req`, `gone`, `down` | lease rows; where each request is between its begin and its release RPC; callers that stopped waiting; terminated processes |
| `tx` | a writing transaction against the fence: waiting, locked and about to read the pause, open, refused |
| `pc`, `fence` | phase of `production-restore.mjs`; who holds the exclusive fence (`tail`: the script has already freed its session lock) |
| `mig` | the pause as the migration's serializable snapshot has it |
| `dataGen` | the generation that last replaced the data |
| `manifest`, `openSet`, `failedEvent` | what the restore recorded |
| `restoreIntent`, `leaseIntent`, `resumeIntent` | the signed files |

Actions follow the code one for one. Lock acquisition and the read under it are
separate steps (`FenceLock`, `FenceRead`; `AdmitRead`, `AdmitCommit`;
`PauseLock`, `PauseCommit`), because the hazards live between them. A lost
commit reply is the second value of `pc'` in `PauseCommit` and
`NativeDatabaseCommit`; a swallowed error of the handler is the unchanged value
in `FailControl` and `FailEvent`; `RestoreCrash` frees the locks and rolls back.

What is abstracted:

- What a comparison of restored data finds is chosen freely (`AppCategories`
  stands for the categories of `compareRestoredState`).
- A generation identifies its restore id, archive and release.
- A heartbeat does not change a live row and is left out; expiry may strike at
  any moment. A request retained as unproven by the gate is one that stays at
  work and never settles.
- The operator's attestation that a process has terminated is taken as true:
  nothing in the code can check it.
- Several statements of the script against one row, with no other actor able to
  see the difference, are one action.
- The native route and the ordinary route are modelled; the private import's
  routes are not. The requirement of exactly one deployed release at resume is
  left out.

`RestoreExclusion` is what the fence promises: actors join only while admission
is open, the restore seizes the data only when admission is closed and nobody is
active, admission reopens only over idle data. The mapping takes a request as
active from the commit of its lease to the end of its work and a transaction as
active once it has passed the fence's check; `Leave` covers a process that takes
several requests with it.

### Runs

| Run | Instance | Shows |
|---|---|---|
| `Fence` | one request, one direct writer, one process, 2 generations; 3.4 million states | a restore that fails, dies or loses replies and is retried stays alone with its data, nothing works on replaced data, a held restore is resumable, a resume is clean; work has its lease, and only leases of the dead are removed, whatever is admitted during the reconciliation's lock wait; `RestoreExclusion` is implemented |
| `FenceLiveness` | one request, one writer, 1 generation; 231 thousand states | the script returns; a waiting writer is answered |
| `VAbandonedLeasesReconcilable` | one request, one writer, 1 generation | the first disagreement below |

Bounds. Requests are admitted once each: a second life of the same identity is a
second element of `Requests`. `MaxGeneration` is the only counter bound: 1 shows
one restore, 2 a retry of a failed one and a second restore after a resume. One
request, one writer and one process meet the restore, the migration and the
reconciliations in every order. Requests relate to each other only through
the locks and the control row; the proofs carry the safety properties to any number of
each. `Fence` and `FenceLiveness` also
check that the system never comes to a standstill.

Fairness (`FairSpec`). The database answers (`AdmitCommit` or `BeginFails`,
`FenceRead`), a transaction ends because statement and idle timeouts end it,
scripts keep taking the steps of `RestoreWork`, and a migration ends.
`FenceLock`, `PauseLock` and `FenceAcquire` have strong fairness: PostgreSQL's
lock queue is first-come, so a waiter is not passed over for ever, although the
lock may be taken and freed while it waits. `RestoreFail`, `PauseRollback` and
`NativeCommitLost` have none: a phase may not rely on an error to end it.
No fairness is assumed of requests, operators, lease release or process death.

### Disagreements found

1. `AbandonedLeasesReconcilable` (run): after a resumed restore the control row
   stays COMPLETE. An abandoned lease then blocks the next restore intent, whose
   message asks for a reconciliation that can be signed only in READY or
   PAUSED_FAILURE.
2. The fence migration's header says a restore takes the exclusive side before
   it pauses admission. The script pauses first, drains leases and only then
   takes it. The protocol is safe in the script's order.
3. The comment at the pause says existing leases may finish. Their holders keep
   running, but each transaction that reaches the fence after the pause is
   refused; one that had read the pause before it may still commit, until the
   restore takes the exclusive side.
4. A migration that starts before the pause and waits for the fence reads the
   pause in the snapshot of its first lock statement. If the restore replaces
   the data and frees the fence within the migration's lock timeout, its DDL
   guard still sees production unpaused.
5. If the reply of the pause commit is lost, the script believes nothing was
   prepared (`production-restore.mjs:1374`) and leaves the row in PREPARING; the
   handler's own writes (from line 1816) may be lost as well. The model has both
   (`PauseCommit`, `FailControl`, `FailEvent`); the safety properties hold.

### Proofs

`MutationFence_proofs` proves for all constants that satisfy the assumptions
(`OwnerAssumption` is not needed; `CategoryAssumption` keeps the application's
categories apart from the two the script adds itself):

- `TypeCorrect`, and `Inductive`: the invariant `IInv`, checked by TLC on the
  instance of `Fence` before it was proved. None of the safety
  properties is inductive by itself. `Coverage` and `AdmissionClosed` are what
  make draining meaningful (an admission in flight cannot straddle the pause);
  `Ownership` ties the script's phase to the locks; `Drained` says leases stay
  away not only while the script runs but while its replaced data is held, so
  that a crash changes nothing; `Numbering` makes a new pause a new generation,
  which is why a retry never finds its generation already replaced; `Evidence`
  follows the manifest through the phases.
- `RestoreOwnsDataHolds`, `NoWorkOverReplacedDataHolds`, `LeaseCoversWorkHolds`,
  `HeldIsResumableHolds`, and the action properties `ResumeIsCleanHolds` and
  `OnlyDeadLeasesHolds`.
- `Refinement`: every behaviour implements `RestoreExclusion`, for which
  `RestoreExclusion_proofs` proves `AloneHolds`.

Only model-checked: the two liveness properties (the prover handles neither
`ENABLED` nor fairness here).

## 4. `CompilerRuntime` and `CompilerService`

`static-weekly-schedule-compiler-runtime.js` owns one child-process group at a
time and serializes requests of two profiles in front of it. All its hazards are
about the order of continuations, so the model has Node's own order: `jobs` is
the queue of continuations whose promise has settled, and an event (a message, a
timer, an abort, a new call) happens only when that queue is empty (`Quiet`). A
continuation behind intermediate promises (`tail.then`, `Promise.race`, a
promise returned by an async function) enters with a number of `ticks`.

| Variable | Code |
|---|---|
| `generation`, `worker`, `ready`, `profile` | the variables of those names; `ready` is `state === "ready"` with its evidence |
| `init`, `waitI` | the unsettled initialization record and who awaits its promise |
| `pending` | the record of the request sent to the worker |
| `teardown`, `dying`, `waitT` | the teardown promise, `teardownCandidate`, who awaits it |
| `live` | process groups not yet proven absent |
| `queue` | the requests counted in `outstanding`, in the order of `tail` |
| `pc`, `verdict`, `cancelled` | where each caller is; its answer; requests aborted or past their deadline |
| `closed`, `shut` | `closed` and the progress of `shutdown()` |

`Start…` are the branches of `start()`, `Send…` those of `send()`, the rest are
the functions and listeners of the same name. What is abstracted:

- Abort signal and deadline are one cancellation, which may strike a request
  while it is queued, starting or at work; `StartExpires` and `SendExpires` are
  the comparisons with the clock. An abort arrives as an event.
- A start that lost its race in `send()` rechecks signal and deadline before it
  acts, and is dropped. The timer's rounding is listed as a hazard.
- A failed initialization, a crash, a protocol violation, a failed send and the
  late answer of a fixed request all call `failActive()` or do the same:
  `WorkerFails`. A worker's answer is `result`, whatever it says.
- A recursive `start()` adds promises between it and `send()`. They are left
  out: they only delay a request further, within the same event.
- Listeners are removed when a worker is discarded, so it sends no messages in
  the model. Health checks come one at a time, as `admitHealthCheck` in
  `static-weekly-control-plane.js:492-505` has it. A check behind requests only
  reports, and does so at once.

| Run | Instance | Shows |
|---|---|---|
| `Runtime` | three requests, one of them of the compiler profile, two checks, two outstanding; 284 thousand states | one group, the right worker under each request, no answer before the reap; nobody waits for what cannot come, each request is answered; seen by its callers, it is `CompilerService` |

Bounds: each caller calls once. Three requests make the queue refuse one and
leave a third behind a failed and a cancelled one; two checks let a check meet
what an earlier one left. The run stops when every caller is done, so it does
not check for deadlock; `Answered` says that nobody waits for ever. Fairness:
Node runs ready continuations, a teardown is verified until its deadline, an
initialization ends by its timer at the latest, a request that is starting or at
work by its deadline, and an ended tail resumes `shutdown()`.

`CompilerService` is what the callers may rely on: one bounded line answered in
the order of admission, one process group, a result for exactly those who were
served, after an interruption the truth about the group that is left, and
nothing admitted or forked once it is closed. The line is `queue`; `First` reads
from `pending` and from the caller at the head whether that one waits, is served
or was interrupted; `Told` is what those at their end were told; `Left` is what
remains of the groups. Promises, jobs, generations, profiles and health checks
disappear. One step is weaker than a reader would expect, because the code is:
`shutdown()` that finds the tail empty and a teardown already under way resolves
without awaiting it, so `End` asks only that no group is owned any more.

`CompilerRuntime_proofs` proves every state and action property of the run for any
requests, checks, profiles and bound of the queue. What `start()` found before
an `await` is used after it, so the invariant speaks about the continuations:
each is in one place, ready to run or waiting for the teardown or for the
initialization, and there once (`Once`); what holds when a caller is resumed at
its step, told ok or not, is `MayRun`. `Group` says what is left of the process
groups in each state of the teardown, and that a worker in initialization has
somebody who started it; it implies `OneGroup` and `OwnProfile`. `Line` makes
the head of the tail the only request under way, `Shut` says that closing leaves
no worker. One step threatens `MayRun`: a health check that discards a ready
worker while a request is about to send to it, or is at work on it. `Order` rules
out the second: when a check can still replace a ready worker, no request is
pending, and a request that was started comes behind it. That request then finds
no worker (the disagreement below), never a foreign one. TLC checked the
invariant on the run's instance before it was proved.

`NobodyForgotten` is the half of `Answered` that needs no fairness. It is
inductive beside the invariant: a step keeps every continuation but the one it
runs, and leaves a new one for the caller it moves. From it follows
`NeverStalls`: in a state where no continuation is ready, no teardown and no
initialization is in progress and no request is at work, nobody is outstanding.
What is left to TLC is that timers, the worker and Node do take their steps.

`CompilerService_proofs` proves `ImplementsService`, an action at a time. The
invariant `Truthful` it adds relates the verdict a request carries to the group:
one that was interrupted with a group not proven gone is on its way to
"unproven", and no other. `ShutdownIsFinal` and the order of the tail are
consequences of the service; `ShutdownEndsAll` proves the first directly, and no
run spends time on it.

Disagreement: `initialize()` promises not to switch the profile while a fixed
request owns the child, and looks at `outstanding` when it is called. A check
that finds the runtime idle with a fixed worker discards it and waits for its
teardown. A fixed request that arrives meanwhile forks its own worker, and the
check joins that initialization. When the worker is ready the check re-enters
`start()` before `send()` resumes behind `Promise.race`, sees a foreign profile
and discards the worker; `send()` finds none and the request fails as
unavailable. No state is damaged: the safety properties hold regardless.

## 5. `ControlPlane`

`static-weekly-control-plane.js` runs each manager operation in one database
transaction on a client of its pool. The client and the server are apart in the
model, as in life: destroying the socket rejects the query at the client at
once, while the server may go on executing the statement it was sent.

| Variable | Code |
|---|---|
| `active`, `queue` | `activeTransactionPromises`, `transactionQueue` |
| `poolQueue`, `pool`, `late`, `returned` | connects in their order; where each is; callers that stopped waiting; clients given back for reuse |
| `pc`, `failure`, `aborted` | the phase of each operation; what it threw; the signal that aborted it |
| `socket`, `stmt`, `reply`, `tx`, `locks` | the connection; the statement at the server and its unread reply; the server's transaction and the rows it has locked |
| `lease`, `answer` | the restore lease of the request and the answer the manager reads |
| `closing`, `close` | `close()` and how far it is |
| `revoked`, `paused`, `fenced` | the manager was revoked; restore paused mutations, and has the exclusive side of the fence |

A phase of a transaction is two steps, the send at the client and the execution
at the server, with aborts, deadlines, a lost connection, a revocation, a pause
or a restore's fence anywhere between. `Operate` are the client's steps, `Serve` the server's.
Compilation inside a transaction is one phase that awaits no statement; its
machinery is `CompilerRuntime`.

| Run | Instance | Shows |
|---|---|---|
| `PlaneSafety` | two operations, one a preview, concurrency 1, pool 2, with revocation, a restore's pause and fence, and lost connections; 1.0 million states | limits and answers are true; seen by its managers, it is `ManagerOperations`: nothing commits twice, in part, while restore has the fence or for a revoked manager, and a pause keeps out what has not read the fence |
| `PlaneLiveness` | two operations and a health check, the shutdown to its end, no pause, revocation or lost connection; 252 thousand states | reused clients are clean; each operation is answered and keeps no client; the shutdown ends |

A restore meets the plane as `production-restore.mjs` has it: `Pause` takes only
the admission lock of the leases, so it comes at any moment and a transaction
that has read the fence goes on; `Drained` is the wait for the lease rows, which
a request leaves behind that was answered or whose lease expired under it; and
`FenceExclusive` waits for every transaction with the shared side. A lease that
drained says nothing of a transaction whose client is gone: the fence does.

Bounds. `Events` names the outside events a run has, and whether the shutdown goes
on past the compiler's (`"end"`), which only the pool's end depends on;
`Revocable` names the requests whose manager may be revoked. Revocation, pause and fence come while some
transaction is under way at the server (`Open`): an earlier one shows no sooner
than there, a later one not at all. There is one pause, never lifted. An
operation in `Alone` never meets the health check; the other one does, in every
order: two checks against one pool of two is where a client runs out. Both
operations can be used up, so the runs allow deadlock. Fairness: timers of the
queue fire, a held lease settles, the client and the server take the steps they
can, the pool ends.

`ManagerOperations` is the plane without clients, connections, statements and
leases. An operation is open, has entered its work, is done or never will be. It
enters only while nothing is paused; it is done at most once, never by a preview,
after its manager was revoked or while restore has the data; restore gets the
data only when no operation is entered. A manager is told once, and a success or
a rejection is true then and ever after. `Effect` reads this from the server's
transaction: committed is done; failed, rolled back, or settled without one and
without a statement under way, is never; one with the shared side of the fence
has entered. A transaction whose client is gone stays open or entered until the
server commits it or drops it, which is where the outcome is told as unknown.

`ControlPlane_proofs` proves every property of these runs but `Answered`, for
any requests, previews, slots, queue and pool, and whatever else happens
(`Events`, `Revocable` and `Alone` only choose what a run has). The properties
are not inductive; the invariant says besides: while the connection is up, the
phase of the client, the statement at the server, its unread reply and the
transaction agree (`Agrees`), and once it is lost nothing of that is claimed; a
transaction that is open and past the fence or the actor check has those rows
locked, and a `COMMIT` at the server has both, whatever became of its client,
and while restore has the fence no transaction does (`Locked`), which is why
restore never shares the data with a commit although one may come after the
pause; an operation that has no client yet, or that gave up waiting for one, has
reached no server (`Fresh`); it holds a client exactly while it is at work, and
a slot from admission until it settles (`Place`, `Slots`); each waiter stands in
its queue once (`Line`). The helper lemmas follow the code: one for a
settlement, which frees a slot and admits the head of the queue (`Settling`),
and one each for the end, the rollback and the next statement of a client
(`EndInv`, `RollBackInv`, `SendInv`). TLC checked the invariant on both
instances before it was proved.

The refinement needs one thing more: a statement that outlives its client still
finds the transaction it was sent for (`Shown`): `BEGIN` none, a commit or work
an open one, a rollback none that is committed. So a transaction that ended
stays as it ended. Every step but a commit, the reading of the fence, an answer,
a revocation, the pause and restore's fence tells nobody anything and gives up
some operations, none or all of the queue at `close()` (`GivesUp`).
`WithdrawalHolds` states of each commit that restore has not the fence, that its
manager is not revoked, and that the transaction has held the shared side since
it read the pause; the run checks the same as part of `ImplementsOperations`.

`SlotsServeTheQueue` and `NeverStalls` are the half of `Answered` that needs no
fairness. `Attended` is inductive beside the invariant: while an operation is
queued every slot is taken and `close()` has not begun, who is queued is in the
queue, who awaits a connect is in the pool's line or being connected. With
`Agrees` it follows that where no statement is at the server, no reply unread, no
compilation, connect or settlement in progress and no connect can be granted,
every operation is answered and no client is out. What is left to TLC is that
the server, the timers and the client do take their steps.

What differs from the comments: `transaction()` says that every in-flight
statement is awaited and that an abort never releases a checked-out client. An
aborted operation's commit can still happen at the server after its client was
destroyed; the manager is then told that the outcome is unknown, never
"rejected" (`Truthful`). The health check is said to retain the fourth slot of
the pool; nothing reserves it.

## 6. `StaffingLedger` and `StaffingAuthority`

Managers record an absence or cancel one in three calls against one global
schedule revision. Stage, accept and cancel hold the authority lock from their
first line and are one step each; `begin` checks and inserts without it, and
`prepare` compiles for minutes before it stages, so these are pairs of steps
with anything in between. Any call may be repeated at any time, which covers
every lost reply.

| Variable | Code |
|---|---|
| `command` | `static_weekly_staffing_commands` |
| `revision`, `authority` | the current revision; who made each revision |
| `absences`, `cancellations` | the rows that record the facts |
| `call` | begin and prepare calls in flight |
| `told` | every final answer a call returned |
| `today`, `active` | the service date; employees still active |

`StaffingAuthority` is the promise: a growing history in which each command is
applied at most once, and a cancellation withdraws an absence that stands.

| Run | Instance | Shows |
|---|---|---|
| `LedgerRaces` | two managers, two calls in flight, two previews, an employee whose status changes, an off day, 2 revisions; 427 thousand states | types; acceptance, history and facts agree; one final answer per command; what was shown is what is confirmed |
| `LedgerCancellations` | one manager, three commands, 3 revisions, two days; 423 thousand states | a cancellation fits its absence; `StaffingAuthority` is implemented |

Bounds. An absence, a cancellation and a second cancellation of it need three
commands and three revisions, which the second run has; races need two managers
and two calls, which the first has. Managers, keys and previews are symmetric.

`StaffingLedger_proofs` proves all of these for any managers, keys, employees,
days and revisions: `TypeCorrect`, `Frozen` (`CommandsHold`), `OnRecord`, `Fit`,
`Outcome` and `Refines`. `AcceptedOnRecord` is inductive with the types;
`CancellationsFit` needs it, because a cancellation names its target by its row;
`OneOutcome` needs that a row has revision 0 until it is accepted (`Unrevised`)
and that what was told is settled (`ToldIsSettled`). Assumed are
only `LedgerAssumption` and `NoneIsNoRow`, which keep the marks for "no value"
apart from values.

Left out: the recovery path of migration `20261018161845` for an approved static
week. What differs between two parts of the code: `prepare` stages the refresh
of the employee for every day of the window (`static-weekly-control-plane.js:1363`)
and acceptance expects it, for a cancellation, only on days with work. A
cancellation over a day without work is prepared and then always refused; the
model has it (`OffDays`), and no property promises otherwise.

## 7. `PushDelivery`

The job queue with its leases, the two workers that drain it, and the marker
each kind of job sets before the provider is called: a receipt row for a native
notice, the dispatch columns for a reminder.

| Variable | Code |
|---|---|
| `job` | `operational_notification_jobs`; a lease token is the number of its attempt |
| `receipt` | `employee_native_push_delivery_receipts` |
| `instance` | `event_push_instances` |
| `registration`, `assigned` | the phone's registration for the epoch; credential and epoch still hold |
| `event` | whether the reminder's event is still the employee's |
| `worker` | each worker's batch, and where `deliverClaimedJob` is |
| `alert` | what the manager was told about a lost notice |
| `calls` | history: what the provider did |

Every database call is one action and may lose its reply (`Reply`), or never
arrive (`CallFails`); a worker may die at any point (`Crash`) and a lease expire
at any moment. `Send` has each answer the provider's call can have, the lost one
included. `StartSweep` is the three enqueueing calls with which a sweep begins, of
which two change these rows: reminders are queued or cancelled (`EnqueuedJob`),
and the location call ends native jobs that are pending or leased when their
recipient is lost, their notice was acknowledged or its cycle is past
(`SweptJob`). Which notices are acknowledged or past is chosen freely, for any
native job: more than the code ends, since it spares a notice that is already
prepared when its cycle is past and looks at the cycle of location notices only.
`Notify` is the insert of a producer (the message trigger, the location call and
the lunch producer have the same `on conflict do nothing`).

| Run | Instance | Shows |
|---|---|---|
| `Push` | two workers, a native job with three attempts or a reminder with two, two tokens; 957 thousand states | a native notice is accepted at most once; records are true and a success is the owner's (`RecordsHold`); a native notice is handed over as `NoticeHandover` has it, alerts included; a registration ends only by its own token's rejection |
| `VReminderOnce` | the same with three attempts of the reminder and one token | the disagreement below |

Bounds. Jobs meet only in the registration and in a worker's batch, so one job
at a time (`MaxJobs`) shows every race on a job; the proofs carry this to any
number. Three attempts let a third worker meet the remains of two. The run ends
when tokens and attempts are used up and allows deadlock.

`NoticeHandover` is the delivery of native notices without workers, leases,
tokens and lost replies: a notice is prepared on record, the provider takes it
once, and only then may the record call it delivered; the record is withdrawn
only while nothing was taken, and no notice that is over is prepared, confirmed
or withdrawn any more, so what the manager was told of it stays true. A notice
may still be taken after it is over: its call was in flight, and the manager was
told that it is unconfirmed.

`PushDelivery_proofs` proves every property of the run for any workers, jobs,
limits and tokens. None but the types is inductive. The invariant says besides:
no two workers hold the same lease token (`Leases`); an accepted native call is
the one its receipt was prepared for (`OneCall`); a worker about to call the
provider has its own receipt prepared and nothing accepted yet, and one that is
to release it knows of a refusal (`Phase`); an alert is about a job that is over
(`AlertInv`). That a step of one worker leaves the others in their phases follows
from the tokens alone (`Others`): a receipt is written only by the attempt it
names, or when there is none. `HandsOver` maps each step: the preparation, the
provider's answer, its record, the release and the terminal finish of a native
job are the five actions of one notice, by what `Phase` says of the worker;
every other step only ends notices, since nothing revives a native job that is
dead or completed (`Lasting`). `TrueAlert` says in terms of the provider's calls
what an alert means.

Disagreements. `VReminderOnce`: a worker that reclaimed an expired lease and
failed before it claimed the reminder clears the dispatch marker of the first
worker, whose call is in flight, because the update names the instance and its
state, not the lease; the reminder is then sent twice, which the contract test
rules out. Without a run of their own: a late worker with a superseded lease
cancels the live worker's reminder; a job whose last attempt is abandoned stays
leased for ever; a reminder moved away and back is pending again while its job
stays dead; a lost reply of the record of a native delivery marks the job dead
although the receipt says delivered; a new token between resolve and prepare
gives the notification up.

Left out: deferral of what is not due or in flight, retry delays, batch limits,
the manager's own queue and the other job types. They change when an attempt is
made, which the model leaves open.

## 8. `PhoneActivation`

A manager requests the activation of an assigned phone, a workstation claims the
token and dispatches it, the phone trades it for a credential, confirms or
cancels, and reports the result. Each function of the database holds the device
row or the operation throughout and is one action. Replies may be lost, and the
phone and the workstation may send any call they could know enough to send, as
late and as often as they like.

| Variable | Code |
|---|---|
| `act` | `custodial_assigned_activation_operations` |
| `code`, `failed` | `device_auth_enrollment_codes` and their failed attempts |
| `enr` | `device_auth_enrollment_operations` |
| `cred`, `confirmed`, `edges` | credentials; those with a confirmation; `custodial_device_credential_replacements` |
| `epoch`, `trusted` | the assignment of the phone; manager and workstation still trusted |
| `due`, `lapsed` | what is past its deadline |
| `replies`, `mintedFor` | history: the claims the workstation got an answer to; the epoch of a minted credential |

| Run | Instance | Shows |
|---|---|---|
| `Activation` | one activation, one code typed by hand, two dispatches, one wrong code, two assignments; 351 thousand states | a stopped activation's token is dead; the outcome on record is true; a report is about the last dispatch; a renewed credential has one recorded successor, one that ended otherwise none (`LineageIsAChain`); a confirmed credential ends only by revocation or renewal; no activation and no unconfirmed credential lasts for ever |
| `VFrozenWorkKeepsSender` | the same | the disagreement below |

Bounds. `Assigned` and `Typed` name the activations and typed codes; one of each
gives a renewal in either order. The code allows 5 dispatches and 10 wrong codes;
2 and 1 reach the limit as well as a repeat. `MaxPath` is the 32 credentials to
which the SQL limits a path of replacements (`20260826020000:73`): `Lineage` takes
no more steps, so after a longer chain of renewals the code knows no successor.
With two operations no path is that long. Fairness: deadlines pass (`Due`,
`Lapse`), and the expiry job runs every five minutes (`ExpiryJob`). Nothing is
assumed of the manager, the workstation or the phone.

`PhoneActivation_proofs` proves the six safety properties for any number of
operations and codes and any limits. The invariant ties an activation's version
to its dispatches and reports (`VersionFits`, `RepliesFit`), allows one code in
use and one live credential per phone (`OneCode`, `OneCredential`, which the code
leaves to unique indexes and the model has to earn from the revocations before
each insert), and is inductive only together with `LineageIsAChain`, which it
includes. The chain is about the recorded replacements, of any number; who may
send along it is bounded by `MaxPath`. `DeadlinesEnd` is model-checked only.

Disagreement. The migration of `custodial_credential_may_transmit_frozen_work`
begins "Preserve frozen employee work across an explicit manager-approved phone
credential renewal" (`20260826020000:1`). Only a live credential is recorded as
a predecessor (line 237), so the preservation ends at a successor that was never
confirmed. `VFrozenWorkKeepsSender`: an activation mints a successor of the
confirmed credential and is cancelled, or lapses, before the phone confirms it; a
code typed by hand mints the next credential, which the phone confirms. No
manager revoked anything, and nobody may send the work frozen under the first.

Left out: the legacy browser enrollment and its lineage observation, device
deactivation, the separation fence, the expiry of credentials after ten years, a
second workstation and the rotation of secrets.

## 9. Not modelled

The parts marked `not_modelled` in `PROJECT.json`, each with its reason: some are
next in the plan, some are pure input and output or thin adapters, and the
solver's numeric optimisation is beyond these tools. Hazards without a property
carry a note there. What a recursive definition computes for every input is out
of the prover's reach, which is why the pure operators of the plan would be
checked by TLC alone.
