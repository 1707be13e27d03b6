---------------------------- MODULE MutationFence ----------------------------
(***************************************************************************)
(* Admission of application mutations against a disaster restore.          *)
(*                                                                         *)
(* Three PostgreSQL advisory locks order the actors:                       *)
(*   admission  lease begin takes it shared, the restore's pause and both  *)
(*              reconciliations take it exclusive;                         *)
(*   fence      every writing transaction takes it shared, the restore     *)
(*              holds it exclusive while it replaces data;                 *)
(*   session    one restore or reconciliation at a time.                   *)
(* A request that may change state outside the database holds a lease row  *)
(* for as long as its work runs; an expired row stays as a blocker.        *)
(***************************************************************************)
EXTENDS Integers, FiniteSets

CONSTANTS
    Requests,       \* lease identities: one admitted API mutation each
    Writers,        \* database sessions that write without a lease
    Processes,      \* operating-system process instances (never restarted)
    Owner,          \* the process that runs a request
    AppCategories,  \* discrepancy categories compared by compareRestoredState
    MaxGeneration   \* bound: authority generations a run may reach

ASSUME OwnerAssumption == Owner \in [Requests -> Processes]
ASSUME SessionAssumption == Requests \cap Writers = {}
ASSUME CategoryAssumption == {"cron_state", "storage_state"} \cap AppCategories = {}
ASSUME GenerationAssumption == MaxGeneration \in Nat \ {0}

VARIABLES
    control,        \* custodial_dr.restore_control
    lease,          \* custodial_dr.application_mutation_leases
    req,            \* each request, from the begin RPC to the release RPC
    gone,           \* requests whose caller stopped waiting for the begin RPC
    down,           \* terminated processes
    tx,             \* each session's transaction against the fence
    pc,             \* the production-restore script
    fence,          \* who holds the exclusive side of the fence
    mig,            \* the pause as the release migration's snapshot has it
    dataGen,        \* the generation whose restore last replaced the data
    manifest,       \* restore_manifests row of the current generation
    openSet,        \* OPEN restore_discrepancies of the current generation
    failedEvent,    \* a FAILED restore_event exists for the generation
    restoreIntent,  \* the signed restore intent last issued
    leaseIntent,    \* the signed abandoned-lease reconciliation last issued
    resumeIntent    \* the signed restore reconciliation last issued

requestVars == <<req, gone, lease>>
recordVars == <<dataGen, manifest, openSet, failedEvent>>
intentVars == <<restoreIntent, leaseIntent, resumeIntent>>
vars == <<control, requestVars, down, tx, pc, fence, mig, recordVars, intentVars>>

Generations == 0..MaxGeneration
Categories == AppCategories \cup {"cron_state", "storage_state"}
Sessions == Requests \cup Writers

States == {"READY", "PREPARING", "DATABASE_RESTORED", "STORAGE_RESTORING",
           "VERIFYING", "PAUSED_FAILURE", "PAUSED_RECONCILIATION", "COMPLETE"}

\* The script's phases before the pause commits, then the ones its error
\* handler turns into PAUSED_FAILURE, then the handler and the finally block.
Preparing == {"admission", "pausing"}
Prepared == {"draining", "fencing", "quiesce", "database", "record_state",
             "record_manifest", "authority", "cron", "storage_begin", "storage",
             "verify_begin", "verify", "seal", "hold", "final_event"}
Unwinding == {"failing", "fail_event", "cleanup"}
Phases == {"idle"} \cup Preparing \cup Prepared \cup Unwinding

\* The phases that read or replace data under the exclusive fence.
Exclusive == Prepared \ {"draining", "fencing"}

Manifest == [database : BOOLEAN, authority : BOOLEAN, storage : BOOLEAN,
             post : BOOLEAN]
BlankManifest == [database |-> FALSE, authority |-> FALSE, storage |-> FALSE,
                  post |-> FALSE]

NoLeaseIntent == [status |-> "none", set |-> {}, gen |-> 0,
                  state |-> "READY", snap |-> {}]

TypeOK ==
    /\ control \in [gen : Generations, paused : BOOLEAN, state : States]
    /\ lease \in [Requests -> {"none", "live", "expired"}]
    /\ req \in [Requests -> {"idle", "begin", "admit", "ack", "run",
                             "release", "done"}]
    /\ gone \in SUBSET Requests
    /\ down \in SUBSET Processes
    /\ tx \in [Sessions -> {"none", "want", "locked", "open", "refused"}]
    /\ pc \in Phases
    /\ fence \in {"none", "restore", "tail", "migration"}
    /\ mig \in {"idle", "unpaused", "paused"}
    /\ dataGen \in Generations
    /\ manifest \in Manifest
    /\ openSet \in SUBSET Categories
    /\ failedEvent \in BOOLEAN
    /\ restoreIntent \in [gen : Generations, retry : Generations]
    /\ leaseIntent \in [status : {"none", "signed", "waiting", "applied"},
                        set : SUBSET Requests, gen : Generations,
                        state : States, snap : SUBSET Requests]
    /\ resumeIntent \in [gen : Generations, open : SUBSET Categories]

Init ==
    /\ control = [gen |-> 0, paused |-> FALSE, state |-> "READY"]
    /\ lease = [r \in Requests |-> "none"]
    /\ req = [r \in Requests |-> "idle"]
    /\ gone = {}
    /\ down = {}
    /\ tx = [s \in Sessions |-> "none"]
    /\ pc = "idle"
    /\ fence = "none"
    /\ mig = "idle"
    /\ dataGen = 0
    /\ manifest = BlankManifest
    /\ openSet = {}
    /\ failedEvent = FALSE
    /\ restoreIntent = [gen |-> 0, retry |-> 0]
    /\ leaseIntent = NoLeaseIntent
    /\ resumeIntent = [gen |-> 0, open |-> {}]

-----------------------------------------------------------------------------
\* Locks and observations

Up(r) == Owner[r] \notin down

\* A request whose handler or operation may still change state.
Working(r) == req[r] = "run" /\ Up(r)

LeaseRows == {r \in Requests : lease[r] # "none"}
ExpiredRows == {r \in Requests : lease[r] = "expired"}

AdmissionExclusiveHeld == pc = "pausing"
AdmissionSharedHeld == \E r \in Requests : req[r] = "admit"
FenceSharedHeld == \E s \in Sessions : tx[s] \in {"locked", "open"}
SessionLockFree == pc = "idle" /\ leaseIntent.status # "waiting"

-----------------------------------------------------------------------------
\* API requests and their leases

\* The begin RPC is sent.
Begin(r) ==
    /\ req[r] = "idle" /\ Up(r)
    /\ req' = [req EXCEPT ![r] = "begin"]
    /\ UNCHANGED <<control, gone, lease, down, tx, pc, fence, mig, recordVars, intentVars>>

\* The request signal aborts while the begin RPC is pending: the caller is
\* answered 503 and only a background continuation still awaits the RPC.
AbortBegin(r) ==
    /\ req[r] \in {"begin", "admit", "ack"} /\ Up(r) /\ r \notin gone
    /\ gone' = gone \cup {r}
    /\ UNCHANGED <<control, req, lease, down, tx, pc, fence, mig, recordVars, intentVars>>

\* Mutant: the pause is read without waiting for the admission lock.
AdmitReadUnlocked(r) ==
    /\ req[r] = "begin"
    /\ req' = [req EXCEPT ![r] = IF control.paused THEN "done" ELSE "admit"]
    /\ UNCHANGED <<control, gone, lease, down, tx, pc, fence, mig, recordVars, intentVars>>

\* The database takes the shared admission lock and reads restore_control.
AdmitRead(r) ==
    /\ req[r] = "begin"
    /\ ~AdmissionExclusiveHeld
    /\ req' = [req EXCEPT ![r] = IF control.paused THEN "done" ELSE "admit"]
    /\ UNCHANGED <<control, gone, lease, down, tx, pc, fence, mig, recordVars, intentVars>>

\* The lease row commits and the shared admission lock is released.
AdmitCommit(r) ==
    /\ req[r] = "admit"
    /\ req' = [req EXCEPT ![r] = "ack"]
    /\ lease' = [lease EXCEPT ![r] = "live"]
    /\ UNCHANGED <<control, gone, down, tx, pc, fence, mig, recordVars, intentVars>>

\* The RPC fails before its transaction commits.
BeginFails(r) ==
    /\ req[r] \in {"begin", "admit"}
    /\ req' = [req EXCEPT ![r] = "done"]
    /\ UNCHANGED <<control, gone, lease, down, tx, pc, fence, mig, recordVars, intentVars>>

\* The RPC succeeded: the operation runs, or, when the caller is gone, the
\* late lease is released by the background continuation.
BeginReply(r) ==
    /\ req[r] = "ack" /\ Up(r)
    /\ req' = [req EXCEPT ![r] = IF r \in gone THEN "release" ELSE "run"]
    /\ UNCHANGED <<control, gone, lease, down, tx, pc, fence, mig, recordVars, intentVars>>

\* The row committed but its reply was lost: nothing runs, the row stays.
BeginReplyLost(r) ==
    /\ req[r] = "ack" /\ Up(r)
    /\ req' = [req EXCEPT ![r] = "done"]
    /\ UNCHANGED <<control, gone, lease, down, tx, pc, fence, mig, recordVars, intentVars>>

\* Mutant: an expired row is removed.
ExpireReaps(r) ==
    /\ lease[r] = "live"
    /\ lease' = [lease EXCEPT ![r] = "none"]
    /\ UNCHANGED <<control, req, gone, down, tx, pc, fence, mig, recordVars, intentVars>>

\* Three minutes pass without a heartbeat; the row itself does not change.
Expire(r) ==
    /\ lease[r] = "live"
    /\ lease' = [lease EXCEPT ![r] = "expired"]
    /\ UNCHANGED <<control, req, gone, down, tx, pc, fence, mig, recordVars, intentVars>>

\* The operation settles, its awaited SQL included, and release is called.
Settle(r) ==
    /\ Working(r)
    /\ tx[r] \in {"none", "refused"}
    /\ req' = [req EXCEPT ![r] = "release"]
    /\ UNCHANGED <<control, gone, lease, down, tx, pc, fence, mig, recordVars, intentVars>>

\* The release RPC deletes the row, expired or not.
ReleaseCommit(r) ==
    /\ req[r] = "release"
    /\ req' = [req EXCEPT ![r] = "done"]
    /\ lease' = [lease EXCEPT ![r] = "none"]
    /\ UNCHANGED <<control, gone, down, tx, pc, fence, mig, recordVars, intentVars>>

\* The release RPC never reaches the database: logged, not retried.
ReleaseFails(r) ==
    /\ req[r] = "release"
    /\ req' = [req EXCEPT ![r] = "done"]
    /\ UNCHANGED <<control, gone, lease, down, tx, pc, fence, mig, recordVars, intentVars>>

\* A process ends: a crash, a deploy, or the gate's exit 70 for a
\* disconnected mutation that never settled. Its leases stay.
Terminate(p) ==
    /\ p \notin down
    /\ down' = down \cup {p}
    /\ UNCHANGED <<control, requestVars, tx, pc, fence, mig, recordVars, intentVars>>

-----------------------------------------------------------------------------
\* Writing transactions: a direct writer, or the SQL of a running request

TxBegin(s) ==
    /\ tx[s] = "none"
    /\ s \in Requests => Working(s)
    /\ tx' = [tx EXCEPT ![s] = "want"]
    /\ UNCHANGED <<control, requestVars, down, pc, fence, mig, recordVars, intentVars>>

\* The shared fence is granted unless an exclusive holder or waiter is ahead.
FenceLock(s) ==
    /\ tx[s] = "want"
    /\ fence = "none" /\ pc # "fencing"
    /\ tx' = [tx EXCEPT ![s] = "locked"]
    /\ UNCHANGED <<control, requestVars, down, pc, fence, mig, recordVars, intentVars>>

\* Mutant: the pause is read before the lock is waited for.
FenceReadEarly(s) ==
    /\ tx[s] = "locked"
    /\ tx' = [tx EXCEPT ![s] = "open"]
    /\ UNCHANGED <<control, requestVars, down, pc, fence, mig, recordVars, intentVars>>

\* restore_control is read under the lock, in a snapshot of its own.
FenceRead(s) ==
    /\ tx[s] = "locked"
    /\ tx' = [tx EXCEPT ![s] = IF control.paused THEN "refused" ELSE "open"]
    /\ UNCHANGED <<control, requestVars, down, pc, fence, mig, recordVars, intentVars>>

\* A later statement of an admitted transaction: the table's trigger reads
\* restore_control again, whatever the transaction was admitted under.
GuardRefuses(s) ==
    /\ tx[s] = "open" /\ control.paused
    /\ tx' = [tx EXCEPT ![s] = "refused"]
    /\ UNCHANGED <<control, requestVars, down, pc, fence, mig, recordVars, intentVars>>

\* Commit or rollback; a commit already sent outlives its process.
TxEnd(s) ==
    /\ tx[s] \in {"open", "refused"}
    /\ tx' = [tx EXCEPT ![s] = "none"]
    /\ UNCHANGED <<control, requestVars, down, pc, fence, mig, recordVars, intentVars>>


-----------------------------------------------------------------------------
\* apply-release-migration-plan.mjs: one serializable transaction that takes the
\* exclusive fence and whose DDL trigger reads restore_control

\* Its first lock statement fixes the snapshot every later read uses.
MigrationBegin ==
    /\ mig = "idle" /\ fence # "migration"
    /\ mig' = IF control.paused THEN "paused" ELSE "unpaused"
    /\ UNCHANGED <<control, requestVars, down, tx, pc, fence, recordVars, intentVars>>

MigrationFence ==
    /\ mig = "unpaused"
    /\ ~FenceSharedHeld /\ fence = "none" /\ pc # "fencing"
    /\ fence' = "migration"
    /\ mig' = "idle"
    /\ UNCHANGED <<control, requestVars, down, tx, pc, recordVars, intentVars>>

\* The lock wait times out, or its first DDL is refused by a paused snapshot.
MigrationGivesUp ==
    /\ mig # "idle"
    /\ mig' = "idle"
    /\ UNCHANGED <<control, requestVars, down, tx, pc, fence, recordVars, intentVars>>

MigrationEnd ==
    /\ fence = "migration"
    /\ fence' = "none"
    /\ UNCHANGED <<control, requestVars, down, tx, pc, mig, recordVars, intentVars>>

-----------------------------------------------------------------------------
\* The signed restore intent and the script up to its pause

\* create-production-restore-intent.mjs: an unpaused control plane, or a retry
\* of the exact failed restore once every lease is settled.
SignRestore ==
    /\ \/ ~control.paused /\ control.state \in {"READY", "COMPLETE"}
       \/ control.paused /\ control.state = "PAUSED_FAILURE" /\ LeaseRows = {}
    /\ ExpiredRows = {}
    /\ control.gen < MaxGeneration
    /\ restoreIntent' = [gen |-> control.gen + 1,
                         retry |-> IF control.paused THEN control.gen ELSE 0]
    /\ UNCHANGED <<control, requestVars, down, tx, pc, fence, mig, recordVars,
                   leaseIntent, resumeIntent>>

\* The session lock is taken and the intent checked against restore_control. A
\* retry needs the recorded failure of the restore it names.
RestorePreflight ==
    /\ SessionLockFree
    /\ restoreIntent.gen = control.gen + 1
    /\ \/ /\ ~control.paused /\ control.state \in {"READY", "COMPLETE"}
          /\ restoreIntent.retry = 0
       \/ /\ control.paused /\ control.state = "PAUSED_FAILURE"
          /\ restoreIntent.retry = control.gen
          /\ failedEvent /\ LeaseRows = {}
    /\ pc' = "admission"
    /\ UNCHANGED <<control, requestVars, down, tx, fence, mig, recordVars, intentVars>>

\* The exclusive admission lock waits for the begin RPCs that hold it shared.
PauseLock ==
    /\ pc = "admission" /\ ~AdmissionSharedHeld
    /\ pc' = "pausing"
    /\ UNCHANGED <<control, requestVars, down, tx, fence, mig, recordVars, intentVars>>

\* The pause and its manifest row commit together. With the reply lost the
\* script believes nothing was prepared and its handler leaves the row alone.
PauseCommit ==
    /\ pc = "pausing"
    /\ control' = [gen |-> restoreIntent.gen, paused |-> TRUE, state |-> "PREPARING"]
    /\ manifest' = BlankManifest
    /\ openSet' = {}
    /\ failedEvent' = FALSE
    /\ pc' \in {"draining", "cleanup"}
    /\ UNCHANGED <<requestVars, down, tx, fence, mig, dataGen, intentVars>>

PauseRollback ==
    /\ pc \in Preparing
    /\ pc' = "cleanup"
    /\ UNCHANGED <<control, requestVars, down, tx, fence, mig, recordVars, intentVars>>

-----------------------------------------------------------------------------
\* Draining, the exclusive fence and the replacement of the data

\* Mutant: an expired row counts as drained.
DrainIgnoresExpired ==
    /\ pc = "draining"
    /\ \/ LeaseRows = ExpiredRows /\ pc' = "fencing"
       \/ LeaseRows # ExpiredRows /\ pc' = "failing"
    /\ UNCHANGED <<control, requestVars, down, tx, fence, mig, recordVars, intentVars>>

\* Mutant: the drain has no deadline.
DrainForever ==
    /\ pc = "draining"
    /\ \/ LeaseRows = {} /\ pc' = "fencing"
       \/ ExpiredRows # {} /\ pc' = "failing"
    /\ UNCHANGED <<control, requestVars, down, tx, fence, mig, recordVars, intentVars>>

\* An expired row proves nothing about its work and fails the restore; so
\* does a live one still there at the five-minute deadline.
Drain ==
    /\ pc = "draining"
    /\ \/ LeaseRows = {} /\ pc' = "fencing"
       \/ LeaseRows # {} /\ pc' = "failing"
    /\ UNCHANGED <<control, requestVars, down, tx, fence, mig, recordVars, intentVars>>

FenceAcquire ==
    /\ pc = "fencing" /\ ~FenceSharedHeld /\ fence = "none"
    /\ fence' = "restore"
    /\ pc' = "quiesce"
    /\ UNCHANGED <<control, requestVars, down, tx, mig, recordVars, intentVars>>

\* Target identity and the pre-restore snapshots.
Quiesce ==
    /\ pc = "quiesce"
    /\ pc' = "database"
    /\ UNCHANGED <<control, requestVars, down, tx, fence, mig, recordVars, intentVars>>

\* The ordinary route commits the data alone and records it afterwards.
DatabaseCommit ==
    /\ pc = "database"
    /\ dataGen' = control.gen
    /\ pc' = "record_state"
    /\ UNCHANGED <<control, requestVars, down, tx, fence, mig, manifest, openSet,
                   failedEvent, intentVars>>

\* The native route commits data, state and manifest together; a lost reply is
\* an unknown outcome, for which the handler records nothing at all.
NativeDatabaseCommit ==
    /\ pc = "database"
    /\ dataGen' = control.gen
    /\ control' = [control EXCEPT !.state = "DATABASE_RESTORED"]
    /\ manifest' = [manifest EXCEPT !.database = TRUE]
    /\ pc' \in {"authority", "cleanup"}
    /\ UNCHANGED <<requestVars, down, tx, fence, mig, openSet, failedEvent, intentVars>>

NativeCommitLost ==
    /\ pc = "database"
    /\ pc' = "cleanup"
    /\ UNCHANGED <<control, requestVars, down, tx, fence, mig, recordVars, intentVars>>

\* A later phase of the script writes its state and moves on.
SetControl(from, state, to) ==
    /\ pc = from
    /\ control' = [control EXCEPT !.state = state]
    /\ pc' = to
    /\ UNCHANGED <<requestVars, down, tx, fence, mig, recordVars, intentVars>>

RecordState == SetControl("record_state", "DATABASE_RESTORED", "record_manifest")

RecordManifest ==
    /\ pc = "record_manifest"
    /\ manifest' = [manifest EXCEPT !.database = TRUE]
    /\ pc' = "authority"
    /\ UNCHANGED <<control, requestVars, down, tx, fence, mig, dataGen, openSet,
                   failedEvent, intentVars>>

\* compareRestoredState opens a discrepancy for each category that differs from
\* its pre-restore snapshot; the archived authority is invalidated with it.
AuthorityReconcile ==
    /\ pc = "authority"
    /\ \E differing \in SUBSET AppCategories : openSet' = openSet \cup differing
    /\ manifest' = [manifest EXCEPT !.authority = TRUE]
    /\ pc' = "cron"
    /\ UNCHANGED <<control, requestVars, down, tx, fence, mig, dataGen, failedEvent, intentVars>>

Cron ==
    /\ pc = "cron"
    /\ openSet' \in {openSet, openSet \cup {"cron_state"}}
    /\ pc' = "storage_begin"
    /\ UNCHANGED <<control, requestVars, down, tx, fence, mig, dataGen, manifest,
                   failedEvent, intentVars>>

StorageBegin == SetControl("storage_begin", "STORAGE_RESTORING", "storage")

\* Buckets and objects are uploaded and compared with the archive.
StorageVerify ==
    /\ pc = "storage"
    /\ \E same \in BOOLEAN :
         /\ manifest' = [manifest EXCEPT !.storage = same]
         /\ openSet' = IF same THEN openSet ELSE openSet \cup {"storage_state"}
    /\ pc' = "verify_begin"
    /\ UNCHANGED <<control, requestVars, down, tx, fence, mig, dataGen, failedEvent, intentVars>>

VerifyBegin == SetControl("verify_begin", "VERIFYING", "verify")

\* Mutant: the resample overwrites the first verdict.
FinalResampleOverwrites ==
    /\ pc = "verify"
    /\ \E same \in BOOLEAN, cronDiffers \in SUBSET {"cron_state"} :
         /\ manifest' = [manifest EXCEPT !.storage = same]
         /\ openSet' = openSet \cup cronDiffers
                          \cup (IF same THEN {} ELSE {"storage_state"})
    /\ pc' = "seal"
    /\ UNCHANGED <<control, requestVars, down, tx, fence, mig, dataGen, failedEvent, intentVars>>

\* The final quiescent resample of Storage and cron; it can withdraw the
\* Storage verification but not restore it.
FinalResample ==
    /\ pc = "verify"
    /\ \E same \in BOOLEAN, cronDiffers \in SUBSET {"cron_state"} :
         /\ manifest' = [manifest EXCEPT !.storage = @ /\ same]
         /\ openSet' = openSet \cup cronDiffers
                          \cup (IF same THEN {} ELSE {"storage_state"})
    /\ pc' = "seal"
    /\ UNCHANGED <<control, requestVars, down, tx, fence, mig, dataGen, failedEvent, intentVars>>

Seal ==
    /\ pc = "seal"
    /\ manifest' = [manifest EXCEPT !.post = TRUE]
    /\ pc' = "hold"
    /\ UNCHANGED <<control, requestVars, down, tx, fence, mig, dataGen, openSet,
                   failedEvent, intentVars>>

\* Mutant: a state the control row's check constraint does not know.
HoldMisnamed == SetControl("hold", "HELD", "final_event")

Hold == SetControl("hold", "PAUSED_RECONCILIATION", "final_event")

FinalEvent ==
    /\ pc = "final_event"
    /\ pc' = "cleanup"
    /\ UNCHANGED <<control, requestVars, down, tx, fence, mig, recordVars, intentVars>>

-----------------------------------------------------------------------------
\* The script's error handler, its finally block and its death

\* Any phase after the pause may fail.
RestoreFail ==
    /\ pc \in Prepared
    /\ pc' = "failing"
    /\ UNCHANGED <<control, requestVars, down, tx, fence, mig, recordVars, intentVars>>

\* Both writes of the handler swallow their own errors.
FailControl ==
    /\ pc = "failing"
    /\ control' \in {control, [control EXCEPT !.state = "PAUSED_FAILURE"]}
    /\ pc' = "fail_event"
    /\ UNCHANGED <<requestVars, down, tx, fence, mig, recordVars, intentVars>>

FailEvent ==
    /\ pc = "fail_event"
    /\ failedEvent' \in {failedEvent, TRUE}
    /\ pc' = "cleanup"
    /\ UNCHANGED <<control, requestVars, down, tx, fence, mig, dataGen, manifest,
                   openSet, intentVars>>

\* Mutant: the fence is never released.
UnlockSessionOnly ==
    /\ pc = "cleanup"
    /\ pc' = "idle"
    /\ UNCHANGED <<control, requestVars, down, tx, fence, mig, recordVars, intentVars>>

\* The session lock is released before the mutation fence.
UnlockSession ==
    /\ pc = "cleanup"
    /\ pc' = "idle"
    /\ fence' = IF fence = "restore" THEN "tail" ELSE fence
    /\ UNCHANGED <<control, requestVars, down, tx, mig, recordVars, intentVars>>

UnlockFence ==
    /\ fence = "tail"
    /\ fence' = "none"
    /\ UNCHANGED <<control, requestVars, down, tx, pc, mig, recordVars, intentVars>>

\* The script dies or loses its connection: every lock it holds is freed and
\* its open transaction rolls back.
RestoreCrash ==
    /\ pc # "idle"
    /\ pc' = "idle"
    /\ fence' = IF fence = "restore" THEN "none" ELSE fence
    /\ UNCHANGED <<control, requestVars, down, tx, mig, recordVars, intentVars>>

-----------------------------------------------------------------------------
\* Abandoned leases

\* Mutant: expiry is taken for termination.
LeaseSignableByExpiry ==
    /\ \/ control.state = "READY" /\ ~control.paused
       \/ control.state = "PAUSED_FAILURE" /\ control.paused
    /\ LeaseRows # {}
    /\ \A r \in LeaseRows : lease[r] = "expired"

\* Every row is expired and the operator attests that the process behind each
\* of them has terminated; the attestation is taken to be true.
LeaseReconciliationSignable ==
    /\ \/ control.state = "READY" /\ ~control.paused
       \/ control.state = "PAUSED_FAILURE" /\ control.paused
    /\ LeaseRows # {}
    /\ \A r \in LeaseRows : lease[r] = "expired" /\ ~Up(r)

SignLeaseReconciliation ==
    /\ LeaseReconciliationSignable
    /\ leaseIntent.status # "waiting"
    /\ leaseIntent' = [status |-> "signed", set |-> LeaseRows, gen |-> control.gen,
                       state |-> control.state, snap |-> {}]
    /\ UNCHANGED <<control, requestVars, down, tx, pc, fence, mig, recordVars,
                   restoreIntent, resumeIntent>>

\* The serializable snapshot is taken by the statement that waits for the
\* admission lock, so a lease admitted during the wait is not in it.
LeaseReconciliationStart ==
    /\ SessionLockFree /\ leaseIntent.status = "signed"
    /\ leaseIntent' = [leaseIntent EXCEPT !.status = "waiting", !.snap = LeaseRows]
    /\ UNCHANGED <<control, requestVars, down, tx, pc, fence, mig, recordVars,
                   restoreIntent, resumeIntent>>

\* A row of the snapshot released meanwhile is a serialization failure.
LeaseReconciliationCommit ==
    /\ leaseIntent.status = "waiting" /\ ~AdmissionSharedHeld
    /\ control.gen = leaseIntent.gen /\ control.state = leaseIntent.state
    /\ leaseIntent.snap = leaseIntent.set
    /\ leaseIntent.set \subseteq ExpiredRows
    /\ lease' = [r \in Requests |-> IF r \in leaseIntent.set THEN "none" ELSE lease[r]]
    /\ leaseIntent' = [leaseIntent EXCEPT !.status = "applied", !.snap = {}]
    /\ UNCHANGED <<control, req, gone, down, tx, pc, fence, mig, recordVars,
                   restoreIntent, resumeIntent>>

\* The script refuses, fails or dies; the signed intent can be applied again.
LeaseReconciliationFails ==
    /\ leaseIntent.status = "waiting"
    /\ leaseIntent' = [leaseIntent EXCEPT !.status = "signed", !.snap = {}]
    /\ UNCHANGED <<control, requestVars, down, tx, pc, fence, mig, recordVars,
                   restoreIntent, resumeIntent>>

-----------------------------------------------------------------------------
\* The reconciliation that resumes production

\* What both the signing and the applying script require of the held restore.
HeldEvidence ==
    /\ control.state = "PAUSED_RECONCILIATION" /\ control.paused
    /\ manifest.database /\ manifest.authority /\ manifest.post
    /\ manifest.storage <=> "storage_state" \notin openSet

SignResume ==
    /\ HeldEvidence
    /\ resumeIntent' = [gen |-> control.gen, open |-> openSet]
    /\ UNCHANGED <<control, requestVars, down, tx, pc, fence, mig, recordVars,
                   restoreIntent, leaseIntent>>

\* Mutant: production resumes without the session lock.
ApplyResumeUnlocked ==
    /\ ~AdmissionSharedHeld
    /\ HeldEvidence
    /\ resumeIntent.gen = control.gen /\ resumeIntent.open = openSet
    /\ LeaseRows = {}
    /\ openSet' = {}
    /\ manifest' = [manifest EXCEPT !.storage = TRUE]
    /\ control' = [control EXCEPT !.paused = FALSE, !.state = "COMPLETE"]
    /\ UNCHANGED <<requestVars, down, tx, pc, fence, mig, dataGen, failedEvent, intentVars>>

\* One serializable transaction under the session and admission locks.
ApplyResume ==
    /\ SessionLockFree /\ ~AdmissionSharedHeld
    /\ HeldEvidence
    /\ resumeIntent.gen = control.gen /\ resumeIntent.open = openSet
    /\ LeaseRows = {}
    /\ openSet' = {}
    /\ manifest' = [manifest EXCEPT !.storage = TRUE]
    /\ control' = [control EXCEPT !.paused = FALSE, !.state = "COMPLETE"]
    /\ UNCHANGED <<requestVars, down, tx, pc, fence, mig, dataGen, failedEvent, intentVars>>

-----------------------------------------------------------------------------
Request(r) ==
    \/ Begin(r) \/ AbortBegin(r) \/ AdmitRead(r) \/ AdmitCommit(r)
    \/ BeginFails(r) \/ BeginReply(r) \/ BeginReplyLost(r) \/ Expire(r)
    \/ Settle(r) \/ ReleaseCommit(r) \/ ReleaseFails(r)

Transaction(s) ==
    TxBegin(s) \/ FenceLock(s) \/ FenceRead(s) \/ GuardRefuses(s) \/ TxEnd(s)

\* What the script does next when nothing fails it from outside.
RestoreWork ==
    \/ PauseLock \/ PauseCommit \/ Drain \/ FenceAcquire
    \/ Quiesce \/ DatabaseCommit \/ NativeDatabaseCommit
    \/ RecordState \/ RecordManifest \/ AuthorityReconcile \/ Cron
    \/ StorageBegin \/ StorageVerify \/ VerifyBegin \/ FinalResample \/ Seal
    \/ Hold \/ FinalEvent \/ FailControl \/ FailEvent \/ UnlockSession

\* The script's own steps, errors included; a crash is not one of them.
RestoreStep ==
    RestoreWork \/ PauseRollback \/ NativeCommitLost \/ RestoreFail

Reconcile ==
    \/ SignLeaseReconciliation \/ LeaseReconciliationStart
    \/ LeaseReconciliationCommit \/ LeaseReconciliationFails
    \/ SignResume \/ ApplyResume

Next ==
    \/ \E r \in Requests : Request(r)
    \/ \E s \in Sessions : Transaction(s)
    \/ \E p \in Processes : Terminate(p)
    \/ SignRestore \/ RestorePreflight \/ RestoreStep \/ UnlockFence \/ RestoreCrash
    \/ MigrationBegin \/ MigrationFence \/ MigrationGivesUp \/ MigrationEnd
    \/ Reconcile

Spec == Init /\ [][Next]_vars

\* The database answers every RPC and statement it can, a transaction ends (its
\* client commits, times out or disconnects), the scripts keep running, and the
\* lock manager's queue does not pass over whoever waits for a lock. No failure
\* from outside is counted on to end a phase of the restore.
Fairness ==
    /\ \A r \in Requests : WF_vars(AdmitCommit(r) \/ BeginFails(r))
    /\ \A s \in Sessions : /\ SF_vars(FenceLock(s))
                           /\ WF_vars(FenceRead(s))
                           /\ WF_vars(TxEnd(s))
    /\ WF_vars(RestoreWork)
    /\ SF_vars(PauseLock)
    /\ SF_vars(FenceAcquire)
    /\ WF_vars(UnlockFence)
    /\ WF_vars(MigrationEnd)

FairSpec == Spec /\ Fairness

-----------------------------------------------------------------------------
\* Properties

\* While the restore holds the exclusive fence (production-restore.mjs reads,
\* truncates and reloads the data under it) no admitted request is at work, no
\* lease row exists and no transaction is past the fence.
RestoreOwnsData ==
    fence = "restore" =>
        /\ LeaseRows = {} /\ ~FenceSharedHeld
        /\ \A r \in Requests : ~Working(r)

\* Once a restore has replaced the data, and until a signed reconciliation
\* resumes production, no request works and no transaction is open on it, even
\* after the script died and its locks were freed.
NoWorkOverReplacedData ==
    control.paused /\ dataGen = control.gen =>
        /\ \A r \in Requests : ~Working(r)
        /\ \A s \in Sessions : tx[s] # "open"

\* Work never goes on without its lease row: not after a lost begin reply, an
\* expiry, a late release or the reconciliation of abandoned leases.
LeaseCoversWork == \A r \in Requests : Working(r) => lease[r] # "none"

\* A restore held for reconciliation can be signed for as it stands: complete
\* manifest, Storage verified or its discrepancy open, no lease row left.
HeldIsResumable ==
    control.state = "PAUSED_RECONCILIATION" =>
        HeldEvidence /\ LeaseRows = {} /\ dataGen = control.gen

\* Production is resumed only for the generation that is paused, over data that
\* this generation restored and verified, with every discrepancy resolved and
\* nothing at work.
ResumeIsClean ==
    [][control.paused /\ ~control'.paused =>
          /\ control.state = "PAUSED_RECONCILIATION"
          /\ control'.gen = control.gen /\ dataGen = control.gen
          /\ openSet' = {} /\ resumeIntent = [gen |-> control.gen, open |-> openSet]
          /\ manifest'.database /\ manifest'.authority
          /\ manifest'.storage /\ manifest'.post
          /\ fence # "restore" /\ \A r \in Requests : ~Working(r)]_vars

\* A lease row disappears by its own release, or because it had expired and the
\* process behind it is gone.
OnlyDeadLeasesAreReconciled ==
    [][\A r \in Requests : lease[r] # "none" /\ lease'[r] = "none" =>
          req[r] = "release" \/ (lease[r] = "expired" /\ ~Up(r))]_vars

\* The script always ends: its drain has a deadline, its wait for the fence
\* ends with the transactions ahead of it, and a failure unwinds.
RestoreReturns == pc # "idle" ~> pc = "idle"

\* A writer waiting at the fence is answered in the end, whether the restore
\* ahead of it finishes, fails or dies.
WriterAnswered == \A s \in Sessions : tx[s] = "want" ~> tx[s] # "want"

-----------------------------------------------------------------------------
\* A statement the repository makes of the program that the program refutes

\* The refusal of the intent script: expired leases require signed abandoned
\* lease reconciliation, so where it refuses them that signature can be had.
AbandonedLeasesReconcilable ==
    (/\ control.state \in {"READY", "COMPLETE"} /\ LeaseRows # {}
     /\ \A r \in LeaseRows : lease[r] = "expired" /\ ~Up(r))
        => LeaseReconciliationSignable

-----------------------------------------------------------------------------
\* The abstract exclusion: who is active, whether admission is open, and
\* whether the restore has the data to itself

Active == {r \in Requests : req[r] \in {"ack", "run"} /\ Up(r)}
            \cup {s \in Sessions : tx[s] = "open"}

Exclusion == INSTANCE RestoreExclusion
    WITH Actors <- Sessions, admitting <- ~control.paused,
         active <- Active, exclusive <- (fence = "restore")

ImplementsExclusion == Exclusion!Spec
=============================================================================
