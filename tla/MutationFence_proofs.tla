------------------------ MODULE MutationFence_proofs ------------------------
(***************************************************************************)
(* Proofs that every behaviour of MutationFence keeps its type and its     *)
(* safety properties, for any sets of requests, sessions and processes and *)
(* any number of generations.                                              *)
(***************************************************************************)
EXTENDS MutationFence, TLAPS

\* A request that may still work has its lease row, and only requests of
\* terminated processes are ever attested.
Coverage ==
    /\ \A r \in Requests : req[r] \in {"ack", "run"} /\ Up(r) => lease[r] # "none"
    /\ \A r \in leaseIntent.set : ~Up(r)

\* The pause and the shared admission lock exclude each other.
AdmissionClosed ==
    control.paused \/ pc = "pausing" => \A r \in Requests : req[r] # "admit"

\* The script's phase tells who has the fence and what is paused.
Ownership ==
    /\ pc \in Prepared \cup {"failing", "fail_event"} => control.paused
    /\ pc \in Exclusive => fence = "restore"
    /\ fence = "restore" => pc \in Exclusive \cup Unwinding /\ control.paused
    /\ fence = "restore" => \A s \in Sessions : tx[s] \notin {"locked", "open"}

\* Replaced and not resumed: the data is this paused generation's.
Replaced == control.paused /\ dataGen = control.gen

\* Once drained, no lease row comes back before production resumes.
Drained ==
    /\ pc \in Prepared \ {"draining"} \/ fence = "restore" \/ Replaced
          => \A r \in Requests : lease[r] = "none"
    /\ Replaced => \A s \in Sessions : tx[s] # "open"

\* A generation is new when it pauses.
Numbering ==
    /\ dataGen <= control.gen
    /\ pc \in Preparing => restoreIntent.gen = control.gen + 1
    /\ pc \in Preparing => control.state \in {"READY", "COMPLETE", "PAUSED_FAILURE"}

\* What the manifest and the discrepancies say at each phase.
Evidence ==
    /\ pc \in Exclusive \ {"quiesce", "database"} => dataGen = control.gen
    /\ pc \in Exclusive \ {"quiesce", "database", "record_state", "record_manifest"}
          => manifest.database
    /\ pc \in {"cron", "storage_begin", "storage", "verify_begin", "verify", "seal",
               "hold", "final_event"} => manifest.authority
    /\ pc \in {"authority", "cron", "storage_begin", "storage"} \cup
              {"draining", "fencing", "quiesce", "database", "record_state", "record_manifest"}
          => "storage_state" \notin openSet
    /\ pc \in {"verify_begin", "verify", "seal", "hold"}
          => (manifest.storage <=> "storage_state" \notin openSet)
    /\ pc = "hold" => manifest.post
    /\ pc \in Prepared \ {"final_event"} => control.state # "PAUSED_RECONCILIATION"
    /\ control.state = "PAUSED_RECONCILIATION" => HeldEvidence /\ Replaced


IInv ==
    /\ TypeOK /\ Coverage /\ AdmissionClosed /\ Ownership /\ Drained
    /\ Numbering /\ Evidence

-----------------------------------------------------------------------------
\* Types

LEMMA RequestTyping == ASSUME TypeOK, NEW r \in Requests, Request(r) PROVE TypeOK'
  BY DEF TypeOK, recordVars, intentVars, Request, Begin, AbortBegin,
    AdmitRead, AdmitCommit, BeginFails, BeginReply, BeginReplyLost, Expire,
    Settle, ReleaseCommit, ReleaseFails

LEMMA TransactionTyping ==
  ASSUME TypeOK, NEW s \in Sessions, Transaction(s) PROVE TypeOK'
  BY DEF TypeOK, requestVars, recordVars, intentVars, Transaction, TxBegin,
    FenceLock, FenceRead, GuardRefuses, TxEnd

LEMMA RestoreTyping == ASSUME TypeOK, RestoreStep PROVE TypeOK'
  <1> USE DEF TypeOK, requestVars, recordVars, intentVars, Phases, Preparing,
              Prepared, Unwinding
  <1>1. CASE PauseLock BY <1>1 DEF PauseLock
  <1>2. CASE PauseCommit BY <1>2 DEF PauseCommit, Manifest, BlankManifest, States
  <1>3. CASE PauseRollback BY <1>3 DEF PauseRollback
  <1>4. CASE Drain BY <1>4 DEF Drain
  <1>5. CASE FenceAcquire BY <1>5 DEF FenceAcquire
  <1>6. CASE Quiesce BY <1>6 DEF Quiesce
  <1>7. CASE DatabaseCommit BY <1>7 DEF DatabaseCommit
  <1>8. CASE NativeDatabaseCommit
    <2>1. manifest' \in Manifest
      BY <1>8 DEF NativeDatabaseCommit, Manifest
    <2>2. control' \in [gen : Generations, paused : BOOLEAN, state : States]
      BY <1>8 DEF NativeDatabaseCommit, States
    <2> QED BY <1>8, <2>1, <2>2 DEF NativeDatabaseCommit
  <1>9. CASE NativeCommitLost BY <1>9 DEF NativeCommitLost
  <1>10. CASE RecordState BY <1>10 DEF RecordState, SetControl, States
  <1>11. CASE RecordManifest
    <2>1. manifest' \in Manifest BY <1>11 DEF RecordManifest, Manifest
    <2> QED BY <1>11, <2>1 DEF RecordManifest
  <1>12. CASE AuthorityReconcile
    <2>1. manifest' \in Manifest
      BY <1>12 DEF AuthorityReconcile, Manifest
    <2>2. openSet' \in SUBSET Categories
      BY <1>12 DEF AuthorityReconcile, Categories
    <2> QED BY <1>12, <2>1, <2>2 DEF AuthorityReconcile
  <1>13. CASE Cron BY <1>13 DEF Cron, Categories
  <1>14. CASE StorageBegin BY <1>14 DEF StorageBegin, SetControl, States
  <1>15. CASE StorageVerify BY <1>15 DEF StorageVerify, Manifest, Categories
  <1>16. CASE VerifyBegin BY <1>16 DEF VerifyBegin, SetControl, States
  <1>17. CASE FinalResample BY <1>17 DEF FinalResample, Manifest, Categories
  <1>18. CASE Seal
    <2>1. manifest' \in Manifest BY <1>18 DEF Seal, Manifest
    <2> QED BY <1>18, <2>1 DEF Seal
  <1>19. CASE Hold BY <1>19 DEF Hold, SetControl, States
  <1>20. CASE FinalEvent BY <1>20 DEF FinalEvent
  <1>21. CASE RestoreFail BY <1>21 DEF RestoreFail
  <1>22. CASE FailControl BY <1>22 DEF FailControl, States
  <1>23. CASE FailEvent BY <1>23 DEF FailEvent
  <1>24. CASE UnlockSession BY <1>24 DEF UnlockSession
  <1> QED BY <1>1, <1>2, <1>3, <1>4, <1>5, <1>6, <1>7, <1>8, <1>9, <1>10,
            <1>11, <1>12, <1>13, <1>14, <1>15, <1>16, <1>17, <1>18, <1>19,
            <1>20, <1>21, <1>22, <1>23, <1>24 DEF RestoreStep, RestoreWork

LEMMA ReconcileTyping == ASSUME TypeOK, Reconcile PROVE TypeOK'
  <1> USE DEF TypeOK, requestVars, recordVars, intentVars
  <1>1. CASE SignLeaseReconciliation BY <1>1 DEF SignLeaseReconciliation, LeaseRows
  <1>2. CASE LeaseReconciliationStart BY <1>2 DEF LeaseReconciliationStart, LeaseRows
  <1>3. CASE LeaseReconciliationCommit BY <1>3 DEF LeaseReconciliationCommit
  <1>4. CASE LeaseReconciliationFails BY <1>4 DEF LeaseReconciliationFails
  <1>5. CASE SignResume BY <1>5 DEF SignResume
  <1>6. CASE ApplyResume BY <1>6 DEF ApplyResume, Manifest, States
  <1> QED BY <1>1, <1>2, <1>3, <1>4, <1>5, <1>6 DEF Reconcile

LEMMA Typing == ASSUME TypeOK, [Next]_vars PROVE TypeOK'
  <1> USE DEF TypeOK, requestVars, recordVars, intentVars, Phases, Preparing
  <1>1. CASE \E r \in Requests : Request(r) BY <1>1, RequestTyping
  <1>2. CASE \E s \in Sessions : Transaction(s) BY <1>2, TransactionTyping
  <1>3. CASE \E p \in Processes : Terminate(p) BY <1>3 DEF Terminate
  <1>4. CASE SignRestore
    <2>1. control.gen + 1 \in Generations
      BY <1>4, GenerationAssumption DEF SignRestore, Generations
    <2>2. control.gen \in Generations /\ 0 \in Generations
      BY <1>4, GenerationAssumption DEF Generations
    <2>3. restoreIntent' \in [gen : Generations, retry : Generations]
      BY <1>4, <2>1, <2>2 DEF SignRestore
    <2> QED BY <1>4, <2>3 DEF SignRestore
  <1>5. CASE RestorePreflight BY <1>5 DEF RestorePreflight
  <1>6. CASE RestoreStep BY <1>6, RestoreTyping
  <1>7. CASE UnlockFence BY <1>7 DEF UnlockFence
  <1>8. CASE RestoreCrash BY <1>8 DEF RestoreCrash
  <1>9. CASE MigrationBegin \/ MigrationGivesUp
    BY <1>9 DEF MigrationBegin, MigrationGivesUp
  <1>10. CASE MigrationFence \/ MigrationEnd
    BY <1>10 DEF MigrationFence, MigrationEnd
  <1>11. CASE Reconcile BY <1>11, ReconcileTyping
  <1>12. CASE UNCHANGED vars BY <1>12 DEF vars
  <1> QED BY <1>1, <1>2, <1>3, <1>4, <1>5, <1>6, <1>7, <1>8, <1>9, <1>10,
            <1>11, <1>12 DEF Next

LEMMA InitialTyping == ASSUME Init PROVE TypeOK
  <1>1. 0 \in Generations BY GenerationAssumption DEF Generations
  <1>2. manifest \in Manifest BY DEF Init, BlankManifest, Manifest
  <1> QED BY <1>1, <1>2 DEF Init, TypeOK, States, Phases, NoLeaseIntent

\* The program never leaves the types of TypeOK: every state, phase and lock
\* value that the scripts and the SQL write is one the schema admits.
THEOREM TypeCorrect == Spec => []TypeOK
  BY InitialTyping, Typing, PTL DEF Spec

-----------------------------------------------------------------------------
\* The inductive invariant, one lemma for each actor

\* Only AdmitCommit writes a lease row, and the shared admission lock it holds
\* keeps it away from a pause; a row leaves by the request's own release.
LEMMA RequestKeeps == ASSUME IInv, NEW r \in Requests, Request(r) PROVE IInv'
  <1> USE DEF IInv, TypeOK, Coverage, AdmissionClosed, Ownership, Drained,
              Numbering, Evidence, Replaced, HeldEvidence, Up, recordVars,
              intentVars, Preparing, Prepared, Exclusive, Unwinding
  <1>t. TypeOK' BY RequestTyping
  <1>1. CASE Begin(r) BY <1>t, <1>1 DEF Begin
  <1>2. CASE AbortBegin(r) BY <1>t, <1>2 DEF AbortBegin
  <1>3. CASE AdmitRead(r) BY <1>t, <1>3 DEF AdmitRead, AdmissionExclusiveHeld
  <1>4. CASE AdmitCommit(r) BY <1>t, <1>4 DEF AdmitCommit
  <1>5. CASE BeginFails(r) BY <1>t, <1>5 DEF BeginFails
  <1>6. CASE BeginReply(r) BY <1>t, <1>6 DEF BeginReply
  <1>7. CASE BeginReplyLost(r) BY <1>t, <1>7 DEF BeginReplyLost
  <1>8. CASE Expire(r) BY <1>t, <1>8 DEF Expire
  <1>9. CASE Settle(r) BY <1>t, <1>9 DEF Settle
  <1>10. CASE ReleaseCommit(r) BY <1>t, <1>10 DEF ReleaseCommit
  <1>11. CASE ReleaseFails(r) BY <1>t, <1>11 DEF ReleaseFails
  <1> QED BY <1>1, <1>2, <1>3, <1>4, <1>5, <1>6, <1>7, <1>8, <1>9, <1>10,
            <1>11 DEF Request

\* No session passes the fence against the restore, and the pause it then reads
\* refuses it.
LEMMA TransactionKeeps ==
  ASSUME IInv, NEW s \in Sessions, Transaction(s) PROVE IInv'
  <1> USE DEF IInv, TypeOK, Coverage, AdmissionClosed, Ownership, Drained,
              Numbering, Evidence, Replaced, HeldEvidence, Up, requestVars,
              recordVars, intentVars
  <1>t. TypeOK' BY TransactionTyping
  <1>1. CASE TxBegin(s) BY <1>t, <1>1 DEF TxBegin
  <1>2. CASE FenceLock(s) BY <1>t, <1>2 DEF FenceLock, Sessions
  <1>3. CASE FenceRead(s) BY <1>t, <1>3 DEF FenceRead
  <1>4. CASE GuardRefuses(s) BY <1>t, <1>4 DEF GuardRefuses
  <1>5. CASE TxEnd(s) BY <1>t, <1>5 DEF TxEnd
  <1> QED BY <1>1, <1>2, <1>3, <1>4, <1>5 DEF Transaction

\* The script's phases: the pause opens a generation that replaced nothing yet,
\* the drain leaves no lease row, the fence no transaction, and each record is
\* written before the phase that relies on it.
LEMMA RestoreKeeps == ASSUME IInv, RestoreStep PROVE IInv'
  <1> USE DEF IInv, TypeOK, Coverage, AdmissionClosed, Ownership, Drained,
              Numbering, Evidence, Replaced, HeldEvidence, Up, requestVars,
              recordVars, intentVars, Preparing, Prepared, Exclusive, Unwinding
  <1>t. TypeOK' BY RestoreTyping
  <1>1. CASE PauseLock BY <1>t, <1>1 DEF PauseLock, AdmissionSharedHeld
  <1>2. CASE PauseCommit
    BY <1>t, <1>2 DEF PauseCommit, BlankManifest, Generations
  <1>3. CASE PauseRollback BY <1>t, <1>3 DEF PauseRollback
  <1>4. CASE Drain BY <1>t, <1>4 DEF Drain, LeaseRows
  <1>5. CASE FenceAcquire BY <1>t, <1>5 DEF FenceAcquire, FenceSharedHeld
  <1>6. CASE Quiesce BY <1>t, <1>6 DEF Quiesce
  <1>7. CASE DatabaseCommit BY <1>t, <1>7 DEF DatabaseCommit, Generations
  <1>8. CASE NativeDatabaseCommit
    BY <1>t, <1>8 DEF NativeDatabaseCommit, Manifest, Generations
  <1>9. CASE NativeCommitLost BY <1>t, <1>9 DEF NativeCommitLost
  <1>10. CASE RecordState BY <1>t, <1>10 DEF RecordState, SetControl
  <1>11. CASE RecordManifest BY <1>t, <1>11 DEF RecordManifest, Manifest
  <1>12. CASE AuthorityReconcile
    BY <1>t, <1>12, CategoryAssumption DEF AuthorityReconcile, Manifest
  <1>13. CASE Cron BY <1>t, <1>13 DEF Cron
  <1>14. CASE StorageBegin BY <1>t, <1>14 DEF StorageBegin, SetControl
  <1>15. CASE StorageVerify BY <1>t, <1>15 DEF StorageVerify, Manifest
  <1>16. CASE VerifyBegin BY <1>t, <1>16 DEF VerifyBegin, SetControl
  <1>17. CASE FinalResample BY <1>t, <1>17 DEF FinalResample, Manifest
  <1>18. CASE Seal BY <1>t, <1>18 DEF Seal, Manifest
  <1>19. CASE Hold BY <1>t, <1>19 DEF Hold, SetControl
  <1>20. CASE FinalEvent BY <1>t, <1>20 DEF FinalEvent
  <1>21. CASE RestoreFail BY <1>t, <1>21 DEF RestoreFail
  <1>22. CASE FailControl BY <1>t, <1>22 DEF FailControl
  <1>23. CASE FailEvent BY <1>t, <1>23 DEF FailEvent
  <1>24. CASE UnlockSession BY <1>t, <1>24 DEF UnlockSession
  <1> QED BY <1>1, <1>2, <1>3, <1>4, <1>5, <1>6, <1>7, <1>8, <1>9, <1>10,
            <1>11, <1>12, <1>13, <1>14, <1>15, <1>16, <1>17, <1>18, <1>19,
            <1>20, <1>21, <1>22, <1>23, <1>24 DEF RestoreStep, RestoreWork

\* Reconciliation of leases touches only rows whose process has terminated, and
\* production resumes when no script and no lease row is left.
LEMMA ReconcileKeeps == ASSUME IInv, Reconcile PROVE IInv'
  <1> USE DEF IInv, TypeOK, Coverage, AdmissionClosed, Ownership, Drained,
              Numbering, Evidence, Replaced, HeldEvidence, Up, requestVars,
              recordVars, intentVars, Preparing, Prepared, Exclusive, Unwinding
  <1>t. TypeOK' BY ReconcileTyping
  <1>1. CASE SignLeaseReconciliation
    BY <1>t, <1>1 DEF SignLeaseReconciliation, LeaseReconciliationSignable, LeaseRows
  <1>2. CASE LeaseReconciliationStart BY <1>t, <1>2 DEF LeaseReconciliationStart
  <1>3. CASE LeaseReconciliationCommit
    BY <1>t, <1>3 DEF LeaseReconciliationCommit, ExpiredRows
  <1>4. CASE LeaseReconciliationFails BY <1>t, <1>4 DEF LeaseReconciliationFails
  <1>5. CASE SignResume BY <1>t, <1>5 DEF SignResume
  <1>6. CASE ApplyResume
    BY <1>t, <1>6 DEF ApplyResume, SessionLockFree, AdmissionSharedHeld
  <1> QED BY <1>1, <1>2, <1>3, <1>4, <1>5, <1>6 DEF Reconcile

\* IInv is inductive: the conjuncts of the actors' lemmas hold each other up.
LEMMA Invariance == ASSUME IInv, [Next]_vars PROVE IInv'
  <1> USE DEF IInv, TypeOK, Coverage, AdmissionClosed, Ownership, Drained,
              Numbering, Evidence, Replaced, HeldEvidence, Up, requestVars,
              recordVars, intentVars, Preparing, Prepared, Exclusive, Unwinding
  <1>t. TypeOK' BY Typing
  <1>1. CASE \E r \in Requests : Request(r) BY <1>1, RequestKeeps
  <1>2. CASE \E s \in Sessions : Transaction(s) BY <1>2, TransactionKeeps
  <1>3. CASE \E p \in Processes : Terminate(p) BY <1>t, <1>3 DEF Terminate
  <1>4. CASE SignRestore BY <1>t, <1>4 DEF SignRestore
  <1>5. CASE RestorePreflight BY <1>t, <1>5 DEF RestorePreflight, SessionLockFree
  <1>6. CASE RestoreStep BY <1>6, RestoreKeeps
  <1>7. CASE UnlockFence BY <1>t, <1>7 DEF UnlockFence
  <1>8. CASE RestoreCrash BY <1>t, <1>8 DEF RestoreCrash
  <1>9. CASE MigrationBegin \/ MigrationGivesUp
    BY <1>t, <1>9 DEF MigrationBegin, MigrationGivesUp
  <1>10. CASE MigrationFence \/ MigrationEnd
    BY <1>t, <1>10 DEF MigrationFence, MigrationEnd
  <1>11. CASE Reconcile BY <1>11, ReconcileKeeps
  <1>12. CASE UNCHANGED vars BY <1>t, <1>12 DEF vars
  <1> QED BY <1>1, <1>2, <1>3, <1>4, <1>5, <1>6, <1>7, <1>8, <1>9, <1>10,
            <1>11, <1>12 DEF Next

LEMMA Initially == ASSUME Init PROVE IInv
  <1>1. TypeOK BY InitialTyping
  <1>2. Coverage /\ AdmissionClosed BY DEF Init, Coverage, AdmissionClosed, NoLeaseIntent
  <1>3. Ownership BY DEF Init, Ownership, Prepared, Exclusive
  <1>4. Drained BY DEF Init, Drained, Replaced, Prepared
  <1>5. Numbering BY DEF Init, Numbering, Preparing
  <1>6. Evidence BY DEF Init, Evidence, Exclusive, Prepared
  <1> QED BY <1>1, <1>2, <1>3, <1>4, <1>5, <1>6 DEF IInv

THEOREM Inductive == Spec => []IInv
  BY Initially, Invariance, PTL DEF Spec

-----------------------------------------------------------------------------
\* The safety properties

\* While the restore holds the exclusive fence nothing else works on the data,
\* whatever requests, writers and processes there are: the reason why
\* production-restore.mjs may truncate and reload it.
THEOREM RestoreOwnsDataHolds == Spec => []RestoreOwnsData
  <1>1. ASSUME IInv PROVE RestoreOwnsData
    BY <1>1 DEF IInv, Coverage, Ownership, Drained, RestoreOwnsData, LeaseRows,
               FenceSharedHeld, Working
  <1> QED BY <1>1, Inductive, PTL

\* Nothing works on replaced data before a signed reconciliation resumes
\* production, a dead script and freed locks notwithstanding.
THEOREM NoWorkOverReplacedDataHolds == Spec => []NoWorkOverReplacedData
  <1>1. ASSUME IInv PROVE NoWorkOverReplacedData
    BY <1>1 DEF IInv, Coverage, Drained, Replaced, NoWorkOverReplacedData, Working
  <1> QED BY <1>1, Inductive, PTL

\* A request at work has its lease row: expiry alone never takes it, and
\* reconciliation takes only rows of terminated processes.
THEOREM LeaseCoversWorkHolds == Spec => []LeaseCoversWork
  <1>1. ASSUME IInv PROVE LeaseCoversWork
    BY <1>1 DEF IInv, Coverage, LeaseCoversWork, Working
  <1> QED BY <1>1, Inductive, PTL

\* A restore that reaches PAUSED_RECONCILIATION can be signed for, so the held
\* system is never stuck for want of evidence.
THEOREM HeldIsResumableHolds == Spec => []HeldIsResumable
  <1>1. ASSUME IInv PROVE HeldIsResumable
    BY <1>1 DEF IInv, Evidence, Drained, Replaced, HeldIsResumable, LeaseRows
  <1> QED BY <1>1, Inductive, PTL

-----------------------------------------------------------------------------
\* The action properties

\* Requests and transactions never write restore_control.
LEMMA ControlFrame ==
  ASSUME TypeOK, [Next]_vars, control.paused, ~control'.paused
  PROVE  ApplyResume
  <1> USE DEF TypeOK
  <1>1. ASSUME NEW r \in Requests, Request(r) PROVE control' = control
    BY <1>1 DEF Request, Begin, AbortBegin, AdmitRead, AdmitCommit, BeginFails,
      BeginReply, BeginReplyLost, Expire, Settle, ReleaseCommit, ReleaseFails
  <1>2. ASSUME NEW s \in Sessions, Transaction(s) PROVE control' = control
    BY <1>2 DEF Transaction, TxBegin, FenceLock, FenceRead, GuardRefuses, TxEnd
  <1>3. ASSUME RestoreStep PROVE control'.paused
    <2>1. CASE PauseCommit BY <2>1 DEF PauseCommit
    <2>2. CASE NativeDatabaseCommit \/ FailControl
      BY <2>2 DEF NativeDatabaseCommit, FailControl
    <2>3. CASE RecordState \/ StorageBegin \/ VerifyBegin \/ Hold
      BY <2>3 DEF RecordState, StorageBegin, VerifyBegin, Hold, SetControl
    <2>4. CASE PauseLock \/ PauseRollback \/ Drain \/ FenceAcquire \/ Quiesce
               \/ DatabaseCommit \/ NativeCommitLost
      BY <2>4 DEF PauseLock, PauseRollback, Drain, FenceAcquire, Quiesce,
        DatabaseCommit, NativeCommitLost
    <2>5. CASE RecordManifest \/ AuthorityReconcile \/ Cron \/ StorageVerify
               \/ FinalResample \/ Seal
      BY <2>5 DEF RecordManifest, AuthorityReconcile, Cron, StorageVerify,
        FinalResample, Seal
    <2>6. CASE FinalEvent \/ RestoreFail \/ FailEvent \/ UnlockSession
      BY <2>6 DEF FinalEvent, RestoreFail, FailEvent, UnlockSession
    <2> QED BY <1>3, <2>1, <2>2, <2>3, <2>4, <2>5, <2>6 DEF RestoreStep, RestoreWork
  <1>4. ASSUME \/ SignRestore \/ RestorePreflight \/ UnlockFence \/ RestoreCrash
               \/ MigrationBegin \/ MigrationFence \/ MigrationGivesUp \/ MigrationEnd
        PROVE  control' = control
    BY <1>4 DEF SignRestore, RestorePreflight, UnlockFence, RestoreCrash,
      MigrationBegin, MigrationFence, MigrationGivesUp, MigrationEnd
  <1>5. ASSUME Reconcile PROVE control' = control \/ ApplyResume
    BY <1>5 DEF Reconcile, SignLeaseReconciliation, LeaseReconciliationStart,
      LeaseReconciliationCommit, LeaseReconciliationFails, SignResume
  <1>6. ASSUME NEW p \in Processes, Terminate(p) PROVE control' = control
    BY <1>6 DEF Terminate
  <1>7. ASSUME UNCHANGED vars PROVE control' = control BY <1>7 DEF vars
  <1> QED BY <1>1, <1>2, <1>3, <1>4, <1>5, <1>6, <1>7 DEF Next

\* Production resumes only from PAUSED_RECONCILIATION, over the generation that
\* was restored and verified, with every discrepancy resolved and nothing at
\* work: what a signed reconciliation is worth.
THEOREM ResumeIsCleanHolds == Spec => ResumeIsClean
  <1> DEFINE Clean ==
        control.paused /\ ~control'.paused =>
          /\ control.state = "PAUSED_RECONCILIATION"
          /\ control'.gen = control.gen /\ dataGen = control.gen
          /\ openSet' = {} /\ resumeIntent = [gen |-> control.gen, open |-> openSet]
          /\ manifest'.database /\ manifest'.authority
          /\ manifest'.storage /\ manifest'.post
          /\ fence # "restore" /\ \A r \in Requests : ~Working(r)
  <1>1. ASSUME IInv, [Next]_vars PROVE Clean
    <2> SUFFICES ASSUME control.paused, ~control'.paused, ApplyResume PROVE Clean
      BY <1>1, ControlFrame DEF IInv
    <2> USE DEF IInv, TypeOK
    <2>1. control.state = "PAUSED_RECONCILIATION" /\ dataGen = control.gen
      BY <1>1 DEF ApplyResume, HeldEvidence, Evidence, Replaced
    <2>2. control'.gen = control.gen /\ openSet' = {} BY <1>1 DEF ApplyResume
    <2>3. resumeIntent = [gen |-> control.gen, open |-> openSet]
      BY <1>1 DEF ApplyResume
    <2>4. manifest'.database /\ manifest'.authority /\ manifest'.storage
            /\ manifest'.post
      BY <1>1 DEF ApplyResume, HeldEvidence, Manifest
    <2>5. fence # "restore"
      BY <1>1 DEF ApplyResume, SessionLockFree, Ownership, Exclusive, Prepared,
        Unwinding
    <2>6. \A r \in Requests : ~Working(r)
      BY <1>1 DEF ApplyResume, LeaseRows, Working, Coverage
    <2> QED BY <2>1, <2>2, <2>3, <2>4, <2>5, <2>6
  <1> QED BY <1>1, Inductive, PTL DEF Spec, ResumeIsClean

\* Only requests and the reconciliation of leases write lease rows.
LEMMA LeaseFrame ==
  ASSUME [Next]_vars
  PROVE  (\E r \in Requests : Request(r)) \/ LeaseReconciliationCommit \/ lease' = lease
  <1> USE DEF requestVars
  <1>1. ASSUME NEW s \in Sessions, Transaction(s) PROVE lease' = lease
    BY <1>1 DEF Transaction, TxBegin, FenceLock, FenceRead, GuardRefuses, TxEnd
  <1>2. ASSUME RestoreStep PROVE lease' = lease
    BY <1>2 DEF RestoreStep, RestoreWork, PauseLock, PauseCommit, PauseRollback, Drain,
      FenceAcquire, Quiesce, DatabaseCommit, NativeDatabaseCommit,
      NativeCommitLost, RecordState, RecordManifest, AuthorityReconcile, Cron,
      StorageBegin, StorageVerify, VerifyBegin, FinalResample, Seal, Hold,
      FinalEvent, RestoreFail, FailControl, FailEvent, UnlockSession, SetControl
  <1>3. ASSUME \/ SignRestore \/ RestorePreflight \/ UnlockFence \/ RestoreCrash
               \/ MigrationBegin \/ MigrationFence \/ MigrationGivesUp \/ MigrationEnd
        PROVE  lease' = lease
    BY <1>3 DEF SignRestore, RestorePreflight, UnlockFence, RestoreCrash,
      MigrationBegin, MigrationFence, MigrationGivesUp, MigrationEnd
  <1>4. ASSUME Reconcile PROVE lease' = lease \/ LeaseReconciliationCommit
    BY <1>4 DEF Reconcile, SignLeaseReconciliation, LeaseReconciliationStart,
      LeaseReconciliationFails, SignResume, ApplyResume
  <1>5. ASSUME NEW p \in Processes, Terminate(p) PROVE lease' = lease
    BY <1>5 DEF Terminate
  <1>6. ASSUME UNCHANGED vars PROVE lease' = lease BY <1>6 DEF vars
  <1> QED BY <1>1, <1>2, <1>3, <1>4, <1>5, <1>6 DEF Next

\* A lease row is deleted by its own request's release or, expired, after its
\* process terminated.
THEOREM OnlyDeadLeasesHolds == Spec => OnlyDeadLeasesAreReconciled
  <1> DEFINE Reaped ==
        \A r \in Requests : lease[r] # "none" /\ lease'[r] = "none" =>
          req[r] = "release" \/ (lease[r] = "expired" /\ ~Up(r))
  <1>1. ASSUME IInv, [Next]_vars PROVE Reaped
    <2> USE DEF IInv, TypeOK
    <2>1. CASE \E q \in Requests : Request(q)
      BY <1>1, <2>1 DEF Request, Begin, AbortBegin, AdmitRead, AdmitCommit,
        BeginFails, BeginReply, BeginReplyLost, Expire, Settle, ReleaseCommit,
        ReleaseFails
    <2>2. CASE LeaseReconciliationCommit
      BY <1>1, <2>2 DEF LeaseReconciliationCommit, ExpiredRows, Coverage, Up
    <2>3. CASE lease' = lease BY <2>3
    <2> QED BY <1>1, <2>1, <2>2, <2>3, LeaseFrame
  <1> QED BY <1>1, Inductive, PTL DEF Spec, OnlyDeadLeasesAreReconciled

-----------------------------------------------------------------------------
\* The implementation of RestoreExclusion

\* The actors that leave need no further justification.
LEMMA Leaving ==
  ASSUME Active' \subseteq Active, Active \subseteq Sessions,
         control'.paused = control.paused,
         fence' = "restore" <=> fence = "restore"
  PROVE  Exclusion!Next
  <1>1. Active' = Active \ (Active \ Active') OBVIOUS
  <1>2. Active \ Active' \in SUBSET Sessions OBVIOUS
  <1>3. Exclusion!Leave(Active \ Active') BY <1>1 DEF Exclusion!Leave
  <1> QED BY <1>2, <1>3 DEF Exclusion!Next

\* A request joins when its lease commits: the pause it read still stands.
LEMMA RequestRefines ==
  ASSUME IInv, NEW r \in Requests, Request(r) PROVE [Exclusion!Next]_Exclusion!vars
  <1> USE DEF IInv, TypeOK, Active, Sessions, Up
  <1>1. CASE AdmitCommit(r) /\ Up(r)
    <2>1. ~control.paused BY <1>1 DEF AdmitCommit, AdmissionClosed
    <2>2. Active' = Active \cup {r} BY <1>1 DEF AdmitCommit, requestVars
    <2>3. Exclusion!Join(r) BY <1>1, <2>1, <2>2 DEF AdmitCommit, Exclusion!Join
    <2> QED BY <2>3 DEF Exclusion!Next
  <1>2. CASE ~(AdmitCommit(r) /\ Up(r))
    <2>1. Active' \subseteq Active /\ control' = control /\ fence' = fence
      BY <1>2 DEF Request, Begin, AbortBegin, AdmitRead, AdmitCommit,
        BeginFails, BeginReply, BeginReplyLost, Expire, Settle, ReleaseCommit,
        ReleaseFails
    <2> QED BY <2>1, Leaving
  <1> QED BY <1>1, <1>2

\* A transaction joins when it finds production unpaused under the fence.
LEMMA TransactionRefines ==
  ASSUME IInv, NEW s \in Sessions, Transaction(s)
  PROVE  [Exclusion!Next]_Exclusion!vars
  <1> USE DEF IInv, TypeOK, Active, Sessions, Up, requestVars
  <1>1. CASE FenceRead(s) /\ ~control.paused
    <2>1. Active' = Active \cup {s} BY <1>1 DEF FenceRead
    <2>2. Exclusion!Join(s) BY <1>1, <2>1 DEF FenceRead, Exclusion!Join
    <2> QED BY <2>2 DEF Exclusion!Next
  <1>2. CASE ~(FenceRead(s) /\ ~control.paused)
    <2>1. Active' \subseteq Active /\ control' = control /\ fence' = fence
      BY <1>2 DEF Transaction, TxBegin, FenceLock, FenceRead, GuardRefuses, TxEnd
    <2> QED BY <2>1, Leaving
  <1> QED BY <1>1, <1>2

\* The script closes admission when its pause commits, has the data to itself
\* when it gets the fence, and yields it as it ends.
LEMMA RestoreRefines ==
  ASSUME IInv, RestoreStep PROVE [Exclusion!Next]_Exclusion!vars
  <1> USE DEF IInv, TypeOK, Active, Sessions, Up, requestVars
  <1>1. CASE PauseCommit
    <2>1. Exclusion!Close BY <1>1 DEF PauseCommit, Exclusion!Close
    <2> QED BY <2>1 DEF Exclusion!Next
  <1>2. CASE FenceAcquire
    <2>1. control.paused /\ \A r \in Requests : lease[r] = "none"
      BY <1>2 DEF FenceAcquire, Ownership, Drained, Prepared
    <2>2. Active = {} BY <1>2, <2>1 DEF FenceAcquire, FenceSharedHeld, Coverage
    <2>3. Exclusion!Seize BY <1>2, <2>1, <2>2 DEF FenceAcquire, Exclusion!Seize
    <2> QED BY <2>3 DEF Exclusion!Next
  <1>3. CASE UnlockSession
    <2>1. Exclusion!Yield BY <1>3 DEF UnlockSession, Exclusion!Yield
    <2> QED BY <2>1 DEF Exclusion!Next
  <1>4. CASE ~PauseCommit /\ ~FenceAcquire /\ ~UnlockSession
    <2>1. Active' = Active /\ fence' = fence
      BY <1>4 DEF RestoreStep, RestoreWork, PauseLock, PauseRollback, Drain, Quiesce,
        DatabaseCommit, NativeDatabaseCommit, NativeCommitLost, RecordState,
        RecordManifest, AuthorityReconcile, Cron, StorageBegin, StorageVerify,
        VerifyBegin, FinalResample, Seal, Hold, FinalEvent, RestoreFail,
        FailControl, FailEvent, SetControl
    <2>2. control'.paused = control.paused
      BY <1>4 DEF RestoreStep, RestoreWork, PauseLock, PauseRollback, Drain, Quiesce,
        DatabaseCommit, NativeDatabaseCommit, NativeCommitLost, RecordState,
        RecordManifest, AuthorityReconcile, Cron, StorageBegin, StorageVerify,
        VerifyBegin, FinalResample, Seal, Hold, FinalEvent, RestoreFail,
        FailControl, FailEvent, SetControl
    <2> QED BY <2>1, <2>2 DEF Exclusion!vars
  <1> QED BY <1>1, <1>2, <1>3, <1>4

\* Production reopens over data nobody works on.
LEMMA ReconcileRefines ==
  ASSUME IInv, Reconcile PROVE [Exclusion!Next]_Exclusion!vars
  <1> USE DEF IInv, TypeOK, Active, Sessions, Up, requestVars
  <1>1. CASE ApplyResume
    <2>1. fence # "restore"
      BY <1>1 DEF ApplyResume, SessionLockFree, Ownership, Exclusive, Prepared,
        Unwinding
    <2>2. Replaced BY <1>1 DEF ApplyResume, HeldEvidence, Evidence
    <2>3. Active = {} BY <2>2 DEF Drained, Coverage
    <2>4. Exclusion!Reopen
      BY <1>1, <2>1, <2>3 DEF ApplyResume, Exclusion!Reopen
    <2> QED BY <2>4 DEF Exclusion!Next
  <1>2. CASE ~ApplyResume
    <2>1. Active' = Active /\ control' = control /\ fence' = fence
      BY <1>2 DEF Reconcile, SignLeaseReconciliation, LeaseReconciliationStart,
        LeaseReconciliationCommit, LeaseReconciliationFails, SignResume
    <2> QED BY <2>1 DEF Exclusion!vars
  <1> QED BY <1>1, <1>2

\* The database, the gate and the scripts together implement the abstract
\* exclusion: whatever is proved of RestoreExclusion holds of them.
THEOREM Refinement == Spec => ImplementsExclusion
  <1>1. ASSUME Init PROVE Exclusion!Init
    BY <1>1 DEF Init, Exclusion!Init, Active, Sessions
  <1>2. ASSUME IInv, [Next]_vars PROVE [Exclusion!Next]_Exclusion!vars
    <2> USE DEF IInv, TypeOK, Active, Sessions, Up, requestVars
    <2>1. CASE \E r \in Requests : Request(r) BY <1>2, <2>1, RequestRefines
    <2>2. CASE \E s \in Sessions : Transaction(s) BY <1>2, <2>2, TransactionRefines
    <2>3. CASE \E p \in Processes : Terminate(p)
      <3>1. Active' \subseteq Active /\ control' = control /\ fence' = fence
        BY <1>2, <2>3 DEF Terminate
      <3> QED BY <1>2, <3>1, Leaving
    <2>4. CASE SignRestore \/ RestorePreflight
      BY <2>4 DEF SignRestore, RestorePreflight, Exclusion!vars
    <2>5. CASE RestoreStep BY <1>2, <2>5, RestoreRefines
    <2>6. CASE RestoreCrash
      <3>1. Exclusion!Yield BY <2>6 DEF RestoreCrash, Exclusion!Yield
      <3> QED BY <3>1 DEF Exclusion!Next
    <2>7. CASE UnlockFence \/ MigrationFence \/ MigrationEnd
      BY <2>7 DEF UnlockFence, MigrationFence, MigrationEnd, Exclusion!vars
    <2>8. CASE MigrationBegin \/ MigrationGivesUp
      BY <2>8 DEF MigrationBegin, MigrationGivesUp, Exclusion!vars
    <2>9. CASE Reconcile BY <1>2, <2>9, ReconcileRefines
    <2>10. CASE UNCHANGED vars BY <2>10 DEF vars, Exclusion!vars
    <2> QED BY <1>2, <2>1, <2>2, <2>3, <2>4, <2>5, <2>6, <2>7, <2>8, <2>9,
              <2>10 DEF Next
  <1> QED BY <1>1, <1>2, Inductive, PTL DEF Spec, ImplementsExclusion, Exclusion!Spec

=============================================================================
