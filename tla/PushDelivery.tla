----------------------------- MODULE PushDelivery -----------------------------
(* Delivery of push notifications to one employee's phone: the durable job     *)
(* queue with its leases, the workers that claim and deliver, the marker each  *)
(* kind of job sets before the provider is called (a receipt row for a native  *)
(* job, the dispatch columns of a reminder), the registration of the phone and *)
(* what may happen to it meanwhile.                                            *)
(*                                                                             *)
(* All jobs are for one credential and one assignment epoch.  A lease token is *)
(* the number of the attempt that took it, and a token generation the number   *)
(* of the registered FCM token; 0 is none.                                     *)
EXTENDS Integers, Sequences, FiniteSets

CONSTANTS
    Workers,      \* the sweep and the operational worker
    Sweepers,     \* those that enqueue reminders first
    Native,       \* messages, locations, lunch coverage: jobs with a receipt
    Reminders,    \* event reminders: jobs with an instance row
    MaxAttempts,  \* the column max_attempts of each job
    MaxToken,     \* BOUND: FCM tokens the phone registers
    MaxJobs       \* BOUND: jobs that come up for the recipient

Jobs == Native \cup Reminders

ASSUME JobKinds == Native \cap Reminders = {}
ASSUME Bounds == MaxAttempts \in [Jobs -> Nat \ {0}] /\ MaxToken \in Nat \ {0} /\ MaxJobs \in Nat

VARIABLES
    job,          \* operational_notification_jobs
    receipt,      \* employee_native_push_delivery_receipts
    instance,     \* event_push_instances
    registration, \* employee_push_registrations, the row of the epoch
    assigned,     \* the credential and the epoch still hold
    event,        \* "none" yet, "owned" by the employee, "moved", or "edited" for good
    worker,
    alert,        \* the manager alert of a native job: the evidence it states
    calls         \* history: what the provider did

vars == <<job, receipt, instance, registration, assigned, event, worker, alert, calls>>
rows == <<job, receipt, instance, registration>>

Tokens == 1..MaxToken
NoMark == [lease |-> 0, gen |-> 0]
Idle == [pc |-> "idle", batch |-> <<>>, gen |-> 0, why |-> "none"]

Init ==
    /\ job = [j \in Jobs |-> [status |-> "absent", attempts |-> 0, lease |-> 0, expired |-> FALSE, superseded |-> FALSE]]
    /\ receipt = [j \in Native |-> [state |-> "none", mark |-> NoMark]]
    /\ instance = [j \in Reminders |-> [state |-> "absent", mark |-> NoMark, superseded |-> FALSE]]
    /\ registration = [active |-> TRUE, gen |-> 1, success |-> FALSE]
    /\ assigned = TRUE
    /\ event = [j \in Reminders |-> "none"]
    /\ worker = [w \in Workers |-> Idle]
    /\ alert = [j \in Native |-> "none"]
    /\ calls = {}

-----------------------------------------------------------------------------
(* Rows. *)

Job(w) == Head(worker[w].batch).job
Lease(w) == Head(worker[w].batch).lease
Mark(w) == [lease |-> Lease(w), gen |-> worker[w].gen]

LeaseCurrent(j, t) == job[j].status = "leased" /\ job[j].lease = t /\ ~job[j].expired
\* Mutant: the attempts are counted and not limited.
ClaimableForever(j) == job[j].status = "pending" \/ (job[j].status = "leased" /\ job[j].expired)
Claimable(j) ==
    /\ job[j].status = "pending" \/ (job[j].status = "leased" /\ job[j].expired)
    /\ job[j].attempts < MaxAttempts[j]

Take(r) ==
    [r EXCEPT !.status = "leased", !.attempts = @ + 1, !.lease = r.attempts + 1, !.expired = FALSE]
Kill(r, why) == [r EXCEPT !.status = "dead", !.superseded = why]
Cancel(i, why) == [i EXCEPT !.state = "cancelled", !.superseded = why]
Dispatched(i, mark) == [i EXCEPT !.state = "leased", !.mark = mark]
Undone(i) == [i EXCEPT !.state = "failed", !.mark = NoMark]
Unsent(i) == i.state \in {"pending", "leased", "failed"}

Authorized == assigned /\ registration.active

\* What the recipient's loss leaves of the rows: with leased jobs, or without.
KillJobs(leased) ==
    job' = [j \in Jobs |->
        IF job[j].status = "pending" \/ (job[j].status = "leased" /\ (leased \/ job[j].expired))
        THEN Kill(job[j], FALSE) ELSE job[j]]
DropRecipient(leased) ==
    /\ registration' = [registration EXCEPT !.active = FALSE]
    /\ instance' = [j \in Reminders |->
           IF instance[j].state \in {"pending", "leased"} THEN Cancel(instance[j], FALSE) ELSE instance[j]]
    /\ KillJobs(leased)
    /\ UNCHANGED receipt

-----------------------------------------------------------------------------
(* Where a delivery goes next.  why: "done", "retry", "rejected" (the token),  *)
(* or "terminal".                                                              *)

To(w, pc) == [worker[w] EXCEPT !.pc = pc]
Ends(w, why) == [worker[w] EXCEPT !.pc = "finish", !.why = why]
AfterBlame(w) == IF Job(w) \in Reminders THEN "clear" ELSE "finish"
Caught(w, why) ==
    [worker[w] EXCEPT !.why = why,
                      !.pc = IF why # "terminal" /\ worker[w].gen # 0 THEN "blame" ELSE AfterBlame(w)]
Released(w) == [worker[w] EXCEPT !.pc = "blame"]
Advance(w) ==
    LET rest == Tail(worker[w].batch)
    IN  IF rest = <<>> THEN Idle ELSE [Idle EXCEPT !.pc = "start", !.batch = rest]

\* A call to the database that throws, whether or not it took effect.
Failed(w) ==
    CASE worker[w].pc \in {"idle", "claiming", "finish"} -> Idle
      [] worker[w].pc \in {"start", "resolve", "recheck", "prepare"} -> Caught(w, "retry")
      [] worker[w].pc = "record" -> Caught(w, "terminal")
      [] worker[w].pc \in {"release", "blame", "clear"} -> Ends(w, "retry")

Step(w, s) == worker' = [worker EXCEPT ![w] = s]
Reply(w, s) == \E r \in {s, Failed(w)} : Step(w, r)

\* The call never reached the database.
CallFails(w) ==
    /\ worker[w].pc \notin {"idle", "send"}
    /\ Step(w, Failed(w))
    /\ UNCHANGED <<rows, assigned, event, alert, calls>>

-----------------------------------------------------------------------------
(* The sweep: enqueue, claim a batch, deliver it. *)

\* An instance is made pending again only if it was never dispatched.
Enqueues(j) ==
    /\ Authorized /\ event[j] = "owned"
    /\ instance[j].mark = NoMark /\ instance[j].state # "sent"
    /\ instance[j].state \in {"absent", "pending"} \/ (instance[j].state = "cancelled" /\ instance[j].superseded)

EnqueuedInstance(j) ==
    IF Enqueues(j) THEN [instance[j] EXCEPT !.state = "pending", !.superseded = FALSE]
    ELSE IF instance[j].state \in {"pending", "leased"} /\ ~(Authorized /\ event[j] = "owned")
         THEN Cancel(instance[j], TRUE)
         ELSE instance[j]
EnqueuedJob(j) ==
    LET requeued == Enqueues(j) /\ (job[j].status = "absent" \/ (job[j].status = "dead" /\ job[j].superseded))
    IN  IF requeued THEN [job[j] EXCEPT !.status = "pending", !.superseded = FALSE]
        ELSE IF job[j].status \in {"pending", "leased"} /\ EnqueuedInstance(j).state = "cancelled"
             THEN Kill(job[j], TRUE)
             ELSE job[j]

\* Native jobs end with their recipient, whatever their lease or receipt; a
\* location notice also when it was acknowledged or its cycle is past.
SweptJob(j, past) ==
    IF job[j].status \in {"pending", "leased"} /\ (~Authorized \/ past) THEN Kill(job[j], FALSE) ELSE job[j]

StartSweep(w) ==
    /\ worker[w].pc = "idle"
    /\ Reply(w, To(w, "claiming"))
    /\ IF w \in Sweepers
       THEN /\ instance' = [j \in Reminders |-> EnqueuedInstance(j)]
            /\ \E past \in SUBSET Native :
                   job' = [j \in Jobs |-> IF j \in Reminders THEN EnqueuedJob(j) ELSE SweptJob(j, j \in past)]
       ELSE UNCHANGED <<instance, job>>
    /\ UNCHANGED <<receipt, registration, assigned, event, alert, calls>>

Claim(w, j) ==
    /\ worker[w].pc = "claiming"
    /\ \A n \in 1..Len(worker[w].batch) : worker[w].batch[n].job # j
    /\ Claimable(j)
    /\ LET t == job[j].attempts + 1
       IN  /\ job' = [job EXCEPT ![j] = Take(@)]
           /\ Reply(w, [worker[w] EXCEPT !.batch = Append(@, [job |-> j, lease |-> t])])
    /\ UNCHANGED <<receipt, instance, registration, assigned, event, alert, calls>>

Deliver(w) ==
    /\ worker[w].pc = "claiming"
    /\ Step(w, IF worker[w].batch = <<>> THEN Idle ELSE To(w, "start"))
    /\ UNCHANGED <<rows, assigned, event, alert, calls>>

-----------------------------------------------------------------------------
(* deliverClaimedJob. *)

\* Mutant: a prepared receipt is taken for a delivered one.
StartTrustsPrepared(w) ==
    /\ worker[w].pc = "start"
    /\ Reply(w, IF Job(w) \in Native /\ receipt[Job(w)].state # "none" THEN Ends(w, "done") ELSE To(w, "resolve"))
    /\ UNCHANGED <<rows, assigned, event, alert, calls>>
\* A native job looks for the receipt of an earlier attempt.
Start(w) ==
    LET j == Job(w)
    IN  /\ worker[w].pc = "start"
        /\ Reply(w, IF j \in Reminders THEN To(w, "resolve")
                    ELSE IF ~LeaseCurrent(j, Lease(w)) \/ receipt[j].state = "prepared"
                         THEN Caught(w, "terminal")
                         ELSE IF receipt[j].state = "delivered" THEN Ends(w, "done") ELSE To(w, "resolve"))
        /\ UNCHANGED <<rows, assigned, event, alert, calls>>

\* mz_resolve_employee_push_delivery, alone or as the first step of another call.
Resolves(w, next) ==
    IF Authorized
    THEN Reply(w, next) /\ UNCHANGED rows
    ELSE DropRecipient(FALSE) /\ Reply(w, Caught(w, "terminal"))

Resolved(w) ==
    [worker[w] EXCEPT !.gen = registration.gen, !.pc = IF @ = "resolve" THEN "recheck" ELSE "prepare"]
Resolve(w) ==
    /\ worker[w].pc \in {"resolve", "recheck"}
    /\ Resolves(w, Resolved(w))
    /\ UNCHANGED <<assigned, event, alert, calls>>

\* A location notice may no longer be true.
Outdated(w) ==
    /\ worker[w].pc = "prepare" /\ Job(w) \in Native
    /\ Step(w, Caught(w, "terminal"))
    /\ UNCHANGED <<rows, assigned, event, alert, calls>>

PrepareNative(w) ==
    LET j == Job(w)
    IN  /\ worker[w].pc = "prepare" /\ j \in Native
        /\ IF ~Authorized THEN Resolves(w, worker[w])
           ELSE IF registration.gen = worker[w].gen /\ LeaseCurrent(j, Lease(w)) /\ receipt[j].state = "none"
                THEN /\ receipt' = [receipt EXCEPT ![j] = [state |-> "prepared", mark |-> Mark(w)]]
                     /\ Reply(w, To(w, "send"))
                     /\ UNCHANGED <<job, instance, registration>>
                ELSE Reply(w, Caught(w, "terminal")) /\ UNCHANGED rows
        /\ UNCHANGED <<assigned, event, alert, calls>>

\* Every refusal but the first also cancels the reminder.
MayDispatch(j, t) ==
    /\ LeaseCurrent(j, t)
    /\ event[j] = "owned"
    /\ instance[j].state \in {"pending", "failed"}

ClaimReminder(w) ==
    LET j == Job(w)
        i == instance[j]
    IN  /\ worker[w].pc = "prepare" /\ j \in Reminders
        /\ IF ~Authorized THEN Resolves(w, worker[w])
           ELSE IF registration.gen # worker[w].gen
           THEN Reply(w, Caught(w, "terminal")) /\ UNCHANGED rows
           ELSE IF LeaseCurrent(j, Lease(w)) /\ i.state = "sent" /\ event[j] # "edited"
           THEN Reply(w, Ends(w, "done")) /\ UNCHANGED rows
           ELSE /\ UNCHANGED <<job, receipt, registration>>
                /\ IF MayDispatch(j, Lease(w))
                   THEN /\ instance' = [instance EXCEPT ![j] = Dispatched(@, Mark(w))]
                        /\ Reply(w, To(w, "send"))
                   ELSE /\ instance' = [instance EXCEPT ![j] =
                               IF Unsent(i) THEN Cancel(i, LeaseCurrent(j, Lease(w)) /\ event[j] # "owned") ELSE i]
                        /\ Reply(w, Caught(w, "terminal"))
        /\ UNCHANGED <<assigned, event, alert, calls>>

Accepts(w) == calls' = calls \cup {[job |-> Job(w), mark |-> Mark(w), result |-> "accepted"]}
Rejects(w) == calls' = calls \cup {[job |-> Job(w), mark |-> Mark(w), result |-> "rejected"]}

\* Mutant: a lost answer counts as a refusal.
SendLostIsRefused(w) ==
    /\ worker[w].pc = "send"
    /\ \/ Accepts(w) /\ Step(w, To(w, "record"))
       \/ (Accepts(w) \/ UNCHANGED calls) /\ Step(w, [worker[w] EXCEPT !.pc = "release", !.why = "retry"])
       \/ Rejects(w) /\ Step(w, [worker[w] EXCEPT !.pc = "release", !.why = "rejected"])
    /\ UNCHANGED <<rows, assigned, event, alert>>
\* pushRuntime.send: the access token, the request, the answer.
Send(w) ==
    /\ worker[w].pc = "send"
    /\ \/ Accepts(w) /\ Step(w, To(w, "record"))
       \/ \* the answer is lost, whatever it was
          (Accepts(w) \/ UNCHANGED calls) /\ Step(w, Caught(w, "terminal"))
       \/ \* an explicit refusal, or no request at all
          UNCHANGED calls /\ Step(w, [worker[w] EXCEPT !.pc = "release", !.why = "retry"])
       \/ \* the token is not registered any more
          Rejects(w) /\ Step(w, [worker[w] EXCEPT !.pc = "release", !.why = "rejected"])
    /\ UNCHANGED <<rows, assigned, event, alert>>

RecordNative(w) ==
    LET j == Job(w)
    IN  /\ worker[w].pc = "record" /\ j \in Native
        /\ IF ~Authorized THEN Resolves(w, worker[w])
           ELSE IF registration.gen = worker[w].gen /\ LeaseCurrent(j, Lease(w))
                   /\ receipt[j] = [state |-> "prepared", mark |-> Mark(w)]
                THEN /\ receipt' = [receipt EXCEPT ![j] = [@ EXCEPT !.state = "delivered"]]
                     /\ registration' = [registration EXCEPT !.success = TRUE]
                     /\ Reply(w, Ends(w, "done"))
                     /\ UNCHANGED <<job, instance>>
                ELSE Reply(w, Caught(w, "terminal")) /\ UNCHANGED rows
        /\ UNCHANGED <<assigned, event, alert, calls>>

RecordReminder(w) ==
    LET j == Job(w)
        i == instance[j]
    IN  /\ worker[w].pc = "record" /\ j \in Reminders
        /\ IF ~Authorized THEN Resolves(w, worker[w])
           ELSE /\ IF /\ LeaseCurrent(j, Lease(w)) /\ registration.gen = worker[w].gen
                      /\ i.state = "leased" /\ i.mark = Mark(w) /\ event[j] # "edited"
                   THEN /\ instance' = [instance EXCEPT ![j] = [@ EXCEPT !.state = "sent"]]
                        /\ registration' = [registration EXCEPT !.success = TRUE]
                        /\ Reply(w, Ends(w, "done"))
                   ELSE /\ instance' = [instance EXCEPT ![j] = IF Unsent(i) THEN Cancel(i, FALSE) ELSE i]
                        /\ UNCHANGED registration
                        /\ Reply(w, Caught(w, "terminal"))
                /\ UNCHANGED <<job, receipt>>
        /\ UNCHANGED <<assigned, event, alert, calls>>

\* The provider refused: the marker goes, if it is still this delivery's.
Release(w) ==
    LET j == Job(w)
        own == /\ LeaseCurrent(j, Lease(w))
               /\ IF j \in Reminders
                  THEN instance[j].state = "leased" /\ instance[j].mark = Mark(w)
                  ELSE receipt[j] = [state |-> "prepared", mark |-> Mark(w)]
    IN  /\ worker[w].pc = "release"
        /\ IF ~own THEN Reply(w, Ends(w, "terminal")) /\ UNCHANGED <<receipt, instance>>
           ELSE /\ Reply(w, Released(w))
                /\ IF j \in Reminders
                   THEN /\ instance' = [instance EXCEPT ![j] = Undone(@)]
                        /\ UNCHANGED receipt
                   ELSE /\ receipt' = [receipt EXCEPT ![j] = [state |-> "none", mark |-> NoMark]]
                        /\ UNCHANGED instance
        /\ UNCHANGED <<job, registration, assigned, event, alert, calls>>

\* mz_record_employee_push_delivery: a failure is that of one token generation.
\* Mutant: the registration is found by its key, which outlives its token.
TokenCurrentByRow(w) == registration.active /\ worker[w].gen # 0
TokenCurrent(w) == registration.active /\ registration.gen = worker[w].gen
Blame(w) ==
    /\ worker[w].pc = "blame"
    /\ registration' = [registration EXCEPT !.active = @ /\ ~(TokenCurrent(w) /\ worker[w].why = "rejected")]
    /\ Reply(w, [worker[w] EXCEPT !.pc = AfterBlame(w), !.why = IF TokenCurrent(w) THEN @ ELSE "retry"])
    /\ UNCHANGED <<job, receipt, instance, assigned, event, alert, calls>>

\* The update names the instance and its state, no lease.
Clear(w) ==
    LET j == Job(w)
    IN  /\ worker[w].pc = "clear"
        /\ instance' = [instance EXCEPT ![j] =
               IF ~Unsent(@) THEN @
               ELSE IF worker[w].why = "terminal" THEN Cancel(@, FALSE)
               ELSE [Undone(@) EXCEPT !.superseded = FALSE]]
        /\ Reply(w, To(w, "finish"))
        /\ UNCHANGED <<job, receipt, registration, assigned, event, alert, calls>>

FreeLease(r) == [r EXCEPT !.lease = 0, !.expired = FALSE]
Settle(r, status) == [FreeLease(r) EXCEPT !.superseded = FALSE, !.status = status]

\* Mutant: only a delivered receipt speaks against a failure.
EvidenceOfDelivery(j) == IF receipt[j].state = "delivered" THEN "accepted" ELSE "failed"
\* The alert about a lost lunch notice states what the receipt shows.
Evidence(j) ==
    CASE receipt[j].state = "none" -> "failed"
      [] receipt[j].state = "prepared" -> "unconfirmed"
      [] receipt[j].state = "delivered" -> "accepted"

FinishTerminal(w) ==
    LET j == Job(w)
    IN  /\ worker[w].pc = "finish" /\ worker[w].why \in {"terminal", "rejected"}
        /\ IF job[j].lease = Lease(w) /\ job[j].status \in {"leased", "dead"}
           THEN /\ job' = [job EXCEPT ![j] = Kill(FreeLease(@), FALSE)]
                /\ alert' = IF j \in Native THEN [alert EXCEPT ![j] = Evidence(j)] ELSE alert
                /\ Reply(w, Advance(w))
           ELSE Step(w, Idle) /\ UNCHANGED <<job, alert>>
        /\ UNCHANGED <<receipt, instance, registration, assigned, event, calls>>

\* Only the token of the lease is compared, not its time.
Finish(w) ==
    LET j == Job(w)
    IN  /\ worker[w].pc = "finish" /\ worker[w].why \in {"done", "retry"}
        /\ IF job[j].lease = Lease(w) /\ job[j].status = "leased"
           THEN /\ job' = [job EXCEPT ![j] = Settle(@,
                       IF worker[w].why = "done" THEN "completed"
                       ELSE IF job[j].attempts >= MaxAttempts[j] THEN "dead" ELSE "pending")]
                /\ Reply(w, Advance(w))
           ELSE Step(w, Idle) /\ UNCHANGED job
        /\ UNCHANGED <<receipt, instance, registration, assigned, event, alert, calls>>

-----------------------------------------------------------------------------
(* What happens around the workers. *)

Crash(w) ==
    /\ worker[w].pc # "idle"
    /\ Step(w, Idle)
    /\ UNCHANGED <<rows, assigned, event, alert, calls>>

Expire(j) ==
    /\ job[j].status = "leased" /\ ~job[j].expired
    /\ job' = [job EXCEPT ![j] = [@ EXCEPT !.expired = TRUE]]
    /\ UNCHANGED <<receipt, instance, registration, assigned, event, worker, alert, calls>>

\* Mutant: a new token inherits the success of the one it replaces.
RegisterInherits ==
    /\ assigned
    /\ \/ registration' = [registration EXCEPT !.active = TRUE]
       \/ registration.gen < MaxToken /\ registration' = [registration EXCEPT !.active = TRUE, !.gen = @ + 1]
    /\ UNCHANGED <<job, receipt, instance, assigned, event, worker, alert, calls>>
\* The phone registers the token it has, or a new one, or unregisters.
Register ==
    /\ assigned
    /\ \/ registration' = [registration EXCEPT !.active = TRUE]
       \/ /\ registration.gen < MaxToken
          /\ registration' = [active |-> TRUE, gen |-> registration.gen + 1, success |-> FALSE]
    /\ UNCHANGED <<job, receipt, instance, assigned, event, worker, alert, calls>>

Unregister ==
    /\ registration' = [registration EXCEPT !.active = FALSE]
    /\ UNCHANGED <<job, receipt, instance, assigned, event, worker, alert, calls>>

\* Another employee gets the phone, or its credential is revoked.
Reassign ==
    /\ assigned /\ assigned' = FALSE
    /\ \E leased \in BOOLEAN : DropRecipient(leased)
    /\ UNCHANGED <<event, worker, alert, calls>>

Room == Cardinality({j \in Native : job[j].status # "absent"} \cup {j \in Reminders : event[j] # "none"}) < MaxJobs

\* A message, a location coming due or a lunch handoff: the insert of the
\* producer, which does nothing when the job is there already.
Notify(j) ==
    /\ job[j].status = "absent" /\ Authorized /\ Room
    /\ job' = [job EXCEPT ![j] = [@ EXCEPT !.status = "pending"]]
    /\ UNCHANGED <<receipt, instance, registration, assigned, event, worker, alert, calls>>

MoveEvent(j) ==
    /\ event[j] # "edited" /\ (event[j] = "none" => Room)
    /\ \E e \in {"owned", "moved", "edited"} \ {event[j]} : event' = [event EXCEPT ![j] = e]
    /\ UNCHANGED <<rows, assigned, worker, alert, calls>>

Delivery(w) ==
    \/ Start(w) \/ Resolve(w) \/ Outdated(w) \/ PrepareNative(w) \/ ClaimReminder(w)
    \/ Send(w) \/ RecordNative(w) \/ RecordReminder(w)
    \/ Release(w) \/ Blame(w) \/ Clear(w) \/ FinishTerminal(w) \/ Finish(w)

Next ==
    \/ \E w \in Workers : StartSweep(w) \/ Deliver(w) \/ Delivery(w) \/ CallFails(w) \/ Crash(w)
    \/ \E w \in Workers, j \in Jobs : Claim(w, j)
    \/ \E j \in Jobs : Expire(j)
    \/ \E j \in Native : Notify(j)
    \/ \E j \in Reminders : MoveEvent(j)
    \/ Register \/ Unregister \/ Reassign

Spec == Init /\ [][Next]_vars

-----------------------------------------------------------------------------
(* Properties. *)

Marks == [lease : Nat, gen : 0..MaxToken]
\* Every row has its columns' types, and no lease token is newer than the
\* attempts the claims have counted, which stay within the limit.
TypeOK ==
    /\ \A j \in Jobs : job[j].lease <= job[j].attempts /\ job[j].attempts <= MaxAttempts[j]
    /\ job \in [Jobs -> [status : {"absent", "pending", "leased", "completed", "dead"},
                         attempts : Nat, lease : Nat, expired : BOOLEAN, superseded : BOOLEAN]]
    /\ receipt \in [Native -> [state : {"none", "prepared", "delivered"}, mark : Marks]]
    /\ instance \in [Reminders -> [state : {"absent", "pending", "leased", "failed", "sent", "cancelled"},
                                   mark : Marks, superseded : BOOLEAN]]
    /\ registration \in [active : BOOLEAN, gen : 1..MaxToken, success : BOOLEAN]
    /\ \A w \in Workers : worker[w].gen \in 0..MaxToken

Accepted(j) == {c \in calls : c.job = j /\ c.result = "accepted"}

\* The provider accepts a native notification at most once, over crashes, lost
\* answers, expired leases and every retry that follows.
NativeOnce == \A j \in Native : \A c, d \in Accepted(j) : c = d

\* What the tables say was delivered the provider did accept, under the lease
\* and the token they name, and a completed job has such a record; a reminder
\* whose dispatch is on record without a result is not queued again.
RecordsAreTrue ==
    /\ \A j \in Native : receipt[j].state = "delivered" => \E c \in Accepted(j) : c.mark = receipt[j].mark
    /\ \A j \in Reminders : instance[j].state = "sent" => \E c \in Accepted(j) : c.mark = instance[j].mark
    /\ \A j \in Jobs : job[j].status = "completed" =>
           IF j \in Native THEN receipt[j].state = "delivered" ELSE instance[j].state = "sent"
    /\ \A j \in Reminders : instance[j].mark # NoMark => instance[j].state # "pending"

\* A registration claims a successful delivery only of the token it has now.
SuccessIsOwn == registration.success =>
    \E c \in calls : c.mark.gen = registration.gen /\ c.result = "accepted"

\* What is on record of the deliveries is true: in the job, in the receipt or the
\* reminder's columns, and in the registration (deliverClaimedJob and its SQL).
RecordsHold == RecordsAreTrue /\ SuccessIsOwn

\* The manager is told that a lunch notice failed only if the phone cannot have
\* it, and that it was accepted only if it was.
AlertIsTrue == \A j \in Native :
    /\ alert[j] = "failed" => Accepted(j) = {}
    /\ alert[j] = "accepted" => Accepted(j) # {}

\* While the assignment holds, a delivery deactivates the registration only when
\* the provider rejected the token that is registered then.
RevokedByOwn ==
    [][(assigned /\ registration.active /\ ~registration'.active /\ worker' # worker) =>
           \E c \in calls : c.mark.gen = registration.gen /\ c.result = "rejected"]_vars

\* The contract test's sentence about reminders: "lease expiry during event FCM
\* must not permit a second provider dispatch".
ReminderOnce == \A j \in Reminders : \A c, d \in Accepted(j) : c = d
-----------------------------------------------------------------------------
(* The handover these deliveries implement. *)

Recorded == [j \in Native |-> receipt[j].state]
Taken == {j \in Native : Accepted(j) # {}}
Over == {j \in Native : job[j].status \in {"dead", "completed"}}

Handover == INSTANCE NoticeHandover WITH
    Notices <- Native, record <- Recorded, taken <- Taken, over <- Over, told <- alert

\* A native notice is handed to the provider just so: once, on record before and
\* after, and with the truth about it for the manager (PrepareNative to
\* FinishTerminal).
HandsOverOnce == Handover!Spec
=============================================================================
