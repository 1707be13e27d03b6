--------------------------- MODULE PhoneActivation ---------------------------
(* The activation of one assigned phone: a manager requests it, a maintenance  *)
(* workstation claims the token and dispatches it, the phone trades the token  *)
(* for a credential, confirms or cancels what it received, and reports the     *)
(* result.  Codes typed by hand, reassignment of the phone, revocations, the   *)
(* deadlines and the expiry job interfere at any time.                         *)
(*                                                                             *)
(* Every function of the database is one action: those of an activation hold   *)
(* the device row, those of an enrollment hold the operation, and what one of  *)
(* them reads without a lock (the credential, in confirm and native_result)    *)
(* leaves it in an order equal to some serial one.  A reply may be lost; the   *)
(* phone and the workstation may send any call that they could know enough to  *)
(* send, as often and as late as they like: whether the phone received a       *)
(* secret is not kept, for a phone that did not receive it makes no call with  *)
(* it.  An operation mints at most one credential, which has the operation's   *)
(* name here.  Credentials last for years and do not expire.                   *)
EXTENDS Integers, FiniteSets

CONSTANTS
    Ops,           \* operation ids
    Assigned,      \* BOUND: those a manager may request an activation under
    Typed,         \* BOUND: the codes that managers issue by hand
    First,         \* the credential the phone starts with
    MaxAttempts,   \* dispatches of one token
    MaxFailures,   \* wrong codes before a code is revoked
    MaxEpoch,      \* BOUND: assignments of the phone
    MaxPath        \* credentials on a path of replacements: 32

Codes == Ops \cup Typed
Creds == Ops \cup {First}

ASSUME Names == Assigned \subseteq Ops /\ Ops \cap Typed = {} /\ First \notin Ops
ASSUME Limits == MaxAttempts \in Nat \ {0} /\ MaxFailures \in Nat \ {0} /\ MaxEpoch \in Nat \ {0}
ASSUME PathLimit == MaxPath \in Nat \ {0, 1}

VARIABLES
    act,       \* custodial_assigned_activation_operations
    code,      \* device_auth_enrollment_codes; an activation's code has its name
    failed,    \* failed_attempts of each code
    enr,       \* device_auth_enrollment_operations
    cred,      \* device_auth_credentials: "live", or why it was revoked
    confirmed, \* the credentials with a confirmed_at
    edges,     \* custodial_device_credential_replacements
    epoch,     \* assignment_epoch of the device
    trusted,   \* the manager and the workstation are still trusted
    due,       \* the codes and activations past their expires_at
    lapsed,    \* the enrollments past their resume_expires_at
    replies,   \* the answers to its claims that the workstation received
    mintedFor  \* history: the epoch in which an operation minted

ledger == <<act, code, failed>>
auth == <<enr, cred, confirmed, edges, mintedFor>>
world == <<epoch, trusted, due, lapsed>>
vars == <<ledger, auth, world, replies>>

Dispatched == {"prepared", "delivered", "delivery_unknown"}
Stopped == {"native_active", "not_required", "expired", "cancelled"}
Gone == {"cancelled", "timeout", "revoked"}

NoActivation ==
    [state |-> "none", epoch |-> 0, version |-> 0, attempts |-> 0, reported |-> 0, before |-> {}]

Init ==
    /\ act = [o \in Ops |-> NoActivation]
    /\ code = [k \in Codes |-> "none"]
    /\ failed = [k \in Codes |-> 0]
    /\ enr = [o \in Ops |-> [status |-> "none", code |-> "none"]]
    /\ cred = [c \in Creds |-> IF c = First THEN "live" ELSE "none"]
    /\ confirmed = {First}
    /\ edges = {}
    /\ epoch = 1
    /\ trusted = TRUE
    /\ due = {} /\ lapsed = {}
    /\ replies = [o \in Ops |-> {}]
    /\ mintedFor = [o \in Ops |-> 0]

-----------------------------------------------------------------------------
(* Rows. *)

Waiting(a) == a.state \in Dispatched \cup {"requested"}
Overdue(o) == Waiting(act[o]) /\ o \in due

Stop(a, why) == [a EXCEPT !.state = why, !.version = @ + 1]

\* custodial_activation_expire_device: the activations and their codes after it.
\* Mutant: a request that was never claimed does not expire.
AfterExpiryOfClaims ==
    [o \in Ops |-> IF Overdue(o) /\ act[o].state # "requested" THEN Stop(act[o], "expired") ELSE act[o]]
AfterExpiry == [o \in Ops |-> IF Overdue(o) THEN Stop(act[o], "expired") ELSE act[o]]
\* The codes once the activations in S have stopped: what is unconsumed is revoked.
\* Mutant: the code outlives its activation.
CodesKept(S) == code
CodesWithout(S) ==
    [k \in Codes |-> IF k \in S /\ code[k] = "active" THEN "revoked" ELSE code[k]]
Expire == act' = AfterExpiry /\ code' = CodesWithout({o \in Ops : Overdue(o)})

Revoke(S, why) == [c \in Creds |-> IF c \in S /\ cred[c] = "live" THEN why ELSE cred[c]]

\* device_auth_issue_enrollment_code: one unconsumed code for each device.
Issue(k) == [x \in Codes |-> IF x = k THEN "active" ELSE IF code[x] = "active" THEN "revoked" ELSE code[x]]

-----------------------------------------------------------------------------
(* The manager and the workstation. *)

Request(o) ==
    /\ trusted /\ act[o].state = "none" /\ enr[o].status = "none"
    /\ \A p \in Ops : ~Waiting(AfterExpiry[p])
    /\ act' = [AfterExpiry EXCEPT ![o] =
           [NoActivation EXCEPT !.state = "requested", !.epoch = epoch,
                                !.before = {c \in Creds : cred[c] # "none"}]]
    /\ code' = CodesWithout({p \in Ops : Overdue(p)})
    /\ UNCHANGED <<failed, auth, world, replies>>

\* Any call about an activation past its deadline does no more than this.
ReadStatus ==
    /\ trusted
    /\ Expire
    /\ UNCHANGED <<failed, auth, world, replies>>

\* Mutant: one attempt too many.
AttemptLeftLate(a) == a.attempts <= MaxAttempts
AttemptLeft(a) == a.attempts < MaxAttempts

Dispatch(a) == [a EXCEPT !.state = "prepared", !.version = @ + 1, !.attempts = @ + 1]

Claim(o) ==
    /\ trusted
    /\ Waiting(act[o]) /\ o \notin due
    /\ AttemptLeft(act[o])
    /\ act[o].epoch = epoch
    /\ act' = [act EXCEPT ![o] = Dispatch(act[o])]
    /\ code' = IF act[o].state = "requested" THEN Issue(o) ELSE code
    /\ \/ replies' = [replies EXCEPT ![o] =
              @ \cup {[version |-> act'[o].version, attempt |-> act'[o].attempts]}]
       \/ UNCHANGED replies
    /\ UNCHANGED <<failed, auth, world>>

\* Mutant: the version is not compared.
ReportCurrentAlways(o, r) == act[o].state = "prepared"
ReportCurrent(o, r) == act[o].state = "prepared" /\ act[o].version = r.version

Reported(a, r, outcome) == [a EXCEPT !.state = outcome, !.version = @ + 1, !.reported = r.attempt]

Report(o, r, outcome) ==
    /\ trusted
    /\ o \notin due /\ ReportCurrent(o, r)
    /\ act' = [act EXCEPT ![o] = Reported(@, r, outcome)]
    /\ UNCHANGED <<code, failed, auth, world, replies>>

-----------------------------------------------------------------------------
(* The phone: trade a code for a credential. *)

\* custodial_activation_assert_consume, for an operation with an activation row.
MayTrade(o) ==
    /\ trusted
    /\ act[o].state \in Dispatched /\ o \notin due
    /\ act[o].epoch = epoch
    /\ code[o] # "revoked"
    /\ failed[o] < MaxFailures
    /\ code[o] = "consumed" => enr[o].status # "none"

\* The row and the code fit the call; a token without its activation is refused.
Admitted(o, k) ==
    IF act[o].state # "none" THEN k = o /\ MayTrade(o) ELSE k \in Typed

Active(k) == code[k] = "active" /\ k \notin due

\* A token reaches the phone through the workstation, a typed code by voice.
Knows(k) == IF k \in Ops THEN replies[k] # {} ELSE code[k] # "none"

Live == {c \in Creds : cred[c] = "live"}

\* Mutant: only a predecessor in use is recorded.
SuccessionOfConfirmed(o) == (Live \cap confirmed) \X {o}
Succession(o) == Live \X {o}

Mint(o, k) ==
    /\ Admitted(o, k) /\ Knows(k)
    /\ enr[o].status = "none" /\ Active(k)
    /\ cred' = [Revoke(Live, "renewed") EXCEPT ![o] = "live"]
    /\ edges' = edges \cup Succession(o)
    /\ code' = [code EXCEPT ![k] = "consumed"]
    /\ enr' = [enr EXCEPT ![o] = [status |-> "committed", code |-> k]]
    /\ mintedFor' = [mintedFor EXCEPT ![o] = epoch]
    /\ UNCHANGED <<act, failed, confirmed, world, replies>>

Lapsed(o) == enr[o].status = "committed" /\ o \in lapsed
Ends(o, status) == [enr EXCEPT ![o] = [status |-> status, code |-> @.code]]

\* The same call again: the same credential, unless it has ended meanwhile.
Resume(o) ==
    /\ enr[o].status = "committed" /\ Knows(enr[o].code)
    /\ Admitted(o, enr[o].code)
    /\ \/ /\ Lapsed(o)
          /\ enr' = Ends(o, "expired") /\ cred' = Revoke({o}, "timeout")
       \/ /\ ~Lapsed(o) /\ cred[o] # "live"
          /\ enr' = Ends(o, "cancelled") /\ UNCHANGED cred
    /\ UNCHANGED <<ledger, confirmed, edges, mintedFor, world, replies>>

\* A call of an operation that has no row, with a code that is not the active one.
WrongCode(o, k) ==
    /\ act[o].state = "none" /\ enr[o].status = "none"
    /\ code[k] = "active"
    /\ IF k \in due
       THEN /\ code' = [code EXCEPT ![k] = "revoked"]
            /\ UNCHANGED failed
       ELSE /\ failed[k] < MaxFailures
            /\ failed' = [failed EXCEPT ![k] = @ + 1]
            /\ code' = IF failed'[k] = MaxFailures THEN [code EXCEPT ![k] = "revoked"] ELSE code
    /\ UNCHANGED <<act, auth, world, replies>>

-----------------------------------------------------------------------------
(* The phone: keep or give back what it received, and report. *)

Confirm(o) ==
    /\ enr[o].status = "committed"
    /\ \/ /\ Lapsed(o)
          /\ enr' = Ends(o, "expired") /\ cred' = Revoke({o}, "timeout")
          /\ UNCHANGED confirmed
       \/ /\ ~Lapsed(o) /\ cred[o] # "live"
          /\ enr' = Ends(o, "cancelled")
          /\ UNCHANGED <<cred, confirmed>>
       \/ /\ ~Lapsed(o) /\ cred[o] = "live"
          /\ enr' = Ends(o, "confirmed") /\ confirmed' = confirmed \cup {o}
          /\ UNCHANGED cred
    /\ UNCHANGED <<ledger, edges, mintedFor, world, replies>>

\* Mutant: a confirmed operation can be cancelled.
CancellableLate(o) == enr[o].status \in {"committed", "confirmed"}
Cancellable(o) == enr[o].status = "committed"

Cancel(o) ==
    /\ Cancellable(o)
    /\ enr' = Ends(o, "cancelled") /\ cred' = Revoke({o}, "cancelled")
    /\ UNCHANGED <<ledger, confirmed, edges, mintedFor, world, replies>>

\* What the phone says against what the ledgers know.
\* Mutant: any credential in use earns it.
EarnedAnyhow(o, c) == c \in confirmed
Earned(o, c) == c = o /\ enr[o] = [status |-> "confirmed", code |-> o]
Healthy(o, c) == enr[o].status = "none" /\ c \in act[o].before /\ code[o] # "consumed"

NativeResult(o, c, outcome) ==
    /\ c \in confirmed /\ cred[c] = "live"
    /\ act[o].epoch = epoch
    /\ act[o].state \in Dispatched /\ o \notin due
    /\ outcome = "native_active" => Earned(o, c)
    /\ outcome = "not_required" => Healthy(o, c)
    /\ act' = [act EXCEPT ![o] = Stop(@, outcome)]
    /\ code' = CodesWithout({o})
    /\ UNCHANGED <<failed, auth, world, replies>>

Remove(c) ==
    /\ c \in confirmed /\ cred[c] = "live"
    /\ cred' = Revoke({c}, "revoked")
    /\ UNCHANGED <<ledger, enr, confirmed, edges, mintedFor, world, replies>>

-----------------------------------------------------------------------------
(* Managers, time and the expiry job. *)

\* The trigger on the device: the activations that wait are cancelled.
CancelledByMove == {o \in Ops : Waiting(act[o])}

Reassign ==
    /\ epoch < MaxEpoch
    /\ epoch' = epoch + 1
    /\ act' = [o \in Ops |-> IF o \in CancelledByMove THEN Stop(act[o], "cancelled") ELSE act[o]]
    /\ code' = CodesWithout(CancelledByMove)
    /\ UNCHANGED <<failed, auth, trusted, due, lapsed, replies>>

\* A code issued by hand is read to the phone's owner, who types it.
IssueByHand(k) ==
    /\ code[k] = "none"
    /\ code' = Issue(k)
    /\ UNCHANGED <<act, failed, auth, world, replies>>

RevokeCode(k) ==
    /\ code[k] = "active"
    /\ code' = [code EXCEPT ![k] = "revoked"]
    /\ UNCHANGED <<act, failed, auth, world, replies>>

\* By a manager, or a logout.
RevokeCredential(c) ==
    /\ cred[c] = "live"
    /\ cred' = Revoke({c}, "revoked")
    /\ UNCHANGED <<ledger, enr, confirmed, edges, mintedFor, world, replies>>

WithdrawTrust ==
    /\ trusted
    /\ trusted' = FALSE
    /\ UNCHANGED <<ledger, auth, epoch, due, lapsed, replies>>

Due(k) ==
    /\ k \notin due
    /\ code[k] = "active" \/ (k \in Ops /\ Waiting(act[k]))
    /\ due' = due \cup {k}
    /\ UNCHANGED <<ledger, auth, epoch, trusted, lapsed, replies>>

Lapse(o) ==
    /\ o \notin lapsed /\ enr[o].status = "committed"
    /\ lapsed' = lapsed \cup {o}
    /\ UNCHANGED <<ledger, auth, epoch, trusted, due, replies>>

Expiring == {o \in Ops : Lapsed(o)}

ExpiryJob ==
    /\ Expire
    /\ enr' = [o \in Ops |-> IF o \in Expiring THEN [enr[o] EXCEPT !.status = "expired"] ELSE enr[o]]
    /\ cred' = Revoke(Expiring, "timeout")
    /\ UNCHANGED <<failed, confirmed, edges, mintedFor, world, replies>>

-----------------------------------------------------------------------------
Next ==
    \/ \E o \in Assigned : Request(o) \/ Claim(o)
    \/ \E o \in Ops : \E r \in replies[o], outcome \in {"delivered", "delivery_unknown"} : Report(o, r, outcome)
    \/ ReadStatus
    \/ \E o \in Ops, k \in Codes : Mint(o, k) \/ WrongCode(o, k)
    \/ \E o \in Ops : Resume(o) \/ Confirm(o) \/ Cancel(o) \/ Lapse(o)
    \/ \E o \in Ops, c \in Creds, outcome \in {"native_active", "not_required"} : NativeResult(o, c, outcome)
    \/ \E c \in Creds : Remove(c) \/ RevokeCredential(c)
    \/ \E k \in Typed : IssueByHand(k)
    \/ \E k \in Codes : RevokeCode(k) \/ Due(k)
    \/ Reassign \/ WithdrawTrust \/ ExpiryJob

\* Deadlines pass, and the job of the database's scheduler runs every five minutes.
Fairness ==
    /\ \A k \in Codes : WF_vars(Due(k))
    /\ \A o \in Ops : WF_vars(Lapse(o))
    /\ WF_vars(ExpiryJob)

Spec == Init /\ [][Next]_vars /\ Fairness

-----------------------------------------------------------------------------
(* Properties. *)

\* The rows have the shape of their tables, no device has two codes in use or
\* two live credentials whoever issues and mints (the unique indexes), versions
\* only count what the dispatches and their reports can have done, and the
\* secret has left the service at most once for each counted dispatch.
TypeOK ==
    /\ act \in [Ops -> [state : {"none", "requested"} \cup Dispatched \cup Stopped,
                        epoch : 0..MaxEpoch, version : 0..(2 * MaxAttempts + 1),
                        attempts : 0..MaxAttempts, reported : 0..MaxAttempts,
                        before : SUBSET Creds]]
    /\ code \in [Codes -> {"none", "active", "consumed", "revoked"}]
    /\ failed \in [Codes -> 0..MaxFailures]
    /\ enr \in [Ops -> [status : {"none", "committed", "confirmed", "cancelled", "expired"},
                        code : Codes \cup {"none"}]]
    /\ cred \in [Creds -> {"none", "live", "renewed"} \cup Gone]
    /\ confirmed \subseteq Creds /\ edges \subseteq Creds \X Creds
    /\ epoch \in 1..MaxEpoch /\ trusted \in BOOLEAN
    /\ due \subseteq Codes /\ lapsed \subseteq Ops
    /\ replies \in [Ops -> SUBSET [version : 0..(2 * MaxAttempts), attempt : 0..MaxAttempts]]
    /\ mintedFor \in [Ops -> 0..MaxEpoch]
    /\ \A o \in Ops : Cardinality(replies[o]) <= act[o].attempts
    /\ \A j, k \in Codes : code[j] = "active" /\ code[k] = "active" => j = k
    /\ \A c, d \in Creds : cred[c] = "live" /\ cred[d] = "live" => c = d

\* However an activation stops (result, expiry, reassignment), its token mints
\* nothing any more: no code of a stopped activation is left to be used.
StoppedTokenIsDead == \A o \in Ops : act[o].state \in Stopped => code[o] # "active"

\* An activation is "native_active" only if its own token minted the credential
\* that was confirmed, for the assignment the manager asked it for, and
\* "not_required" only if it minted none, then and ever after.
OutcomeIsTrue == \A o \in Ops :
    /\ act[o].state = "native_active" =>
           /\ enr[o] = [status |-> "confirmed", code |-> o]
           /\ o \in confirmed
           /\ mintedFor[o] = act[o].epoch
    /\ act[o].state = "not_required" => enr[o].status = "none" /\ cred[o] = "none"

\* The delivery on record is the one of the last dispatch, whatever order the
\* reports of the dispatches arrive in.
ReportIsOfLastDispatch ==
    \A o \in Ops : act[o].state \in {"delivered", "delivery_unknown"} => act[o].reported = act[o].attempts

\* The lineage of c: the ends of its paths of replacements of at most MaxPath
\* credentials. A path that comes back to a credential of its own adds none.
Lineage(c) ==
    LET With(S) == S \cup {e[2] : e \in {f \in edges : f[1] \in S \cup {c}}}
        After[n \in 0..(MaxPath - 1)] == IF n = 0 THEN {} ELSE With(After[n - 1])
    IN  After[MaxPath - 1]

\* custodial_credential_may_transmit_frozen_work.
MayTransmit(c, d) ==
    IF c = d THEN cred[c] # "none" ELSE d \in Live \cap confirmed \cap Lineage(c)

\* "Preserve frozen employee work across an explicit manager-approved phone
\* credential renewal": whoever has the phone's credential after renewals can
\* send the work frozen under the confirmed one before, if no manager revoked a
\* credential on the way. The code breaks this when a successor that was never
\* confirmed is cancelled or lapses before the next is minted.
FrozenWorkKeepsSender ==
    \A c \in confirmed, d \in Live \cap confirmed :
        cred[c] = "renewed" =>
            MayTransmit(c, d) \/ \E x \in Lineage(c) : cred[x] = "revoked"

\* Work frozen under a credential has at most one heir, and none that was not
\* minted by its renewal: a renewed credential has exactly one successor, one that
\* was revoked, cancelled or lapsed has none, then and ever after, whichever
\* activation, typed code, expiry or retry came between.
LineageIsAChain ==
    \A c \in Creds :
        IF cred[c] = "renewed"
        THEN \E d \in Creds : \A e \in Creds : <<c, e>> \in edges <=> e = d
        ELSE \A e \in Creds : <<c, e>> \notin edges

\* Expiry and cancellation never take a credential that was confirmed: it ends
\* by a renewal that leaves the phone another one, or by hand.
ConfirmedEndsByHand ==
    [][\A c \in confirmed : cred[c] = "live" /\ cred'[c] # "live" =>
          \/ cred'[c] = "revoked"
          \/ cred'[c] = "renewed" /\ \E o \in Ops : cred[o] = "none" /\ cred'[o] = "live"]_vars

\* No activation blocks the phone for ever: it stops, whoever has gone silent;
\* and a credential that the phone never confirms does not stay live.
DeadlinesEnd == \A o \in Ops :
    /\ Waiting(act[o]) ~> ~Waiting(act[o])
    /\ (cred[o] = "live" /\ o \notin confirmed) ~> (cred[o] # "live" \/ o \in confirmed)
=============================================================================
