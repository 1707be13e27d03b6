----------------------- MODULE PhoneActivation_proofs -----------------------
(***************************************************************************)
(* Theorems of PhoneActivation, for any operations, typed codes, limits of *)
(* attempts and of wrong codes, and any number of assignments.             *)
(***************************************************************************)
EXTENDS PhoneActivation, FiniteSetTheorems, TLAPS

USE Names, Limits DEF Names, Limits

-----------------------------------------------------------------------------
(* The inductive invariant, by ledger. *)

States == {"none", "requested"} \cup Dispatched \cup Stopped
Acts == [state : States, epoch : 0..MaxEpoch, version : 0..(2 * MaxAttempts + 1),
         attempts : 0..MaxAttempts, reported : 0..MaxAttempts, before : SUBSET Creds]
Replies == [version : 0..(2 * MaxAttempts), attempt : 0..MaxAttempts]

ActTypes == act \in [Ops -> Acts] /\ replies \in [Ops -> SUBSET Replies]
CodeTypes ==
    /\ code \in [Codes -> {"none", "active", "consumed", "revoked"}]
    /\ failed \in [Codes -> 0..MaxFailures]
AuthTypes ==
    /\ enr \in [Ops -> [status : {"none", "committed", "confirmed", "cancelled", "expired"},
                        code : Codes \cup {"none"}]]
    /\ cred \in [Creds -> {"none", "live", "renewed"} \cup Gone]
    /\ confirmed \subseteq Creds /\ edges \subseteq Creds \X Creds
    /\ mintedFor \in [Ops -> 0..MaxEpoch]
WorldTypes ==
    /\ epoch \in 1..MaxEpoch /\ trusted \in BOOLEAN
    /\ due \subseteq Codes /\ lapsed \subseteq Ops

\* A version counts the dispatches, their reports and the stop.
VersionFits(a) ==
    /\ a.state \in {"none", "requested"} => a.version = 0 /\ a.attempts = 0
    /\ a.state = "prepared" => a.version <= 2 * a.attempts - 1
    /\ a.state \in {"delivered", "delivery_unknown"} => a.version <= 2 * a.attempts /\ a.reported = a.attempts
    /\ a.state \in Stopped => a.version <= 2 * a.attempts + 1

\* The replies the workstation has are of dispatches up to the present one.
RepliesFit(a, R) ==
    /\ IsFiniteSet(R) /\ Cardinality(R) <= a.attempts
    /\ \A r \in R : r.version <= a.version
    /\ \A r \in R : a.state = "prepared" /\ r.version = a.version => r.attempt = a.attempts

LedgerInv == \A o \in Ops : VersionFits(act[o]) /\ RepliesFit(act[o], replies[o])

OneCode == \A j, k \in Codes : code[j] = "active" /\ code[k] = "active" => j = k
OneCredential == \A c, d \in Creds : cred[c] = "live" /\ cred[d] = "live" => c = d

\* An enrollment has a credential once it has minted, and confirms it or not.
AuthInv == \A o \in Ops :
    /\ enr[o].status = "none" <=> cred[o] = "none"
    /\ o \in confirmed <=> enr[o].status = "confirmed"

FirstInv == cred[First] # "none"

\* A credential that an activation's own token minted is of its assignment.
MintedInv == \A o \in Ops :
    enr[o].status # "none" /\ enr[o].code = o =>
        act[o].state # "none" /\ mintedFor[o] = act[o].epoch

IInv ==
    /\ ActTypes /\ CodeTypes /\ AuthTypes /\ WorldTypes
    /\ LedgerInv /\ OneCode /\ StoppedTokenIsDead
    /\ OneCredential /\ AuthInv /\ FirstInv /\ LineageIsAChain
    /\ MintedInv /\ OutcomeIsTrue
-----------------------------------------------------------------------------
(* Lemmas: what the rows become. *)

\* The initial state.
LEMMA InitInv == Init => IInv
<1> SUFFICES ASSUME Init PROVE IInv
  OBVIOUS
<1>1. IsFiniteSet({}) /\ Cardinality({}) = 0
  BY FS_EmptySet
<1>2. ActTypes /\ CodeTypes /\ AuthTypes /\ WorldTypes
  BY DEF Init, ActTypes, CodeTypes, AuthTypes, WorldTypes, Acts, States, NoActivation, Gone, Creds, Codes
<1>3. LedgerInv /\ OneCode /\ StoppedTokenIsDead
  BY <1>1 DEF Init, LedgerInv, VersionFits, RepliesFit, NoActivation, OneCode, StoppedTokenIsDead, Codes, Stopped
<1>4. OneCredential /\ AuthInv /\ FirstInv /\ LineageIsAChain
  BY DEF Init, OneCredential, AuthInv, FirstInv, LineageIsAChain, Creds
<1>5. MintedInv /\ OutcomeIsTrue
  BY DEF Init, MintedInv, OutcomeIsTrue, NoActivation
<1> QED
  BY <1>2, <1>3, <1>4, <1>5 DEF IInv

\* The parts of the invariant about activations and codes.
LedgerPart ==
    ActTypes /\ CodeTypes /\ LedgerInv /\ OneCode /\ StoppedTokenIsDead

\* The parts about enrollments and credentials.
AuthPart ==
    AuthTypes /\ OneCredential /\ AuthInv /\ FirstInv /\ LineageIsAChain

LEMMA Parts ==
    /\ IInv <=> LedgerPart /\ AuthPart /\ WorldTypes /\ MintedInv /\ OutcomeIsTrue
    /\ IInv' <=> LedgerPart' /\ AuthPart' /\ WorldTypes' /\ MintedInv' /\ OutcomeIsTrue'
BY DEF IInv, LedgerPart, AuthPart

LEMMA LedgerFrame == LedgerPart /\ UNCHANGED <<ledger, replies>> => LedgerPart'
BY DEF LedgerPart, ActTypes, CodeTypes, LedgerInv, OneCode, StoppedTokenIsDead, ledger

LEMMA AuthFrame == AuthPart /\ UNCHANGED auth => AuthPart'
BY DEF AuthPart, AuthTypes, OneCredential, AuthInv, FirstInv, LineageIsAChain, auth

\* The row of an activation that stops.
LEMMA StopRow ==
    ASSUME NEW a \in Acts, NEW why \in Stopped, a.version <= 2 * MaxAttempts
    PROVE  /\ Stop(a, why) \in Acts /\ Stop(a, why).state = why
           /\ Stop(a, why).version = a.version + 1
           /\ Stop(a, why).attempts = a.attempts /\ Stop(a, why).epoch = a.epoch
<1> DEFINE b == [a EXCEPT !.state = why]
<1>1. /\ b \in Acts /\ b.state = why /\ b.version = a.version
      /\ b.attempts = a.attempts /\ b.epoch = a.epoch
  BY DEF Acts, States
<1>2. Stop(a, why) = [b EXCEPT !.version = a.version + 1]
  BY DEF Stop
<1> HIDE DEF b
<1> QED
  BY <1>1, <1>2 DEF Acts

\* An activation that stops, by its deadline, a new assignment or its result,
\* leaves the ledger in order, its code dead; so does one that is new beside it.
NewRow(a, b) ==
    /\ a.state = "none" /\ b \in Acts
    /\ b.state = "requested" /\ b.version = 0 /\ b.attempts = 0

LEMMA Stopping ==
    ASSUME LedgerPart, NEW why \in Stopped, NEW S \in SUBSET Ops, NEW new,
           \A o \in S : Waiting(act[o]),
           \A o \in Ops : new[o] = act[o] \/ NewRow(act[o], new[o]),
           act' = [o \in Ops |-> IF o \in S THEN Stop(act[o], why) ELSE new[o]],
           code' = CodesWithout(S), UNCHANGED <<failed, replies>>
    PROVE  LedgerPart'
<1>1. ASSUME NEW o \in S
      PROVE  /\ act'[o] \in Acts /\ act'[o].state = why
             /\ act'[o].version = act[o].version + 1
             /\ act'[o].attempts = act[o].attempts
             /\ VersionFits(act'[o])
  <2>1. act[o] \in Acts /\ VersionFits(act[o]) /\ act'[o] = Stop(act[o], why)
    BY DEF LedgerPart, ActTypes, LedgerInv
  <2>2. act[o].state \in {"requested", "prepared", "delivered", "delivery_unknown"}
    BY DEF Waiting, Dispatched
  <2>3. act[o].version <= 2 * act[o].attempts /\ act[o].attempts \in 0..MaxAttempts /\ act[o].version \in Nat
    BY <2>1, <2>2 DEF VersionFits, Acts
  <2>4. /\ act'[o].state = why /\ act'[o].version = act[o].version + 1
        /\ act'[o].attempts = act[o].attempts /\ act'[o] \in Acts
    <3>1. act[o].version <= 2 * MaxAttempts
      BY <2>3
    <3> QED
      BY <2>1, <3>1, StopRow
  <2> QED
    BY <2>3, <2>4 DEF VersionFits, Stopped, Dispatched
<1>2. ASSUME NEW o \in Ops \ S PROVE act'[o] = act[o] \/ NewRow(act[o], act'[o])
  OBVIOUS
<1>3. ActTypes' /\ CodeTypes'
  <2>1. \A o \in Ops : act'[o] \in Acts
    BY <1>1, <1>2 DEF LedgerPart, ActTypes, NewRow
  <2> QED
    BY <2>1 DEF LedgerPart, ActTypes, CodeTypes, CodesWithout
<1>4. ASSUME NEW o \in Ops PROVE VersionFits(act'[o]) /\ RepliesFit(act'[o], replies'[o])
  <2>1. CASE o \in S
    <3>1. \A r \in replies[o] : r.version \in Nat /\ act[o].version \in Nat
      BY DEF LedgerPart, ActTypes, Replies, Acts
    <3> QED
      BY <1>1, <2>1, <3>1 DEF LedgerPart, LedgerInv, RepliesFit, Stopped
  <2>2. CASE act'[o] = act[o]
    BY <2>2 DEF LedgerPart, LedgerInv
  <2>3. CASE NewRow(act[o], act'[o])
    BY <2>3 DEF LedgerPart, LedgerInv, NewRow, VersionFits, RepliesFit, Stopped
  <2> QED
    BY <1>2, <2>1, <2>2, <2>3
<1>5. OneCode' /\ StoppedTokenIsDead'
  BY <1>1, <1>2 DEF LedgerPart, OneCode, StoppedTokenIsDead, CodesWithout, Codes, NewRow, Stopped
<1> QED
  BY <1>3, <1>4, <1>5 DEF LedgerPart, LedgerInv

\* A code issued to a waiting activation or by hand is the only one in use.
LEMMA Issuing ==
    ASSUME CodeTypes, OneCode, NEW k \in Codes, code' = Issue(k), UNCHANGED failed
    PROVE  /\ CodeTypes' /\ OneCode'
           /\ \A j \in Codes : code'[j] = "active" => j = k
BY DEF CodeTypes, OneCode, Issue

\* Credentials that end, other than by a renewal, leave the replacements alone.
LEMMA Ending ==
    ASSUME AuthPart, NEW S \in SUBSET Creds, NEW why \in Gone,
           cred' = Revoke(S, why), UNCHANGED edges
    PROVE  /\ cred' \in [Creds -> {"none", "live", "renewed"} \cup Gone]
           /\ OneCredential' /\ FirstInv' /\ LineageIsAChain'
           /\ \A c \in Creds : cred'[c] = "none" <=> cred[c] = "none"
<1>1. cred' \in [Creds -> {"none", "live", "renewed"} \cup Gone]
  BY DEF AuthPart, AuthTypes, Revoke
<1>2. \A c \in Creds : cred'[c] = "none" <=> cred[c] = "none"
  BY DEF Revoke, Gone
<1>3. OneCredential' /\ FirstInv'
  BY <1>2 DEF AuthPart, OneCredential, FirstInv, Revoke, Gone, Creds
<1>4. LineageIsAChain'
  <2>1. \A c \in Creds : cred'[c] = "renewed" <=> cred[c] = "renewed"
    BY DEF AuthPart, AuthTypes, Revoke, Gone
  <2> QED
    BY <2>1 DEF AuthPart, LineageIsAChain
<1> QED
  BY <1>1, <1>2, <1>3, <1>4

\* What the activations claim survives a step of their ledger.
LEMMA LedgerSteps ==
    ASSUME MintedInv, OutcomeIsTrue, UNCHANGED auth,
           \A o \in Ops :
              \/ act'[o] = act[o]
              \/ /\ act'[o].state \notin {"none", "native_active", "not_required"}
                 /\ act'[o].epoch = act[o].epoch \/ enr[o].status = "none"
    PROVE  MintedInv' /\ OutcomeIsTrue'
BY DEF MintedInv, OutcomeIsTrue, auth

\* And a step of the enrollments, which mints nothing.
LEMMA AuthSteps ==
    ASSUME MintedInv, OutcomeIsTrue, UNCHANGED <<act, mintedFor>>,
           confirmed \subseteq confirmed',
           \A o \in Ops :
              /\ \/ enr'[o] = enr[o]
                 \/ /\ enr[o].status = "committed" /\ enr'[o].code = enr[o].code
                    /\ enr'[o].status # "none"
              /\ cred[o] = "none" => cred'[o] = "none"
    PROVE  MintedInv' /\ OutcomeIsTrue'
BY DEF MintedInv, OutcomeIsTrue
-----------------------------------------------------------------------------
(* Every step keeps the invariant. *)

LEMMA RequestInv == ASSUME IInv, NEW o \in Assigned, Request(o) PROVE IInv'
<1> DEFINE S == {p \in Ops : Overdue(p)}
           row == [NoActivation EXCEPT !.state = "requested", !.epoch = epoch,
                                       !.before = {c \in Creds : cred[c] # "none"}]
           new == [act EXCEPT ![o] = row]
<1> USE Parts
<1>1. /\ o \in Ops /\ act \in [Ops -> Acts] /\ act[o].state = "none"
      /\ o \notin S /\ \A p \in S : Waiting(act[p])
  BY DEF Request, LedgerPart, ActTypes, Overdue, Waiting, Dispatched
<1>2. NewRow(act[o], row)
  <2> DEFINE had == {c \in Creds : cred[c] # "none"}
             r1 == [NoActivation EXCEPT !.state = "requested"]
             r2 == [r1 EXCEPT !.epoch = epoch]
  <2>1. r1 = [state |-> "requested", epoch |-> 0, version |-> 0, attempts |-> 0,
              reported |-> 0, before |-> {}]
    BY DEF NoActivation
  <2>2. row = [r2 EXCEPT !.before = had]
    BY Zenon
  <2> HIDE DEF r1, row
  <2>3. r2 = [state |-> "requested", epoch |-> epoch, version |-> 0, attempts |-> 0,
              reported |-> 0, before |-> {}]
    BY <2>1
  <2> HIDE DEF r2
  <2>4. row = [state |-> "requested", epoch |-> epoch, version |-> 0, attempts |-> 0,
               reported |-> 0, before |-> had]
    BY <2>2, <2>3
  <2>5. epoch \in 0..MaxEpoch /\ had \in SUBSET Creds
    BY DEF WorldTypes
  <2> HIDE DEF had
  <2> QED
    BY <1>1, <2>4, <2>5 DEF NewRow, Acts, States
<1>3. act' = [p \in Ops |-> IF p \in S THEN Stop(act[p], "expired") ELSE new[p]]
  BY <1>1 DEF Request, AfterExpiry
<1>4. code' = CodesWithout(S) /\ UNCHANGED <<failed, auth, world, replies>>
  BY DEF Request
<1>5. \A p \in Ops : new[p] = act[p] \/ NewRow(act[p], new[p])
  BY <1>1, <1>2
<1>6. LedgerPart'
  <2> HIDE DEF S, new
  <2>1. S \in SUBSET Ops
    BY DEF S
  <2> QED
    BY <1>1, <1>3, <1>4, <1>5, <2>1, Stopping DEF Stopped
<1>7. MintedInv' /\ OutcomeIsTrue'
  <2>1. ASSUME NEW p \in S
        PROVE  act'[p].state \notin {"none", "native_active", "not_required"} /\ act'[p].epoch = act[p].epoch
    BY <1>1, <1>3 DEF Stop, Acts
  <2>2. act'[o].state = "requested" /\ enr[o].status = "none"
    BY <1>1, <1>3 DEF Request, NoActivation
  <2>3. \A p \in Ops : p \in S \/ p = o \/ act'[p] = act[p]
    BY <1>1, <1>3
  <2> QED
    BY <1>4, <2>1, <2>2, <2>3, LedgerSteps
<1> QED
  BY <1>4, <1>6, <1>7, AuthFrame DEF WorldTypes, world

\* Expiry alone, and the other ways to stop all that wait.
LEMMA StoppingInv ==
    ASSUME IInv, NEW why \in {"expired", "cancelled"}, NEW S \in SUBSET Ops,
           \A o \in S : Waiting(act[o]),
           act' = [o \in Ops |-> IF o \in S THEN Stop(act[o], why) ELSE act[o]],
           code' = CodesWithout(S), UNCHANGED <<failed, replies>>
    PROVE  /\ LedgerPart'
           /\ \A o \in Ops :
                 \/ act'[o] = act[o]
                 \/ /\ act'[o].state \notin {"none", "native_active", "not_required"}
                    /\ act'[o].epoch = act[o].epoch
<1>1. LedgerPart'
  BY Parts, Stopping DEF Stopped
<1>2. ASSUME NEW o \in S
      PROVE  act'[o].state \notin {"none", "native_active", "not_required"} /\ act'[o].epoch = act[o].epoch
  BY Parts DEF Stop, LedgerPart, ActTypes, Acts
<1> QED
  BY <1>1, <1>2

LEMMA ExpireIsStopping ==
    Expire => /\ \A o \in {o \in Ops : Overdue(o)} : Waiting(act[o])
              /\ act' = [o \in Ops |-> IF o \in {p \in Ops : Overdue(p)} THEN Stop(act[o], "expired") ELSE act[o]]
              /\ code' = CodesWithout({o \in Ops : Overdue(o)})
BY DEF Expire, AfterExpiry, Overdue

LEMMA ReadStatusInv == IInv /\ ReadStatus => IInv'
<1> SUFFICES ASSUME IInv, ReadStatus PROVE IInv'
  OBVIOUS
<1> DEFINE S == {o \in Ops : Overdue(o)}
<1>1. /\ LedgerPart'
      /\ \A o \in Ops :
            \/ act'[o] = act[o]
            \/ /\ act'[o].state \notin {"none", "native_active", "not_required"}
               /\ act'[o].epoch = act[o].epoch
  <2> HIDE DEF S
  <2>1. /\ \A o \in S : Waiting(act[o])
        /\ act' = [o \in Ops |-> IF o \in S THEN Stop(act[o], "expired") ELSE act[o]]
        /\ code' = CodesWithout(S)
    BY ExpireIsStopping DEF ReadStatus, S
  <2>2. S \in SUBSET Ops /\ UNCHANGED <<failed, replies>>
    BY DEF S, ReadStatus
  <2> QED
    BY <2>1, <2>2, StoppingInv
<1> QED
  BY <1>1, Parts, LedgerSteps, AuthFrame DEF ReadStatus, WorldTypes, world

LEMMA ReassignInv == IInv /\ Reassign => IInv'
<1> SUFFICES ASSUME IInv, Reassign PROVE IInv'
  OBVIOUS
<1> DEFINE S == CancelledByMove
<1>1. S \in SUBSET Ops /\ \A o \in S : Waiting(act[o])
  BY DEF CancelledByMove
<1>2. /\ act' = [o \in Ops |-> IF o \in S THEN Stop(act[o], "cancelled") ELSE act[o]]
      /\ code' = CodesWithout(S) /\ UNCHANGED <<failed, auth, trusted, due, lapsed, replies>>
      /\ epoch' = epoch + 1 /\ epoch < MaxEpoch
  BY DEF Reassign
<1>3. /\ LedgerPart'
      /\ \A o \in Ops :
            \/ act'[o] = act[o]
            \/ /\ act'[o].state \notin {"none", "native_active", "not_required"}
               /\ act'[o].epoch = act[o].epoch
  <2> HIDE DEF S
  <2> QED
    BY <1>1, <1>2, StoppingInv
<1>4. WorldTypes'
  BY <1>2, Parts DEF WorldTypes
<1> QED
  BY <1>2, <1>3, <1>4, Parts, LedgerSteps, AuthFrame
\* The row of an activation that is dispatched once more.
LEMMA DispatchRow ==
    ASSUME NEW a \in Acts, a.attempts < MaxAttempts, a.version < 2 * MaxAttempts
    PROVE  /\ Dispatch(a) \in Acts /\ Dispatch(a).state = "prepared"
           /\ Dispatch(a).version = a.version + 1 /\ Dispatch(a).attempts = a.attempts + 1
           /\ Dispatch(a).epoch = a.epoch
<1> DEFINE b1 == [a EXCEPT !.state = "prepared"]
           b2 == [b1 EXCEPT !.version = a.version + 1]
<1>1. /\ b1 \in Acts /\ b1.state = "prepared" /\ b1.version = a.version
      /\ b1.attempts = a.attempts /\ b1.epoch = a.epoch
  BY DEF Acts, States, Dispatched
<1>2. Dispatch(a) = [b2 EXCEPT !.attempts = a.attempts + 1]
  BY DEF Dispatch
<1> HIDE DEF b1
<1>3. /\ b2 \in Acts /\ b2.state = "prepared" /\ b2.version = a.version + 1
      /\ b2.attempts = a.attempts /\ b2.epoch = a.epoch
  BY <1>1 DEF Acts
<1> HIDE DEF b2
<1> QED
  BY <1>2, <1>3 DEF Acts

\* One more reply is received at most.
LEMMA OneMore ==
    ASSUME NEW R, NEW x, NEW n \in Nat, IsFiniteSet(R), Cardinality(R) <= n
    PROVE  /\ Cardinality(R) <= n + 1
           /\ IsFiniteSet(R \cup {x}) /\ Cardinality(R \cup {x}) <= n + 1
<1>1. Cardinality(R) \in Nat
  BY FS_CardinalityType
<1>2. IsFiniteSet(R \cup {x})
  BY FS_AddElement
<1>3. Cardinality(R \cup {x}) = IF x \in R THEN Cardinality(R) ELSE Cardinality(R) + 1
  BY FS_AddElement
<1>4. Cardinality(R) <= n + 1
  BY <1>1
<1>5. Cardinality(R \cup {x}) <= n + 1
  BY <1>1, <1>3
<1> QED
  BY <1>2, <1>4, <1>5

LEMMA ClaimInv == ASSUME IInv, NEW o \in Assigned, Claim(o) PROVE IInv'
<1> DEFINE d == Dispatch(act[o])
           reply == [version |-> d.version, attempt |-> d.attempts]
<1> USE Parts
<1>1. /\ o \in Ops /\ act[o] \in Acts /\ Waiting(act[o]) /\ act[o].attempts < MaxAttempts
      /\ VersionFits(act[o]) /\ RepliesFit(act[o], replies[o])
      /\ act[o].version \in Nat /\ act[o].attempts \in Nat /\ replies[o] \in SUBSET Replies
  BY DEF Claim, AttemptLeft, LedgerPart, ActTypes, LedgerInv, Acts
<1>2. act[o].version <= 2 * act[o].attempts
  BY <1>1 DEF Waiting, Dispatched, VersionFits
<1>3. /\ d \in Acts /\ d.state = "prepared" /\ d.epoch = act[o].epoch
      /\ d.version = act[o].version + 1 /\ d.attempts = act[o].attempts + 1
  <2>1. act[o].version < 2 * MaxAttempts
    BY <1>1, <1>2
  <2> QED
    BY <1>1, <2>1, DispatchRow
<1>4. /\ act' = [act EXCEPT ![o] = d]
      /\ code' = IF act[o].state = "requested" THEN Issue(o) ELSE code
      /\ replies' = replies \/ replies' = [replies EXCEPT ![o] = @ \cup {reply}]
      /\ UNCHANGED <<failed, auth, world>>
  <2>1. act'[o] = d
    BY <1>1 DEF Claim, LedgerPart, ActTypes
  <2> QED
    BY <2>1 DEF Claim
<1> HIDE DEF d
<1>5. reply \in Replies
  BY <1>1, <1>2, <1>3 DEF Replies
<1>6. ActTypes'
  <2>1. act' \in [Ops -> Acts]
    BY <1>3, <1>4 DEF LedgerPart, ActTypes
  <2>2. replies' \in [Ops -> SUBSET Replies]
    BY <1>4, <1>5 DEF LedgerPart, ActTypes
  <2> QED
    BY <2>1, <2>2 DEF ActTypes
<1>7. VersionFits(d)
  BY <1>1, <1>2, <1>3 DEF VersionFits, Stopped
<1>8. RepliesFit(d, replies'[o])
  <2>1. \A r \in replies[o] : r.version \in Nat /\ r.version < d.version
    BY <1>1, <1>3 DEF RepliesFit, Replies
  <2>2. replies'[o] = replies[o] \/ replies'[o] = replies[o] \cup {reply}
    <3>1. replies \in [Ops -> SUBSET Replies]
      BY DEF LedgerPart, ActTypes
    <3> HIDE DEF reply
    <3> QED
      BY <1>1, <1>4, <3>1
  <2>3. IsFiniteSet(replies'[o]) /\ Cardinality(replies'[o]) <= d.attempts
    <3>1. IsFiniteSet(replies[o]) /\ Cardinality(replies[o]) <= act[o].attempts
      BY <1>1 DEF RepliesFit
    <3> DEFINE R == replies[o]
               n == act[o].attempts
    <3>2. n \in Nat /\ IsFiniteSet(R) /\ Cardinality(R) <= n /\ d.attempts = n + 1
      BY <1>1, <1>3, <3>1
    <3>3. replies'[o] = R \/ replies'[o] = R \cup {reply}
      BY <2>2
    <3> HIDE DEF reply, R, n
    <3>4. /\ Cardinality(R) <= n + 1
          /\ IsFiniteSet(R \cup {reply}) /\ Cardinality(R \cup {reply}) <= n + 1
      BY <3>2, OneMore
    <3>5. CASE replies'[o] = R
      BY <3>2, <3>4, <3>5
    <3>6. CASE replies'[o] = R \cup {reply}
      BY <3>2, <3>4, <3>6
    <3> QED
      BY <3>3, <3>5, <3>6
  <2>4. ASSUME NEW r \in replies'[o] PROVE r \in replies[o] \/ r = reply
    BY <2>2
  <2>5. reply.version = d.version /\ reply.attempt = d.attempts /\ d.version \in Nat
    BY <1>1, <1>3
  <2> HIDE DEF reply
  <2>6. ASSUME NEW r \in replies'[o]
        PROVE  r.version <= d.version /\ (r.version = d.version => r.attempt = d.attempts)
    BY <2>1, <2>4, <2>5
  <2> QED
    BY <2>3, <2>6 DEF RepliesFit
<1>9. LedgerInv'
  <2>1. \A p \in Ops \ {o} : act'[p] = act[p] /\ replies'[p] = replies[p]
    BY <1>4 DEF LedgerPart, ActTypes
  <2>2. act'[o] = d
    BY <1>1, <1>4 DEF LedgerPart, ActTypes
  <2> QED
    BY <1>7, <1>8, <2>1, <2>2 DEF LedgerPart, LedgerInv
<1>10. CodeTypes' /\ OneCode' /\ StoppedTokenIsDead'
  <2>1. o \in Codes
    BY <1>1 DEF Codes
  <2>2. CodeTypes' /\ OneCode' /\ \A j \in Codes : code'[j] = "active" => j = o \/ code' = code
    BY <1>4, <2>1, Issuing DEF LedgerPart, CodeTypes, OneCode
  <2>3. \A p \in Ops : act'[p].state \in Stopped => p # o /\ act'[p] = act[p]
    BY <1>3, <1>4 DEF Stopped, LedgerPart, ActTypes
  <2> QED
    BY <2>2, <2>3 DEF StoppedTokenIsDead, LedgerPart, Codes
<1>11. MintedInv' /\ OutcomeIsTrue'
  <2>1. \A p \in Ops : (p = o /\ act'[p] = d) \/ act'[p] = act[p]
    BY <1>4 DEF LedgerPart, ActTypes
  <2> QED
    BY <1>3, <1>4, <2>1, LedgerSteps
<1> QED
  BY <1>4, <1>6, <1>9, <1>10, <1>11, AuthFrame DEF WorldTypes, world, LedgerPart

\* The row of a dispatch whose outcome is reported.
LEMMA ReportedRow ==
    ASSUME NEW a \in Acts, a.version <= 2 * MaxAttempts, NEW r \in Replies,
           NEW outcome \in {"delivered", "delivery_unknown"}
    PROVE  /\ Reported(a, r, outcome) \in Acts /\ Reported(a, r, outcome).state = outcome
           /\ Reported(a, r, outcome).version = a.version + 1
           /\ Reported(a, r, outcome).attempts = a.attempts
           /\ Reported(a, r, outcome).reported = r.attempt
           /\ Reported(a, r, outcome).epoch = a.epoch
<1> DEFINE b1 == [a EXCEPT !.state = outcome]
           b2 == [b1 EXCEPT !.version = a.version + 1]
<1>1. /\ b1 \in Acts /\ b1.state = outcome /\ b1.version = a.version
      /\ b1.attempts = a.attempts /\ b1.epoch = a.epoch
  BY DEF Acts, States, Dispatched
<1>2. Reported(a, r, outcome) = [b2 EXCEPT !.reported = r.attempt]
  BY DEF Reported
<1> HIDE DEF b1
<1>3. /\ b2 \in Acts /\ b2.state = outcome /\ b2.version = a.version + 1
      /\ b2.attempts = a.attempts /\ b2.epoch = a.epoch
  BY <1>1 DEF Acts
<1> HIDE DEF b2
<1>4. r.attempt \in 0..MaxAttempts
  BY DEF Replies
<1> QED
  BY <1>2, <1>3, <1>4 DEF Acts

LEMMA ReportInv ==
    ASSUME IInv, NEW o \in Ops, NEW r \in replies[o],
           NEW outcome \in {"delivered", "delivery_unknown"}, Report(o, r, outcome)
    PROVE  IInv'
<1> DEFINE d == Reported(act[o], r, outcome)
<1> USE Parts
<1>1. /\ act \in [Ops -> Acts] /\ act[o] \in Acts /\ r \in Replies
      /\ VersionFits(act[o]) /\ RepliesFit(act[o], replies[o])
      /\ act[o].state = "prepared" /\ act[o].version = r.version
      /\ act[o].version \in Nat /\ act[o].attempts \in 0..MaxAttempts
  BY DEF Report, ReportCurrent, LedgerPart, ActTypes, LedgerInv, Acts
<1>2. act[o].version <= 2 * act[o].attempts - 1 /\ r.attempt = act[o].attempts
  BY <1>1 DEF VersionFits, RepliesFit
<1>3. /\ d \in Acts /\ d.state = outcome /\ d.epoch = act[o].epoch
      /\ d.version = act[o].version + 1 /\ d.attempts = act[o].attempts
      /\ d.reported = act[o].attempts
  <2>1. act[o].version <= 2 * MaxAttempts
    BY <1>1, <1>2
  <2> QED
    BY <1>1, <1>2, <2>1, ReportedRow
<1>4. act' = [act EXCEPT ![o] = d] /\ UNCHANGED <<code, failed, auth, world, replies>>
  BY DEF Report
<1> HIDE DEF d
<1>5. \A p \in Ops : (p = o /\ act'[p] = d) \/ (p # o /\ act'[p] = act[p])
  BY <1>1, <1>4
<1>6. ActTypes'
  BY <1>1, <1>3, <1>4 DEF LedgerPart, ActTypes
<1>7. VersionFits(d) /\ RepliesFit(d, replies[o])
  <2>1. VersionFits(d)
    BY <1>1, <1>2, <1>3 DEF VersionFits, Stopped
  <2>2. \A q \in replies[o] : q.version \in Nat /\ q.version <= act[o].version
    BY <1>1 DEF RepliesFit, LedgerPart, ActTypes, Replies
  <2> QED
    BY <1>1, <1>3, <2>1, <2>2 DEF RepliesFit
<1>8. LedgerInv'
  BY <1>4, <1>5, <1>7 DEF LedgerPart, LedgerInv
<1>9. CodeTypes' /\ OneCode' /\ StoppedTokenIsDead'
  BY <1>3, <1>4, <1>5 DEF LedgerPart, CodeTypes, OneCode, StoppedTokenIsDead, Stopped
<1>10. MintedInv' /\ OutcomeIsTrue'
  BY <1>3, <1>4, <1>5, LedgerSteps
<1> QED
  BY <1>4, <1>6, <1>8, <1>9, <1>10, AuthFrame DEF WorldTypes, world, LedgerPart

LEMMA NativeResultInv ==
    ASSUME IInv, NEW o \in Ops, NEW c \in Creds,
           NEW outcome \in {"native_active", "not_required"}, NativeResult(o, c, outcome)
    PROVE  IInv'
<1> USE Parts
<1>1. /\ act \in [Ops -> Acts] /\ act[o] \in Acts /\ Waiting(act[o])
      /\ act[o].state \in Dispatched /\ UNCHANGED <<failed, auth, world, replies>>
      /\ code' = CodesWithout({o}) /\ act' = [act EXCEPT ![o] = Stop(act[o], outcome)]
  BY DEF NativeResult, Waiting, LedgerPart, ActTypes
<1>2. act' = [p \in Ops |-> IF p \in {o} THEN Stop(act[p], outcome) ELSE act[p]]
  <2>1. act \in [Ops -> Acts] /\ act' = [act EXCEPT ![o] = Stop(act[o], outcome)]
    BY <1>1
  <2>2. act' = [p \in Ops |-> IF p = o THEN Stop(act[o], outcome) ELSE act[p]]
    BY ONLY <2>1
  <2> QED
    BY ONLY <2>2
<1>3. LedgerPart'
  <2> DEFINE S == {o}
  <2>1. /\ S \in SUBSET Ops /\ \A p \in S : Waiting(act[p])
        /\ outcome \in Stopped /\ code' = CodesWithout(S)
        /\ act' = [p \in Ops |-> IF p \in S THEN Stop(act[p], outcome) ELSE act[p]]
        /\ UNCHANGED <<failed, replies>>
    BY <1>1, <1>2 DEF Stopped
  <2> HIDE DEF S
  <2> QED
    BY <2>1, Stopping
<1>4. act'[o].state = outcome /\ act'[o].epoch = act[o].epoch /\ \A p \in Ops : p # o => act'[p] = act[p]
  BY <1>1 DEF Stop, Acts
<1>5. act[o].state # "none"
  BY <1>1 DEF Dispatched
<1>6. MintedInv'
  BY <1>1, <1>4, <1>5 DEF MintedInv, auth, NativeResult
<1>7. OutcomeIsTrue'
  <2>1. outcome = "native_active" =>
          enr[o] = [status |-> "confirmed", code |-> o] /\ o \in confirmed /\ mintedFor[o] = act[o].epoch
    BY DEF NativeResult, Earned, MintedInv
  <2>2. outcome = "not_required" => enr[o].status = "none" /\ cred[o] = "none"
    BY DEF NativeResult, Healthy, AuthPart, AuthInv
  <2> QED
    BY <1>1, <1>4, <2>1, <2>2 DEF OutcomeIsTrue, auth
<1> QED
  BY <1>1, <1>3, <1>6, <1>7, AuthFrame DEF WorldTypes, world

\* A step of the codes alone.
LEMMA CodeOnly ==
    ASSUME IInv, UNCHANGED <<act, auth, world, replies>>, CodeTypes', OneCode', StoppedTokenIsDead'
    PROVE  IInv'
<1>1. LedgerPart'
  BY Parts DEF LedgerPart, ActTypes, LedgerInv
<1>2. MintedInv' /\ OutcomeIsTrue'
  BY Parts, LedgerSteps
<1> QED
  BY <1>1, <1>2, Parts, AuthFrame DEF WorldTypes, world

LEMMA WrongCodeInv == ASSUME IInv, NEW o \in Ops, NEW k \in Codes, WrongCode(o, k) PROVE IInv'
<1>1. /\ CodeTypes /\ OneCode /\ StoppedTokenIsDead
      /\ UNCHANGED <<act, auth, world, replies>>
  BY Parts DEF LedgerPart, WrongCode
<1>2. code' = code \/ code' = [code EXCEPT ![k] = "revoked"]
  BY DEF WrongCode
<1>3. failed' \in [Codes -> 0..MaxFailures]
  BY <1>1 DEF WrongCode, CodeTypes
<1>4. CodeTypes' /\ OneCode' /\ StoppedTokenIsDead'
  BY <1>1, <1>2, <1>3 DEF CodeTypes, OneCode, StoppedTokenIsDead, Codes
<1> QED
  BY <1>1, <1>4, CodeOnly

LEMMA IssueByHandInv == ASSUME IInv, NEW k \in Typed, IssueByHand(k) PROVE IInv'
<1>1. /\ CodeTypes /\ OneCode /\ k \in Codes /\ code' = Issue(k)
      /\ UNCHANGED <<act, failed, auth, world, replies>>
  BY Parts DEF LedgerPart, IssueByHand, Codes
<1>2. CodeTypes' /\ OneCode' /\ \A j \in Codes : code'[j] = "active" => j = k
  BY <1>1, Issuing
<1>3. StoppedTokenIsDead'
  BY <1>2 DEF StoppedTokenIsDead, Codes
<1> QED
  BY <1>1, <1>2, <1>3, CodeOnly

LEMMA RevokeCodeInv == ASSUME IInv, NEW k \in Codes, RevokeCode(k) PROVE IInv'
<1>1. /\ CodeTypes /\ OneCode /\ StoppedTokenIsDead /\ code' = [code EXCEPT ![k] = "revoked"]
      /\ UNCHANGED <<act, failed, auth, world, replies>>
  BY Parts DEF LedgerPart, RevokeCode
<1>2. CodeTypes' /\ OneCode' /\ StoppedTokenIsDead'
  BY <1>1 DEF CodeTypes, OneCode, StoppedTokenIsDead, Codes
<1> QED
  BY <1>1, <1>2, CodeOnly

Enrollments == [status : {"none", "committed", "confirmed", "cancelled", "expired"},
                code : Codes \cup {"none"}]

\* Enrollments that end, and credentials that end with them or by hand.
LEMMA EndingInv ==
    ASSUME IInv, NEW S \in SUBSET Creds, NEW why \in Gone, cred' = Revoke(S, why),
           UNCHANGED <<ledger, edges, mintedFor, world, replies>>,
           enr' \in [Ops -> Enrollments], confirmed' \in SUBSET Creds, confirmed \subseteq confirmed',
           \A o \in Ops :
              \/ enr'[o] = enr[o]
              \/ /\ enr[o].status = "committed" /\ enr'[o].code = enr[o].code
                 /\ enr'[o].status # "none",
           \A o \in Ops : o \in confirmed' <=> enr'[o].status = "confirmed"
    PROVE  AuthPart' /\ IInv'
<1>1. /\ AuthPart /\ edges \subseteq Creds \X Creds /\ mintedFor \in [Ops -> 0..MaxEpoch]
      /\ \A o \in Ops : o \in Creds /\ (enr[o].status = "none" <=> cred[o] = "none")
  BY Parts DEF AuthPart, AuthTypes, AuthInv, Creds
<1>2. /\ cred' \in [Creds -> {"none", "live", "renewed"} \cup Gone]
      /\ OneCredential' /\ FirstInv' /\ LineageIsAChain'
      /\ \A c \in Creds : cred'[c] = "none" <=> cred[c] = "none"
  BY <1>1, Ending
<1>3. AuthTypes'
  BY <1>1, <1>2 DEF AuthTypes, Enrollments
<1>4. AuthInv'
  BY <1>1, <1>2 DEF AuthInv
<1>5. AuthPart'
  BY <1>2, <1>3, <1>4 DEF AuthPart
<1>6. LedgerPart' /\ WorldTypes'
  BY Parts, LedgerFrame DEF WorldTypes, world
<1>7. MintedInv' /\ OutcomeIsTrue'
  <2>1. \A o \in Ops : cred[o] = "none" => cred'[o] = "none"
    BY <1>1, <1>2
  <2> QED
    BY <2>1, Parts, AuthSteps DEF ledger
<1> QED
  BY <1>5, <1>6, <1>7, Parts

\* The row of an enrollment that ends.
LEMMA EndsRow ==
    ASSUME AuthTypes, NEW o \in Ops, NEW status \in {"confirmed", "cancelled", "expired"},
           enr' = Ends(o, status)
    PROVE  /\ enr' \in [Ops -> Enrollments]
           /\ enr'[o].status = status /\ enr'[o].code = enr[o].code
           /\ \A p \in Ops : p # o => enr'[p] = enr[p]
BY DEF AuthTypes, Ends, Enrollments

\* Nothing is revoked.
LEMMA RevokeNone == AuthTypes => cred = Revoke({}, "timeout")
BY DEF AuthTypes, Revoke

\* One enrollment ends without its confirmation.
LEMMA OneEnds ==
    ASSUME IInv, NEW o \in Ops, NEW status \in {"cancelled", "expired"},
           NEW S \in SUBSET Creds, NEW why \in Gone,
           enr[o].status = "committed", enr' = Ends(o, status), cred' = Revoke(S, why),
           UNCHANGED <<ledger, confirmed, edges, mintedFor, world, replies>>
    PROVE  IInv'
<1>1. AuthTypes /\ AuthInv
  BY Parts DEF AuthPart
<1>2. /\ enr' \in [Ops -> Enrollments] /\ enr'[o].status = status /\ enr'[o].code = enr[o].code
      /\ \A p \in Ops : p # o => enr'[p] = enr[p]
  BY <1>1, EndsRow
<1>3. \A p \in Ops : p \in confirmed' <=> enr'[p].status = "confirmed"
  BY <1>1, <1>2 DEF AuthInv
<1>4. \A p \in Ops :
        \/ enr'[p] = enr[p]
        \/ enr[p].status = "committed" /\ enr'[p].code = enr[p].code /\ enr'[p].status # "none"
  BY <1>2
<1>5. confirmed' \in SUBSET Creds /\ confirmed \subseteq confirmed'
  BY <1>1 DEF AuthTypes
<1> QED
  BY <1>2, <1>3, <1>4, <1>5, EndingInv

LEMMA ResumeInv == ASSUME IInv, NEW o \in Ops, Resume(o) PROVE IInv'
<1>1. /\ AuthTypes /\ {o} \in SUBSET Creds /\ {} \in SUBSET Creds /\ "timeout" \in Gone
      /\ enr[o].status = "committed"
      /\ UNCHANGED <<ledger, confirmed, edges, mintedFor, world, replies>>
  BY Parts DEF AuthPart, Creds, Gone, Resume
<1>2. CASE enr' = Ends(o, "expired") /\ cred' = Revoke({o}, "timeout")
  BY <1>1, <1>2, OneEnds
<1>3. CASE enr' = Ends(o, "cancelled") /\ UNCHANGED cred
  BY <1>1, <1>3, RevokeNone, OneEnds
<1> QED
  BY <1>2, <1>3 DEF Resume

LEMMA ConfirmInv == ASSUME IInv, NEW o \in Ops, Confirm(o) PROVE IInv'
<1>1. /\ AuthTypes /\ AuthInv /\ o \in Creds /\ {o} \in SUBSET Creds /\ {} \in SUBSET Creds
      /\ "timeout" \in Gone /\ enr[o].status = "committed"
      /\ UNCHANGED <<ledger, edges, mintedFor, world, replies>>
  BY Parts DEF AuthPart, Creds, Gone, Confirm
<1>2. CASE enr' = Ends(o, "expired") /\ cred' = Revoke({o}, "timeout") /\ UNCHANGED confirmed
  BY <1>1, <1>2, OneEnds
<1>3. CASE enr' = Ends(o, "cancelled") /\ UNCHANGED <<cred, confirmed>>
  BY <1>1, <1>3, RevokeNone, OneEnds
<1>4. CASE enr' = Ends(o, "confirmed") /\ confirmed' = confirmed \cup {o} /\ UNCHANGED cred
  <2>1. /\ enr' \in [Ops -> Enrollments] /\ enr'[o].status = "confirmed" /\ enr'[o].code = enr[o].code
        /\ \A p \in Ops : p # o => enr'[p] = enr[p]
    BY <1>1, <1>4, EndsRow
  <2>2. \A p \in Ops : p \in confirmed' <=> enr'[p].status = "confirmed"
    BY <1>1, <1>4, <2>1 DEF AuthInv
  <2>3. \A p \in Ops :
          \/ enr'[p] = enr[p]
          \/ enr[p].status = "committed" /\ enr'[p].code = enr[p].code /\ enr'[p].status # "none"
    BY <1>1, <2>1
  <2>4. confirmed' \in SUBSET Creds /\ confirmed \subseteq confirmed'
    BY <1>1, <1>4 DEF AuthTypes
  <2>5. cred' = Revoke({}, "timeout")
    BY <1>1, <1>4, RevokeNone
  <2> QED
    BY <1>1, <2>1, <2>2, <2>3, <2>4, <2>5, EndingInv
<1> QED
  BY <1>2, <1>3, <1>4 DEF Confirm

LEMMA CancelInv == ASSUME IInv, NEW o \in Ops, Cancel(o) PROVE IInv'
<1>1. /\ {o} \in SUBSET Creds /\ "cancelled" \in Gone /\ enr[o].status = "committed"
      /\ enr' = Ends(o, "cancelled") /\ cred' = Revoke({o}, "cancelled")
      /\ UNCHANGED <<ledger, confirmed, edges, mintedFor, world, replies>>
  BY DEF Creds, Gone, Cancel, Cancellable
<1> QED
  BY <1>1, OneEnds

\* A credential that a phone gives back or a manager revokes.
LEMMA ByHandInv ==
    ASSUME IInv, NEW c \in Creds, cred' = Revoke({c}, "revoked"),
           UNCHANGED <<ledger, enr, confirmed, edges, mintedFor, world, replies>>
    PROVE  IInv'
<1>1. AuthTypes /\ AuthInv /\ {c} \in SUBSET Creds /\ "revoked" \in Gone
  BY Parts DEF AuthPart, Gone
<1>2. enr' \in [Ops -> Enrollments] /\ confirmed' \in SUBSET Creds /\ confirmed \subseteq confirmed'
  BY <1>1 DEF AuthTypes, Enrollments
<1>3. \A p \in Ops : enr'[p] = enr[p] /\ (p \in confirmed' <=> enr'[p].status = "confirmed")
  BY <1>1 DEF AuthInv
<1> QED
  BY <1>1, <1>2, <1>3, EndingInv

LEMMA ClockInv ==
    ASSUME IInv, UNCHANGED <<ledger, auth, replies>>, WorldTypes' PROVE IInv'
BY Parts, LedgerFrame, AuthFrame, LedgerSteps DEF ledger

LEMMA ExpiryJobInv == IInv /\ ExpiryJob => IInv'
<1> SUFFICES ASSUME IInv, ExpiryJob PROVE IInv'
  OBVIOUS
<1> DEFINE S == {o \in Ops : Overdue(o)}
<1>1. /\ LedgerPart'
      /\ \A o \in Ops :
            \/ act'[o] = act[o]
            \/ /\ act'[o].state \notin {"none", "native_active", "not_required"}
               /\ act'[o].epoch = act[o].epoch
  <2> HIDE DEF S
  <2>1. /\ \A o \in S : Waiting(act[o])
        /\ act' = [o \in Ops |-> IF o \in S THEN Stop(act[o], "expired") ELSE act[o]]
        /\ code' = CodesWithout(S)
    BY ExpireIsStopping DEF ExpiryJob, S
  <2>2. S \in SUBSET Ops /\ UNCHANGED <<failed, replies>>
    BY DEF S, ExpiryJob
  <2> QED
    BY <2>1, <2>2, StoppingInv
<1>2. /\ AuthPart /\ AuthTypes /\ AuthInv /\ Expiring \in SUBSET Creds /\ "timeout" \in Gone
      /\ cred' = Revoke(Expiring, "timeout") /\ UNCHANGED <<confirmed, edges, mintedFor, world>>
  BY Parts DEF AuthPart, Expiring, Creds, Gone, ExpiryJob
<1>3. /\ enr' \in [Ops -> Enrollments]
      /\ \A o \in Ops :
            \/ enr'[o] = enr[o]
            \/ /\ enr[o].status = "committed" /\ enr'[o].code = enr[o].code
               /\ enr'[o].status = "expired"
  BY <1>2 DEF AuthTypes, Enrollments, ExpiryJob, Expiring, Lapsed
<1>4. /\ cred' \in [Creds -> {"none", "live", "renewed"} \cup Gone]
      /\ OneCredential' /\ FirstInv' /\ LineageIsAChain'
      /\ \A c \in Creds : cred'[c] = "none" <=> cred[c] = "none"
  BY <1>2, Ending
<1>5. AuthPart'
  <2>1. AuthTypes'
    BY <1>2, <1>3, <1>4 DEF AuthTypes, Enrollments
  <2>2. AuthInv'
    BY <1>2, <1>3, <1>4 DEF AuthInv, Creds
  <2> QED
    BY <1>4, <2>1, <2>2 DEF AuthPart
<1>6. MintedInv' /\ OutcomeIsTrue'
  <2>1. MintedInv'
    <3> SUFFICES ASSUME NEW o \in Ops, enr'[o].status # "none", enr'[o].code = o
                 PROVE  act'[o].state # "none" /\ mintedFor'[o] = act'[o].epoch
      BY DEF MintedInv
    <3>1. enr[o].status # "none" /\ enr[o].code = o
      BY <1>3
    <3>2. act[o].state # "none" /\ mintedFor[o] = act[o].epoch
      BY <3>1, Parts DEF MintedInv
    <3> QED
      BY <1>1, <1>2, <3>2
  <2>2. OutcomeIsTrue'
    <3>1. ASSUME NEW o \in Ops, act'[o].state = "native_active"
          PROVE  enr'[o] = [status |-> "confirmed", code |-> o] /\ o \in confirmed' /\ mintedFor'[o] = act'[o].epoch
      <4>1. act'[o] = act[o]
        BY <1>1, <3>1
      <4>2. enr[o] = [status |-> "confirmed", code |-> o] /\ o \in confirmed /\ mintedFor[o] = act[o].epoch
        BY <3>1, <4>1, Parts DEF OutcomeIsTrue
      <4> QED
        BY <1>2, <1>3, <4>1, <4>2
    <3>2. ASSUME NEW o \in Ops, act'[o].state = "not_required"
          PROVE  enr'[o].status = "none" /\ cred'[o] = "none"
      <4>1. act'[o] = act[o]
        BY <1>1, <3>2
      <4>2. enr[o].status = "none" /\ cred[o] = "none"
        BY <3>2, <4>1, Parts DEF OutcomeIsTrue
      <4> QED
        BY <1>3, <1>4, <4>2 DEF Creds
    <3> QED
      BY <3>1, <3>2 DEF OutcomeIsTrue
  <2> QED
    BY <2>1, <2>2
<1> QED
  BY <1>1, <1>2, <1>5, <1>6, Parts DEF WorldTypes, world

LEMMA MintInv == ASSUME IInv, NEW o \in Ops, NEW k \in Codes, Mint(o, k) PROVE IInv'
<1> USE Parts
<1>1. /\ o \in Creds /\ enr[o].status = "none" /\ cred[o] = "none" /\ Admitted(o, k)
      /\ AuthTypes /\ OneCredential /\ AuthInv /\ LineageIsAChain /\ code[k] = "active"
      /\ UNCHANGED <<act, failed, confirmed, world, replies>>
  BY DEF Mint, AuthPart, AuthInv, Creds, Active
<1>2. /\ cred' \in [Creds -> {"none", "live", "renewed"} \cup Gone] /\ cred'[o] = "live"
      /\ \A c \in Creds \ {o} : cred'[c] = IF cred[c] = "live" THEN "renewed" ELSE cred[c]
  BY <1>1 DEF Mint, AuthTypes, Revoke, Live
<1>3. /\ edges' \subseteq Creds \X Creds
      /\ \A c, e \in Creds : <<c, e>> \in edges' <=> <<c, e>> \in edges \/ (cred[c] = "live" /\ e = o)
  BY <1>1 DEF Mint, AuthTypes, Succession, Live
<1>4. /\ enr' \in [Ops -> Enrollments] /\ enr'[o] = [status |-> "committed", code |-> k]
      /\ \A p \in Ops \ {o} : enr'[p] = enr[p]
  BY <1>1 DEF Mint, AuthTypes, Enrollments
<1>5. /\ mintedFor' \in [Ops -> 0..MaxEpoch] /\ mintedFor'[o] = epoch
      /\ \A p \in Ops \ {o} : mintedFor'[p] = mintedFor[p]
  <2>1. epoch \in 0..MaxEpoch
    BY DEF WorldTypes
  <2> QED
    BY <1>1, <2>1 DEF Mint, AuthTypes
<1>6. AuthTypes' /\ OneCredential'
  BY <1>1, <1>2, <1>3, <1>4, <1>5 DEF AuthTypes, OneCredential, Enrollments
<1>7. AuthInv'
  BY <1>1, <1>2, <1>4 DEF AuthInv, Creds
<1>8. FirstInv'
  BY <1>1, <1>2 DEF FirstInv, AuthPart, Creds
<1>9. LineageIsAChain'
  <2> SUFFICES ASSUME NEW c \in Creds
               PROVE  IF cred'[c] = "renewed"
                      THEN \E d \in Creds : \A e \in Creds : <<c, e>> \in edges' <=> e = d
                      ELSE \A e \in Creds : <<c, e>> \notin edges'
    BY DEF LineageIsAChain
  <2>1. CASE cred[c] = "live"
    <3>1. c # o /\ cred'[c] = "renewed" /\ \A e \in Creds : <<c, e>> \notin edges
      BY <1>1, <1>2, <2>1 DEF LineageIsAChain
    <3>2. \A e \in Creds : <<c, e>> \in edges' <=> e = o
      BY <1>3, <2>1, <3>1
    <3> QED
      BY <1>1, <3>1, <3>2
  <2>2. CASE cred[c] # "live"
    <3>1. \A e \in Creds : <<c, e>> \in edges' <=> <<c, e>> \in edges
      BY <1>3, <2>2
    <3>2. cred'[c] = "renewed" <=> cred[c] = "renewed"
      BY <1>1, <1>2, <2>2
    <3> QED
      BY <1>1, <3>1, <3>2 DEF LineageIsAChain
  <2> QED
    BY <2>1, <2>2
<1>10. LedgerPart'
  <2>1. code' = [code EXCEPT ![k] = "consumed"] /\ CodeTypes /\ OneCode /\ StoppedTokenIsDead
    BY DEF Mint, LedgerPart
  <2>2. CodeTypes' /\ OneCode' /\ StoppedTokenIsDead'
    BY <1>1, <2>1 DEF CodeTypes, OneCode, StoppedTokenIsDead, Codes
  <2> QED
    BY <1>1, <2>2 DEF LedgerPart, ActTypes, LedgerInv
<1>11. MintedInv'
  <2>1. k = o => act[o].state \in Dispatched /\ act[o].epoch = epoch
    BY <1>1 DEF Admitted, MayTrade
  <2> QED
    BY <1>1, <1>4, <1>5, <2>1 DEF MintedInv, Dispatched
<1>12. OutcomeIsTrue'
  <2>1. act[o].state \notin {"native_active", "not_required"}
    BY <1>1 DEF OutcomeIsTrue, Admitted, MayTrade, Dispatched
  <2>2. \A p \in Ops \ {o} : cred[p] = "none" => cred'[p] = "none"
    BY <1>2 DEF Creds
  <2>3. ASSUME NEW p \in Ops, act'[p].state = "native_active"
        PROVE  enr'[p] = [status |-> "confirmed", code |-> p] /\ p \in confirmed' /\ mintedFor'[p] = act'[p].epoch
    <3>1. p # o /\ act'[p] = act[p]
      BY <1>1, <2>1, <2>3
    <3>2. enr[p] = [status |-> "confirmed", code |-> p] /\ p \in confirmed /\ mintedFor[p] = act[p].epoch
      BY <2>3, <3>1 DEF OutcomeIsTrue
    <3> QED
      BY <1>1, <1>4, <1>5, <3>1, <3>2
  <2>4. ASSUME NEW p \in Ops, act'[p].state = "not_required"
        PROVE  enr'[p].status = "none" /\ cred'[p] = "none"
    <3>1. p # o /\ act'[p] = act[p]
      BY <1>1, <2>1, <2>4
    <3>2. enr[p].status = "none" /\ cred[p] = "none"
      BY <2>4, <3>1 DEF OutcomeIsTrue
    <3> QED
      BY <1>4, <2>2, <3>1, <3>2
  <2> QED
    BY <2>3, <2>4 DEF OutcomeIsTrue
<1> QED
  BY <1>1, <1>6, <1>7, <1>8, <1>9, <1>10, <1>11, <1>12 DEF AuthPart, WorldTypes, world
-----------------------------------------------------------------------------
(* Theorems. *)

LEMMA NextInv == IInv /\ [Next]_vars => IInv'
<1> SUFFICES ASSUME IInv, [Next]_vars PROVE IInv'
  OBVIOUS
<1>1. ASSUME NEW o \in Assigned, Request(o) \/ Claim(o) PROVE IInv'
  BY <1>1, RequestInv, ClaimInv
<1>2. ASSUME NEW o \in Ops, NEW r \in replies[o], NEW outcome \in {"delivered", "delivery_unknown"},
             Report(o, r, outcome)
      PROVE  IInv'
  BY <1>2, ReportInv
<1>3. CASE ReadStatus
  BY <1>3, ReadStatusInv
<1>4. ASSUME NEW o \in Ops, NEW k \in Codes, Mint(o, k) \/ WrongCode(o, k) PROVE IInv'
  BY <1>4, MintInv, WrongCodeInv
<1>5. ASSUME NEW o \in Ops, Resume(o) \/ Confirm(o) \/ Cancel(o) \/ Lapse(o) PROVE IInv'
  <2>1. CASE Lapse(o)
    BY <2>1, Parts, ClockInv DEF Lapse, WorldTypes, ledger, auth
  <2> QED
    BY <1>5, <2>1, ResumeInv, ConfirmInv, CancelInv
<1>6. ASSUME NEW o \in Ops, NEW c \in Creds, NEW outcome \in {"native_active", "not_required"},
             NativeResult(o, c, outcome)
      PROVE  IInv'
  BY <1>6, NativeResultInv
<1>7. ASSUME NEW c \in Creds, Remove(c) \/ RevokeCredential(c) PROVE IInv'
  BY <1>7, ByHandInv DEF Remove, RevokeCredential
<1>8. ASSUME NEW k \in Typed, IssueByHand(k) PROVE IInv'
  BY <1>8, IssueByHandInv
<1>9. ASSUME NEW k \in Codes, RevokeCode(k) \/ Due(k) PROVE IInv'
  <2>1. CASE Due(k)
    BY <2>1, Parts, ClockInv DEF Due, WorldTypes, ledger, auth
  <2> QED
    BY <1>9, <2>1, RevokeCodeInv
<1>10. CASE Reassign
  BY <1>10, ReassignInv
<1>11. CASE WithdrawTrust
  BY <1>11, Parts, ClockInv DEF WithdrawTrust, WorldTypes, ledger, auth
<1>12. CASE ExpiryJob
  BY <1>12, ExpiryJobInv
<1>13. CASE UNCHANGED vars
  BY <1>13, Parts, ClockInv DEF vars, WorldTypes, world
<1> QED
  BY <1>1, <1>2, <1>3, <1>4, <1>5, <1>6, <1>7, <1>8, <1>9, <1>10, <1>11, <1>12, <1>13 DEF Next

LEMMA Invariance == Spec => []IInv
BY InitInv, NextInv, PTL DEF Spec

\* The tables keep their shape; a device has at most one code in use and one
\* live credential, and the token has left at most once for a counted dispatch.
THEOREM TypeCorrect == Spec => []TypeOK
<1>1. IInv => TypeOK
  <2> SUFFICES ASSUME IInv PROVE TypeOK
    OBVIOUS
  <2>1. \A o \in Ops : Cardinality(replies[o]) <= act[o].attempts
    BY DEF IInv, LedgerInv, RepliesFit
  <2>2. /\ act \in [Ops -> [state : {"none", "requested"} \cup Dispatched \cup Stopped,
                             epoch : 0..MaxEpoch, version : 0..(2 * MaxAttempts + 1),
                             attempts : 0..MaxAttempts, reported : 0..MaxAttempts,
                             before : SUBSET Creds]]
        /\ replies \in [Ops -> SUBSET [version : 0..(2 * MaxAttempts), attempt : 0..MaxAttempts]]
    BY DEF IInv, ActTypes, Acts, States, Replies
  <2> QED
    BY <2>1, <2>2 DEF IInv, CodeTypes, AuthTypes, WorldTypes, OneCode, OneCredential, TypeOK
<1> QED
  BY <1>1, Invariance, PTL

\* However an activation stopped, its token mints nothing any more.
THEOREM DeadToken == Spec => []StoppedTokenIsDead
<1>1. IInv => StoppedTokenIsDead
  BY DEF IInv
<1> QED
  BY <1>1, Invariance, PTL

\* The outcome the managers read is what the credentials say.
THEOREM TrueOutcome == Spec => []OutcomeIsTrue
<1>1. IInv => OutcomeIsTrue
  BY DEF IInv
<1> QED
  BY <1>1, Invariance, PTL

\* A report counts only for the dispatch it is about.
THEOREM LastDispatch == Spec => []ReportIsOfLastDispatch
<1>1. IInv => ReportIsOfLastDispatch
  BY DEF IInv, LedgerInv, VersionFits, ReportIsOfLastDispatch
<1> QED
  BY <1>1, Invariance, PTL

\* The replacements of a phone's credentials are a chain: each renewed one has
\* exactly one successor, one that ended otherwise has none.
THEOREM Lineages == Spec => []LineageIsAChain
<1>1. IInv => LineageIsAChain
  BY DEF IInv
<1> QED
  BY <1>1, Invariance, PTL

Kept == \A c \in confirmed : cred[c] = "live" /\ cred'[c] # "live" =>
          \/ cred'[c] = "revoked"
          \/ cred'[c] = "renewed" /\ \E o \in Ops : cred[o] = "none" /\ cred'[o] = "live"

\* Expiry and cancellation never take a confirmed credential: it ends by a
\* renewal that leaves the phone another one, or by hand.
THEOREM ByHand == Spec => ConfirmedEndsByHand
<1>1. IInv /\ [Next]_vars => [Kept]_vars
  <2> SUFFICES ASSUME IInv, [Next]_vars PROVE Kept \/ UNCHANGED vars
    OBVIOUS
  <2>1. ASSUME UNCHANGED cred PROVE Kept
    BY <2>1 DEF Kept
  <2>2. /\ \A o \in Ops : o \in confirmed <=> enr[o].status = "confirmed"
        /\ confirmed \subseteq Creds /\ AuthTypes
    BY DEF IInv, AuthInv, AuthTypes
  <2>3. ASSUME NEW S \in SUBSET Creds, NEW why, S \cap confirmed = {}, cred' = Revoke(S, why) PROVE Kept
    BY <2>2, <2>3 DEF Kept, Revoke
  <2>4. ASSUME NEW o \in Ops, Resume(o) \/ Confirm(o) \/ Cancel(o) PROVE Kept
    <3>1. {o} \in SUBSET Creds /\ {o} \cap confirmed = {}
      BY <2>2, <2>4 DEF Creds, Resume, Confirm, Cancel, Cancellable
    <3>2. UNCHANGED cred \/ cred' = Revoke({o}, "timeout") \/ cred' = Revoke({o}, "cancelled")
      BY <2>4 DEF Resume, Confirm, Cancel
    <3> QED
      BY <2>1, <2>3, <3>1, <3>2
  <2>5. CASE ExpiryJob
    <3>1. Expiring \in SUBSET Creds /\ Expiring \cap confirmed = {} /\ cred' = Revoke(Expiring, "timeout")
      BY <2>2, <2>5 DEF ExpiryJob, Expiring, Lapsed, Creds
    <3> QED
      BY <2>3, <3>1
  <2>6. ASSUME NEW c \in Creds, Remove(c) \/ RevokeCredential(c) PROVE Kept
    <3>1. cred' = Revoke({c}, "revoked")
      BY <2>6 DEF Remove, RevokeCredential
    <3> QED
      BY <2>2, <3>1 DEF Kept, Revoke
  <2>7. ASSUME NEW o \in Ops, NEW k \in Codes, Mint(o, k) PROVE Kept
    <3>1. o \in Creds /\ cred[o] = "none" /\ cred'[o] = "live"
      BY <2>2, <2>7 DEF Mint, IInv, AuthInv, AuthTypes, Creds, Revoke
    <3>2. \A c \in Creds \ {o} : cred[c] = "live" => cred'[c] = "renewed"
      BY <2>2, <2>7 DEF Mint, AuthTypes, Revoke, Live
    <3> QED
      BY <2>2, <3>1, <3>2 DEF Kept
  <2>8. CASE UNCHANGED vars
    BY <2>8
  <2>9. CASE \E o \in Ops : \E r \in replies[o], outcome \in {"delivered", "delivery_unknown"} : Report(o, r, outcome)
    BY <2>1, <2>9 DEF Report, auth
  <2>10. CASE \E o \in Ops, c \in Creds, outcome \in {"native_active", "not_required"} : NativeResult(o, c, outcome)
    BY <2>1, <2>10 DEF NativeResult, auth
  <2>11. ASSUME NEW o \in Ops, (o \in Assigned /\ (Request(o) \/ Claim(o))) \/ Lapse(o) PROVE Kept
    BY <2>1, <2>11 DEF Request, Claim, Lapse, auth
  <2>12. ASSUME NEW k \in Codes,
                (k \in Typed /\ IssueByHand(k)) \/ RevokeCode(k) \/ Due(k)
                \/ \E o \in Ops : WrongCode(o, k)
         PROVE  Kept
    BY <2>1, <2>12 DEF IssueByHand, RevokeCode, Due, WrongCode, auth
  <2>13. CASE ReadStatus \/ Reassign \/ WithdrawTrust
    BY <2>1, <2>13 DEF ReadStatus, Reassign, WithdrawTrust, auth
  <2> QED
    BY <2>4, <2>5, <2>6, <2>7, <2>8, <2>9, <2>10, <2>11, <2>12, <2>13 DEF Next, Codes
<1> QED
  BY <1>1, Invariance, PTL DEF Spec, ConfirmedEndsByHand, Kept
=============================================================================
