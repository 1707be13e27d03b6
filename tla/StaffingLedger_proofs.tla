----------------------- MODULE StaffingLedger_proofs -----------------------
(***************************************************************************)
(* Theorems of the staffing ledger, for any managers, keys, employees,     *)
(* calls in flight, days and revisions.                                    *)
(***************************************************************************)
EXTENDS StaffingLedger, SequenceTheorems, TLAPS

USE LedgerAssumption, NoneIsNoRow

\* The initial state has the types.
LEMMA InitType == Init => TypeOK
BY DEF Init, TypeOK, Days, CallTypes, Idle

\* A call on an accepted command's record: a row stays a row when its state,
\* its preview or its confirmation changes.
LEMMA RowUpdates ==
  ASSUME NEW r \in Rows
  PROVE  /\ \A s \in States : [r EXCEPT !.state = s] \in Rows
         /\ \A p \in Previews, d \in Nat :
              [r EXCEPT !.state = "PREPARED", !.preview = p, !.preparedOn = d] \in Rows
         /\ \A k \in ConfirmKeys, n \in Nat :
              [r EXCEPT !.state = "ACCEPTED", !.key = k, !.revision = n] \in Rows
BY DEF Rows, States, Settled

\* A known command is a row.
LEMMA KnownIsRow ==
  ASSUME TypeOK, NEW o \in Operations, Known(o)
  PROVE  command[o] \in Rows
BY DEF TypeOK, Known

\* Telling a settled state keeps the answers typed.
LEMMA TellType ==
  ASSUME TypeOK, NEW o \in Operations, NEW s \in Settled, NEW r \in Nat, Tell(o, s, r)
  PROVE  told' \in [Operations -> SUBSET [state : Settled, revision : Nat]]
<1>1. Answer(s, r) \in [state : Settled, revision : Nat]
  BY DEF Answer
<1> QED
  BY <1>1 DEF TypeOK, Tell

\* Every step keeps the types.
LEMMA NextType == TypeOK /\ [Next]_vars => TypeOK'
<1> SUFFICES ASSUME TypeOK, [Next]_vars PROVE TypeOK'
  OBVIOUS
<1>1. ASSUME NEW c \in Calls, NEW o \in Operations, NEW b \in Bodies, BeginChecks(c, o, b)
      PROVE  TypeOK'
  BY <1>1 DEF TypeOK, BeginChecks, world, ledger, facts, CallTypes
<1>2. ASSUME NEW c \in Calls, BeginInserts(c) PROVE TypeOK'
  <2>1. call[c] \in [pc : {"begin"}, operation : Operations, body : Bodies, expected : Nat]
    BY <1>2 DEF TypeOK, CallTypes, BeginInserts, Idle
  <2>2. command' \in [Operations -> Rows \cup {None}]
    BY <1>2, <2>1 DEF TypeOK, BeginInserts, Rows, States
  <2> QED
    BY <1>2, <2>2 DEF TypeOK, BeginInserts, CallTypes, world, facts
<1>3. ASSUME NEW c \in Calls, CallEnds(c) PROVE TypeOK'
  BY <1>3 DEF TypeOK, CallEnds, CallTypes, world, ledger, facts
<1>4. ASSUME NEW c \in Calls, NEW m \in Managers, NEW o \in Operations, PrepareReads(c, m, o)
      PROVE  TypeOK'
  BY <1>4 DEF TypeOK, PrepareReads, CallTypes, world, ledger, facts, Days
<1>5. ASSUME NEW c \in Calls, NEW p \in Previews, NEW d \in Days, Stages(c, p, d)
      PROVE  TypeOK'
  <2>1. call[c].operation \in Operations
    BY <1>5 DEF TypeOK, CallTypes, Stages, Idle
  <2> DEFINE o == call[c].operation
             row == [command[o] EXCEPT !.state = "PREPARED", !.preview = p,
                                       !.preparedOn = today]
  <2>3. today \in Nat /\ command[o] \in Rows
    BY <1>5, <2>1, KnownIsRow DEF TypeOK, Stages, InState, Days
  <2>4. row \in Rows
    BY <2>3, RowUpdates
  <2>5. command' = [command EXCEPT ![o] = row]
    BY <1>5 DEF Stages
  <2>2. command' \in [Operations -> Rows \cup {None}]
    BY <2>1, <2>4, <2>5 DEF TypeOK
  <2> QED
    BY <1>5, <2>2 DEF TypeOK, Stages, CallTypes, world, facts
<1>6. ASSUME NEW m \in Managers, NEW o \in Operations, NEW p \in Previews,
             NEW k \in ConfirmKeys, Confirms(m, o, p, k)
      PROVE  TypeOK'
  <2>1. CASE AcceptsAgain(m, o, p, k)
    <3>1. command[o].revision \in Nat
      BY <2>1, KnownIsRow DEF AcceptsAgain, InState, Rows
    <3>2. told' \in [Operations -> SUBSET [state : Settled, revision : Nat]]
      BY <2>1, <3>1, TellType DEF AcceptsAgain, Settled
    <3> QED
      BY <2>1, <3>2 DEF AcceptsAgain, TypeOK, world, ledger, facts
  <2>2. ASSUME NEW d \in Days, RejectsElapsed(m, o, p, d) PROVE TypeOK'
    <3>1. command' \in [Operations -> Rows \cup {None}]
      BY <2>2, KnownIsRow, RowUpdates
      DEF TypeOK, RejectsElapsed, Confirmable, InState, States, Settled
    <3>2. told' \in [Operations -> SUBSET [state : Settled, revision : Nat]]
      BY <2>2, TellType DEF RejectsElapsed, Settled
    <3> QED
      BY <2>2, <3>1, <3>2 DEF TypeOK, RejectsElapsed, world, facts
  <2>3. ASSUME NEW d \in Days, Accepts(m, o, p, k, d) PROVE TypeOK'
    <3> DEFINE b == command[o].body
    <3>0. Known(o) /\ command[o] \in Rows /\ b \in Bodies
      BY <2>3, KnownIsRow DEF Accepts, Confirmable, InState, Rows
    <3>1. revision + 1 \in Nat /\ revision' = revision + 1
      BY <2>3 DEF TypeOK, Accepts, AdvanceAuthority
    <3>2. command' \in [Operations -> Rows \cup {None}]
      BY <2>3, <3>0, <3>1, RowUpdates DEF TypeOK, Accepts
    <3>3. told' \in [Operations -> SUBSET [state : Settled, revision : Nat]]
      BY <2>3, <3>1, TellType DEF Accepts, Settled
    <3>4. authority' \in Seq(Operations \cup {Other})
      BY <2>3 DEF TypeOK, Accepts, AdvanceAuthority
    <3>5. absences' \subseteq Operations
      BY <2>3 DEF TypeOK, Accepts, RecordFact
    <3>6. cancellations' \subseteq Cancellations
      <4>1. CASE b.kind = "absence"
        BY <2>3, <4>1 DEF TypeOK, Accepts, RecordFact
      <4>2. CASE b.kind # "absence"
        <5>1. b.target \in Operations /\ b.start \in Days /\ b.end \in Days
          BY <3>0, <4>2 DEF Bodies
        <5>2. [target |-> b.target, operation |-> o, start |-> b.start,
               end |-> b.end, revision |-> revision + 1] \in Cancellations
          BY <5>1, <3>1 DEF Cancellations
        <5> QED
          BY <2>3, <4>2, <5>2 DEF TypeOK, Accepts, RecordFact
      <4> QED
        BY <4>1, <4>2
    <3> QED
      BY <2>3, <3>1, <3>2, <3>3, <3>4, <3>5, <3>6 DEF TypeOK, Accepts, world
  <2> QED
    BY <1>6, <2>1, <2>2, <2>3 DEF Confirms
<1>7. ASSUME NEW m \in Managers, NEW o \in Operations, Cancels(m, o) PROVE TypeOK'
  <2> DEFINE s == IF Owner(o) = m THEN "CANCELLED" ELSE "CANCELLED_BY_SUCCESSOR"
  <2>1. s \in Settled /\ s \in States
    BY DEF Settled, States
  <2>2. command' = [command EXCEPT ![o].state = s] /\ Tell(o, s, 0) /\ Known(o)
    BY <1>7 DEF Cancels
  <2>3. command' \in [Operations -> Rows \cup {None}]
    BY <2>1, <2>2, KnownIsRow, RowUpdates DEF TypeOK
  <2>4. told' \in [Operations -> SUBSET [state : Settled, revision : Nat]]
    BY <2>1, <2>2, TellType
  <2> QED
    BY <1>7, <2>3, <2>4 DEF TypeOK, Cancels, world, facts
<1>8. ASSUME NEW o \in Operations, CancelsTooLate(o) PROVE TypeOK'
  <2>1. command[o].revision \in Nat
    BY <1>8, KnownIsRow DEF CancelsTooLate, Rows
  <2>2. told' \in [Operations -> SUBSET [state : Settled, revision : Nat]]
    BY <1>8, <2>1, TellType DEF CancelsTooLate
  <2> QED
    BY <1>8, <2>2 DEF TypeOK, CancelsTooLate, world, ledger, facts
<1>9. CASE OtherRevision
  BY <1>9 DEF TypeOK, OtherRevision, AdvanceAuthority, world, facts
<1>10. ASSUME NEW e \in Changing, EmployeeChanges(e) PROVE TypeOK'
  BY <1>10 DEF TypeOK, EmployeeChanges, ledger, facts
<1>11. CASE NextDay
  BY <1>11 DEF TypeOK, NextDay, ledger, facts, Days
<1>12. CASE UNCHANGED vars
  BY <1>12 DEF TypeOK, vars
<1> QED
  BY <1>1, <1>2, <1>3, <1>4, <1>5, <1>6, <1>7, <1>8, <1>9, <1>10, <1>11, <1>12 DEF Next

\* The variables always have their types.
THEOREM TypeCorrect == Spec => []TypeOK
BY InitType, NextType, PTL DEF Spec

(***************************************************************************)
(* Command rows.                                                           *)
(***************************************************************************)
\* No step takes a command back, changes what it means, or touches it once
\* it is settled.
LEMMA HoldStep ==
  ASSUME TypeOK, [Next]_vars, NEW q \in Operations
  PROVE  CommandHolds(q)
<1> SUFFICES ASSUME Known(q) PROVE CommandHolds(q)
  BY DEF CommandHolds
<1>0. command[q] \in Rows
  BY KnownIsRow
<1>1. CASE command' = command
  BY <1>1 DEF CommandHolds, Known
<1>2. ASSUME NEW c \in Calls, BeginInserts(c) PROVE CommandHolds(q)
  <2>1. q # call[c].operation
    BY <1>2 DEF BeginInserts
  <2>2. command'[q] = command[q]
    BY <1>2, <2>1 DEF BeginInserts, TypeOK
  <2> QED
    BY <2>2 DEF CommandHolds, Known
<1>3. ASSUME NEW c \in Calls, NEW p \in Previews, NEW d \in Days, Stages(c, p, d)
      PROVE  CommandHolds(q)
  <2> DEFINE o == call[c].operation
  <2>1. command' = [command EXCEPT ![o] = [command[o] EXCEPT !.state = "PREPARED",
                      !.preview = p, !.preparedOn = today]]
    BY <1>3 DEF Stages
  <2>2. command[o].state = "PREPARING"
    BY <1>3 DEF Stages, InState
  <2>3. CASE q = o
    <3>1. command'[q] = [command[q] EXCEPT !.state = "PREPARED", !.preview = p,
                           !.preparedOn = today]
      BY <2>1, <2>3 DEF TypeOK
    <3>2. /\ command'[q].body = command[q].body
          /\ command'[q].expected = command[q].expected
      BY <3>1, <1>0 DEF Rows
    <3>0. today \in Nat
      BY DEF TypeOK, Days
    <3>4. [command[q] EXCEPT !.state = "PREPARED", !.preview = p,
             !.preparedOn = today] \in Rows
      BY <1>0, <3>0, RowUpdates
    <3>3. command'[q] \in Rows
      BY <3>1, <3>4
    <3> QED
      BY <2>2, <2>3, <3>2, <3>3 DEF CommandHolds, Known, Settled
  <2>4. CASE q # o
    BY <2>1, <2>4 DEF CommandHolds, Known, TypeOK
  <2> QED
    BY <2>3, <2>4
<1>4. ASSUME NEW o \in Operations, NEW s \in Settled,
             Known(o), command[o].state \notin Settled,
             command' = [command EXCEPT ![o].state = s]
      PROVE  CommandHolds(q)
  <2>1. command[o] \in Rows
    BY <1>4, KnownIsRow
  <2>2. CASE q = o
    <3>1. command'[q] = [command[q] EXCEPT !.state = s]
      BY <1>4, <2>2 DEF TypeOK
    <3>2. /\ command'[q].body = command[q].body
          /\ command'[q].expected = command[q].expected
          /\ command'[q].preview = command[q].preview
      BY <3>1, <1>0 DEF Rows
    <3>0. s \in States
      BY DEF States
    <3>4. [command[q] EXCEPT !.state = s] \in Rows
      BY <1>0, <3>0, RowUpdates
    <3>3. command'[q] \in Rows
      BY <3>1, <3>4
    <3> QED
      BY <1>4, <2>2, <3>2, <3>3 DEF CommandHolds, Known
  <2>3. CASE q # o
    BY <1>4, <2>3 DEF CommandHolds, Known, TypeOK
  <2> QED
    BY <2>2, <2>3
<1>5. ASSUME NEW m \in Managers, NEW o \in Operations, NEW p \in Previews,
             NEW k \in ConfirmKeys, NEW d \in Days, Accepts(m, o, p, k, d)
      PROVE  CommandHolds(q)
  <2>1. command' = [command EXCEPT ![o] = [command[o] EXCEPT !.state = "ACCEPTED",
                      !.key = k, !.revision = revision + 1]]
    BY <1>5 DEF Accepts
  <2>2. command[o].state = "PREPARED"
    BY <1>5 DEF Accepts, Confirmable, InState
  <2>3. CASE q = o
    <3>1. command'[q] = [command[q] EXCEPT !.state = "ACCEPTED", !.key = k,
                           !.revision = revision + 1]
      BY <2>1, <2>3 DEF TypeOK
    <3>2. /\ command'[q].body = command[q].body
          /\ command'[q].expected = command[q].expected
          /\ command'[q].preview = command[q].preview
      BY <3>1, <1>0 DEF Rows
    <3>0. revision + 1 \in Nat
      BY DEF TypeOK
    <3>4. [command[q] EXCEPT !.state = "ACCEPTED", !.key = k,
             !.revision = revision + 1] \in Rows
      BY <1>0, <3>0, RowUpdates
    <3>3. command'[q] \in Rows
      BY <3>1, <3>4
    <3> QED
      BY <2>2, <2>3, <3>2, <3>3 DEF CommandHolds, Known, Settled
  <2>4. CASE q # o
    BY <2>1, <2>4 DEF CommandHolds, Known, TypeOK
  <2> QED
    BY <2>3, <2>4
<1>6. ASSUME NEW m \in Managers, NEW o \in Operations, NEW p \in Previews,
             NEW k \in ConfirmKeys, Confirms(m, o, p, k)
      PROVE  CommandHolds(q)
  <2>1. ASSUME NEW d \in Days, RejectsElapsed(m, o, p, d) PROVE CommandHolds(q)
    BY <2>1, <1>4 DEF RejectsElapsed, Confirmable, InState, Settled
  <2> QED
    BY <1>6, <1>1, <1>5, <2>1 DEF Confirms, AcceptsAgain, ledger
<1>7. ASSUME NEW m \in Managers, NEW o \in Operations, Cancels(m, o)
      PROVE  CommandHolds(q)
  <2> DEFINE s == IF Owner(o) = m THEN "CANCELLED" ELSE "CANCELLED_BY_SUCCESSOR"
  <2>1. s \in Settled
    BY DEF Settled
  <2> QED
    BY <1>7, <2>1, <1>4 DEF Cancels
<1> QED
  BY <1>1, <1>2, <1>3, <1>6, <1>7
  DEF Next, BeginChecks, CallEnds, PrepareReads, CancelsTooLate, OtherRevision,
      EmployeeChanges, NextDay, ledger, facts, vars

\* A begun command keeps its meaning, a prepared one its preview, a settled
\* one everything.
THEOREM Frozen == Spec => CommandsHold
<1>1. TypeOK /\ [Next]_vars => [\A o \in Operations : CommandHolds(o)]_vars
  BY HoldStep
<1> QED
  BY <1>1, TypeCorrect, PTL DEF Spec, CommandsHold

(***************************************************************************)
(* The authority history.                                                  *)
(***************************************************************************)
\* A step that records nothing: no revision, no fact, no acceptance.
Quiet ==
  /\ UNCHANGED <<revision, authority, absences, cancellations>>
  /\ \A q \in Operations : InState(q, "ACCEPTED")' => InState(q, "ACCEPTED")

\* Only an acceptance and somebody else's revision record anything.
LEMMA QuietSteps ==
  ASSUME TypeOK, [Next]_vars
  PROVE  \/ Quiet
         \/ OtherRevision
         \/ \E m \in Managers, o \in Operations, p \in Previews,
               k \in ConfirmKeys, d \in Days : Accepts(m, o, p, k, d)
<1>1. ASSUME command' = command, UNCHANGED <<revision, authority, absences, cancellations>>
      PROVE  Quiet
  BY <1>1 DEF Quiet, InState, Known
<1>2. ASSUME NEW o \in Operations, NEW r \in Rows, r.state # "ACCEPTED",
             command' = [command EXCEPT ![o] = r],
             UNCHANGED <<revision, authority, absences, cancellations>>
      PROVE  Quiet
  BY <1>2 DEF Quiet, InState, Known, TypeOK
<1>3. ASSUME NEW c \in Calls, BeginInserts(c) PROVE Quiet
  <2> DEFINE k == call[c]
             r == [state |-> "PREPARING", body |-> k.body, expected |-> k.expected,
                   preparedOn |-> 0, preview |-> None, key |-> None, revision |-> 0]
  <2>1. k \in [pc : {"begin"}, operation : Operations, body : Bodies, expected : Nat]
    BY <1>3 DEF TypeOK, CallTypes, BeginInserts, Idle
  <2>2. r \in Rows /\ r.state # "ACCEPTED" /\ k.operation \in Operations
    BY <2>1 DEF Rows, States
  <2>3. command' = [command EXCEPT ![k.operation] = r]
    BY <1>3 DEF BeginInserts
  <2>4. UNCHANGED <<revision, authority, absences, cancellations>>
    BY <1>3 DEF BeginInserts, facts
  <2> QED
    BY <1>2, <2>2, <2>3, <2>4
<1>4. ASSUME NEW c \in Calls, NEW p \in Previews, NEW d \in Days, Stages(c, p, d)
      PROVE  Quiet
  <2> DEFINE o == call[c].operation
             r == [command[o] EXCEPT !.state = "PREPARED", !.preview = p,
                                     !.preparedOn = today]
  <2>1. o \in Operations
    BY <1>4 DEF TypeOK, CallTypes, Stages, Idle
  <2>2. today \in Nat /\ command[o] \in Rows
    BY <1>4, <2>1, KnownIsRow DEF TypeOK, Stages, InState, Days
  <2>3. r \in Rows
    BY <2>2, RowUpdates
  <2>4. r.state # "ACCEPTED"
    BY <2>2 DEF Rows
  <2>5. command' = [command EXCEPT ![o] = r]
    BY <1>4 DEF Stages
  <2>6. UNCHANGED <<revision, authority, absences, cancellations>>
    BY <1>4 DEF Stages, facts
  <2> QED
    BY <1>2, <2>1, <2>3, <2>4, <2>5, <2>6
<1>5. ASSUME NEW o \in Operations, NEW s \in States, Known(o), s # "ACCEPTED",
             command' = [command EXCEPT ![o].state = s],
             UNCHANGED <<revision, authority, absences, cancellations>>
      PROVE  Quiet
  <2> DEFINE r == [command[o] EXCEPT !.state = s]
  <2>1. command[o] \in Rows
    BY <1>5, KnownIsRow
  <2>2. r \in Rows
    BY <2>1, RowUpdates
  <2>3. r.state # "ACCEPTED"
    BY <1>5, <2>1 DEF Rows
  <2> QED
    BY <1>2, <1>5, <2>2, <2>3
<1>6. ASSUME NEW m \in Managers, NEW o \in Operations, NEW p \in Previews,
             NEW k \in ConfirmKeys, Confirms(m, o, p, k)
      PROVE  Quiet \/ \E d \in Days : Accepts(m, o, p, k, d)
  <2>1. ASSUME NEW d \in Days, RejectsElapsed(m, o, p, d) PROVE Quiet
    BY <2>1, <1>5 DEF RejectsElapsed, Confirmable, InState, States, Settled, facts
  <2> QED
    BY <1>6, <1>1, <2>1 DEF Confirms, AcceptsAgain, ledger
<1>7. ASSUME NEW m \in Managers, NEW o \in Operations, Cancels(m, o) PROVE Quiet
  <2> DEFINE s == IF Owner(o) = m THEN "CANCELLED" ELSE "CANCELLED_BY_SUCCESSOR"
  <2>1. s \in States /\ s # "ACCEPTED"
    BY DEF Settled, States
  <2> QED
    BY <1>7, <2>1, <1>5 DEF Cancels, facts
<1> QED
  BY <1>1, <1>3, <1>4, <1>6, <1>7
  DEF Next, BeginChecks, CallEnds, PrepareReads, CancelsTooLate, EmployeeChanges,
      NextDay, ledger, facts, vars

\* What an acceptance does to the command rows.
LEMMA AcceptRows ==
  ASSUME TypeOK, NEW m \in Managers, NEW o \in Operations, NEW p \in Previews,
         NEW k \in ConfirmKeys, NEW d \in Days, Accepts(m, o, p, k, d)
  PROVE  /\ Known(o) /\ command[o] \in Rows /\ command[o].state = "PREPARED"
         /\ command[o].expected = revision
         /\ InState(o, "ACCEPTED")'
         /\ command'[o].revision = revision + 1
         /\ command'[o].expected = command[o].expected
         /\ command'[o].body = command[o].body
         /\ \A q \in Operations : q # o => command'[q] = command[q]
<1>1. Known(o) /\ command[o] \in Rows /\ command[o].state = "PREPARED"
  BY KnownIsRow DEF Accepts, Confirmable, InState
<1>2. command'[o] = [command[o] EXCEPT !.state = "ACCEPTED", !.key = k,
                                       !.revision = revision + 1]
  BY DEF TypeOK, Accepts
<1>3. revision + 1 \in Nat /\ command[o].expected = revision
  BY DEF TypeOK, Accepts, AdvanceAuthority
<1>4. [command[o] EXCEPT !.state = "ACCEPTED", !.key = k,
                         !.revision = revision + 1] \in Rows
  BY <1>1, <1>3, RowUpdates
<1>5. command'[o] \in Rows
  BY <1>2, <1>4
<1>6. /\ command'[o].state = "ACCEPTED"
      /\ command'[o].revision = revision + 1
      /\ command'[o].expected = command[o].expected
      /\ command'[o].body = command[o].body
  BY <1>1, <1>2 DEF Rows
<1>7. \A q \in Operations : q # o => command'[q] = command[q]
  BY DEF TypeOK, Accepts
<1> QED
  BY <1>1, <1>3, <1>5, <1>6, <1>7 DEF InState, Known

LEMMA InitRecord == Init => AcceptedOnRecord /\ CancellationsFit
BY DEF Init, AcceptedOnRecord, CancellationsFit, InState, Known

\* An accepted row is not touched again.
LEMMA AcceptedStays ==
  ASSUME TypeOK, [Next]_vars, NEW q \in Operations, InState(q, "ACCEPTED")
  PROVE  InState(q, "ACCEPTED")' /\ command'[q] = command[q]
<1>1. CommandHolds(q)
  BY HoldStep
<1> QED
  BY <1>1 DEF CommandHolds, InState, Known, Settled

\* Appending keeps the entries there are.
LEMMA Appended ==
  ASSUME NEW S, NEW a \in Seq(S), NEW e \in S
  PROVE  /\ Append(a, e) \in Seq(S)
         /\ Len(Append(a, e)) = Len(a) + 1
         /\ \A i \in 1..Len(a) : Append(a, e)[i] = a[i]
         /\ Append(a, e)[Len(a) + 1] = e
OBVIOUS

\* Every step keeps history, rows and facts in agreement.
LEMMA RecordStep == TypeOK /\ AcceptedOnRecord /\ [Next]_vars => AcceptedOnRecord'
<1> SUFFICES ASSUME TypeOK, AcceptedOnRecord, [Next]_vars PROVE AcceptedOnRecord'
  OBVIOUS
<1>0. \A q \in Operations : InState(q, "ACCEPTED") =>
        InState(q, "ACCEPTED")' /\ command'[q] = command[q]
  BY AcceptedStays
<1>1. CASE Quiet
  <2>1. \A q \in Operations : InState(q, "ACCEPTED")' <=> InState(q, "ACCEPTED")
    BY <1>0, <1>1 DEF Quiet
  <2>2. \A i \in 1..Len(authority) : authority[i] # Other => authority[i] \in Operations
    BY DEF TypeOK
  <2>3. UNCHANGED <<revision, authority, absences, cancellations>>
    BY <1>1 DEF Quiet
  <2>4. /\ revision' = Len(authority')
        /\ \A o \in Operations : InState(o, "ACCEPTED")' =>
             /\ command'[o].revision = command'[o].expected + 1
             /\ command'[o].revision \in 1..Len(authority')
             /\ authority'[command'[o].revision] = o
    BY <1>0, <2>1, <2>3 DEF AcceptedOnRecord
  <2>5. \A i \in 1..Len(authority') : authority'[i] # Other =>
             /\ InState(authority[i], "ACCEPTED")'
             /\ command'[authority'[i]].revision = i
    BY <1>0, <2>1, <2>2, <2>3 DEF AcceptedOnRecord
  <2>6. \A o \in Operations :
           o \in absences' <=> /\ InState(o, "ACCEPTED")'
                               /\ command'[o].body.kind = "absence"
    BY <1>0, <2>1, <2>3 DEF AcceptedOnRecord
  <2>7. \A o \in Operations :
          (\E x \in cancellations' : x.operation = o) <=>
             /\ InState(o, "ACCEPTED")'
             /\ command'[o].body.kind = "cancel_absence"
    BY <1>0, <2>1, <2>3 DEF AcceptedOnRecord
  <2> QED
    BY <2>3, <2>4, <2>5, <2>6, <2>7 DEF AcceptedOnRecord
<1>2. CASE OtherRevision
  <2>1. /\ authority' = Append(authority, Other) /\ revision' = revision + 1
        /\ command' = command /\ absences' = absences /\ cancellations' = cancellations
    BY <1>2 DEF OtherRevision, AdvanceAuthority, facts
  <2>2. authority \in Seq(Operations \cup {Other})
    BY DEF TypeOK
  <2>3. /\ Len(authority') = Len(authority) + 1
        /\ \A i \in 1..Len(authority) : authority'[i] = authority[i]
        /\ authority'[Len(authority) + 1] = Other
    BY <2>1, <2>2, Appended
  <2>4. \A o : InState(o, "ACCEPTED")' <=> InState(o, "ACCEPTED")
    BY <2>1 DEF InState, Known
  <2>5. Len(authority) \in Nat
    BY <2>2
  <2>6. \A i \in 1..Len(authority') : authority'[i] # Other => i \in 1..Len(authority)
    BY <2>3, <2>5
  <2> QED
    BY <2>1, <2>3, <2>4, <2>5, <2>6 DEF AcceptedOnRecord
<1>3. ASSUME NEW m \in Managers, NEW o \in Operations, NEW p \in Previews,
             NEW k \in ConfirmKeys, NEW d \in Days, Accepts(m, o, p, k, d)
      PROVE  AcceptedOnRecord'
  <2> DEFINE b == command[o].body
  <2>1. /\ Known(o) /\ command[o] \in Rows /\ command[o].state = "PREPARED"
        /\ command[o].expected = revision
        /\ InState(o, "ACCEPTED")'
        /\ command'[o].revision = revision + 1
        /\ command'[o].expected = command[o].expected
        /\ command'[o].body = command[o].body
        /\ \A q \in Operations : q # o => command'[q] = command[q]
    BY <1>3, AcceptRows
  <2>2. /\ authority' = Append(authority, o) /\ revision' = revision + 1
        /\ authority \in Seq(Operations \cup {Other})
    BY <1>3 DEF Accepts, AdvanceAuthority, TypeOK
  <2>3. /\ Len(authority') = Len(authority) + 1
        /\ \A i \in 1..Len(authority) : authority'[i] = authority[i]
        /\ authority'[Len(authority) + 1] = o
    BY <2>2, Appended
  <2>4. Len(authority) \in Nat /\ revision = Len(authority)
    BY <2>2 DEF AcceptedOnRecord
  <2>5. \A q \in Operations : q # o => (InState(q, "ACCEPTED")' <=> InState(q, "ACCEPTED"))
    BY <2>1 DEF InState, Known
  <2>6. ~InState(o, "ACCEPTED")
    BY <2>1 DEF InState
  <2>7. ASSUME NEW q \in Operations, InState(q, "ACCEPTED")'
        PROVE  /\ command'[q].revision = command'[q].expected + 1
               /\ command'[q].revision \in 1..Len(authority')
               /\ authority'[command'[q].revision] = q
    <3>1. CASE q = o
      BY <2>1, <2>3, <2>4, <3>1
    <3>2. CASE q # o
      BY <2>1, <2>3, <2>4, <2>5, <2>7, <3>2 DEF AcceptedOnRecord
    <3> QED
      BY <3>1, <3>2
  <2>8. ASSUME NEW i \in 1..Len(authority'), authority'[i] # Other
        PROVE  /\ InState(authority[i], "ACCEPTED")'
               /\ command'[authority'[i]].revision = i
    <3>1. CASE i = Len(authority) + 1
      BY <2>1, <2>3, <2>4, <3>1 DEF InState, Known
    <3>2. CASE i # Len(authority) + 1
      <4>1. i \in 1..Len(authority)
        BY <2>3, <2>4, <3>2
      <4>2. authority'[i] = authority[i] /\ authority[i] \in Operations
        BY <4>1, <2>2, <2>3, <2>8
      <4>3. InState(authority[i], "ACCEPTED") /\ command[authority[i]].revision = i
        BY <4>1, <4>2, <2>8 DEF AcceptedOnRecord
      <4>4. authority[i] # o
        BY <4>3, <2>6
      <4> QED
        BY <4>2, <4>3, <4>4, <2>1, <1>0 DEF InState, Known
    <3> QED
      BY <3>1, <3>2
  <2>9. b.kind \in {"absence", "cancel_absence"}
    BY <2>1 DEF Rows, Bodies
  <2>10. \A q \in Operations :
           q \in absences' <=> /\ InState(q, "ACCEPTED")'
                               /\ command'[q].body.kind = "absence"
    <3>1. absences' = IF b.kind = "absence" THEN absences \cup {o} ELSE absences
      BY <1>3 DEF Accepts, RecordFact
    <3>2. o \notin absences
      BY <2>6 DEF AcceptedOnRecord
    <3> QED
      BY <3>1, <3>2, <2>1, <2>5 DEF AcceptedOnRecord
  <2>11. \A q \in Operations :
           (\E x \in cancellations' : x.operation = q) <=>
              /\ InState(q, "ACCEPTED")'
              /\ command'[q].body.kind = "cancel_absence"
    <3> DEFINE x0 == [target |-> b.target, operation |-> o, start |-> b.start,
                      end |-> b.end, revision |-> revision + 1]
    <3>0. x0.operation = o
      OBVIOUS
    <3>1. ~ \E x \in cancellations : x.operation = o
      BY <2>6 DEF AcceptedOnRecord
    <3>2. \A q \in Operations : q # o =>
            ((\E x \in cancellations : x.operation = q) <=>
               /\ InState(q, "ACCEPTED")'
               /\ command'[q].body.kind = "cancel_absence")
      BY <2>1, <2>5 DEF AcceptedOnRecord
    <3>3. CASE b.kind = "absence"
      <4>1. cancellations' = cancellations
        BY <1>3, <3>3 DEF Accepts, RecordFact
      <4> QED
        BY <4>1, <3>1, <3>2, <3>3, <2>1
    <3>4. CASE b.kind # "absence"
      <4>1. cancellations' = cancellations \cup {x0}
        BY <1>3, <3>4 DEF Accepts, RecordFact
      <4>2. \A q : (\E x \in cancellations' : x.operation = q)
                     <=> q = o \/ \E x \in cancellations : x.operation = q
        BY <4>1, <3>0
      <4> HIDE DEF x0
      <4> QED
        BY <4>2, <3>2, <3>4, <2>1, <2>9
    <3> QED
      BY <3>3, <3>4
  <2> QED
    BY <2>2, <2>3, <2>4, <2>7, <2>8, <2>10, <2>11 DEF AcceptedOnRecord
<1> QED
  BY <1>1, <1>2, <1>3, QuietSteps

\* A command is accepted exactly when the history holds it, once, where it was
\* prepared for, and exactly then its fact is recorded.
THEOREM OnRecord == Spec => []AcceptedOnRecord
BY InitRecord, RecordStep, TypeCorrect, PTL DEF Spec

\* A cancellation is accepted only for an absence that stands, so the
\* cancellations keep fitting their absences.
LEMMA FitStep ==
  TypeOK /\ AcceptedOnRecord /\ CancellationsFit /\ [Next]_vars => CancellationsFit'
<1> SUFFICES ASSUME TypeOK, AcceptedOnRecord, CancellationsFit, [Next]_vars
             PROVE  CancellationsFit'
  OBVIOUS
<1>0. \A x \in cancellations :
        /\ x.target \in Operations /\ x.operation \in Operations
        /\ InState(x.target, "ACCEPTED") /\ InState(x.operation, "ACCEPTED")
  <2>1. \A x \in cancellations : x.target \in Operations /\ x.operation \in Operations
    BY DEF TypeOK, Cancellations
  <2>2. \A x \in cancellations : InState(x.target, "ACCEPTED")
    BY <2>1 DEF AcceptedOnRecord, CancellationsFit
  <2>3. \A x \in cancellations : InState(x.operation, "ACCEPTED")
    BY <2>1 DEF AcceptedOnRecord
  <2> QED
    BY <2>1, <2>2, <2>3
<1>1. \A x \in cancellations :
        /\ InState(x.target, "ACCEPTED")' /\ command'[x.target] = command[x.target]
        /\ InState(x.operation, "ACCEPTED")' /\ command'[x.operation] = command[x.operation]
  BY <1>0, AcceptedStays
<1>2. CASE UNCHANGED <<absences, cancellations>>
  BY <1>1, <1>2 DEF CancellationsFit, InState
<1>3. ASSUME NEW m \in Managers, NEW o \in Operations, NEW p \in Previews,
             NEW k \in ConfirmKeys, NEW d \in Days, Accepts(m, o, p, k, d)
      PROVE  CancellationsFit'
  <2> DEFINE b == command[o].body
             x0 == [target |-> b.target, operation |-> o, start |-> b.start,
                    end |-> b.end, revision |-> revision + 1]
  <2>1. CASE b.kind = "absence"
    <3>1. cancellations' = cancellations /\ absences \subseteq absences'
      BY <1>3, <2>1 DEF Accepts, RecordFact
    <3> QED
      BY <1>1, <3>1 DEF CancellationsFit, InState
  <2>2. CASE b.kind # "absence"
    <3>1. cancellations' = cancellations \cup {x0} /\ absences' = absences
      BY <1>3, <2>2 DEF Accepts, RecordFact
    <3>2. TargetOpen(b, d)
      BY <1>3, <2>2 DEF Accepts, Admissible
    <3>3. /\ InState(o, "ACCEPTED")'
          /\ command'[o].revision = revision + 1
          /\ command'[o].body = b
          /\ Known(o) /\ command[o] \in Rows
      BY <1>3, AcceptRows
    <3>4. /\ b.target \in absences /\ b.target \in Operations
          /\ \A x \in cancellations : x.target # b.target
      BY <3>2 DEF TargetOpen, TypeOK
    <3>5. InState(b.target, "ACCEPTED") /\ command[b.target].revision \in 1..Len(authority)
      BY <3>4 DEF AcceptedOnRecord
    <3>t. PICK t \in Operations : t = b.target
      BY <3>4
    <3>6. InState(t, "ACCEPTED")' /\ command'[t] = command[t]
      BY <3>t, <3>5, AcceptedStays
    <3>7. /\ x0.target = b.target /\ x0.operation = o /\ x0.start = b.start
          /\ x0.end = b.end /\ x0.revision = revision + 1
      OBVIOUS
    <3>8. /\ b.employee = command[b.target].body.employee
          /\ command[b.target].body.start <= b.start
          /\ b.end = command[b.target].body.end
      <4>1. command[b.target] \in Rows
        BY <3>4, <3>5, KnownIsRow DEF InState
      <4>2. command[b.target].body.start \in Nat /\ d \in Nat
        BY <4>1 DEF Rows, Bodies, Days
      <4> QED
        BY <3>2, <4>2 DEF TargetOpen
    <3>9. command[b.target].revision < revision + 1
      <4>1. revision = Len(authority) /\ revision \in Nat
        BY DEF AcceptedOnRecord, TypeOK
      <4> QED
        BY <3>5, <4>1
    <3> HIDE DEF x0
    <3>10. \A x, y \in cancellations' : x.target = y.target => x = y
      BY <3>1, <3>4, <3>7 DEF CancellationsFit
    <3>11. ASSUME NEW x \in cancellations'
           PROVE /\ x.target \in absences'
                 /\ Known(x.target)' /\ Known(x.operation)'
                 /\ command'[x.target].revision < x.revision
                 /\ command'[x.operation].revision = x.revision
                 /\ command'[x.operation].body.target = x.target
                 /\ command'[x.operation].body.employee = command'[x.target].body.employee
                 /\ command'[x.target].body.start <= x.start
                 /\ x.end = command'[x.target].body.end
      <4>1. CASE x \in cancellations
        BY <1>1, <3>1, <4>1 DEF CancellationsFit, InState
      <4>2. CASE x = x0
        BY <3>t, <3>1, <3>3, <3>4, <3>6, <3>7, <3>8, <3>9, <4>2 DEF InState
      <4> QED
        BY <3>1, <4>1, <4>2
    <3> QED
      BY <3>10, <3>11 DEF CancellationsFit
  <2> QED
    BY <2>1, <2>2
<1> QED
  BY <1>2, <1>3, QuietSteps DEF Quiet, OtherRevision, facts

\* An absence is cancelled at most once, later, and over a tail of its window.
THEOREM Fit == Spec => []CancellationsFit
BY InitRecord, FitStep, TypeCorrect, OnRecord, PTL DEF Spec

(***************************************************************************)
(* Refinement.                                                             *)
(***************************************************************************)
\* A sequence with one more entry, as a function.
LEMMA AppendIs ==
  ASSUME NEW S, NEW a \in Seq(S), NEW e
  PROVE  Append(a, e) = [i \in 1..Len(a) + 1 |-> IF i = Len(a) + 1 THEN e ELSE a[i]]
<1>1. a \in Seq(S \cup {e})
  OBVIOUS
<1>2. DEFINE b == [i \in 1..Len(a) + 1 |-> IF i = Len(a) + 1 THEN e ELSE a[i]]
<1>3. b \in Seq(S \cup {e}) /\ Len(b) = Len(a) + 1
  BY <1>1
<1>4. Append(a, e) \in Seq(S \cup {e}) /\ Len(Append(a, e)) = Len(a) + 1
  BY <1>1
<1>5. \A i \in 1..Len(a) + 1 : Append(a, e)[i] = b[i]
  BY <1>1
<1> HIDE DEF b
<1>6. Append(a, e) = b
  BY <1>3, <1>4, <1>5, SeqEqual
<1> QED
  BY <1>6 DEF b

\* One entry of the history.
EntryOf(o) == [operation |-> o, target |-> IF o = Other THEN None ELSE command[o].body.target]

\* What the history maps to, entry by entry.
LEMMA Mapped ==
  ASSUME TypeOK
  PROVE  /\ HistoryOf(authority) \in Seq([operation : Operations \cup {Other},
                target : {EntryOf(o).target : o \in Operations \cup {Other}}])
         /\ Len(HistoryOf(authority)) = Len(authority)
         /\ \A i \in 1..Len(authority) : HistoryOf(authority)[i] = EntryOf(authority[i])
<1>1. authority \in Seq(Operations \cup {Other}) /\ Len(authority) \in Nat
  BY DEF TypeOK
<1>2. \A i \in 1..Len(authority) : authority[i] \in Operations \cup {Other}
  BY <1>1
<1>3. HistoryOf(authority) = [i \in 1..Len(authority) |-> EntryOf(authority[i])]
  BY DEF HistoryOf, EntryOf
<1>4. \A o \in Operations \cup {Other} :
        EntryOf(o) \in [operation : Operations \cup {Other},
                        target : {EntryOf(q).target : q \in Operations \cup {Other}}]
  BY DEF EntryOf
<1> HIDE DEF EntryOf
<1> QED
  BY <1>1, <1>2, <1>3, <1>4

\* Appending an entry to the authority appends its image.
LEMMA MapAppends ==
  ASSUME TypeOK, AcceptedOnRecord, [Next]_vars,
         NEW o \in Operations \cup {Other}, authority' = Append(authority, o)
  PROVE  HistoryOf(authority)' = Append(HistoryOf(authority), EntryOf(o)')
<1>1. authority \in Seq(Operations \cup {Other}) /\ Len(authority) \in Nat
  BY DEF TypeOK
<1>2. /\ Len(authority') = Len(authority) + 1
      /\ \A i \in 1..Len(authority) : authority'[i] = authority[i]
      /\ authority'[Len(authority) + 1] = o
  BY <1>1, Appended
<1> DEFINE H == HistoryOf(authority)
           Later(q) == [operation |-> q,
                        target |-> IF q = Other THEN None ELSE command'[q].body.target]
           E == Later(o)
<1>3. \A i \in 1..Len(authority) : Later(authority[i]) = EntryOf(authority[i])
  <2> TAKE i \in 1..Len(authority)
  <2>1. CASE authority[i] = Other
    BY <2>1 DEF EntryOf
  <2>2. CASE authority[i] # Other
    <3>1. authority[i] \in Operations /\ InState(authority[i], "ACCEPTED")
      BY <1>1, <2>2 DEF AcceptedOnRecord
    <3>2. command'[authority[i]] = command[authority[i]]
      BY <3>1, AcceptedStays
    <3> QED
      BY <3>2 DEF EntryOf
  <2> QED
    BY <2>1, <2>2
<1>4. HistoryOf(authority)' = [i \in 1..Len(authority') |-> Later(authority'[i])]
  BY DEF HistoryOf
<1>5. EntryOf(o)' = E
  BY DEF EntryOf
<1>6. H \in Seq([operation : Operations \cup {Other},
                 target : {EntryOf(q).target : q \in Operations \cup {Other}}])
      /\ Len(H) = Len(authority)
      /\ \A i \in 1..Len(authority) : H[i] = EntryOf(authority[i])
  BY Mapped
<1> HIDE DEF H, Later
<1>7. \A i \in 1..Len(H) + 1 :
        Later(authority'[i]) = IF i = Len(H) + 1 THEN E ELSE H[i]
  BY <1>1, <1>2, <1>3, <1>6
<1>8. Append(H, E) = [i \in 1..Len(H) + 1 |-> IF i = Len(H) + 1 THEN E ELSE H[i]]
  BY <1>6, AppendIs
<1>9. HistoryOf(authority)' = [i \in 1..Len(H) + 1 |-> Later(authority'[i])]
  BY <1>2, <1>4, <1>6
<1>10. [i \in 1..Len(H) + 1 |-> Later(authority'[i])]
         = [i \in 1..Len(H) + 1 |-> IF i = Len(H) + 1 THEN E ELSE H[i]]
  BY <1>7
<1>11. HistoryOf(authority)' = Append(H, E)
  BY <1>8, <1>9, <1>10
<1> QED
  BY <1>5, <1>11 DEF H

\* The empty history is the initial one.
LEMMA InitRefines == Init => Abstract!Init
<1> SUFFICES ASSUME Init PROVE HistoryOf(authority) = <<>>
  BY DEF Abstract!Init
<1>1. authority = <<>> /\ Len(authority) = 0
  BY DEF Init
<1>2. 1..Len(authority) = {}
  BY <1>1
<1>3. HistoryOf(authority) = [i \in {} |-> EntryOf(authority[i])]
  BY <1>2 DEF HistoryOf, EntryOf
<1>4. HistoryOf(authority) \in Seq({}) /\ Len(HistoryOf(authority)) = 0
  <2>1. HistoryOf(authority) \in [1..0 -> {}]
    BY <1>3
  <2> QED
    BY <2>1
<1> QED
  BY <1>4

\* Every step is a step of the abstract authority, or none.
LEMMA StepRefines ==
  TypeOK /\ AcceptedOnRecord /\ CancellationsFit /\ [Next]_vars
    => [Abstract!Next]_(HistoryOf(authority))
<1> SUFFICES ASSUME TypeOK, AcceptedOnRecord, CancellationsFit, [Next]_vars
             PROVE  Abstract!Next \/ UNCHANGED HistoryOf(authority)
  OBVIOUS
<1> DEFINE H == HistoryOf(authority)
<1>0. /\ Len(H) = Len(authority)
      /\ \A i \in 1..Len(authority) : H[i] = EntryOf(authority[i])
      /\ authority \in Seq(Operations \cup {Other})
  BY Mapped DEF TypeOK
<1>1. CASE Quiet
  <2>1. authority' = authority
    BY <1>1 DEF Quiet
  <2>2. \A i \in 1..Len(authority) :
          authority[i] # Other => command'[authority[i]] = command[authority[i]]
    <3> TAKE i \in 1..Len(authority)
    <3> HAVE authority[i] # Other
    <3>1. authority[i] \in Operations /\ InState(authority[i], "ACCEPTED")
      BY <1>0 DEF AcceptedOnRecord
    <3> QED
      BY <3>1, AcceptedStays
  <2>3. HistoryOf(authority)' = HistoryOf(authority)
    BY <2>1, <2>2 DEF HistoryOf
  <2> QED
    BY <2>3
<1>2. CASE OtherRevision
  <2>1. authority' = Append(authority, Other)
    BY <1>2 DEF OtherRevision, AdvanceAuthority
  <2>2. HistoryOf(authority)' = Append(H, EntryOf(Other)')
    BY <2>1, MapAppends
  <2>3. EntryOf(Other)' = [operation |-> Other, target |-> None]
    BY DEF EntryOf
  <2> QED
    BY <2>2, <2>3 DEF Abstract!Next, Abstract!ApplyOther
<1>3. ASSUME NEW m \in Managers, NEW o \in Operations, NEW p \in Previews,
             NEW k \in ConfirmKeys, NEW d \in Days, Accepts(m, o, p, k, d)
      PROVE  Abstract!Next
  <2> DEFINE b == command[o].body
  <2>1. /\ command[o] \in Rows /\ command[o].state = "PREPARED"
        /\ command'[o].body = b
    BY <1>3, AcceptRows
  <2>2. authority' = Append(authority, o) /\ o # Other
    BY <1>3 DEF Accepts, AdvanceAuthority
  <2>3. HistoryOf(authority)' = Append(H, [operation |-> o, target |-> b.target])
    <3>1. HistoryOf(authority)' = Append(H, EntryOf(o)')
      BY <2>2, MapAppends
    <3>2. EntryOf(o)' = [operation |-> o, target |-> b.target]
      BY <2>1, <2>2 DEF EntryOf
    <3> QED
      BY <3>1, <3>2
  <2>4. b \in Bodies /\ b.target \in Operations \cup {None}
    BY <2>1 DEF Rows, Bodies
  <2>5. \A i \in 1..Len(H) : H[i].operation # o
    <3> TAKE i \in 1..Len(H)
    <3>0. H[i] = EntryOf(authority[i])
      BY <1>0
    <3>1. H[i].operation = authority[i]
      BY <3>0 DEF EntryOf
    <3>2. authority[i] # o
      BY <1>0, <2>1, <2>2 DEF AcceptedOnRecord, InState
    <3> QED
      BY <3>1, <3>2
  <2>6. b.target # None => Abstract!Standing(b.target)
    <3> SUFFICES ASSUME b.target # None PROVE Abstract!Standing(b.target)
      OBVIOUS
    <3> DEFINE t == b.target
    <3>1. t \in Operations /\ b.kind # "absence"
      BY <2>4 DEF Bodies
    <3>2. TargetOpen(b, d)
      BY <1>3, <3>1 DEF Accepts, Admissible
    <3>3. t \in absences /\ \A x \in cancellations : x.target # t
      BY <3>2 DEF TargetOpen
    <3>4. /\ InState(t, "ACCEPTED") /\ command[t].body.kind = "absence"
          /\ command[t].revision \in 1..Len(authority)
          /\ authority[command[t].revision] = t
      BY <3>1, <3>3 DEF AcceptedOnRecord
    <3>5. command[t].body.target = None
      <4>1. command[t] \in Rows
        BY <3>1, <3>4, KnownIsRow DEF InState
      <4> QED
        BY <4>1, <3>4 DEF Rows, Bodies
    <3>6. \E i \in 1..Len(H) : H[i] = [operation |-> t, target |-> None]
      <4>1. H[command[t].revision] = EntryOf(t)
        BY <1>0, <3>4
      <4>2. EntryOf(t) = [operation |-> t, target |-> None]
        BY <3>5 DEF EntryOf
      <4> QED
        BY <1>0, <3>4, <4>1, <4>2
    <3>7. \A i \in 1..Len(H) : H[i].target # t
      <4> SUFFICES ASSUME NEW i \in 1..Len(H), H[i].target = t PROVE FALSE
        OBVIOUS
      <4>1. H[i] = EntryOf(authority[i])
        BY <1>0
      <4>2. t # None
        OBVIOUS
      <4>3. authority[i] # Other /\ command[authority[i]].body.target = t
        BY <4>1, <4>2 DEF EntryOf
      <4>4. authority[i] \in Operations /\ InState(authority[i], "ACCEPTED")
        BY <1>0, <4>3 DEF AcceptedOnRecord
      <4>5. command[authority[i]].body \in Bodies
        BY <4>4, KnownIsRow DEF InState, Rows
      <4>6. command[authority[i]].body.kind = "cancel_absence"
        BY <4>2, <4>3, <4>5 DEF Bodies
      <4>7. PICK x \in cancellations : x.operation = authority[i]
        BY <4>4, <4>6 DEF AcceptedOnRecord
      <4>8. x.target = t
        BY <4>3, <4>7 DEF CancellationsFit
      <4> QED
        BY <3>3, <4>8
    <3> HIDE DEF H
    <3> QED
      BY <3>6, <3>7 DEF Abstract!Standing, H
  <2>7. Abstract!Apply(o, b.target)
    BY <2>3, <2>5, <2>6 DEF Abstract!Apply
  <2> QED
    BY <2>4, <2>7 DEF Abstract!Next
<1> QED
  BY <1>1, <1>2, <1>3, QuietSteps

\* The ledger implements the abstract authority.
THEOREM Refines == Spec => KeepsAuthority
<1>1. TypeOK /\ AcceptedOnRecord /\ CancellationsFit /\ [Next]_vars
        => [Abstract!Next]_(HistoryOf(authority))
  BY StepRefines
<1> QED
  BY <1>1, InitRefines, TypeCorrect, OnRecord, Fit, PTL
  DEF Spec, KeepsAuthority, Abstract!Spec

(***************************************************************************)
(* Final answers.                                                          *)
(***************************************************************************)
\* Only an acceptance gives a row its revision.
Unrevised ==
  \A o \in Operations : Known(o) /\ command[o].state # "ACCEPTED" => command[o].revision = 0

\* What has been told of a command is what its row says.
ToldIsSettled ==
  \A o \in Operations : \A s \in told[o] :
    /\ Known(o)
    /\ s = Answer(command[o].state, command[o].revision)

LEMMA UnrevisedStep == TypeOK /\ Unrevised /\ [Next]_vars => Unrevised'
<1> SUFFICES ASSUME TypeOK, Unrevised, [Next]_vars PROVE Unrevised'
  OBVIOUS
<1>1. CASE command' = command
  BY <1>1 DEF Unrevised, Known
<1>2. ASSUME NEW o \in Operations, NEW r \in Rows, r.revision = 0,
             command' = [command EXCEPT ![o] = r]
      PROVE  Unrevised'
  BY <1>2 DEF Unrevised, Known, TypeOK
<1>3. ASSUME NEW c \in Calls, BeginInserts(c) PROVE Unrevised'
  <2> DEFINE k == call[c]
             r == [state |-> "PREPARING", body |-> k.body, expected |-> k.expected,
                   preparedOn |-> 0, preview |-> None, key |-> None, revision |-> 0]
  <2>1. k \in [pc : {"begin"}, operation : Operations, body : Bodies, expected : Nat]
    BY <1>3 DEF TypeOK, CallTypes, BeginInserts, Idle
  <2>2. r \in Rows /\ r.revision = 0 /\ k.operation \in Operations
    BY <2>1 DEF Rows, States
  <2>3. command' = [command EXCEPT ![k.operation] = r]
    BY <1>3 DEF BeginInserts
  <2> QED
    BY <1>2, <2>2, <2>3
<1>4. ASSUME NEW c \in Calls, NEW p \in Previews, NEW d \in Days, Stages(c, p, d)
      PROVE  Unrevised'
  <2> DEFINE o == call[c].operation
             r == [command[o] EXCEPT !.state = "PREPARED", !.preview = p,
                                     !.preparedOn = today]
  <2>1. o \in Operations /\ InState(o, "PREPARING")
    BY <1>4 DEF TypeOK, CallTypes, Stages, Idle
  <2>2. today \in Nat /\ command[o] \in Rows /\ command[o].revision = 0
    BY <1>4, <2>1, KnownIsRow DEF TypeOK, InState, Days, Unrevised
  <2>3. r \in Rows
    BY <2>2, RowUpdates
  <2>4. r.revision = 0
    BY <2>2 DEF Rows
  <2>5. command' = [command EXCEPT ![o] = r]
    BY <1>4 DEF Stages
  <2> QED
    BY <1>2, <2>1, <2>3, <2>4, <2>5
<1>5. ASSUME NEW o \in Operations, NEW s \in States,
             Known(o), command[o].state # "ACCEPTED",
             command' = [command EXCEPT ![o].state = s]
      PROVE  Unrevised'
  <2> DEFINE r == [command[o] EXCEPT !.state = s]
  <2>1. command[o] \in Rows /\ command[o].revision = 0
    BY <1>5, KnownIsRow DEF Unrevised
  <2>2. r \in Rows
    BY <2>1, RowUpdates
  <2>3. r.revision = 0
    BY <2>1 DEF Rows
  <2> QED
    BY <1>2, <1>5, <2>2, <2>3
<1>6. ASSUME NEW m \in Managers, NEW o \in Operations, NEW p \in Previews,
             NEW k \in ConfirmKeys, Confirms(m, o, p, k)
      PROVE  Unrevised'
  <2>1. ASSUME NEW d \in Days, RejectsElapsed(m, o, p, d) PROVE Unrevised'
    BY <2>1, <1>5 DEF RejectsElapsed, Confirmable, InState, States, Settled
  <2>2. ASSUME NEW d \in Days, Accepts(m, o, p, k, d) PROVE Unrevised'
    BY <2>2, AcceptRows DEF Unrevised, InState, Known
  <2> QED
    BY <1>6, <1>1, <2>1, <2>2 DEF Confirms, AcceptsAgain, ledger
<1>7. ASSUME NEW m \in Managers, NEW o \in Operations, Cancels(m, o) PROVE Unrevised'
  <2> DEFINE s == IF Owner(o) = m THEN "CANCELLED" ELSE "CANCELLED_BY_SUCCESSOR"
  <2>1. s \in States
    BY DEF Settled, States
  <2> QED
    BY <1>7, <2>1, <1>5 DEF Cancels, Settled
<1> QED
  BY <1>1, <1>3, <1>4, <1>6, <1>7
  DEF Next, BeginChecks, CallEnds, PrepareReads, CancelsTooLate, OtherRevision,
      EmployeeChanges, NextDay, ledger, facts, vars

\* A new answer is the settled row's, and what was told stays true because a
\* settled row is not touched again.
LEMMA ToldStep == TypeOK /\ Unrevised /\ ToldIsSettled /\ [Next]_vars => ToldIsSettled'
<1> SUFFICES ASSUME TypeOK, Unrevised, ToldIsSettled, [Next]_vars PROVE ToldIsSettled'
  OBVIOUS
<1>1. \A q \in Operations : \A s \in told[q] :
        Known(q)' /\ s = Answer(command'[q].state, command'[q].revision)
  <2> TAKE q \in Operations
  <2> TAKE s \in told[q]
  <2>1. Known(q) /\ s = Answer(command[q].state, command[q].revision)
    BY DEF ToldIsSettled
  <2>2. s \in [state : Settled, revision : Nat]
    BY DEF TypeOK
  <2>3. command[q].state \in Settled
    BY <2>1, <2>2 DEF Answer
  <2>4. CommandHolds(q)
    BY HoldStep
  <2> QED
    BY <2>1, <2>3, <2>4 DEF CommandHolds
<1>2. ASSUME told' = told PROVE ToldIsSettled'
  BY <1>1, <1>2 DEF ToldIsSettled, Known
<1>3. ASSUME NEW o \in Operations, NEW s, NEW r, Tell(o, s, r), Known(o)',
             command'[o].state = s, command'[o].revision = r
      PROVE  ToldIsSettled'
  <2>1. told' = [told EXCEPT ![o] = @ \cup {Answer(s, r)}]
    BY <1>3 DEF Tell
  <2>2. \A q \in Operations : \A a \in told'[q] :
          a \in told[q] \/ (q = o /\ a = Answer(s, r))
    BY <2>1 DEF TypeOK
  <2>3. \A q \in Operations : \A a \in told'[q] :
          Known(q)' /\ a = Answer(command'[q].state, command'[q].revision)
    BY <1>1, <1>3, <2>2
  <2> QED
    BY <2>3 DEF ToldIsSettled, Known
<1>4. ASSUME NEW o \in Operations, NEW s \in States, Known(o), Tell(o, s, 0),
             command[o].state # "ACCEPTED",
             command' = [command EXCEPT ![o].state = s]
      PROVE  ToldIsSettled'
  <2>1. command[o] \in Rows /\ command[o].revision = 0
    BY <1>4, KnownIsRow DEF Unrevised
  <2>2. command'[o] = [command[o] EXCEPT !.state = s]
    BY <1>4 DEF TypeOK
  <2>3. command'[o].state = s /\ command'[o].revision = 0
    BY <2>1, <2>2 DEF Rows
  <2>4. [command[o] EXCEPT !.state = s] \in Rows
    BY <2>1, RowUpdates
  <2>5. Known(o)'
    BY <2>2, <2>4 DEF Known
  <2> QED
    BY <1>3, <1>4, <2>3, <2>5
<1>5. ASSUME NEW m \in Managers, NEW o \in Operations, NEW p \in Previews,
             NEW k \in ConfirmKeys, Confirms(m, o, p, k)
      PROVE  ToldIsSettled'
  <2>1. ASSUME AcceptsAgain(m, o, p, k) PROVE ToldIsSettled'
    BY <2>1, <1>3 DEF AcceptsAgain, InState, Known, ledger
  <2>2. ASSUME NEW d \in Days, RejectsElapsed(m, o, p, d) PROVE ToldIsSettled'
    BY <2>2, <1>4 DEF RejectsElapsed, Confirmable, InState, States, Settled
  <2>3. ASSUME NEW d \in Days, Accepts(m, o, p, k, d) PROVE ToldIsSettled'
    <3>1. Tell(o, "ACCEPTED", revision + 1)
      BY <2>3 DEF Accepts
    <3>2. Known(o)' /\ command'[o].state = "ACCEPTED" /\ command'[o].revision = revision + 1
      BY <2>3, AcceptRows DEF InState
    <3> QED
      BY <3>1, <3>2, <1>3
  <2> QED
    BY <1>5, <2>1, <2>2, <2>3 DEF Confirms
<1>6. ASSUME NEW m \in Managers, NEW o \in Operations, Cancels(m, o) PROVE ToldIsSettled'
  <2> DEFINE s == IF Owner(o) = m THEN "CANCELLED" ELSE "CANCELLED_BY_SUCCESSOR"
  <2>1. s \in States
    BY DEF Settled, States
  <2> QED
    BY <1>6, <2>1, <1>4 DEF Cancels, Settled
<1>7. ASSUME NEW o \in Operations, CancelsTooLate(o) PROVE ToldIsSettled'
  BY <1>7, <1>3 DEF CancelsTooLate, Known, ledger
<1> QED
  BY <1>2, <1>5, <1>6, <1>7
  DEF Next, BeginChecks, BeginInserts, CallEnds, PrepareReads, Stages, OtherRevision,
      EmployeeChanges, NextDay, vars

\* Every final answer about a command is the same one.
THEOREM Outcome == Spec => []OneOutcome
<1>1. Init => Unrevised /\ ToldIsSettled
  BY DEF Init, Unrevised, ToldIsSettled, Known
<1>2. ToldIsSettled => OneOutcome
  BY DEF ToldIsSettled, OneOutcome, InState, Answer
<1> QED
  BY <1>1, <1>2, UnrevisedStep, ToldStep, TypeCorrect, PTL DEF Spec
=============================================================================
