--------------------------- MODULE StaffingLedger ---------------------------
(***************************************************************************)
(* The staffing command ledger: managers record an absence or cancel one   *)
(* in three calls (begin, prepare, confirm) against one global schedule    *)
(* revision.  The SQL functions are those of the migrations named in each  *)
(* comment; prepare runs in static-weekly-control-plane.js.                *)
(*                                                                         *)
(* A call is a database transaction.  Stage, accept and cancel hold the    *)
(* advisory authority lock from their first line to the commit and are one *)
(* step each.  Begin does not take that lock, and prepare compiles for     *)
(* minutes before it stages, so each of the two is a pair of steps with    *)
(* anything in between.  A refused or rolled-back call changes nothing:    *)
(* every call in flight may end that way (CallEnds).  Any call may be made *)
(* again at any time, which covers every lost reply.                       *)
(***************************************************************************)
EXTENDS Integers, Sequences, FiniteSets

CONSTANTS Managers,      \* authenticated managers
          PrepareKeys,   \* client_prepare_key values a manager uses
          ConfirmKeys,   \* confirmation_key values
          Previews,      \* preview digests a compilation may produce
          Employees,
          Changing,      \* BOUND: employees whose active flag may change
          OffDays,       \* <<employee, day>> without work or lunch cover in any plan
          Calls,         \* BOUND: begin and prepare calls in flight at once
          LastDay,       \* BOUND: service dates 1..LastDay
          MaxRevision,   \* BOUND: authority revisions
          None, Other    \* no value; a revision that is no staffing command

\* A command is unique per (prepared_by_manager_id, client_prepare_key), so
\* that pair stands for its operation_id.
Operations == Managers \X PrepareKeys
Owner(o) == o[1]

Days == 1..LastDay

ASSUME LedgerAssumption ==
  /\ LastDay \in Nat \ {0}
  /\ MaxRevision \in Nat
  /\ Changing \subseteq Employees
  /\ OffDays \subseteq Employees \X Days
  /\ Other \notin Operations
  /\ None \notin Operations \cup Previews \cup ConfirmKeys

\* The semantic body: an absence has no target, a cancellation names one.
Bodies ==
  { b \in [kind : {"absence", "cancel_absence"}, employee : Employees,
           start : Days, end : Days, target : Operations \cup {None}] :
      /\ b.start <= b.end
      /\ b.kind = "absence" <=> b.target = None }

Settled == {"ACCEPTED", "REJECTED", "CANCELLED", "CANCELLED_BY_SUCCESSOR"}
States == {"PREPARING", "PREPARED"} \cup Settled

\* A row of static_weekly_staffing_commands.
Rows == [state : States, body : Bodies, expected : Nat, preparedOn : Nat,
         preview : Previews \cup {None}, key : ConfirmKeys \cup {None},
         revision : Nat]

ASSUME NoneIsNoRow == None \notin Rows

Cancellations == [target : Operations, operation : Operations,
                  start : Days, end : Days, revision : Nat]

Idle == [pc |-> "idle"]

VARIABLES today,          \* sch_service_date of the present
          active,         \* employees with active = true
          revision,       \* static_weekly_schedule_control.current_revision
          authority,      \* weekly_schedule_authority_revisions: who made each
          command,        \* the command rows
          absences,       \* the absence rows, by the command that made them
          cancellations,  \* the absence cancellation rows
          call,           \* the begin and prepare calls in flight
          told            \* every final answer a call about a command returned

vars == <<today, active, revision, authority, command, absences,
          cancellations, call, told>>
facts == <<absences, cancellations>>
world == <<today, active>>
ledger == <<revision, authority, command, absences, cancellations>>

Answer(s, r) == [state |-> s, revision |-> r]

Tell(o, s, r) == told' = [told EXCEPT ![o] = @ \cup {Answer(s, r)}]

Known(o) == command[o] # None
InState(o, s) == Known(o) /\ command[o].state = s

\* Mutant: the target's earlier cancellation is not looked for.
TargetOpenAnyway(b, d) ==
  /\ b.target \in absences
  /\ LET a == command[b.target].body
     IN  /\ a.employee = b.employee
         /\ b.start = IF a.start > d THEN a.start ELSE d
         /\ b.start <= a.end
         /\ b.end = a.end

\* The remaining window of the target absence, as of service date d: the
\* absence was accepted for the same employee, nothing has cancelled it, and
\* the window runs from its start, or from d when it has begun, to its end.
TargetOpen(b, d) ==
  /\ b.target \in absences
  /\ \A x \in cancellations : x.target # b.target
  /\ LET a == command[b.target].body
     IN  /\ a.employee = b.employee
         /\ b.start = IF a.start > d THEN a.start ELSE d
         /\ b.start <= a.end
         /\ b.end = a.end

\* What a body must still satisfy when it is judged as of service date d.
Admissible(b, d) ==
  IF b.kind = "absence" THEN b.employee \in active
                        ELSE b.start >= d /\ TargetOpen(b, d)

\* The phones to refresh, by employee and day, as prepare lists them ...
Window(b) == b.start .. b.end
Working(b) == (Employees \X Window(b)) \ OffDays
StagedRefresh(b) == Working(b) \cup ({b.employee} \X Window(b))

\* ... and as accept derives them again.
ExpectedRefresh(b) ==
  Working(b) \cup IF b.kind = "absence" THEN {b.employee} \X Window(b) ELSE {}

\* statement_timestamp() is when the statement arrived, not when it got its
\* locks: it may still be yesterday.  BOUND: a wait spans one change of day.
ArrivalDays(since) == {d \in {today - 1, today} : d >= since}

(***************************************************************************)
(* begin_staffing_command.                                                 *)
(***************************************************************************)
Init ==
  /\ today = 1
  /\ active = Employees
  /\ revision = 0
  /\ authority = <<>>
  /\ command = [o \in Operations |-> None]
  /\ absences = {}
  /\ cancellations = {}
  /\ call = [c \in Calls |-> Idle]
  /\ told = [o \in Operations |-> {}]

\* The transaction found no command of that key and every check passed; it
\* holds the control row FOR SHARE until it ends.
BeginChecks(c, o, b) ==
  /\ call[c] = Idle
  /\ ~Known(o)
  /\ Admissible(b, today)
  /\ call' = [call EXCEPT ![c] =
                [pc |-> "begin", operation |-> o, body |-> b,
                 expected |-> revision]]
  /\ UNCHANGED <<world, ledger, told>>

\* The insert; a row of the same manager and key makes it fail instead.
BeginInserts(c) ==
  /\ call[c].pc = "begin"
  /\ LET k == call[c]
     IN  /\ ~Known(k.operation)
         /\ command' = [command EXCEPT ![k.operation] =
              [state |-> "PREPARING", body |-> k.body, expected |-> k.expected,
               preparedOn |-> 0, preview |-> None, key |-> None, revision |-> 0]]
  /\ call' = [call EXCEPT ![c] = Idle]
  /\ UNCHANGED <<world, revision, authority, facts, told>>

\* Begins in flight keep every writer of the control row waiting.
ControlRowFree == \A c \in Calls : call[c].pc # "begin"

\* A call ends without a change: refused, timed out, aborted, or a replay.
CallEnds(c) ==
  /\ call[c] # Idle
  /\ call' = [call EXCEPT ![c] = Idle]
  /\ UNCHANGED <<world, ledger, told>>

(***************************************************************************)
(* prepareStaffingCommand: read, compile every week, stage.                *)
(***************************************************************************)
PrepareReads(c, m, o) ==
  /\ call[c] = Idle
  /\ InState(o, "PREPARING")
  /\ Owner(o) = m
  /\ command[o].expected = revision
  /\ command[o].body.kind = "cancel_absence" => TargetOpen(command[o].body, today)
  /\ call' = [call EXCEPT ![c] =
                [pc |-> "prepare", operation |-> o, since |-> today]]
  /\ UNCHANGED <<world, ledger, told>>

\* Mutant: a prepared command is staged again with another preview.
StagesOver(c, p, d) ==
  /\ call[c].pc = "prepare"
  /\ LET o == call[c].operation
     IN  /\ InState(o, "PREPARING") \/ InState(o, "PREPARED")
         /\ command[o].expected = revision
         /\ Admissible(command[o].body, d)
         /\ command' = [command EXCEPT ![o].state = "PREPARED",
                                       ![o].preview = p,
                                       ![o].preparedOn = today]
  /\ call' = [call EXCEPT ![c] = Idle]
  /\ UNCHANGED <<world, revision, authority, facts, told>>

\* stage_staffing_command, as of the day d its statement arrived.
Stages(c, p, d) ==
  /\ call[c].pc = "prepare"
  /\ LET o == call[c].operation
     IN  /\ InState(o, "PREPARING")
         /\ command[o].expected = revision
         /\ Admissible(command[o].body, d)
         /\ command' = [command EXCEPT ![o].state = "PREPARED",
                                       ![o].preview = p,
                                       ![o].preparedOn = today]
  /\ call' = [call EXCEPT ![c] = Idle]
  /\ UNCHANGED <<world, revision, authority, facts, told>>

(***************************************************************************)
(* accept_staffing_command, by manager m with preview p and key k, as of   *)
(* the day d its statement arrived.                                        *)
(***************************************************************************)
Confirmable(m, o, p) ==
  /\ InState(o, "PREPARED")
  /\ Owner(o) = m
  /\ command[o].preview = p

Elapsed(b, d) == b.kind = "cancel_absence" /\ b.start < d

\* A cancellation that starts before d is rejected, and the rejection kept.
RejectsElapsed(m, o, p, d) ==
  /\ Confirmable(m, o, p)
  /\ Elapsed(command[o].body, d)
  /\ command' = [command EXCEPT ![o].state = "REJECTED"]
  /\ Tell(o, "REJECTED", 0)
  /\ UNCHANGED <<world, revision, authority, facts, call>>

\* Mutant: the control row is advanced without the comparison.
AdvanceAuthorityBlindly(expected, entry) ==
  /\ revision < MaxRevision
  /\ ControlRowFree
  /\ revision' = revision + 1
  /\ authority' = Append(authority, entry)

\* static_weekly_advance_authority: compare and swap the control row.
AdvanceAuthority(expected, entry) ==
  /\ revision = expected
  /\ revision < MaxRevision
  /\ ControlRowFree
  /\ revision' = revision + 1
  /\ authority' = Append(authority, entry)

KeyUnused(m, k) ==
  \A q \in Operations : Owner(q) = m /\ Known(q) => command[q].key # k

\* Mutant: the cancellation row is forgotten.
RecordFactOfAbsences(o, b) ==
  /\ absences' = IF b.kind = "absence" THEN absences \cup {o} ELSE absences
  /\ UNCHANGED cancellations

RecordFact(o, b) ==
  IF b.kind = "absence"
  THEN /\ absences' = absences \cup {o}
       /\ UNCHANGED cancellations
  ELSE /\ cancellations' = cancellations \cup
            {[target |-> b.target, operation |-> o, start |-> b.start,
              end |-> b.end, revision |-> revision + 1]}
       /\ UNCHANGED absences

Accepts(m, o, p, k, d) ==
  /\ Confirmable(m, o, p)
  /\ ~Elapsed(command[o].body, d)
  /\ AdvanceAuthority(command[o].expected, o)
  /\ Admissible(command[o].body, d)
  /\ StagedRefresh(command[o].body) = ExpectedRefresh(command[o].body)
  /\ KeyUnused(m, k)
  /\ RecordFact(o, command[o].body)
  /\ command' = [command EXCEPT ![o].state = "ACCEPTED", ![o].key = k,
                                ![o].revision = revision + 1]
  /\ Tell(o, "ACCEPTED", revision + 1)
  /\ UNCHANGED <<world, call>>

\* The same confirmation again gets the receipt that was stored.
AcceptsAgain(m, o, p, k) ==
  /\ InState(o, "ACCEPTED")
  /\ Owner(o) = m
  /\ command[o].preview = p
  /\ command[o].key = k
  /\ Tell(o, "ACCEPTED", command[o].revision)
  /\ UNCHANGED <<world, ledger, call>>

(***************************************************************************)
(* cancel_staffing_preparation: any manager may give up a pending command, *)
(* and hears how a settled one ended.                                      *)
(***************************************************************************)
\* Mutant: a settled command is cancelled like a pending one.
CancelsAnything(m, o) ==
  /\ Known(o)
  /\ LET s == IF Owner(o) = m THEN "CANCELLED" ELSE "CANCELLED_BY_SUCCESSOR"
     IN  /\ command' = [command EXCEPT ![o].state = s]
         /\ Tell(o, s, 0)
  /\ UNCHANGED <<world, revision, authority, facts, call>>

Cancels(m, o) ==
  /\ Known(o)
  /\ command[o].state \notin Settled
  /\ LET s == IF Owner(o) = m THEN "CANCELLED" ELSE "CANCELLED_BY_SUCCESSOR"
     IN  /\ command' = [command EXCEPT ![o].state = s]
         /\ Tell(o, s, 0)
  /\ UNCHANGED <<world, revision, authority, facts, call>>

\* Mutant: a pending command is reported as if it were settled.
CancelsNothing(o) ==
  /\ Known(o)
  /\ Tell(o, command[o].state, command[o].revision)
  /\ UNCHANGED <<world, ledger, call>>

CancelsTooLate(o) ==
  /\ Known(o)
  /\ command[o].state \in Settled
  /\ Tell(o, command[o].state, command[o].revision)
  /\ UNCHANGED <<world, ledger, call>>

(***************************************************************************)
(* The rest of the authority and of the world.                             *)
(***************************************************************************)
\* A publication, exception, roster change ...: the other callers of
\* static_weekly_advance_authority, each with the current revision.
OtherRevision ==
  /\ AdvanceAuthority(revision, Other)
  /\ UNCHANGED <<world, command, facts, call, told>>

\* employees.active is changed elsewhere, with and without a revision.
EmployeeChanges(e) ==
  /\ active' = IF e \in active THEN active \ {e} ELSE active \cup {e}
  /\ UNCHANGED <<today, ledger, call, told>>

\* 04:00 Central.
NextDay ==
  /\ today < LastDay
  /\ today' = today + 1
  /\ UNCHANGED <<active, ledger, call, told>>

Confirms(m, o, p, k) ==
  \/ AcceptsAgain(m, o, p, k)
  \/ \E d \in Days : /\ Known(o) /\ d \in ArrivalDays(command[o].preparedOn)
                     /\ RejectsElapsed(m, o, p, d) \/ Accepts(m, o, p, k, d)

Next ==
  \/ \E c \in Calls :
       \/ \E o \in Operations, b \in Bodies : BeginChecks(c, o, b)
       \/ BeginInserts(c)
       \/ CallEnds(c)
       \/ \E m \in Managers, o \in Operations : PrepareReads(c, m, o)
       \/ \E p \in Previews, d \in Days :
            /\ call[c].pc = "prepare" /\ d \in ArrivalDays(call[c].since)
            /\ Stages(c, p, d)
  \/ \E m \in Managers, o \in Operations :
       \/ \E p \in Previews, k \in ConfirmKeys : Confirms(m, o, p, k)
       \/ Cancels(m, o)
  \/ \E o \in Operations : CancelsTooLate(o)
  \/ OtherRevision
  \/ \E e \in Changing : EmployeeChanges(e)
  \/ NextDay

Spec == Init /\ [][Next]_vars

(***************************************************************************)
(* Properties.                                                             *)
(***************************************************************************)
CallTypes ==
  [pc : {"begin"}, operation : Operations, body : Bodies, expected : Nat]
    \cup [pc : {"prepare"}, operation : Operations, since : Nat]
    \cup {Idle}

\* The variables have their types.
TypeOK ==
  /\ today \in Days
  /\ active \subseteq Employees
  /\ revision \in Nat
  /\ authority \in Seq(Operations \cup {Other})
  /\ command \in [Operations -> Rows \cup {None}]
  /\ absences \subseteq Operations
  /\ cancellations \subseteq Cancellations
  /\ call \in [Calls -> CallTypes]
  /\ told \in [Operations -> SUBSET [state : Settled, revision : Nat]]

\* A command is accepted exactly when the authority history holds it, once, at
\* the revision that follows the one it was prepared for; and the fact it
\* states is recorded then and only then.
AcceptedOnRecord ==
  /\ revision = Len(authority)
  /\ \A o \in Operations : InState(o, "ACCEPTED") =>
       /\ command[o].revision = command[o].expected + 1
       /\ command[o].revision \in 1..Len(authority)
       /\ authority[command[o].revision] = o
  /\ \A i \in 1..Len(authority) : authority[i] # Other =>
       /\ InState(authority[i], "ACCEPTED")
       /\ command[authority[i]].revision = i
  /\ \A o \in Operations :
       o \in absences <=> /\ InState(o, "ACCEPTED")
                          /\ command[o].body.kind = "absence"
  /\ \A o \in Operations :
       (\E x \in cancellations : x.operation = o) <=>
          /\ InState(o, "ACCEPTED")
          /\ command[o].body.kind = "cancel_absence"

\* An absence is cancelled at most once, by a later revision, for the same
\* employee, and over a tail of its own window.
CancellationsFit ==
  /\ \A x, y \in cancellations : x.target = y.target => x = y
  /\ \A x \in cancellations :
       /\ x.target \in absences
       /\ Known(x.target) /\ Known(x.operation)
       /\ LET a == command[x.target] b == command[x.operation]
          IN  /\ a.revision < x.revision /\ b.revision = x.revision
              /\ b.body.target = x.target
              /\ b.body.employee = a.body.employee
              /\ a.body.start <= x.start
              /\ x.end = a.body.end

\* Whoever asks, and however often: one command has one final answer.  A
\* cancellation that races a confirmation never contradicts it.
OneOutcome ==
  \A o \in Operations :
    /\ \A s, t \in told[o] : s = t
    /\ \A s \in told[o] : InState(o, s.state) /\ command[o].revision = s.revision

CommandHolds(o) ==
  Known(o) =>
    /\ Known(o)'
    /\ command'[o].body = command[o].body
    /\ command'[o].expected = command[o].expected
    /\ command[o].state # "PREPARING" => command'[o].preview = command[o].preview
    /\ command[o].state \in Settled => command'[o] = command[o]

\* What a manager was shown is what can be confirmed: a begun command keeps
\* its meaning and its revision, a prepared one its preview, a settled one its
\* state, whichever calls with the same key or the same command are in flight.
CommandsHold == [][\A o \in Operations : CommandHolds(o)]_vars

\* The ledger keeps the promise of StaffingAuthority: the authority history,
\* each entry with the absence it cancels, is its history.
HistoryOf(a) ==
  [i \in 1..Len(a) |->
     [operation |-> a[i],
      target |-> IF a[i] = Other THEN None ELSE command[a[i]].body.target]]

Abstract == INSTANCE StaffingAuthority WITH history <- HistoryOf(authority)
KeepsAuthority == Abstract!Spec
=============================================================================
