------------------------- MODULE StaffingAuthority -------------------------
(***************************************************************************)
(* What the staffing ledger promises, without saying how: the schedule     *)
(* authority is one growing history of revisions.  A revision applies a    *)
(* staffing command or is somebody else's (a publication, an exception, a  *)
(* roster change).  A command is applied at most once, and a cancellation  *)
(* withdraws an absence that an earlier revision recorded and that no      *)
(* other revision has withdrawn.                                           *)
(***************************************************************************)
EXTENDS Naturals, Sequences

CONSTANTS Operations,   \* the staffing commands
          Other,        \* the entry of a revision that is no staffing command
          None          \* the target of an entry that cancels nothing

VARIABLE history        \* the entries, one per authority revision, in order

\* One entry: the command applied at that revision and the absence it cancels.
Entry == [operation : Operations \cup {Other}, target : Operations \cup {None}]

\* The absence of command t stands: it was recorded, and nothing cancels it.
Standing(t) ==
  /\ \E i \in 1..Len(history) : history[i] = [operation |-> t, target |-> None]
  /\ \A i \in 1..Len(history) : history[i].target # t

Apply(o, t) ==
  /\ \A i \in 1..Len(history) : history[i].operation # o
  /\ t = None \/ Standing(t)
  /\ history' = Append(history, [operation |-> o, target |-> t])

ApplyOther ==
  history' = Append(history, [operation |-> Other, target |-> None])

Init == history = <<>>

Next ==
  \/ \E o \in Operations, t \in Operations \cup {None} : Apply(o, t)
  \/ ApplyOther

Spec == Init /\ [][Next]_history
=============================================================================
