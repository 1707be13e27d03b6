---------------------------- MODULE NoticeHandover ----------------------------
(***************************************************************************)
(* What the delivery of native notices promises, whatever becomes of the   *)
(* workers, their leases and the phone: the provider takes a notice at     *)
(* most once, what is on record of it is true, and a manager who is told   *)
(* of a lost notice is told the truth for good.  PushDelivery implements   *)
(* it.                                                                     *)
(***************************************************************************)
CONSTANT Notices

VARIABLES
    record,     \* of each notice: "none", "prepared" for the provider, "delivered"
    taken,      \* those the provider has
    over,       \* those nothing is attempted for any more
    told        \* what the manager was told, or "none"

vars == <<record, taken, over, told>>

Init ==
    /\ record = [n \in Notices |-> "none"] /\ taken = {}
    /\ over = {} /\ told = [n \in Notices |-> "none"]

\* The provider is asked only for what is on record as prepared, and what it may
\* have taken stays on record.
Prepare(n) ==
    /\ record[n] = "none" /\ n \notin over
    /\ record' = [record EXCEPT ![n] = "prepared"]
    /\ UNCHANGED <<taken, over, told>>

Take(n) ==
    /\ record[n] = "prepared" /\ n \notin taken
    /\ taken' = taken \cup {n}
    /\ UNCHANGED <<record, over, told>>

Withdraw(n) ==
    /\ record[n] = "prepared" /\ n \notin taken /\ n \notin over
    /\ record' = [record EXCEPT ![n] = "none"]
    /\ UNCHANGED <<taken, over, told>>

Confirm(n) ==
    /\ record[n] = "prepared" /\ n \in taken /\ n \notin over
    /\ record' = [record EXCEPT ![n] = "delivered"]
    /\ UNCHANGED <<taken, over, told>>

\* Any number of notices are given up, or completed, at once.
End(N) ==
    /\ over' = over \cup N
    /\ UNCHANGED <<record, taken, told>>

\* The manager hears of a notice that is over what its record shows.
Tell(n) ==
    /\ over' = over \cup {n}
    /\ told' = [told EXCEPT ![n] =
           CASE record[n] = "none" -> "failed"
             [] record[n] = "prepared" -> "unconfirmed"
             [] OTHER -> "accepted"]
    /\ UNCHANGED <<record, taken>>

Next ==
    \/ \E N \in SUBSET Notices : End(N)
    \/ \E n \in Notices : Prepare(n) \/ Take(n) \/ Withdraw(n) \/ Confirm(n) \/ Tell(n)

Spec == Init /\ [][Next]_vars
=============================================================================
