--------------------------- MODULE RestoreExclusion ---------------------------
(***************************************************************************)
(* What the mutation fence promises, without leases, locks or processes: a *)
(* restore has the data to itself only after admission closed and every    *)
(* active mutation left, and admission reopens only while nothing is       *)
(* active and no restore has the data.                                     *)
(***************************************************************************)
CONSTANT Actors     \* requests and writing sessions

VARIABLES
    admitting,      \* whether new mutations are admitted
    active,         \* the actors that may be changing state
    exclusive       \* whether the restore has the data to itself

vars == <<admitting, active, exclusive>>

TypeOK ==
    /\ admitting \in BOOLEAN
    /\ active \in SUBSET Actors
    /\ exclusive \in BOOLEAN

Init ==
    /\ admitting = TRUE
    /\ active = {}
    /\ exclusive = FALSE

Join(a) ==
    /\ admitting
    /\ active' = active \cup {a}
    /\ UNCHANGED <<admitting, exclusive>>

\* Several actors leave at once when their process ends.
Leave(A) ==
    /\ active' = active \ A
    /\ UNCHANGED <<admitting, exclusive>>

\* Actors already active stay active.
Close ==
    /\ admitting' = FALSE
    /\ UNCHANGED <<active, exclusive>>

Seize ==
    /\ ~admitting /\ active = {}
    /\ exclusive' = TRUE
    /\ UNCHANGED <<admitting, active>>

Yield ==
    /\ exclusive' = FALSE
    /\ UNCHANGED <<admitting, active>>

Reopen ==
    /\ active = {} /\ ~exclusive
    /\ admitting' = TRUE
    /\ UNCHANGED <<active, exclusive>>

Next ==
    \/ \E a \in Actors : Join(a)
    \/ \E A \in SUBSET Actors : Leave(A)
    \/ Close \/ Seize \/ Yield \/ Reopen

Spec == Init /\ [][Next]_vars

\* The restore never shares the data: production-restore.mjs may truncate and
\* reload under the fence because nobody else is active.
Alone == exclusive => active = {} /\ ~admitting
=============================================================================
