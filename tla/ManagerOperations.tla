-------------------------- MODULE ManagerOperations --------------------------
(***************************************************************************)
(* What the static weekly control plane promises the managers and a        *)
(* restore, whatever becomes of connections, signals and leases meanwhile: *)
(* an operation takes effect once and as a whole, or never will; what its  *)
(* manager is told is true of that, then and ever after; a pause lets none *)
(* begin to act, and whoever then has the data to himself waited for those *)
(* that had begun.  ControlPlane implements it.                            *)
(***************************************************************************)
CONSTANTS
    Requests,   \* one manager operation each
    Previews    \* those that only show their effect

VARIABLES
    effect,     \* whether an operation is "open", "entered" its work, is
                \* "done", or "never" will be
    told,       \* what its manager has been told, or "none"
    revoked,    \* the managers whose authority was withdrawn
    paused,     \* restore has paused all mutations
    fenced      \* restore has the data to itself

vars == <<effect, told, revoked, paused, fenced>>
authority == <<revoked, paused, fenced>>

Init ==
    /\ effect = [r \in Requests |-> "open"]
    /\ told = [r \in Requests |-> "none"]
    /\ revoked = {} /\ paused = FALSE /\ fenced = FALSE

\* An operation begins to act, under the authority in force.
Enter(r) ==
    /\ ~paused /\ effect[r] = "open"
    /\ effect' = [effect EXCEPT ![r] = "entered"]
    /\ UNCHANGED <<told, authority>>

\* An effect is one of an operation that had entered, while the data are there.
Commit(r) ==
    /\ r \notin Previews \cup revoked /\ ~fenced /\ effect[r] = "entered"
    /\ effect' = [effect EXCEPT ![r] = "done"]
    /\ UNCHANGED <<told, authority>>

\* Any number of operations come to nothing at once.
GiveUp(R) ==
    /\ UNCHANGED <<told, authority>>
    /\ \A r \in R : effect[r] \in {"open", "entered"}
    /\ effect' = [r \in Requests |-> IF r \in R THEN "never" ELSE effect[r]]

\* A manager is told once: of a success that happened, of a failure that is
\* final, or that the outcome is unknown.
Tell(r, what) ==
    /\ told[r] = "none"
    /\ what \in {"ok", "accepted"} => effect[r] = IF r \in Previews THEN "never" ELSE "done"
    /\ what = "rejected" => effect[r] = "never"
    /\ told' = [told EXCEPT ![r] = what]
    /\ UNCHANGED <<effect, authority>>

\* The authority of one manager is withdrawn.
Revoke(r) ==
    /\ revoked' = revoked \cup {r}
    /\ UNCHANGED <<effect, told, paused, fenced>>

Pause ==
    /\ paused' = TRUE
    /\ UNCHANGED <<effect, told, revoked, fenced>>

\* Restore takes the data once nobody acts on them.
Fence ==
    /\ paused /\ \A r \in Requests : effect[r] # "entered"
    /\ fenced' = TRUE
    /\ UNCHANGED <<effect, told, revoked, paused>>

Next ==
    \/ \E R \in SUBSET Requests : GiveUp(R)
    \/ \E r \in Requests : Enter(r) \/ Commit(r) \/ Revoke(r)
    \/ \E r \in Requests, what \in {"ok", "accepted", "rejected", "unknown"} : Tell(r, what)
    \/ Pause \/ Fence

Spec == Init /\ [][Next]_vars
=============================================================================
