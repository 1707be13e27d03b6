--------------------------- MODULE CompilerService ---------------------------
(***************************************************************************)
(* What the static weekly compiler runtime promises those who call it,     *)
(* whatever it awaits meanwhile: one bounded line, served in the order of  *)
(* admission by one process group at a time, every request answered once.  *)
(* CompilerRuntime implements it.                                          *)
(***************************************************************************)
EXTENDS Naturals, Sequences

CONSTANTS
    Requests,       \* one compile or preparation call each
    MaxOutstanding  \* how many may be in line

VARIABLES
    line,           \* the admitted requests, in the order of admission
    first,          \* the first of them "waits", is "served" or "interrupted"
    answer,         \* what each request has been told, or "none"
    group,          \* the process group: "none", "owned", or "dropped" and not
                    \* proven gone
    open,           \* requests are admitted and groups forked
    ended           \* shutdown has resolved

vars == <<line, first, answer, group, open, ended>>

Refusals == {"busy", "closed"}
Failures == {"cancelled", "closed", "failed", "unproven"}

Init ==
    /\ line = <<>> /\ first = "waits"
    /\ answer = [r \in Requests |-> "none"]
    /\ group = "none"
    /\ open = TRUE /\ ended = FALSE

\* A new request takes the last place, or is refused for one of two reasons.
Admit(r) ==
    /\ open /\ Len(line) < MaxOutstanding
    /\ answer[r] = "none" /\ \A i \in 1..Len(line) : line[i] # r
    /\ line' = Append(line, r)
    /\ UNCHANGED <<first, answer, group, open, ended>>

Refuse(r, why) ==
    /\ why = "closed" => ~open
    /\ why = "busy" => open /\ Len(line) >= MaxOutstanding
    /\ answer[r] = "none" /\ \A i \in 1..Len(line) : line[i] # r
    /\ answer' = [answer EXCEPT ![r] = why]
    /\ UNCHANGED <<line, first, group, open, ended>>

\* A group is forked only where there is none.
Fork ==
    /\ open /\ group = "none"
    /\ group' = "owned"
    /\ UNCHANGED <<line, first, answer, open, ended>>

Serve ==
    /\ line # <<>> /\ first = "waits" /\ group = "owned"
    /\ first' = "served"
    /\ UNCHANGED <<line, answer, group, open, ended>>

\* The first request can no longer be served; if it was, its group goes with it.
Interrupt ==
    /\ line # <<>> /\ first = "waits"
    /\ first' = "interrupted"
    /\ group' \in {group} \cup (IF group = "owned" THEN {"dropped"} ELSE {})
    /\ UNCHANGED <<line, answer, open, ended>>

Drop ==
    /\ group = "owned" /\ group' = "dropped"
    /\ first' = IF first = "served" THEN "interrupted" ELSE first
    /\ UNCHANGED <<line, answer, open, ended>>

\* The dropped group is proven gone.
Reap ==
    /\ group = "dropped" /\ group' = "none"
    /\ UNCHANGED <<line, first, answer, open, ended>>

\* The first request is answered: with a result if and only if it was served to
\* the end, and after an interruption with its reason, or with the admission that
\* this is not proven exactly when a dropped group is left.
Answer(v) ==
    /\ line # <<>>
    /\ first = "served" => v = "result"
    /\ first = "waits" => v \in {"cancelled", "unavailable"}
    /\ first = "interrupted" => v \in Failures /\ (v = "unproven" <=> group = "dropped")
    /\ line' = Tail(line) /\ first' = "waits"
    /\ answer' = [answer EXCEPT ![Head(line)] = v]
    /\ UNCHANGED <<group, open, ended>>

Close ==
    /\ open /\ open' = FALSE
    /\ group' = IF group = "owned" THEN "dropped" ELSE group
    /\ first' = IF first = "served" THEN "interrupted" ELSE first
    /\ UNCHANGED <<line, answer, ended>>

\* Shutdown resolves when the line is empty, and no group is owned any more.
End ==
    /\ ~open /\ line = <<>> /\ group # "owned"
    /\ ended' = TRUE
    /\ UNCHANGED <<line, first, answer, group, open>>

Next ==
    \/ \E r \in Requests : Admit(r) \/ (\E why \in Refusals : Refuse(r, why))
    \/ Fork \/ Serve \/ Interrupt \/ Drop \/ Reap \/ Close \/ End
    \/ \E v \in Failures \cup {"result", "unavailable"} : Answer(v)

Spec == Init /\ [][Next]_vars
=============================================================================
