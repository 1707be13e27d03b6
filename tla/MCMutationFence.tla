--------------------------- MODULE MCMutationFence ---------------------------
\* Small instances of MutationFence for TLC.
EXTENDS MutationFence, TLC

CONSTANTS p1, p2, r1, r2

\* Both requests run in one process, or each in its own.
SameProcess == [r \in {r1, r2} |-> p1]
TwoProcesses == r1 :> p1 @@ r2 :> p2
OneRequest == r1 :> p1
=============================================================================
