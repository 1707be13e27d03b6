----------------------- MODULE RestoreExclusion_proofs -----------------------
\* The abstract exclusion gives the restore the data to itself.
EXTENDS RestoreExclusion, TLAPS

\* A restore that has the data never meets an active mutation nor an open door,
\* for any set of actors: what production-restore.mjs relies on when it truncates.
THEOREM AloneHolds == Spec => []Alone
  <1>1. Init => Alone BY DEF Init, Alone
  <1>2. ASSUME Alone, [Next]_vars PROVE Alone'
    <2> USE DEF Alone
    <2>1. CASE \E a \in Actors : Join(a) BY <1>2, <2>1 DEF Join
    <2>2. CASE \E A \in SUBSET Actors : Leave(A) BY <1>2, <2>2 DEF Leave
    <2>3. CASE Close \/ Seize BY <1>2, <2>3 DEF Close, Seize
    <2>4. CASE Yield \/ Reopen BY <1>2, <2>4 DEF Yield, Reopen
    <2>5. CASE UNCHANGED vars BY <1>2, <2>5 DEF vars
    <2> QED BY <1>2, <2>1, <2>2, <2>3, <2>4, <2>5 DEF Next
  <1> QED BY <1>1, <1>2, PTL DEF Spec
=============================================================================
