-------------------------- MODULE MCCompilerRuntime --------------------------
(* Small instances of CompilerRuntime. *)
EXTENDS CompilerRuntime

CONSTANTS r1, r2, r3

\* One compilation among preparations of the fixed profile.
MCProfile == [r \in Requests |-> IF r = r2 THEN "compiler" ELSE "fixed-pending"]
=============================================================================
