------------------------- MODULE MCPushAttestation -------------------------
(* Model-checking instance of PushAttestation: the worker tasks are model  *)
(* values and interchangeable.                                             *)
EXTENDS PushAttestation, TLC

CONSTANTS t1, t2

\* The tasks of the worker processes are interchangeable.
TaskSymmetry == Permutations(Tasks)
=============================================================================
