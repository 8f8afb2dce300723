---------------------------- MODULE TaskRuntimeMC ----------------------------
(* Instances of TaskRuntime for TLC. *)
EXTENDS TaskRuntime, TLC

CONSTANTS r1, r2

TwoReqs == {r1, r2}

Symmetry == Permutations(Req)
=============================================================================
