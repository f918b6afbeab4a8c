----------------------------- MODULE MCLlmCalls -----------------------------
(***************************************************************************)
(* Instances of LlmCalls for TLC: a pipeline of one user, and the fixes    *)
(* asked for by another, on two workers.                                   *)
(***************************************************************************)
EXTENDS LlmCalls, TLC

CONSTANTS r1, r2, a1, a2, u1, w1, w2

MCKind(r) == IF r = r1 THEN "pipeline" ELSE "fixes"
MCAttemptOf(r) == IF r = r1 THEN a1 ELSE a2
MCUserOf(r) == IF r = r1 THEN u1 ELSE None

WorkerSymmetry == Permutations(Workers)
=============================================================================
