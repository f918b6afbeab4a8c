------------------------------ MODULE MCCodes -------------------------------
(***************************************************************************)
(* Instances of Codes for TLC: an invitation for anybody and one for u1.   *)
(***************************************************************************)
EXTENDS Codes, TLC

CONSTANTS u1, u2, open, personal, k1, k2, t1, t2

MCAmount(i) == IF i = open THEN 5 ELSE 10
MCAddressee(i) == IF i = open THEN None ELSE u1
TaskSymmetry == Permutations(Tasks) \cup Permutations(Tokens)
=============================================================================
