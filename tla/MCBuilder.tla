------------------------------ MODULE MCBuilder ------------------------------
(***************************************************************************)
(* Instances of Builder for TLC.                                           *)
(***************************************************************************)
EXTENDS Builder, TLC

CONSTANTS t1, t2, starter, lead

Alike == Permutations(Tabs) \cup Permutations(Users)

(* A generated CV with one role more than the builder's parser reads. *)
ThreeRoles == <<lead, starter, lead>>

(* One request after the other: while one is in flight nothing else runs. *)
OneByOne ==
  Init /\ [][Next /\ (task' # task \/ \A t \in Tabs : task[t].pc = "idle")]_vars
=============================================================================
