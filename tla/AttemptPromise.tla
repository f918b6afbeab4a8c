--------------------------- MODULE AttemptPromise ---------------------------
(***************************************************************************)
(* What the rest of the application takes the attempt store for: a record  *)
(* that is created, has some of its fields set, and expires, each in one   *)
(* step.  The promise ends where two workers touch one attempt at the same *)
(* time or a worker dies in the middle of a call: from then on anything    *)
(* that was ever a value may come back.                                    *)
(***************************************************************************)
CONSTANTS
  Absent,              \* no such attempt
  Contents,            \* every value an attempt may have
  Fresh,               \* the value of a new attempt
  Changes(_)           \* the values one call may turn a value into

VARIABLES value, disturbed

vars == <<value, disturbed>>

Init == value = Absent /\ disturbed = FALSE

Create == /\ value = Absent
          /\ value' = Fresh
          /\ UNCHANGED disturbed
Set == /\ value' \in Changes(value)
       /\ UNCHANGED disturbed
Expire == /\ value' = Absent
          /\ UNCHANGED disturbed
Disturb == /\ disturbed' = TRUE
           /\ value' \in {value, Absent}
Recover == /\ disturbed
           /\ value' \in Contents \cup {Absent}
           /\ UNCHANGED disturbed

Next == Create \/ Set \/ Expire \/ Disturb \/ Recover

Spec == Init /\ [][Next]_vars
=============================================================================
