-------------------------- MODULE PurchasePromise --------------------------
(***************************************************************************)
(* What the billing code promises about each checkout session, without     *)
(* handlers, tables, events or races: money first, then the credits of     *)
(* the pack once, and once taken back if the charge is refunded.           *)
(***************************************************************************)
EXTENDS Naturals

CONSTANT Sessions

VARIABLES
  paid,     \* sessions Stripe holds as paid
  grants,   \* times the credits of each session were added
  reversals \* times they were taken back

promised == <<paid, grants, reversals>>

Init ==
  /\ paid = {}
  /\ grants = [s \in Sessions |-> 0]
  /\ reversals = [s \in Sessions |-> 0]

Pay(s) ==
  /\ s \notin paid
  /\ paid' = paid \union {s}
  /\ UNCHANGED <<grants, reversals>>

Grant(s) ==
  /\ s \in paid /\ grants[s] = 0
  /\ grants' = [grants EXCEPT ![s] = 1]
  /\ UNCHANGED <<paid, reversals>>

Reverse(s) ==
  /\ s \in paid /\ reversals[s] = 0
  /\ reversals' = [reversals EXCEPT ![s] = 1]
  /\ UNCHANGED <<paid, grants>>

Next == \E s \in Sessions : Pay(s) \/ Grant(s) \/ Reverse(s)

Spec == Init /\ [][Next]_promised
=============================================================================
