------------------------- MODULE GenerationPromise -------------------------
(***************************************************************************)
(* What a generation promises about the credit it takes, without pipeline, *)
(* attempt file, caches or races: one credit when it starts, and at most   *)
(* one credit back, only for a run that has not been kept.                 *)
(***************************************************************************)
EXTENDS Integers

CONSTANTS Requests, InitialCredits

VARIABLES
  balance, \* the account's credits
  charge   \* what became of the credit of each request

promised == <<balance, charge>>

Init ==
  /\ balance = InitialCredits
  /\ charge = [r \in Requests |-> "none"]

Take(r) ==
  /\ charge[r] = "none" /\ balance > 0
  /\ balance' = balance - 1
  /\ charge' = [charge EXCEPT ![r] = "held"]

(* A guest has no account to charge. *)
LetIn(r) ==
  /\ charge[r] = "none"
  /\ charge' = [charge EXCEPT ![r] = "free"]
  /\ UNCHANGED balance

Settle(r, how) ==
  /\ charge[r] = "held"
  /\ charge' = [charge EXCEPT ![r] = how]
  /\ balance' = IF how = "refunded" THEN balance + 1 ELSE balance

Next ==
  \E r \in Requests :
    \/ Take(r) \/ LetIn(r)
    \/ \E how \in {"kept", "refunded", "rejected", "lost"} : Settle(r, how)

Spec == Init /\ [][Next]_promised
=============================================================================
