---------------------------- MODULE CreditLedger ----------------------------
(***************************************************************************)
(* The credits table (orm_models.Credit) and the two statements that every *)
(* component changes it with: deduct_credit and add_credits of             *)
(* app/billing/use_cases/manage_credits.py.  Each is one UPDATE committed  *)
(* at once, so a component uses it inside one action.                      *)
(*                                                                         *)
(* A row exists for every account: create_user is the only constructor of  *)
(* a User and commits the empty row with it.  The INSERT branch of         *)
(* add_credits (no row matched) is therefore not reachable and left out.   *)
(***************************************************************************)
EXTENDS Integers

(* A row of the credits table.  Only balance may be negative. *)
CreditRow == [balance : Int, purchased : Nat, granted : Nat, used : Nat]

(* The row create_user inserts together with the user. *)
EmptyRow == [balance |-> 0, purchased |-> 0, granted |-> 0, used |-> 0]

(* Mutant: a balance of zero is enough. *)
HasCreditsAtZero(row) == row.balance >= 0

(* WHERE balance > 0 of deduct_credit, and has_credits. *)
HasCredits(row) == row.balance > 0

(* The SET clause of deduct_credit. *)
Deducted(row) == [row EXCEPT !.balance = @ - 1, !.used = @ + 1]

(* Mutant: every positive amount is booked as a purchase. *)
AddedAsPurchase(row, amount, kind) ==
  [row EXCEPT !.balance = @ + amount,
              !.purchased = IF amount >= 0 THEN @ + amount ELSE @]

(* add_credits, where kind stands for the flag as_grant: a negative amount *)
(* moves the balance only; a positive one also moves exactly one of the    *)
(* two lifetime totals.                                                    *)
Added(row, amount, kind) ==
  [row EXCEPT !.balance = @ + amount,
              !.granted = IF kind = "grant" /\ amount >= 0 THEN @ + amount ELSE @,
              !.purchased = IF kind = "purchase" /\ amount >= 0 THEN @ + amount ELSE @]
=============================================================================
