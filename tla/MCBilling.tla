----------------------------- MODULE MCBilling -----------------------------
(***************************************************************************)
(* Instances of Billing for TLC.                                           *)
(***************************************************************************)
EXTENDS Billing, TLC

CONSTANTS u1, s1, s2, h1, h2

(* One account buys twice: a founders' pack and a top-up. *)
OneBuyer == s1 :> u1 @@ s2 :> u1
PackCredits == s1 :> 2 @@ s2 :> 1

GiveAndTake == {1, -1}
=============================================================================
