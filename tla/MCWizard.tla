------------------------------ MODULE MCWizard ------------------------------
(***************************************************************************)
(* Instances of Wizard for TLC: Australia asks for no consent, Japan for   *)
(* the photo's and the date of birth's.                                    *)
(***************************************************************************)
EXTENDS Wizard, TLC

CONSTANTS t1, t2, plain, bold

(* A vault that the first login made of the registration, and those that   *)
(* onboarding or an earlier wizard have filled.                            *)
MCVaults ==
  {[NoVault EXCEPT !.filled = {"name"}]} \cup
  [filled : {Details}, voice : [Shared -> Voices \cup {None}]]

TabSymmetry == Permutations(Tabs) \cup Permutations(Voices)
=============================================================================
