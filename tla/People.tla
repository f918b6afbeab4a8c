------------------------------- MODULE People -------------------------------
(***************************************************************************)
(* The accounts (table users) that several modules speak of, and a value   *)
(* for "no account" and other fields that are not set.                     *)
(***************************************************************************)
CONSTANTS Users, None
=============================================================================
