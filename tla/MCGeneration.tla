---------------------------- MODULE MCGeneration ----------------------------
(***************************************************************************)
(* Instances of Generation for TLC.                                        *)
(***************************************************************************)
EXTENDS Generation, TLC

CONSTANTS g1, g2, g3, i1, i2

(* A first run and two regenerates, one of them by a guest; and a first    *)
(* run with an edit or two of its CV.                                      *)
RegenerateTwice == g1 :> "ws" @@ g2 :> "http" @@ g3 :> "http"
RunAndEdit == g1 :> "ws" @@ g2 :> "fix" @@ g3 :> "skills"

AllSides == {"cover_letter", "quality_review", "missing_keyword_groups"}
ReviewOnly == {"quality_review"}
=============================================================================
