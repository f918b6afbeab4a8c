--------------------------- MODULE MCAttemptStore ---------------------------
(***************************************************************************)
(* Instances of AttemptStore for TLC.                                      *)
(***************************************************************************)
EXTENDS AttemptStore, TLC

CONSTANTS w1, w2, pdf1, pdf2, docx1

SuffixOf(d) == IF d = docx1 THEN ".docx" ELSE ".pdf"
WorkerSymmetry == Permutations(Workers)
=============================================================================
