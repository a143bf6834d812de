---------------------------- MODULE MCIngestion ----------------------------
(* Small instances of Ingestion: requests and contents are model values,   *)
(* interchangeable among themselves.                                       *)
EXTENDS Ingestion, TLC

Symmetry == Permutations(UrlRuns) \union Permutations(UploadRuns)
              \union Permutations(Contents) \union Permutations(Patches)
=============================================================================
