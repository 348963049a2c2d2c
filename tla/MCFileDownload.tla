--------------------------- MODULE MCFileDownload ---------------------------
(***************************************************************************)
(* Instances of FileDownload for TLC.  Downloads are interchangeable.      *)
(***************************************************************************)
EXTENDS FileDownload, TLC

Symmetry == Permutations(Downloads)
=============================================================================
