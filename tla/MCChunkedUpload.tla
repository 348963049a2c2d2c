--------------------------- MODULE MCChunkedUpload ---------------------------
(***************************************************************************)
(* Instances of ChunkedUpload for TLC.  Requests are interchangeable, so   *)
(* their permutations are a symmetry.                                      *)
(***************************************************************************)
EXTENDS ChunkedUploadInvariant, TLC

Symmetry == Permutations(Requests)
==============================================================================
