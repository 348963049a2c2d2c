--------------------------- MODULE MCDatastoreHeap ---------------------------
(***************************************************************************)
(* Instances of DatastoreHeap for TLC.  Load differences outweigh missed   *)
(* heartbeats, as bytes do in the code; Overfull is a datastore whose      *)
(* database has outgrown a tenth of its free memory and space.             *)
(***************************************************************************)
EXTENDS DatastoreHeap

Roomy    == [ram |-> 20, space |-> 20, db |-> 0]
Full     == [ram |-> 10, space |-> 10, db |-> 1]
Overfull == [ram |-> 4, space |-> 4, db |-> 1]

VaryingLoad == {Roomy, Full}
FillingUp   == {Roomy, Overfull}
==============================================================================
