----------------------------- MODULE ObjectStore -----------------------------
(***************************************************************************)
(* What the file store promises its clients, seen from outside: a file     *)
(* grows one segment at a time while nobody knows its id; when the upload  *)
(* request is answered, its files become visible together, each with all   *)
(* of its segments, and a visible file never changes again.                *)
(***************************************************************************)
CONSTANTS
    FileIds,
    Segments,
    Batches   \* the sets of files that one request each uploads

VARIABLES
    visible,  \* the files whose ids clients have been given
    stored    \* the segments of each file that a download would find

objectVars == <<visible, stored>>

Init ==
    /\ visible = {}
    /\ stored = [f \in FileIds |-> {}]

Stage(f, s) ==
    /\ f \notin visible
    /\ stored' = [stored EXCEPT ![f] = @ \cup {s}]
    /\ UNCHANGED visible

Publish(F) ==
    /\ \A f \in F : stored[f] = Segments
    /\ visible' = visible \cup F
    /\ UNCHANGED stored

Next ==
    \/ \E f \in FileIds, s \in Segments : Stage(f, s)
    \/ \E F \in Batches : Publish(F)

Spec == Init /\ [][Next]_objectVars
==============================================================================
