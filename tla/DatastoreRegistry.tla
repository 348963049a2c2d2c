-------------------------- MODULE DatastoreRegistry --------------------------
(***************************************************************************)
(* What the metadata service promises about the datastores it knows: one   *)
(* joins when a heartbeat of it arrives, a sweep may drop any that it had  *)
(* not heard of since the sweep before, and a restart forgets all.         *)
(***************************************************************************)
CONSTANT Datastores

VARIABLES
    registry,  \* the datastores that GetTopKDatastores chooses from
    recent     \* the datastores heard from since the last sweep

registryVars == <<registry, recent>>

Init == registry = {} /\ recent = {}

Hear(d) ==
    /\ registry' = registry \cup {d}
    /\ recent' = recent \cup {d}

Sweep ==
    /\ \E gone \in SUBSET (registry \ recent) : registry' = registry \ gone
    /\ recent' = {}

Forget == registry' = {} /\ recent' = {}

Next == (\E d \in Datastores : Hear(d)) \/ Sweep \/ Forget

Spec == Init /\ [][Next]_registryVars
==============================================================================
