---------------------------- MODULE KeyValueStore ----------------------------
(***************************************************************************)
(* The metadata service's in-memory KeyValueStore: a map under a           *)
(* read-write lock, so that each operation is atomic.  The operators below *)
(* are its operations on the map m; a module that runs the store says who  *)
(* calls them.  Values include Nil, which Go lets a caller store.          *)
(***************************************************************************)
EXTENDS Sequences, Functions

CONSTANTS
    Keys,      \* byte strings
    Values,    \* what is stored under them, Nil among them
    Nil,       \* the nil slice
    NotFound   \* the answer ErrKeyNotFound

ASSUME ValueAssumption == Nil \in Values /\ NotFound \notin Values

VARIABLE m     \* the map of the in-memory store

NewInMemoryKeyValueStore == m = <<>>

MapTypeOK == DOMAIN m \subseteq Keys \ {<<>>} /\ m \in [DOMAIN m -> Values]

Get(k) == IF k \in DOMAIN m THEN m[k] ELSE NotFound

\* The empty key is refused with ErrNoKeyProvided.
PutInMap(k, v) ==
    m' = IF k = <<>> THEN m
         ELSE [x \in DOMAIN m \cup {k} |-> IF x = k THEN v ELSE m[x]]

\* Delete of each of the keys in turn; of a key that is not there it answers
\* ErrKeyNotFound and changes nothing.
DeleteFromMap(K) == m' = Restrict(m, DOMAIN m \ K)
==============================================================================
