------------------------------ MODULE PrefixTree ------------------------------
(***************************************************************************)
(* The metadata service's PrefixTree beside its in-memory KeyValueStore,   *)
(* both given the same calls: how far can one stand in for the other?  The *)
(* tree has no lock and no caller but tests; its operations are taken one  *)
(* after the other.                                                        *)
(*                                                                         *)
(* A node is named by the runes on the way to it from the root, <<>>.  Go  *)
(* decodes a key into runes, turning each byte that is not part of valid   *)
(* UTF-8 into RuneError, the character U+FFFD.  A key is written here as   *)
(* the sequence of its characters and of its stray bytes.                  *)
(***************************************************************************)
EXTENDS KeyValueStore, SequencesExt

CONSTANTS
    Characters,  \* valid characters, RuneError among them
    StrayBytes,  \* bytes that belong to no valid character
    RuneError

ASSUME KeyAssumption ==
    /\ Keys \subseteq Seq(Characters \cup StrayBytes)
    /\ RuneError \in Characters
    /\ Characters \cap StrayBytes = {}

VARIABLE value   \* of each node in the tree, its value

vars == <<m, value>>

Nodes == DOMAIN value

TypeOK ==
    /\ MapTypeOK
    /\ Nodes \subseteq Seq(Characters) /\ value \in [Nodes -> Values]
    /\ <<>> \in Nodes
    /\ \A n \in Nodes : Prefixes(n) \subseteq Nodes

Runes(k) == [i \in DOMAIN k |-> IF k[i] \in StrayBytes THEN RuneError ELSE k[i]]

\* Get walks down the children; a node without a value answers nil.
TreeGet(k) == IF Runes(k) \in Nodes THEN value[Runes(k)] ELSE NotFound

Children(n) == {c \in Nodes : Len(c) = Len(n) + 1 /\ IsPrefix(n, c)}

\* GetByPrefix answers with the values of the children of the node, in no
\* particular order, and with an error for a leaf or where there is no node.
GetByPrefix(k) ==
    LET below == IF Runes(k) \in Nodes THEN Children(Runes(k)) ELSE {}
    IN  [values |-> Restrict(value, below), err |-> below = {}]

Init == NewInMemoryKeyValueStore /\ value = [n \in {<<>>} |-> Nil]

\* Mutant: the new nodes on the way to the key are not linked.
Put_Unlinked(k, v) ==
    /\ PutInMap(k, v)
    /\ value' = [n \in Nodes \cup {Runes(k)} |-> IF n = Runes(k) THEN v ELSE value[n]]

\* Mutant: the nodes on the way lose the values they have.
Put_ClearsPath(k, v) ==
    /\ PutInMap(k, v)
    /\ value' = [n \in Nodes \cup Prefixes(Runes(k)) |->
                   IF n = Runes(k) THEN v
                   ELSE IF n \in Nodes \ Prefixes(Runes(k)) THEN value[n] ELSE Nil]

\* AddChilds makes the nodes that are missing on the way to the key.
Put(k, v) ==
    /\ PutInMap(k, v)
    /\ value' = [n \in Nodes \cup Prefixes(Runes(k)) |->
                   IF n = Runes(k) THEN v ELSE IF n \in Nodes THEN value[n] ELSE Nil]

\* Mutant: the node is unlinked from its parent.
Delete_Unlinks(k) ==
    /\ DeleteFromMap({k})
    /\ value' = Restrict(value, {n \in Nodes : n = <<>> \/ ~IsPrefix(Runes(k), n)})

\* The node stays, with a nil value.
Delete(k) ==
    /\ DeleteFromMap({k})
    /\ value' = [n \in Nodes |-> IF n = Runes(k) THEN Nil ELSE value[n]]

\* DeleteByPrefix unlinks the children of the node, not the node itself.  A
\* user of the map deletes the same keys one by one.
DeleteByPrefix(k) ==
    /\ DeleteFromMap({x \in DOMAIN m : IsStrictPrefix(k, x)})
    /\ value' = Restrict(value, {n \in Nodes : ~IsStrictPrefix(Runes(k), n)})

Next == \E k \in Keys :
    (\E v \in Values : Put(k, v)) \/ Delete(k) \/ DeleteByPrefix(k)

Spec == Init /\ [][Next]_vars

-----------------------------------------------------------------------------
\* Keys that the decoding leaves as they are and that no other key becomes.
Plain(k) == k \in Seq(Characters \ {RuneError})

\* What the map has under a plain key the tree answers with, and where the map
\* has nothing the tree has no value, whatever has been put under and deleted
\* below other keys.  The answers are not the same: where the map has nothing
\* the tree errs only if there is no node, and else answers nil, as it does for
\* a key that was deleted and for a prefix of one that was put.
StoredAnswers ==
    \A k \in Keys \ {<<>>} : Plain(k) =>
        IF Get(k) # NotFound THEN TreeGet(k) = Get(k) ELSE TreeGet(k) \in {NotFound, Nil}

\* GetByPrefix answers with an error only if no plain key is stored below the
\* prefix, although it looks at the node's children alone.
StoredBelowIsSeen ==
    \A k \in Keys, x \in DOMAIN m :
        Plain(x) /\ IsStrictPrefix(k, x) => ~GetByPrefix(k).err
==============================================================================
