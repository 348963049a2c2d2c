-------------------------- MODULE PrefixTreeProofs --------------------------
(***************************************************************************)
(* The tree has the value that the map has of every plain key, and none    *)
(* but nil of other plain keys, whatever the keys and the characters are.  *)
(***************************************************************************)
EXTENDS PrefixTree, SequenceTheorems, TLAPS

-----------------------------------------------------------------------------
(* Prefixes, element by element.                                           *)

\* The first l elements.
LEMMA FirstElements ==
    ASSUME NEW S, NEW s \in Seq(S), NEW l \in 0 .. Len(s)
    PROVE  /\ SubSeq(s, 1, l) \in Seq(S)
           /\ Len(SubSeq(s, 1, l)) = l
           /\ \A i \in 1 .. l : SubSeq(s, 1, l)[i] = s[i]
<1>1. \A i \in 1 .. l : s[i] \in S
    BY ElementOfSeq
<1>2. /\ SubSeq(s, 1, l) \in Seq(S)
      /\ Len(SubSeq(s, 1, l)) = IF 1 <= l THEN l - 1 + 1 ELSE 0
      /\ \A i \in 1 .. l - 1 + 1 : SubSeq(s, 1, l)[i] = s[1 + i - 1]
    BY <1>1, SubSeqProperties
<1> QED BY <1>2

\* A prefix has the elements of the whole, as far as it goes.
LEMMA PrefixElements ==
    ASSUME NEW S, NEW s \in Seq(S), NEW t \in Seq(S)
    PROVE  IsPrefix(s, t) <=> Len(s) <= Len(t) /\ \A i \in 1 .. Len(s) : s[i] = t[i]
<1>0. Len(s) \in Nat /\ Len(t) \in Nat /\ SubSeq(s, 1, Len(s)) = s
    BY LenProperties, SubSeqFull
<1>1. CASE Len(s) <= Len(t)
    <2>1. /\ SubSeq(t, 1, Len(s)) \in Seq(S) /\ Len(SubSeq(t, 1, Len(s))) = Len(s)
          /\ \A i \in 1 .. Len(s) : SubSeq(t, 1, Len(s))[i] = t[i]
        BY <1>0, <1>1, FirstElements
    <2>2. (\A i \in 1 .. Len(s) : s[i] = t[i]) <=> s = SubSeq(t, 1, Len(s))
        BY <2>1, SeqEqual
    <2> QED BY <1>0, <1>1, <2>2 DEF IsPrefix
<1> QED BY <1>1 DEF IsPrefix

\* The set of prefixes.
LEMMA PrefixesAre ==
    ASSUME NEW S, NEW s \in Seq(S)
    PROVE  \A p : p \in Prefixes(s) <=> p \in Seq(S) /\ IsPrefix(p, s)
<1> TAKE p
<1>1. ASSUME p \in Prefixes(s) PROVE p \in Seq(S) /\ IsPrefix(p, s)
    <2>1. PICK l \in 0 .. Len(s) : p = SubSeq(s, 1, l)
        BY <1>1 DEF Prefixes
    <2>2. p \in Seq(S) /\ Len(p) = l /\ \A i \in 1 .. l : p[i] = s[i]
        BY <2>1, FirstElements
    <2> QED BY <2>2, PrefixElements, LenProperties
<1>2. ASSUME p \in Seq(S), IsPrefix(p, s) PROVE p \in Prefixes(s)
    <2>1. Len(p) \in 0 .. Len(s) /\ SubSeq(p, 1, Len(p)) = SubSeq(s, 1, Len(p))
        BY <1>2, LenProperties DEF IsPrefix
    <2>2. p = SubSeq(s, 1, Len(p))
        BY <1>2, <2>1, SubSeqFull
    <2> QED BY <2>1, <2>2 DEF Prefixes
<1> QED BY <1>1, <1>2

\* The prefixes of a prefix.
LEMMA PrefixTransitive ==
    ASSUME NEW S, NEW s \in Seq(S), NEW t \in Seq(S), NEW u \in Seq(S),
           IsPrefix(s, t), IsPrefix(t, u)
    PROVE  IsPrefix(s, u) /\ (s # t => s # u)
<1>1. Len(s) \in Nat /\ Len(t) \in Nat /\ Len(u) \in Nat
    BY LenProperties
<1>2. /\ Len(s) <= Len(t) /\ \A i \in 1 .. Len(s) : s[i] = t[i]
      /\ Len(t) <= Len(u) /\ \A i \in 1 .. Len(t) : t[i] = u[i]
    BY PrefixElements
<1>3. IsPrefix(s, u)
    BY <1>1, <1>2, PrefixElements
<1>4. s = u => s = t
    BY <1>1, <1>2, SeqEqual
<1> QED BY <1>3, <1>4

\* Every sequence is a prefix of itself, and the empty one of every one.
LEMMA PrefixEnds ==
    ASSUME NEW S, NEW s \in Seq(S)
    PROVE  s \in Prefixes(s) /\ <<>> \in Prefixes(s)
<1>1. Len(s) \in 0 .. Len(s) /\ SubSeq(s, 1, Len(s)) = s
    BY LenProperties, SubSeqFull
<1>2. 0 \in 0 .. Len(s) /\ SubSeq(s, 1, 0) = <<>>
    BY LenProperties, SubSeqEmpty
<1> QED BY <1>1, <1>2 DEF Prefixes

-----------------------------------------------------------------------------
(* Decoding.                                                               *)

\* A decoded key is a node's name, as long as the key.
LEMMA RunesType ==
    ASSUME NEW k \in Keys
    PROVE  /\ k \in Seq(Characters \cup StrayBytes) /\ Runes(k) \in Seq(Characters)
           /\ Len(Runes(k)) = Len(k)
           /\ \A i \in 1 .. Len(k) :
                 Runes(k)[i] = IF k[i] \in StrayBytes THEN RuneError ELSE k[i]
<1>1. k \in Seq(Characters \cup StrayBytes)
    BY KeyAssumption
<1>2. Len(k) \in Nat /\ DOMAIN k = 1 .. Len(k)
      /\ \A i \in 1 .. Len(k) : k[i] \in Characters \cup StrayBytes
    BY <1>1, LenProperties, ElementOfSeq
<1>3. Runes(k) = [i \in 1 .. Len(k) |-> IF k[i] \in StrayBytes THEN RuneError ELSE k[i]]
    BY <1>2 DEF Runes
<1>4. \A i \in 1 .. Len(k) :
         (IF k[i] \in StrayBytes THEN RuneError ELSE k[i]) \in Characters
    BY <1>2, KeyAssumption
<1>5. Runes(k) \in Seq(Characters)
    BY <1>2, <1>3, <1>4, IsASeq
<1>6. Len(Runes(k)) = Len(k)
    BY <1>2, <1>3, <1>5, LenProperties
<1> QED BY <1>1, <1>3, <1>5, <1>6

\* A plain key is decoded to itself, and nothing else is decoded to a plain
\* key or to one of its prefixes.
LEMMA RunesPlain ==
    ASSUME NEW k \in Keys, NEW x \in Keys, Plain(x)
    PROVE  /\ Runes(x) = x /\ x \in Seq(Characters)
           /\ Runes(k) = x <=> k = x
           /\ IsStrictPrefix(Runes(k), x) <=> IsStrictPrefix(k, x)
<1> DEFINE All == Characters \cup StrayBytes
<1>0. /\ x \in Seq(All) /\ k \in Seq(All)
      /\ Len(x) \in Nat /\ Len(k) \in Nat
      /\ Runes(k) \in Seq(Characters) /\ Len(Runes(k)) = Len(k)
    BY RunesType, LenProperties
<1>1. Runes(k) \in Seq(All)
    <2>1. Characters \subseteq All
        OBVIOUS
    <2> QED BY <1>0, <2>1, SeqMonotonic
<1>2. x \in Seq(Characters)
    <2>1. Characters \ {RuneError} \subseteq Characters
        OBVIOUS
    <2> QED BY <2>1, SeqMonotonic DEF Plain
<1>3. \A i \in 1 .. Len(x) : x[i] \in Characters \ {RuneError} /\ x[i] \notin StrayBytes
    BY <1>0, ElementOfSeq, KeyAssumption DEF Plain
<1>4. \A i \in 1 .. Len(x) : i <= Len(k) => (Runes(k)[i] = x[i] <=> k[i] = x[i])
    BY <1>0, <1>3, RunesType
<1>5. Runes(x) = x
    <2>1. /\ Runes(x) \in Seq(Characters) /\ Len(Runes(x)) = Len(x)
          /\ \A i \in 1 .. Len(x) : Runes(x)[i] = x[i]
        BY <1>3, RunesType
    <2> QED BY <1>2, <2>1, SeqEqual
<1>6. Runes(k) = x => k = x
    <2> SUFFICES ASSUME Runes(k) = x PROVE k = x
        OBVIOUS
    <2>1. Len(k) = Len(x) /\ \A i \in 1 .. Len(k) : k[i] = x[i]
        BY <1>0, <1>4
    <2> QED BY <1>0, <2>1, SeqEqual
<1>7. IsPrefix(Runes(k), x) <=> IsPrefix(k, x)
    <2> HIDE DEF All
    <2>1. IsPrefix(Runes(k), x) <=>
             Len(k) <= Len(x) /\ \A i \in 1 .. Len(k) : Runes(k)[i] = x[i]
        BY SMTT(30), <1>0, <1>1, PrefixElements
    <2>2. IsPrefix(k, x) <=> Len(k) <= Len(x) /\ \A i \in 1 .. Len(k) : k[i] = x[i]
        BY <1>0, PrefixElements
    <2> QED BY <1>0, <1>4, <2>1, <2>2
<1> QED BY <1>2, <1>5, <1>6, <1>7 DEF IsStrictPrefix

-----------------------------------------------------------------------------
(* The invariant.                                                          *)

IInv == TypeOK /\ StoredAnswers

\* What StoredAnswers says, in terms of the map and the nodes.
Agrees(x) ==
    /\ x \in DOMAIN m => x \in Nodes /\ value[x] = m[x]
    /\ x \notin DOMAIN m /\ x \in Nodes => value[x] = Nil

LEMMA StoredAnswersMeans ==
    TypeOK => (StoredAnswers <=> \A x \in Keys \ {<<>>} : Plain(x) => Agrees(x))
<1> SUFFICES ASSUME TypeOK, NEW x \in Keys \ {<<>>}, Plain(x)
    PROVE (IF Get(x) # NotFound THEN TreeGet(x) = Get(x) ELSE TreeGet(x) \in {NotFound, Nil})
          <=> Agrees(x)
    BY DEF StoredAnswers
<1>1. TreeGet(x) = IF x \in Nodes THEN value[x] ELSE NotFound
    BY RunesPlain DEF TreeGet
<1>2. /\ x \in DOMAIN m => m[x] \in Values
      /\ x \in Nodes => value[x] \in Values
    BY DEF TypeOK, MapTypeOK
<1> QED BY <1>1, <1>2, ValueAssumption DEF Get, Agrees

\* The same of the state after a step.
LEMMA StoredAnswersMeansNext ==
    TypeOK' /\ (\A x \in Keys \ {<<>>} : Plain(x) => Agrees(x)') => StoredAnswers'
<1>1. (TypeOK => (StoredAnswers <=> \A x \in Keys \ {<<>>} : Plain(x) => Agrees(x)))'
    BY StoredAnswersMeans, PTL
<1> QED BY <1>1

LEMMA InitInvariant == Init => IInv
<1> SUFFICES ASSUME Init PROVE IInv
    OBVIOUS
<1>1. Nodes = {<<>>} /\ value = [n \in {<<>>} |-> Nil] /\ DOMAIN m = {} /\ m = <<>>
    BY DEF Init, NewInMemoryKeyValueStore, Nodes
<1>2. m \in [DOMAIN m -> Values]
    <2>1. m \in Seq(Values)
        BY <1>1, EmptySeq
    <2>2. PICK n \in Nat : m \in [1 .. n -> Values]
        BY <2>1, SeqDef
    <2> QED BY <2>2
<1>3. Prefixes(<<>>) \subseteq {<<>>}
    <2>1. \A l \in 0 .. Len(<<>>) : SubSeq(<<>>, 1, l) = <<>>
        BY SubSeqEmpty
    <2> QED BY <2>1 DEF Prefixes
<1>4. TypeOK
    BY <1>1, <1>2, <1>3, EmptySeq, ValueAssumption DEF TypeOK, MapTypeOK
<1> QED BY <1>1, <1>4, StoredAnswersMeans DEF IInv, Agrees

\* The map keeps its type.
LEMMA MapType ==
    ASSUME TypeOK
    PROVE  /\ \A k \in Keys, v \in Values : PutInMap(k, v) => MapTypeOK'
           /\ \A K : DeleteFromMap(K) => MapTypeOK'
<1>1. ASSUME NEW k \in Keys, NEW v \in Values, PutInMap(k, v) PROVE MapTypeOK'
    <2>1. CASE k = <<>>
        BY <1>1, <2>1 DEF TypeOK, MapTypeOK, PutInMap
    <2>2. CASE k # <<>>
        BY <1>1, <2>2 DEF TypeOK, MapTypeOK, PutInMap
    <2> QED BY <2>1, <2>2
<1>2. ASSUME NEW K, DeleteFromMap(K) PROVE MapTypeOK'
    <2>1. DOMAIN m' = DOMAIN m \ K /\ \A x \in DOMAIN m' : m'[x] = m[x]
        BY <1>2 DEF DeleteFromMap, Restrict
    <2>2. m' \in [DOMAIN m' -> Values]
        BY <1>2, <2>1 DEF TypeOK, MapTypeOK, DeleteFromMap, Restrict
    <2> QED BY <2>1, <2>2 DEF TypeOK, MapTypeOK
<1> QED BY <1>1, <1>2

\* Put makes nodes on the way to the key, none of which had a value.
LEMMA PutInvariant ==
    ASSUME NEW k \in Keys, NEW v \in Values, IInv, Put(k, v)
    PROVE  IInv'
<1> DEFINE r == Runes(k)
<1>0. TypeOK /\ StoredAnswers /\ r \in Seq(Characters)
    BY RunesType DEF IInv
<1>1. /\ Nodes' = Nodes \cup Prefixes(r)
      /\ \A n \in Nodes' : value'[n] = IF n = r THEN v
                                       ELSE IF n \in Nodes THEN value[n] ELSE Nil
      /\ value' \in [Nodes' -> Values]
    <2> HIDE DEF r
    <2>1. value' = [n \in Nodes \cup Prefixes(r) |->
                      IF n = r THEN v ELSE IF n \in Nodes THEN value[n] ELSE Nil]
        BY DEF Put, r
    <2> QED BY <2>1, <1>0, ValueAssumption DEF TypeOK, Nodes
<1>2. \A p : p \in Prefixes(r) <=> p \in Seq(Characters) /\ IsPrefix(p, r)
    BY <1>0, PrefixesAre
<1>3. TypeOK'
    <2>1. MapTypeOK'
        BY <1>0, MapType DEF Put
    <2>2. Nodes' \subseteq Seq(Characters) /\ <<>> \in Nodes'
        BY <1>0, <1>1, <1>2 DEF TypeOK
    <2>3. ASSUME NEW n \in Nodes', NEW p \in Prefixes(n) PROVE p \in Nodes'
        <3>1. CASE n \in Nodes
            BY <3>1, <2>3, <1>0, <1>1 DEF TypeOK
        <3>2. CASE n \in Prefixes(r)
            <4>1. n \in Seq(Characters) /\ IsPrefix(n, r)
                BY <3>2, <1>2
            <4>2. p \in Seq(Characters) /\ IsPrefix(p, n)
                BY <4>1, <2>3, PrefixesAre
            <4>3. IsPrefix(p, r)
                BY <1>0, <4>1, <4>2, PrefixTransitive
            <4> QED BY <1>1, <1>2, <4>2, <4>3
        <3> QED BY <3>1, <3>2, <1>1
    <2> QED BY <2>1, <2>2, <2>3, <1>1 DEF TypeOK
<1>4. ASSUME NEW x \in Keys \ {<<>>}, Plain(x)
      PROVE  Agrees(x)'
    <2>1. /\ x \in DOMAIN m => x \in Nodes /\ value[x] = m[x]
          /\ x \notin DOMAIN m /\ x \in Nodes => value[x] = Nil
        BY <1>0, <1>4, StoredAnswersMeans DEF Agrees
    <2>2. r = x <=> k = x
        BY <1>4, RunesPlain
    <2>3. CASE x = k
        <3>1. x \in DOMAIN m' /\ m'[x] = v
            BY <1>4, <2>3 DEF Put, PutInMap
        <3>2. x \in Nodes' /\ value'[x] = v
            BY <1>0, <1>1, <2>2, <2>3, PrefixEnds
        <3> QED BY <3>1, <3>2 DEF Agrees
    <2>4. CASE x # k
        <3>1. /\ x \in DOMAIN m' <=> x \in DOMAIN m
              /\ x \in DOMAIN m => m'[x] = m[x]
            BY <1>4, <2>4 DEF Put, PutInMap
        <3>2. x \in Nodes' => value'[x] = IF x \in Nodes THEN value[x] ELSE Nil
            BY <1>1, <2>2, <2>4
        <3> QED BY <1>1, <2>1, <3>1, <3>2 DEF Agrees
    <2> QED BY <2>3, <2>4
<1> QED BY <1>3, <1>4, StoredAnswersMeansNext DEF IInv

\* Delete sets the value of one node.
LEMMA DeleteInvariant ==
    ASSUME NEW k \in Keys, IInv, Delete(k)
    PROVE  IInv'
<1>0. TypeOK /\ StoredAnswers
    BY DEF IInv
<1>1. /\ Nodes' = Nodes /\ value' \in [Nodes' -> Values]
      /\ \A n \in Nodes : value'[n] = IF n = Runes(k) THEN Nil ELSE value[n]
    BY <1>0, ValueAssumption DEF Delete, TypeOK, Nodes
<1>2. TypeOK'
    BY <1>0, <1>1, MapType DEF TypeOK, Delete
<1>3. ASSUME NEW x \in Keys \ {<<>>}, Plain(x)
      PROVE  Agrees(x)'
    <2>1. /\ x \in DOMAIN m => x \in Nodes /\ value[x] = m[x]
          /\ x \notin DOMAIN m /\ x \in Nodes => value[x] = Nil
        BY <1>0, <1>3, StoredAnswersMeans DEF Agrees
    <2>2. Runes(k) = x <=> k = x
        BY <1>3, RunesPlain
    <2>3. /\ x \in DOMAIN m' <=> x \in DOMAIN m /\ x # k
          /\ x \in DOMAIN m' => m'[x] = m[x]
        BY DEF Delete, DeleteFromMap, Restrict
    <2> QED BY <1>1, <2>1, <2>2, <2>3 DEF Agrees
<1> QED BY <1>2, <1>3, StoredAnswersMeansNext DEF IInv

\* DeleteByPrefix takes whole branches, and no plain key beside them.
LEMMA DeleteByPrefixInvariant ==
    ASSUME NEW k \in Keys, IInv, DeleteByPrefix(k)
    PROVE  IInv'
<1> DEFINE r == Runes(k)
<1>0. TypeOK /\ StoredAnswers /\ r \in Seq(Characters)
    BY RunesType DEF IInv
<1>1. /\ Nodes' = {n \in Nodes : ~IsStrictPrefix(r, n)}
      /\ value' \in [Nodes' -> Values]
      /\ \A n \in Nodes' : value'[n] = value[n]
    BY <1>0 DEF DeleteByPrefix, Restrict, TypeOK, Nodes
<1>2. TypeOK'
    <2>1. MapTypeOK'
        BY <1>0, MapType DEF DeleteByPrefix
    <2>2. <<>> \in Nodes'
        <3>1. ~IsStrictPrefix(r, <<>>)
            <4>1. IsPrefix(r, <<>>) => Len(r) = 0
                BY <1>0, LenProperties DEF IsPrefix
            <4> QED BY <1>0, <4>1, EmptySeq DEF IsStrictPrefix
        <3> QED BY <1>0, <1>1, <3>1 DEF TypeOK
    <2>3. ASSUME NEW n \in Nodes', NEW p \in Prefixes(n) PROVE p \in Nodes'
        <3>1. n \in Nodes /\ p \in Nodes /\ n \in Seq(Characters) /\ p \in Seq(Characters)
            BY <1>0, <1>1, <2>3 DEF TypeOK
        <3>2. IsPrefix(p, n)
            BY <3>1, <2>3, PrefixesAre
        <3>3. IsStrictPrefix(r, p) => IsStrictPrefix(r, n)
            BY <1>0, <3>1, <3>2, PrefixTransitive DEF IsStrictPrefix
        <3> QED BY <1>1, <3>1, <3>3
    <2> QED BY <1>0, <1>1, <2>1, <2>2, <2>3 DEF TypeOK
<1>3. ASSUME NEW x \in Keys \ {<<>>}, Plain(x)
      PROVE  Agrees(x)'
    <2>1. /\ x \in DOMAIN m => x \in Nodes /\ value[x] = m[x]
          /\ x \notin DOMAIN m /\ x \in Nodes => value[x] = Nil
        BY <1>0, <1>3, StoredAnswersMeans DEF Agrees
    <2>2. IsStrictPrefix(r, x) <=> IsStrictPrefix(k, x)
        BY <1>3, RunesPlain
    <2>3. /\ x \in DOMAIN m' <=> x \in DOMAIN m /\ ~IsStrictPrefix(k, x)
          /\ x \in DOMAIN m' => m'[x] = m[x]
        BY DEF DeleteByPrefix, DeleteFromMap, Restrict
    <2> QED BY <1>1, <2>1, <2>2, <2>3 DEF Agrees
<1> QED BY <1>2, <1>3, StoredAnswersMeansNext DEF IInv

LEMMA NextInvariant == IInv /\ [Next]_vars => IInv'
<1> SUFFICES ASSUME IInv, [Next]_vars PROVE IInv'
    OBVIOUS
<1>1. CASE UNCHANGED vars
    BY <1>1 DEF vars, IInv, TypeOK, MapTypeOK, Nodes, StoredAnswers, Get, TreeGet
<1> QED BY <1>1, PutInvariant, DeleteInvariant, DeleteByPrefixInvariant DEF Next

\* The tree always holds all the prefixes of its nodes.
THEOREM TypeCorrect == Spec => []TypeOK
<1>1. Spec => []IInv
    BY InitInvariant, NextInvariant, PTL DEF Spec
<1> QED BY <1>1, PTL DEF IInv

\* The tree answers Get of a plain key that is stored with its value, and with
\* no value where nothing is stored, be it nil or an error, for all keys.
THEOREM ValuesAgree == Spec => []StoredAnswers
<1>1. Spec => []IInv
    BY InitInvariant, NextInvariant, PTL DEF Spec
<1> QED BY <1>1, PTL DEF IInv

\* A plain key stored below k has a node, and so has every prefix of it: one
\* of them is a child of k's node.  GetByPrefix, which looks no further than
\* the children, does not answer with an error.
THEOREM StoredIsSeen == Spec => []StoredBelowIsSeen
<1>1. ASSUME IInv, NEW k \in Keys, NEW x \in DOMAIN m, Plain(x), IsStrictPrefix(k, x)
      PROVE  ~GetByPrefix(k).err
    <2> DEFINE r == Runes(k)
               c == SubSeq(x, 1, Len(r) + 1)
    <2>1. x \in Keys \ {<<>>}
        BY <1>1 DEF IInv, TypeOK, MapTypeOK
    <2>2. x \in Nodes
        BY <1>1, <2>1, StoredAnswersMeans DEF IInv, Agrees
    <2>3. /\ x \in Seq(Characters) /\ r \in Seq(Characters)
          /\ Len(x) \in Nat /\ Len(r) \in Nat
          /\ IsPrefix(r, x) /\ r # x
        BY <1>1, <2>1, RunesPlain, RunesType, LenProperties DEF IsStrictPrefix
    <2> HIDE DEF r
    <2>4. Len(r) <= Len(x) /\ \A i \in 1 .. Len(r) : r[i] = x[i]
        BY <2>3, PrefixElements
    <2>5. Len(r) < Len(x)
        BY <2>3, <2>4, SeqEqual
    <2>6. /\ c \in Seq(Characters) /\ Len(c) = Len(r) + 1
          /\ \A i \in 1 .. Len(r) + 1 : c[i] = x[i]
        BY <2>3, <2>5, FirstElements
    <2>7. c \in Prefixes(x) /\ r \in Prefixes(x)
        BY <2>3, <2>5, PrefixesAre DEF Prefixes
    <2>8. c \in Nodes /\ r \in Nodes
        BY <1>1, <2>2, <2>7 DEF IInv, TypeOK
    <2> HIDE DEF c
    <2>9. IsPrefix(r, c)
        BY <2>3, <2>4, <2>6, PrefixElements
    <2>10. c \in Children(r)
        BY <2>6, <2>8, <2>9 DEF Children
    <2> QED BY <2>8, <2>10 DEF GetByPrefix, r
<1>2. IInv => StoredBelowIsSeen
    BY <1>1 DEF StoredBelowIsSeen
<1>3. Spec => []IInv
    BY InitInvariant, NextInvariant, PTL DEF Spec
<1> QED BY <1>2, <1>3, PTL
==============================================================================
