----------------------- MODULE SegmentDispatchProofs -----------------------
(***************************************************************************)
(* The loops of an upload do what Placement says, for every number of      *)
(* segments and datastores and every size of file.                         *)
(***************************************************************************)
EXTENDS SegmentDispatch, SequenceTheorems, FiniteSetTheorems, TLAPS

-----------------------------------------------------------------------------
(* Arithmetic.                                                             *)

\* One more of w.
LEMMA OneMore ==
    ASSUME NEW a \in Nat, NEW w \in Nat
    PROVE  a * w \in Nat /\ (a + 1) * w = a * w + w /\ 0 * w = 0
OBVIOUS

\* Products of naturals grow with their factors.
LEMMA Grows ==
    ASSUME NEW a \in Nat, NEW b \in Nat, NEW w \in Nat, a <= b
    PROVE  a * w <= b * w
<1>1. PICK c \in Nat : b = a + c
    <2> WITNESS b - a \in Nat
    <2> QED OBVIOUS
<1>2. (a + c) * w = a * w + c * w
    OBVIOUS
<1>3. c * w \in Nat /\ a * w \in Nat
    BY OneMore
<1> QED BY <1>1, <1>2, <1>3

\* Division with its remainder.
LEMMA Division ==
    ASSUME NEW a \in Nat, NEW n \in Nat \ {0}
    PROVE  /\ a \div n \in Nat /\ a % n \in Nat /\ a % n < n
           /\ a = n * (a \div n) + (a % n)
OBVIOUS

-----------------------------------------------------------------------------
(* The blocks of Placement.                                                *)

\* Each block begins where the one before ends, the first at the beginning,
\* and the last ends with the last segment.
LEMMA BlocksInOrder ==
    ASSUME NEW n \in Nat \ {0}, NEW k \in 1 .. n
    PROVE  /\ BlockStart(n, k, 1) = 0 /\ BlockStart(n, k, k + 1) = n
           /\ \A j \in 1 .. k : /\ BlockSize(n, k, j) \in Nat
                                /\ BlockStart(n, k, j) \in Nat
                                /\ BlockStart(n, k, j + 1) =
                                      BlockStart(n, k, j) + BlockSize(n, k, j)
<1> DEFINE q == n \div k
           r == n % k
<1>1. q \in Nat /\ r \in Nat /\ r < k /\ n = k * q + r
    BY Division
<1> HIDE DEF q, r
<1>2. BlockStart(n, k, 1) = 0
    BY <1>1, OneMore DEF BlockStart, Lesser, q, r
<1>3. BlockStart(n, k, k + 1) = n
    BY <1>1, OneMore DEF BlockStart, Lesser, q, r
<1>4. ASSUME NEW j \in 1 .. k
      PROVE  /\ BlockSize(n, k, j) \in Nat
             /\ BlockStart(n, k, j) \in Nat
             /\ BlockStart(n, k, j + 1) = BlockStart(n, k, j) + BlockSize(n, k, j)
    <2>1. PICK i \in Nat : j = i + 1
        <3> WITNESS j - 1 \in Nat
        <3> QED OBVIOUS
    <2>2. i * q \in Nat /\ (i + 1) * q = i * q + q
        BY <1>1, OneMore
    <2>3. /\ BlockStart(n, k, j) = i * q + (IF i <= r THEN i ELSE r)
          /\ BlockStart(n, k, j + 1) = (i + 1) * q + (IF i + 1 <= r THEN i + 1 ELSE r)
          /\ BlockSize(n, k, j) = q + (IF i + 1 <= r THEN 1 ELSE 0)
        BY <2>1 DEF BlockStart, BlockSize, Lesser, q, r
    <2> QED BY <1>1, <2>2, <2>3
<1> QED BY <1>2, <1>3, <1>4

\* Blocks do not overlap.
LEMMA BlocksApart ==
    ASSUME NEW n \in Nat \ {0}, NEW k \in 1 .. n, NEW i \in 1 .. k, NEW j \in 1 .. k,
           Block(n, k, i) \cap Block(n, k, j) # {}
    PROVE  i = j
<1>1. ASSUME NEW a \in 1 .. k, NEW b \in 1 .. k, a < b
      PROVE  BlockStart(n, k, a) + BlockSize(n, k, a) <= BlockStart(n, k, b)
    <2> DEFINE q == n \div k
               r == n % k
    <2>1. q \in Nat /\ r \in Nat
        BY Division
    <2> HIDE DEF q, r
    <2>2. PICK c \in Nat : b = c + 1
        <3> WITNESS b - 1 \in Nat
        <3> QED OBVIOUS
    <2>3. a * q <= c * q /\ a * q \in Nat /\ c * q \in Nat
        BY <1>1, <2>1, <2>2, Grows, OneMore
    <2>4. /\ BlockStart(n, k, a + 1) = a * q + (IF a <= r THEN a ELSE r)
          /\ BlockStart(n, k, b) = c * q + (IF c <= r THEN c ELSE r)
        BY <2>2 DEF BlockStart, Lesser, q, r
    <2>5. BlockStart(n, k, a + 1) <= BlockStart(n, k, b)
        BY <1>1, <2>1, <2>2, <2>3, <2>4
    <2> QED BY <2>5, BlocksInOrder
<1>2. PICK s \in Block(n, k, i) : s \in Block(n, k, j)
    OBVIOUS
<1>3. /\ BlockStart(n, k, i) + 1 <= s /\ s <= BlockStart(n, k, i) + BlockSize(n, k, i)
      /\ BlockStart(n, k, j) + 1 <= s /\ s <= BlockStart(n, k, j) + BlockSize(n, k, j)
      /\ s \in Int
      /\ BlockStart(n, k, i) \in Nat /\ BlockStart(n, k, j) \in Nat
      /\ BlockSize(n, k, i) \in Nat /\ BlockSize(n, k, j) \in Nat
    BY <1>2, BlocksInOrder DEF Block
<1>4. ~(i < j) /\ ~(j < i)
    BY <1>1, <1>3
<1> QED BY <1>4

\* The segments of one block are segments, and no block has two more of them
\* than another.
LEMMA BlocksFit ==
    ASSUME NEW n \in Nat \ {0}, NEW k \in 1 .. n, NEW j \in 1 .. k
    PROVE  /\ Block(n, k, j) \subseteq 1 .. n
           /\ BlockStart(n, k, j) + BlockSize(n, k, j) <= n
           /\ IsFiniteSet(Block(n, k, j))
           /\ Cardinality(Block(n, k, j)) = BlockSize(n, k, j)
           /\ \A i \in 1 .. k : BlockSize(n, k, i) <= BlockSize(n, k, j) + 1
<1>1. BlockStart(n, k, j) \in Nat /\ BlockSize(n, k, j) \in Nat
    BY BlocksInOrder
<1>2. BlockStart(n, k, j) + BlockSize(n, k, j) <= n
    <2> DEFINE q == n \div k
               r == n % k
    <2>1. q \in Nat /\ r \in Nat /\ n = k * q + r
        BY Division
    <2> HIDE DEF q, r
    <2>2. j * q <= k * q /\ j * q \in Nat /\ k * q \in Nat
        BY <2>1, Grows, OneMore
    <2>3. BlockStart(n, k, j + 1) = j * q + (IF j <= r THEN j ELSE r)
        BY DEF BlockStart, Lesser, q, r
    <2>4. BlockStart(n, k, j + 1) <= n
        BY <2>1, <2>2, <2>3
    <2> QED BY <2>4, BlocksInOrder
<1>3. IsFiniteSet(Block(n, k, j)) /\ Cardinality(Block(n, k, j)) = BlockSize(n, k, j)
    <2> DEFINE first == BlockStart(n, k, j) + 1
               end   == BlockStart(n, k, j) + BlockSize(n, k, j)
    <2>1. /\ first \in Int /\ end \in Int
          /\ (IF first > end THEN 0 ELSE end - first + 1) = BlockSize(n, k, j)
        BY <1>1
    <2>2. /\ IsFiniteSet(first .. end)
          /\ Cardinality(first .. end) = IF first > end THEN 0 ELSE end - first + 1
        <3> HIDE DEF first, end
        <3> QED BY <2>1, FS_Interval
    <2> QED BY <2>1, <2>2 DEF Block
<1>4. \A i \in 1 .. k : BlockSize(n, k, i) <= BlockSize(n, k, j) + 1
    BY Division DEF BlockSize
<1> QED BY <1>1, <1>2, <1>3, <1>4 DEF Block

\* The round in which a segment of a block comes up.
LEMMA RoundInBlock ==
    ASSUME NEW n \in Nat \ {0}, NEW k \in 1 .. n, NEW j \in 1 .. k, NEW s \in Block(n, k, j)
    PROVE  Round(n, k, j, s) \in 1 .. BlockSize(n, k, j)
<1>1. BlockStart(n, k, j) \in Nat /\ BlockSize(n, k, j) \in Nat
    BY BlocksInOrder
<1> QED BY <1>1 DEF Block, Round

-----------------------------------------------------------------------------
(* Splitting.                                                              *)

\* The segments of one size and place fit into the file.
LEMMA SegmentsFit ==
    ASSUME NEW n \in Nat \ {0}, NEW b \in Nat, NEW i \in 1 .. n
    PROVE  /\ SegmentSize(b, n) \in Nat
           /\ i * SegmentSize(b, n) \in Nat /\ i * SegmentSize(b, n) <= b
           /\ n * SegmentSize(b, n) > b - n
           /\ SegmentLength(b, n, i) = SegmentSize(b, n)
           /\ SegmentBytes(b, n, i) =
                 (i - 1) * SegmentSize(b, n) + 1 .. i * SegmentSize(b, n)
<1> DEFINE q == SegmentSize(b, n)
<1>1. q \in Nat /\ n * q <= b /\ n * q > b - n /\ n * q \in Nat
    <2>1. b \div n \in Nat /\ b = n * (b \div n) + (b % n) /\ b % n \in Nat /\ b % n < n
        BY Division
    <2> DEFINE d == b \div n
    <2>2. n * d \in Nat
        BY <2>1, OneMore
    <2> QED BY <2>1, <2>2 DEF SegmentSize
<1>2. PICK c \in Nat : i = c + 1
    <2> WITNESS i - 1 \in Nat
    <2> QED OBVIOUS
<1> HIDE DEF q
<1>3. i * q <= n * q /\ i * q \in Nat /\ c * q \in Nat /\ i * q = c * q + q
    BY <1>1, <1>2, Grows, OneMore
<1>4. SegmentLength(b, n, i) = q
    BY <1>1, <1>2, <1>3 DEF SegmentLength, Lesser, q
<1>5. SegmentBytes(b, n, i) = (i - 1) * q + 1 .. i * q
    <2>1. SegmentBytes(b, n, i) = (i - 1) * q + 1 .. (i - 1) * q + SegmentLength(b, n, i)
        BY DEF SegmentBytes, q
    <2> QED BY <1>2, <1>3, <1>4, <2>1
<1> QED BY <1>1, <1>3, <1>4, <1>5 DEF q

-----------------------------------------------------------------------------
(* Sequences of numbers one after the other.                               *)

\* Such a sequence, and a piece of it.
LEMMA CountingProperties ==
    ASSUME NEW d \in Nat, NEW n \in Nat
    PROVE  /\ Counting(d, n) \in Seq(Nat) /\ Len(Counting(d, n)) = n
           /\ \A i \in 1 .. n : Counting(d, n)[i] = d + i
           /\ \A b \in Nat : d + n <= b => Counting(d, n) \in Seq(1 .. b)
<1>1. \A S : (\A i \in 1 .. n : d + i \in S) => Counting(d, n) \in Seq(S)
    BY IsASeq DEF Counting
<1>2. Counting(d, n) \in Seq(Nat)
    BY <1>1
<1>3. Len(Counting(d, n)) = n
    BY <1>2, LenProperties DEF Counting
<1>4. \A b \in Nat : d + n <= b => Counting(d, n) \in Seq(1 .. b)
    BY <1>1
<1> QED BY <1>2, <1>3, <1>4 DEF Counting

LEMMA CountingPiece ==
    ASSUME NEW d \in Nat, NEW n \in Nat, NEW a \in Nat, NEW b \in Nat, a + b <= n
    PROVE  SubSeq(Counting(d, n), a + 1, a + b) = Counting(d + a, b)
<1> DEFINE s == Counting(d, n)
           t == SubSeq(s, a + 1, a + b)
           u == Counting(d + a, b)
<1>1. s \in Seq(Nat) /\ Len(s) = n /\ \A i \in 1 .. n : s[i] = d + i
    BY CountingProperties
<1>2. /\ t \in Seq(Nat) /\ Len(t) = b
      /\ \A i \in 1 .. b : t[i] = d + a + i
    <2> HIDE DEF s
    <2>1. /\ t \in Seq(Nat)
          /\ Len(t) = IF a + 1 <= a + b THEN (a + b) - (a + 1) + 1 ELSE 0
          /\ \A i \in 1 .. (a + b) - (a + 1) + 1 : t[i] = s[(a + 1) + i - 1]
        <3>1. \A i \in a + 1 .. a + b : s[i] \in Nat
            BY <1>1
        <3> QED BY <3>1, SubSeqProperties
    <2> HIDE DEF t
    <2>2. Len(t) = b
        BY <2>1
    <2>3. ASSUME NEW i \in 1 .. b PROVE t[i] = d + a + i
        <3>1. i \in 1 .. (a + b) - (a + 1) + 1 /\ (a + 1) + i - 1 = a + i /\ a + i \in 1 .. n
            OBVIOUS
        <3>2. t[i] = s[a + i]
            BY <2>1, <3>1
        <3> QED BY <1>1, <3>1, <3>2
    <2> QED BY <2>1, <2>2, <2>3
<1>3. u \in Seq(Nat) /\ Len(u) = b /\ \A i \in 1 .. b : u[i] = d + a + i
    <2>1. d + a \in Nat
        OBVIOUS
    <2> QED BY <2>1, CountingProperties
<1> HIDE DEF t, u
<1>4. t = u
    BY <1>2, <1>3, SeqEqual
<1> QED BY <1>4 DEF t, u, s

\* Its first number and the others.
LEMMA CountingHead ==
    ASSUME NEW d \in Nat, NEW n \in Nat
    PROVE  /\ Counting(d, n) = <<>> <=> n = 0
           /\ n > 0 => /\ Head(Counting(d, n)) = d + 1
                       /\ Tail(Counting(d, n)) = Counting(d + 1, n - 1)
<1>0. Counting(d, n) \in Seq(Nat) /\ Len(Counting(d, n)) = n
    BY CountingProperties
<1>1. Counting(d, n) = <<>> <=> n = 0
    BY <1>0, EmptySeq
<1>2. ASSUME n > 0
      PROVE  /\ Head(Counting(d, n)) = d + 1
             /\ Tail(Counting(d, n)) = Counting(d + 1, n - 1)
    <2>1. Counting(d, n) # <<>>
        BY <1>1, <1>2
    <2>2. Head(Counting(d, n)) = d + 1
        BY <1>0, <1>2, <2>1, HeadTailProperties, CountingProperties DEF Counting
    <2>3. Tail(Counting(d, n)) = SubSeq(Counting(d, n), 1 + 1, 1 + (n - 1))
        BY <1>0, <1>2, <2>1, TailIsSubSeq
    <2>4. 1 \in Nat /\ n - 1 \in Nat /\ 1 + (n - 1) <= n
        BY <1>2
    <2>5. SubSeq(Counting(d, n), 1 + 1, 1 + (n - 1)) = Counting(d + 1, n - 1)
        <3>1. PICK a, b \in Nat : a = 1 /\ b = n - 1
            BY <2>4
        <3>2. a + b <= n
            BY <3>1
        <3>3. SubSeq(Counting(d, n), a + 1, a + b) = Counting(d + a, b)
            BY <3>2, CountingPiece
        <3> QED BY <3>1, <3>3
    <2> QED BY <2>2, <2>3, <2>5
<1> QED BY <1>1, <1>2

-----------------------------------------------------------------------------
(* The invariant.                                                          *)

\* The numbers of segments, of datastores and of bytes.
LEMMA Numbers ==
    /\ NumSegments \in Nat \ {0}
    /\ TypeOK => size \in Nat /\ m \in 1 .. NumSegments /\ m \in Nat \ {0}
BY DispatchAssumption DEF TypeOK, Segments

LEMMA InitInvariant == Init => IInv
<1> SUFFICES ASSUME Init PROVE IInv
    OBVIOUS
<1>1. NumSegments \in Nat \ {0} /\ size \in Nat /\ m \in 1 .. NumSegments
    BY DispatchAssumption DEF Init, Segments
<1>2. /\ BlockStart(NumSegments, m, 1) = 0
      /\ Len(distribution) = 0 /\ Len(segments) = 0 /\ DOMAIN iterators = {}
      /\ DOMAIN distribution = {} /\ DOMAIN segments = {} /\ DOMAIN sent = {}
      /\ NumSegments % m \in Nat /\ NumSegments % m < m
    <2>1. BlockStart(NumSegments, m, 1) = 0
        BY <1>1, BlocksInOrder
    <2>2. NumSegments % m \in Nat /\ NumSegments % m < m
        BY <1>1, Division
    <2> QED BY <2>1, <2>2, EmptySeq DEF Init
<1>3. chunks = Counting(0, NumSegments) /\ chunks \in Seq(Segments)
    <2>1. chunks = [i \in 1 .. NumSegments |-> 0 + i]
        BY <1>1 DEF Init, Segments
    <2> QED BY <1>1, <2>1, CountingProperties DEF Counting, Segments
<1>4. TypeOK
    BY <1>1, <1>2, <1>3, EmptySeq DEF Init, TypeOK
<1>5. WrittenAsPlaced
    <2>1. 0 * SegmentSize(size, NumSegments) = 0
        BY <1>1, Division DEF SegmentSize
    <2>2. 1 .. Len(segments) * SegmentSize(size, NumSegments) = {}
        BY <1>2, <2>1
    <2> QED BY <1>2, <2>2 DEF WrittenAsPlaced
<1>6. DealtAsPlaced
    BY <1>1, <1>2, <1>3 DEF DealtAsPlaced, Init, Lesser
<1>7. InRounds /\ YieldedInBlocks
    BY <1>1, <1>2 DEF InRounds, YieldedInBlocks, Init
<1> QED BY <1>4, <1>5, <1>6, <1>7 DEF IInv

\* A segment is written behind the ones before.
LEMMA WriteSegmentInvariant == IInv /\ WriteSegment => IInv'
<1> SUFFICES ASSUME IInv, WriteSegment PROVE IInv'
    OBVIOUS
<1> DEFINE i == Len(segments)
           q == SegmentSize(size, NumSegments)
           new == SegmentBytes(size, NumSegments, i + 1)
           All == UNION {segments[k] : k \in 1 .. i}
<1>0. /\ TypeOK /\ size \in Nat /\ NumSegments \in Nat \ {0}
      /\ i \in Nat /\ i < NumSegments /\ DOMAIN segments = 1 .. i
      /\ segments \in Seq(SUBSET (1 .. size))
    BY Numbers, LenProperties DEF IInv, TypeOK, WriteSegment
<1>1. /\ q \in Nat /\ i * q \in Nat /\ (i + 1) * q = i * q + q /\ (i + 1) * q <= size
      /\ new = i * q + 1 .. i * q + q
    <2>1. i + 1 \in 1 .. NumSegments
        BY <1>0
    <2>2. /\ q \in Nat /\ (i + 1) * q <= size
          /\ new = ((i + 1) - 1) * q + 1 .. (i + 1) * q
        BY <1>0, <2>1, SegmentsFit
    <2>3. i * q \in Nat /\ (i + 1) * q = i * q + q /\ ((i + 1) - 1) * q = i * q
        <3> HIDE DEF q, i
        <3>1. (i + 1) - 1 = i
            BY <1>0
        <3> QED BY <1>0, <2>2, <3>1, OneMore
    <2> HIDE DEF q, i, new
    <2> QED BY <2>2, <2>3
<1>2. All = 1 .. i * q
    BY <1>0 DEF IInv, WrittenAsPlaced
<1>3. Cardinality(All) = i * q
    <2> HIDE DEF q, i, All
    <2>1. 1 \in Int /\ i * q \in Int
        BY <1>1
    <2>2. Cardinality(1 .. i * q) = IF 1 > i * q THEN 0 ELSE i * q - 1 + 1
        BY <2>1, FS_Interval
    <2>3. (IF 1 > i * q THEN 0 ELSE i * q - 1 + 1) = i * q
        BY <1>1
    <2> QED BY <1>2, <2>2, <2>3
<1>4. segments' = Append(segments, new)
    <2> DEFINE current == Lesser(q, size - i * q)
    <2>1. segments' = Append(segments, Cardinality(All) + 1 ..
                                Cardinality(All) + Lesser(current, size - Cardinality(All)))
        BY DEF WriteSegment
    <2>2. current = q /\ Lesser(current, size - i * q) = q
        <3> HIDE DEF q, i
        <3> QED BY <1>0, <1>1 DEF Lesser
    <2> HIDE DEF current, All, q, i, new
    <2> QED BY <1>1, <1>3, <2>1, <2>2
<1>5. new \in SUBSET (1 .. size)
    <2> HIDE DEF q, i, new
    <2> QED BY <1>0, <1>1
<1>6. /\ segments' \in Seq(SUBSET (1 .. size)) /\ Len(segments') = i + 1
      /\ \A k \in 1 .. i : segments'[k] = segments[k]
      /\ segments'[i + 1] = new /\ DOMAIN segments' = 1 .. i + 1
    <2> HIDE DEF new
    <2> QED BY <1>0, <1>4, <1>5, AppendProperties, LenProperties
<1>7. UNCHANGED <<size, m, chunks, extra, distribution, iterators, keys, sent>>
    BY DEF WriteSegment
<1>8. TypeOK'
    BY <1>0, <1>6, <1>7 DEF TypeOK, Hosts
<1>9. WrittenAsPlaced'
    <2>1. \A k \in 1 .. i + 1 : segments'[k] = SegmentBytes(size, NumSegments, k)
        <3>1. \A k \in 1 .. i : segments[k] = SegmentBytes(size, NumSegments, k)
            BY <1>0 DEF IInv, WrittenAsPlaced
        <3> HIDE DEF i
        <3>2. \A k \in 1 .. i + 1 : k \in 1 .. i \/ k = i + 1
            BY <1>0
        <3> QED BY <1>6, <3>1, <3>2
    <2>2. UNION {segments'[k] : k \in 1 .. i + 1} = All \cup new
        <3> HIDE DEF i, new
        <3>2. \A k \in 1 .. i + 1 : k \in 1 .. i \/ k = i + 1
            BY <1>0
        <3>3. 1 .. i \subseteq 1 .. i + 1 /\ i + 1 \in 1 .. i + 1
            BY <1>0
        <3> QED BY <1>6, <3>2, <3>3
    <2>3. All \cup new = 1 .. (i + 1) * q
        <3> HIDE DEF i, new, q, All
        <3> QED BY <1>1, <1>2
    <2> QED BY <1>6, <1>7, <2>1, <2>2, <2>3 DEF WrittenAsPlaced
<1>10. DealtAsPlaced' /\ InRounds' /\ YieldedInBlocks'
    BY <1>7 DEF IInv, DealtAsPlaced, InRounds, YieldedInBlocks, Taken, Yielded, Hosts
<1> QED BY <1>8, <1>9, <1>10 DEF IInv

\* The next datastore is dealt its block of what is left; after the last one
\* nothing has been yielded, and every iterator has its block.
LEMMA DealToHostInvariant == IInv /\ DealToHost => IInv'
<1> SUFFICES ASSUME IInv, DealToHost PROVE IInv'
    OBVIOUS
<1> DEFINE n == NumSegments
           d == Len(distribution)
           first == BlockStart(n, m, d + 1)
           count == BlockSize(n, m, d + 1)
           new == Counting(first, count)
<1>0. /\ TypeOK /\ n \in Nat \ {0} /\ m \in Nat \ {0} /\ m \in 1 .. n
      /\ d \in Nat /\ d < m /\ d + 1 \in 1 .. m /\ DOMAIN distribution = 1 .. d
      /\ distribution \in Seq(Seq(Segments))
      /\ keys = {} /\ sent = <<>> /\ DOMAIN iterators = {} /\ DOMAIN sent = {}
    BY Numbers, LenProperties, EmptySeq DEF IInv, TypeOK, DealToHost, YieldedInBlocks
<1>1. /\ first \in Nat /\ count \in Nat /\ first + count <= n
      /\ BlockStart(n, m, (d + 1) + 1) = first + count
      /\ Block(n, m, d + 1) = first + 1 .. first + count
    <2>1. /\ first \in Nat /\ count \in Nat
          /\ BlockStart(n, m, (d + 1) + 1) = first + count
        BY <1>0, BlocksInOrder
    <2>2. first + count <= n
        BY <1>0, BlocksFit
    <2> QED BY <2>1, <2>2 DEF Block
<1>2. /\ chunks = Counting(first, n - first)
      /\ extra = (n % m) - Lesser(d, n % m)
      /\ n % m \in Nat /\ n % m < m
    BY <1>0, Division DEF IInv, DealtAsPlaced
<1>3. (n \div m) + (IF extra > 0 THEN 1 ELSE 0) = count
    <2>1. extra > 0 <=> d + 1 <= n % m
        <3> DEFINE r == n % m
        <3> HIDE DEF r, n, d
        <3>1. extra = r - Lesser(d, r) /\ r \in Nat
            BY <1>2 DEF r
        <3>2. extra > 0 <=> d + 1 <= r
            BY <1>0, <3>1 DEF Lesser
        <3> QED BY <3>2 DEF r
    <2> QED BY <2>1 DEF BlockSize
<1>4. /\ distribution' = Append(distribution, SubSeq(chunks, 1, count))
      /\ chunks' = SubSeq(chunks, count + 1, Len(chunks))
      /\ extra' = (IF extra > 0 THEN extra - 1 ELSE extra)
      /\ iterators' = (IF d = m - 1 THEN distribution' ELSE iterators)
      /\ keys' = (IF d = m - 1 THEN Hosts ELSE keys)
      /\ UNCHANGED <<size, m, segments, sent>>
    BY <1>3 DEF DealToHost
<1>5. SubSeq(chunks, 1, count) = new /\ SubSeq(chunks, count + 1, Len(chunks)) =
          Counting(first + count, n - (first + count))
    <2> HIDE DEF first, count, n, d
    <2>1. n - first \in Nat /\ first \in Nat /\ count \in Nat /\ count <= n - first
        BY <1>0, <1>1
    <2>2. SubSeq(chunks, 1, count) = Counting(first, count)
        <3>1. PICK a \in Nat : a = 0
            OBVIOUS
        <3>2. a + count <= n - first /\ a + 1 = 1 /\ a + count = count /\ first + a = first
            BY <2>1, <3>1
        <3>3. SubSeq(Counting(first, n - first), a + 1, a + count) = Counting(first + a, count)
            BY SMTT(30), <2>1, <3>2, CountingPiece
        <3> QED BY <1>2, <3>2, <3>3
    <2>3. Len(chunks) = n - first
        BY <1>1, <1>2, <2>1, CountingProperties
    <2>4. (n - first) - count \in Nat /\ count + ((n - first) - count) = n - first
          /\ (n - first) - count = n - (first + count)
        BY <1>0, <1>1
    <2>5. SubSeq(chunks, count + 1, count + ((n - first) - count)) =
              Counting(first + count, (n - first) - count)
        BY <1>1, <1>2, <2>1, <2>4, CountingPiece
    <2> QED BY <2>1, <2>2, <2>3, <2>4, <2>5
<1>6. new \in Seq(Segments) /\ chunks' \in Seq(Segments)
    <2> HIDE DEF first, count
    <2>1. new \in Seq(1 .. n)
        BY <1>0, <1>1, CountingProperties
    <2>2. first + count \in Nat /\ n - (first + count) \in Nat
          /\ (first + count) + (n - (first + count)) <= n
        BY <1>0, <1>1
    <2>3. Counting(first + count, n - (first + count)) \in Seq(1 .. n)
        <3> DEFINE a == first + count
        <3> HIDE DEF a
        <3>1. a \in Nat /\ n - a \in Nat /\ a + (n - a) <= n /\ n \in Nat
            BY <1>0, <2>2 DEF a
        <3>2. Counting(a, n - a) \in Seq(1 .. n)
            <4> HIDE DEF n
            <4> QED BY <3>1, CountingProperties
        <3> QED BY <3>2 DEF a
    <2> QED BY <1>4, <1>5, <2>1, <2>3 DEF Segments
<1>7. /\ distribution' \in Seq(Seq(Segments)) /\ Len(distribution') = d + 1
      /\ DOMAIN distribution' = 1 .. d + 1
      /\ \A j \in 1 .. d : distribution'[j] = distribution[j]
      /\ distribution'[d + 1] = new
    <2> HIDE DEF new
    <2>1. distribution' = Append(distribution, new)
        BY <1>4, <1>5
    <2> QED BY <1>0, <1>6, <2>1, AppendProperties, LenProperties
<1>8. \A j \in 1 .. d + 1 : distribution'[j] =
          Counting(BlockStart(n, m, j), BlockSize(n, m, j))
    <2>1. \A j \in 1 .. d : distribution[j] = Counting(BlockStart(n, m, j), BlockSize(n, m, j))
        BY <1>0 DEF IInv, DealtAsPlaced
    <2>2. \A j \in 1 .. d + 1 : j \in 1 .. d \/ j = d + 1
        BY <1>0
    <2> QED BY <1>7, <2>1, <2>2
<1>9. DealtAsPlaced'
    <2>1. extra' = (n % m) - Lesser(d + 1, n % m)
        <3> DEFINE r == n % m
        <3> HIDE DEF r, n, d
        <3>1. extra = r - Lesser(d, r) /\ r \in Nat
            BY <1>2 DEF r
        <3>2. extra' = r - Lesser(d + 1, r)
            BY <1>0, <1>4, <3>1 DEF Lesser
        <3> QED BY <3>2 DEF r
    <2>2. \A s \in 1 .. first + count : \E j \in 1 .. d + 1 : s \in Block(n, m, j)
        <3>1. \A s \in 1 .. first : \E j \in 1 .. d : s \in Block(n, m, j)
            BY <1>0 DEF IInv, DealtAsPlaced
        <3>2. 1 .. d \subseteq 1 .. d + 1 /\ d + 1 \in 1 .. d + 1
            BY <1>0
        <3> HIDE DEF first, count, d, n
        <3>3. \A s \in 1 .. first + count : s \in 1 .. first \/ s \in first + 1 .. first + count
            BY <1>1
        <3> QED BY <1>1, <3>1, <3>2, <3>3
    <2>3. BlockStart(n, m, Len(distribution') + 1) = first + count
        BY <1>1, <1>7
    <2> QED BY <1>4, <1>5, <1>7, <1>8, <2>1, <2>2, <2>3 DEF DealtAsPlaced
<1>10. TypeOK'
    <2>1. extra' \in 0 .. m
        BY <1>0, <1>4 DEF TypeOK
    <2>2. DOMAIN iterators' \subseteq 1 .. m
          /\ \A j \in DOMAIN iterators' : iterators'[j] \in Seq(Segments)
        <3>1. CASE d = m - 1
            <4>1. iterators' = distribution' /\ DOMAIN distribution' = 1 .. m
                BY <1>0, <1>4, <1>7, <3>1
            <4> QED BY <1>7, <4>1, ElementOfSeq
        <3>2. CASE d # m - 1
            BY <1>0, <1>4, <3>2
        <3> QED BY <3>1, <3>2
    <2>3. keys' \subseteq 1 .. m
        BY <1>0, <1>4 DEF Hosts
    <2>4. sent' \in Seq((1 .. m) \X Segments) /\ Len(sent') <= NumSegments
        BY <1>4 DEF IInv, TypeOK, Hosts
    <2>5. size' \in 0 .. MaxSize /\ m' \in Segments
          /\ segments' \in Seq(SUBSET (1 .. size')) /\ Len(segments') <= NumSegments
        BY <1>4 DEF IInv, TypeOK
    <2>6. Len(distribution') <= m'
        BY <1>0, <1>4, <1>7
    <2>7. Hosts' = 1 .. m
        BY <1>4 DEF Hosts
    <2>8. m' = m
        BY <1>4
    <2> QED BY <1>6, <1>7, <2>1, <2>2, <2>3, <2>4, <2>5, <2>6, <2>7, <2>8 DEF TypeOK
<1>11. WrittenAsPlaced'
    BY <1>4 DEF IInv, WrittenAsPlaced
<1>12. InRounds' /\ YieldedInBlocks'
    <2>1. CASE d = m - 1
        <3>1. /\ iterators' = distribution' /\ keys' = 1 .. m /\ DOMAIN iterators' = 1 .. m
              /\ Len(distribution') = m /\ sent' = <<>> /\ m' = m /\ Hosts' = 1 .. m
            BY <1>0, <1>4, <1>7, <2>1 DEF Hosts
        <3>2. ASSUME NEW j \in 1 .. m
              PROVE  /\ Taken(j)' = 0 /\ BlockSize(n, m, j) \in Nat /\ BlockStart(n, m, j) \in Nat
                     /\ iterators'[j] = Counting(BlockStart(n, m, j), BlockSize(n, m, j))
            <4>1. BlockStart(n, m, j) \in Nat /\ BlockSize(n, m, j) \in Nat
                BY <1>0, BlocksInOrder
            <4>2. iterators'[j] = Counting(BlockStart(n, m, j), BlockSize(n, m, j))
                BY <1>0, <1>8, <2>1, <3>1
            <4>3. Len(iterators'[j]) = BlockSize(n, m, j)
                BY <4>1, <4>2, CountingProperties
            <4> QED BY <3>1, <4>1, <4>2, <4>3 DEF Taken
        <3>3. InRounds'
            BY <3>1, <3>2 DEF InRounds
        <3>4. \A j \in 1 .. m : \A s \in Block(n, m, j) : ~(Round(n, m, j, s) <= 0)
            BY <1>0, RoundInBlock
        <3>5. Yielded' = {}
            <4>1. DOMAIN sent' = {}
                BY <3>1, <1>0, <1>4
            <4> QED BY <4>1 DEF Yielded
        <3>6. \A j \in 1 .. m : iterators'[j] =
                  Counting(BlockStart(n, m, j) + Taken(j)', BlockSize(n, m, j) - Taken(j)')
            <4> TAKE j \in 1 .. m
            <4>1. BlockStart(n, m, j) + 0 = BlockStart(n, m, j)
                  /\ BlockSize(n, m, j) - 0 = BlockSize(n, m, j)
                BY <3>2
            <4> QED BY <3>2, <4>1
        <3>7. /\ keys' # {} /\ keys' \subseteq DOMAIN iterators' /\ DOMAIN sent' = {}
              /\ ~(Len(distribution') < m')
            BY <1>0, <1>4, <3>1
        <3> QED BY <3>1, <3>2, <3>3, <3>4, <3>5, <3>6, <3>7 DEF YieldedInBlocks
    <2>2. CASE d # m - 1
        <3>1. /\ DOMAIN iterators' = {} /\ keys' = {} /\ sent' = <<>> /\ DOMAIN sent' = {}
              /\ Len(distribution') < m' /\ m' = m
            BY <1>0, <1>4, <1>7, <2>2
        <3> QED BY <3>1 DEF InRounds, YieldedInBlocks
    <2> QED BY <2>1, <2>2
<1> QED BY <1>9, <1>10, <1>11, <1>12 DEF IInv

\* The first n numbers.
LEMMA FirstNumbers ==
    ASSUME NEW n \in Nat
    PROVE  IsFiniteSet(1 .. n) /\ Cardinality(1 .. n) = n
<1>1. /\ IsFiniteSet(1 .. n)
      /\ Cardinality(1 .. n) = IF 1 > n THEN 0 ELSE n - 1 + 1
    BY FS_Interval
<1> QED BY <1>1

\* No segment is yielded twice, so no more are yielded than there are.
LEMMA SentIsShort ==
    ASSUME NEW n \in Nat, NEW q, q \in Seq(Nat \X Nat),
           \A i \in 1 .. Len(q) : q[i][2] \in 1 .. n,
           \A i, k \in 1 .. Len(q) : q[i][2] = q[k][2] => i = k
    PROVE  Len(q) <= n
<1> DEFINE f == [i \in 1 .. Len(q) |-> q[i][2]]
<1>1. Len(q) \in Nat
    BY LenProperties
<1>2. f \in Injection(1 .. Len(q), 1 .. n)
    BY DEF Injection, IsInjective
<1>3. /\ IsFiniteSet(1 .. n) /\ Cardinality(1 .. n) = n
      /\ Cardinality(1 .. Len(q)) = Len(q)
    BY <1>1, FirstNumbers
<1>4. Cardinality(1 .. Len(q)) <= Cardinality(1 .. n)
    <2> HIDE DEF f
    <2> QED BY <1>2, <1>3, FS_Injection
<1> QED BY <1>3, <1>4

\* How the chunk to be yielded next, and what is left of its block, lie in it.
LEMMA NextChunk ==
    ASSUME IInv, NEW j \in Hosts, NextKey(j)
    PROVE  /\ NumSegments \in Nat \ {0} /\ m \in 1 .. NumSegments /\ Hosts = 1 .. m
           /\ Len(distribution) = m /\ j \in DOMAIN iterators /\ DOMAIN iterators \subseteq Hosts
           /\ BlockStart(NumSegments, m, j) \in Nat /\ BlockSize(NumSegments, m, j) \in Nat
           /\ Taken(j) \in Nat /\ Taken(j) <= BlockSize(NumSegments, m, j)
           /\ Taken(j) = BlockSize(NumSegments, m, j) - Len(iterators[j])
           /\ Len(iterators[j]) \in Nat
           /\ iterators[j] = <<>> <=> Len(iterators[j]) = 0
<1>1. NumSegments \in Nat \ {0} /\ m \in 1 .. NumSegments /\ Hosts = 1 .. m
    BY Numbers DEF IInv, Hosts
<1>2. j \in keys /\ j \in DOMAIN iterators /\ DOMAIN iterators \subseteq Hosts
    BY DEF IInv, TypeOK, YieldedInBlocks, NextKey
<1>3. Len(distribution) = m
    <2>1. ~(Len(distribution) < m)
        BY <1>2 DEF IInv, YieldedInBlocks
    <2>2. Len(distribution) \in Nat /\ Len(distribution) <= m
        BY LenProperties DEF IInv, TypeOK
    <2> QED BY <1>1, <2>1, <2>2
<1>4. BlockStart(NumSegments, m, j) \in Nat /\ BlockSize(NumSegments, m, j) \in Nat
    BY <1>1, BlocksInOrder
<1>5. /\ iterators[j] \in Seq(Segments) /\ Len(iterators[j]) \in Nat
      /\ iterators[j] = <<>> <=> Len(iterators[j]) = 0
    BY <1>2, LenProperties, EmptySeq DEF IInv, TypeOK
<1>6. Taken(j) = BlockSize(NumSegments, m, j) - Len(iterators[j])
    BY <1>2 DEF Taken
<1>7. Taken(j) >= 0
    BY <1>2 DEF IInv, YieldedInBlocks
<1> QED BY <1>1, <1>2, <1>3, <1>4, <1>5, <1>6, <1>7

\* A chunk is yielded: the first of those that its iterator has left.
LEMMA YieldedNext ==
    ASSUME IInv, NEW j \in Hosts, YieldChunk(j)
    PROVE  LET s == BlockStart(NumSegments, m, j) + Taken(j) + 1
           IN  /\ sent' = Append(sent, <<j, s>>)
               /\ s \in Block(NumSegments, m, j) /\ s \in Segments
               /\ Round(NumSegments, m, j, s) = Taken(j) + 1
               /\ s \notin Yielded
               /\ Taken(j)' = Taken(j) + 1 /\ Taken(j) + 1 <= BlockSize(NumSegments, m, j)
               /\ iterators'[j] = Counting(BlockStart(NumSegments, m, j) + (Taken(j) + 1),
                                           BlockSize(NumSegments, m, j) - (Taken(j) + 1))
               /\ DOMAIN iterators' = DOMAIN iterators
               /\ \A k \in DOMAIN iterators \ {j} : iterators'[k] = iterators[k]
<1> DEFINE n == NumSegments
           b == BlockStart(n, m, j)
           z == BlockSize(n, m, j)
           t == Taken(j)
           s == b + t + 1
<1>0. NextKey(j) /\ iterators[j] # <<>> /\ UNCHANGED m
    BY DEF YieldChunk
<1>1. /\ n \in Nat \ {0} /\ m \in 1 .. n /\ Hosts = 1 .. m /\ Len(distribution) = m
      /\ b \in Nat /\ z \in Nat /\ t \in Nat /\ t < z /\ j \in DOMAIN iterators
    <2>1. /\ n \in Nat \ {0} /\ m \in 1 .. n /\ Hosts = 1 .. m /\ Len(distribution) = m
          /\ b \in Nat /\ z \in Nat /\ t \in Nat /\ t <= z /\ j \in DOMAIN iterators
          /\ t = z - Len(iterators[j]) /\ Len(iterators[j]) \in Nat /\ Len(iterators[j]) # 0
        BY <1>0, NextChunk
    <2> HIDE DEF n, b, z, t
    <2>2. t < z
        BY <2>1
    <2> QED BY <2>1, <2>2
<1>2. iterators[j] = Counting(b + t, z - t)
    BY <1>1 DEF IInv, YieldedInBlocks
<1>3. /\ Head(iterators[j]) = s
      /\ Tail(iterators[j]) = Counting(b + (t + 1), z - (t + 1))
    <2> HIDE DEF b, z, t
    <2>1. /\ b + t \in Nat /\ z - t \in Nat /\ z - t > 0
          /\ b + t + 1 = b + (t + 1) /\ (z - t) - 1 = z - (t + 1)
        BY <1>1
    <2>2. Head(Counting(b + t, z - t)) = b + t + 1
          /\ Tail(Counting(b + t, z - t)) = Counting(b + t + 1, (z - t) - 1)
        BY <2>1, CountingHead
    <2> QED BY <1>2, <2>1, <2>2
<1>4. s \in Block(n, m, j) /\ Round(n, m, j, s) = t + 1
    <2>1. Block(n, m, j) = b + 1 .. b + z /\ Round(n, m, j, s) = s - b
        BY DEF Block, Round
    <2> HIDE DEF b, z, t
    <2> QED BY <1>1, <2>1
<1>5. s \in Segments
    BY <1>1, <1>4, BlocksFit DEF Segments
<1>6. s \notin Yielded
    <2>1. s \in Yielded <=> Round(n, m, j, s) <= t
        BY <1>1, <1>4 DEF IInv, YieldedInBlocks
    <2> HIDE DEF t, s
    <2> QED BY <1>1, <1>4, <2>1
<1>7. /\ sent' = Append(sent, <<j, s>>)
      /\ iterators'[j] = Counting(b + (t + 1), z - (t + 1))
      /\ DOMAIN iterators' = DOMAIN iterators
      /\ \A k \in DOMAIN iterators \ {j} : iterators'[k] = iterators[k]
    <2>1. /\ sent' = Append(sent, <<j, Head(iterators[j])>>)
          /\ iterators' = [iterators EXCEPT ![j] = Tail(iterators[j])]
        BY DEF YieldChunk
    <2> HIDE DEF s, b, z, t
    <2> QED BY <1>1, <1>3, <2>1
<1>8. Taken(j)' = t + 1 /\ t + 1 <= z
    <2>1. Len(iterators'[j]) = z - (t + 1)
        <3> HIDE DEF b, z, t
        <3>1. b + (t + 1) \in Nat /\ z - (t + 1) \in Nat
            BY <1>1
        <3> QED BY <1>7, <3>1, CountingProperties
    <2>2. Taken(j)' = z - Len(iterators'[j])
        BY <1>0, <1>1, <1>7 DEF Taken
    <2> HIDE DEF b, z, t
    <2> QED BY <1>1, <2>1, <2>2
<1> QED BY <1>3, <1>4, <1>5, <1>6, <1>7, <1>8

LEMMA YieldChunkInvariant == ASSUME IInv, NEW j \in Hosts, YieldChunk(j) PROVE IInv'
<1> DEFINE n == NumSegments
           s == BlockStart(n, m, j) + Taken(j) + 1
           l == Len(sent)
<1>0. /\ n \in Nat \ {0} /\ m \in 1 .. n /\ Hosts = 1 .. m /\ Hosts' = Hosts
      /\ Len(distribution) = m /\ j \in DOMAIN iterators /\ DOMAIN iterators \subseteq Hosts
      /\ Taken(j) \in Nat /\ j \in keys /\ keys \subseteq DOMAIN iterators
      /\ \A k \in Hosts : BlockSize(n, m, k) \in Nat /\ BlockStart(n, m, k) \in Nat
      /\ l \in Nat /\ DOMAIN sent = 1 .. l /\ sent \in Seq(Hosts \X Segments)
    <2>1. NextKey(j) /\ m' = m
        BY DEF YieldChunk
    <2>2. /\ n \in Nat \ {0} /\ m \in 1 .. n /\ Hosts = 1 .. m
          /\ Len(distribution) = m /\ j \in DOMAIN iterators /\ DOMAIN iterators \subseteq Hosts
          /\ Taken(j) \in Nat
        BY <2>1, NextChunk
    <2>3. \A k \in Hosts : BlockSize(n, m, k) \in Nat /\ BlockStart(n, m, k) \in Nat
        BY <2>2, BlocksInOrder
    <2>4. j \in keys /\ keys \subseteq DOMAIN iterators
        BY <2>1 DEF IInv, YieldedInBlocks, NextKey
    <2>5. l \in Nat /\ DOMAIN sent = 1 .. l /\ sent \in Seq(Hosts \X Segments)
        BY LenProperties DEF IInv, TypeOK
    <2> QED BY <2>1, <2>2, <2>3, <2>4, <2>5 DEF Hosts
<1>1. /\ UNCHANGED <<size, m, segments, chunks, extra, distribution>>
      /\ keys' = LaterKeys(j, iterators')
    BY DEF YieldChunk
<1>2. /\ sent' = Append(sent, <<j, s>>)
      /\ s \in Block(n, m, j) /\ s \in Segments
      /\ Round(n, m, j, s) = Taken(j) + 1
      /\ s \notin Yielded
      /\ Taken(j)' = Taken(j) + 1 /\ Taken(j) + 1 <= BlockSize(n, m, j)
      /\ iterators'[j] = Counting(BlockStart(n, m, j) + (Taken(j) + 1),
                                  BlockSize(n, m, j) - (Taken(j) + 1))
      /\ DOMAIN iterators' = DOMAIN iterators
      /\ \A k \in DOMAIN iterators \ {j} : iterators'[k] = iterators[k]
    BY YieldedNext
<1> HIDE DEF s
<1>3. \A k \in Hosts \ {j} : Taken(k)' = Taken(k)
    BY <1>1, <1>2 DEF Taken
<1>4. keys' = (IF keys = {j} THEN DOMAIN iterators ELSE keys \ {j})
    BY <1>1, <1>2 DEF LaterKeys
<1>5. /\ sent' \in Seq(Hosts \X Segments) /\ Len(sent') = l + 1
      /\ DOMAIN sent' = 1 .. l + 1
      /\ \A i \in 1 .. l : sent'[i] = sent[i]
      /\ sent'[l + 1] = <<j, s>>
      /\ \A i \in 1 .. l + 1 : i \in 1 .. l \/ i = l + 1
    <2>1. <<j, s>> \in Hosts \X Segments
        BY <1>2
    <2> QED BY <1>0, <1>2, <2>1, AppendProperties, LenProperties
<1>6. \A i, k \in 1 .. l + 1 : sent'[i][2] = sent'[k][2] => i = k
    <2>1. \A i, k \in 1 .. l : sent[i][2] = sent[k][2] => i = k
        BY <1>0 DEF IInv, YieldedInBlocks
    <2>2. \A i \in 1 .. l : sent[i][2] # s
        BY <1>0, <1>2 DEF Yielded
    <2> QED BY <1>5, <2>1, <2>2
<1>7. \A x : x \in Yielded' <=> x \in Yielded \/ x = s
    <2> HIDE DEF l
    <2>1. Yielded' = {sent'[i][2] : i \in 1 .. l + 1} /\ Yielded = {sent[i][2] : i \in 1 .. l}
        BY <1>0, <1>5 DEF Yielded
    <2>2. l + 1 \in 1 .. l + 1 /\ \A i \in 1 .. l : i \in 1 .. l + 1
        BY <1>0
    <2> QED BY <1>5, <2>1, <2>2
<1>8. TypeOK'
    <2>1. Len(sent') <= NumSegments
        <3>1. sent' \in Seq(Nat \X Nat)
            <4>1. Hosts \X Segments \subseteq Nat \X Nat
                BY <1>0 DEF Segments
            <4> QED BY <1>5, <4>1, SeqMonotonic
        <3>2. \A i \in 1 .. Len(sent') : sent'[i][2] \in 1 .. n
            <4> TAKE i \in 1 .. Len(sent')
            <4>1. sent'[i] \in Hosts \X Segments
                BY <1>5, ElementOfSeq
            <4> QED BY <4>1 DEF Segments
        <3>3. n \in Nat
            BY <1>0
        <3> QED BY <1>5, <1>6, <3>1, <3>2, <3>3, SentIsShort
    <2>2. \A k \in DOMAIN iterators' : iterators'[k] \in Seq(Segments)
        <3>1. iterators[j] \in Seq(Segments) /\ iterators[j] # <<>>
              /\ iterators' = [iterators EXCEPT ![j] = Tail(iterators[j])]
            BY <1>0 DEF IInv, TypeOK, YieldChunk
        <3>2. Tail(iterators[j]) \in Seq(Segments)
            BY <3>1, HeadTailProperties
        <3> QED BY <1>0, <1>2, <3>1, <3>2 DEF IInv, TypeOK
    <2>3. keys' \subseteq Hosts
        BY <1>0, <1>4
    <2> QED BY <1>0, <1>1, <1>2, <1>5, <2>1, <2>2, <2>3 DEF IInv, TypeOK
<1>9. WrittenAsPlaced' /\ DealtAsPlaced'
    BY <1>1 DEF IInv, WrittenAsPlaced, DealtAsPlaced
<1>10. InRounds'
    <2> SUFFICES ASSUME NEW i \in DOMAIN iterators, NEW k \in DOMAIN iterators
                 PROVE  /\ (i \in keys' <=> k \in keys') => Taken(i)' = Taken(k)'
                        /\ i \notin keys' /\ k \in keys' => Taken(i)' = Taken(k)' + 1
        BY <1>2 DEF InRounds
    <2>1. \A h \in DOMAIN iterators : Taken(h)' = IF h = j THEN Taken(h) + 1 ELSE Taken(h)
        BY <1>0, <1>2, <1>3
    <2>2. \A h \in DOMAIN iterators :
             /\ h \in keys => Taken(h) = Taken(j)
             /\ h \notin keys => Taken(h) = Taken(j) + 1
        BY <1>0 DEF IInv, InRounds
    <2> QED BY <1>0, <1>4, <2>1, <2>2
<1>11. YieldedInBlocks'
    <2>1. keys' # {} /\ keys' \subseteq DOMAIN iterators'
        BY <1>0, <1>2, <1>4
    <2>2. ASSUME NEW k \in DOMAIN iterators
          PROVE  /\ Taken(k)' >= 0
                 /\ iterators'[k] = Counting(BlockStart(n, m, k) + Taken(k)',
                                             BlockSize(n, m, k) - Taken(k)')
        <3>1. CASE k = j
            BY <1>0, <1>2, <3>1
        <3>2. CASE k # j
            <4>1. Taken(k)' = Taken(k) /\ iterators'[k] = iterators[k]
                BY <1>0, <1>2, <1>3, <3>2
            <4> QED BY <4>1 DEF IInv, YieldedInBlocks
        <3> QED BY <3>1, <3>2
    <2>3. \A i \in 1 .. l + 1 : sent'[i][2] \in Block(n, m, sent'[i][1])
        <3>1. \A i \in 1 .. l : sent[i][2] \in Block(n, m, sent[i][1])
            BY <1>0 DEF IInv, YieldedInBlocks
        <3> QED BY <1>2, <1>5, <3>1
    <2>4. ASSUME NEW k \in Hosts, NEW x \in Block(n, m, k)
          PROVE  x \in Yielded' <=> Round(n, m, k, x) <= Taken(k)'
        <3>1. x \in Yielded <=> Round(n, m, k, x) <= Taken(k)
            BY <1>0, <2>4 DEF IInv, YieldedInBlocks
        <3>2. CASE k = j
            <4>1. /\ x \in Int /\ BlockStart(n, m, j) \in Nat
                  /\ s = BlockStart(n, m, j) + Taken(j) + 1
                  /\ Round(n, m, k, x) = x - BlockStart(n, m, j)
                BY <1>0, <2>4, <3>2 DEF Block, Round, s
            <4> QED BY <1>0, <1>2, <1>7, <3>1, <3>2, <4>1
        <3>3. CASE k # j
            <4>1. x # s
                BY <1>0, <1>2, <2>4, <3>3, BlocksApart
            <4> QED BY <1>3, <1>7, <3>1, <3>3, <4>1
        <3> QED BY <3>2, <3>3
    <2>5. ~(Len(distribution') < m')
        BY <1>0, <1>1
    <2> QED BY <1>0, <1>1, <1>2, <1>5, <1>6, <2>1, <2>2, <2>3, <2>4, <2>5
            DEF YieldedInBlocks
<1> QED BY <1>8, <1>9, <1>10, <1>11 DEF IInv

\* An iterator that is dropped has yielded its block.
LEMMA DropIteratorInvariant == ASSUME IInv, NEW j \in Hosts, DropIterator(j) PROVE IInv'
<1> DEFINE n == NumSegments
<1>1. /\ j \in keys /\ NextKey(j) /\ iterators[j] = <<>>
      /\ UNCHANGED <<size, m, segments, chunks, extra, distribution, sent>>
      /\ DOMAIN iterators' = DOMAIN iterators \ {j}
      /\ \A k \in DOMAIN iterators \ {j} : iterators'[k] = iterators[k]
      /\ keys' = (IF keys = {j} THEN DOMAIN iterators \ {j} ELSE keys \ {j})
    BY DEF DropIterator, LaterKeys, NextKey
<1>2. /\ m \in 1 .. n /\ Hosts = 1 .. m /\ Hosts' = Hosts /\ Len(distribution) = m
      /\ j \in DOMAIN iterators /\ DOMAIN iterators \subseteq Hosts
      /\ BlockSize(n, m, j) \in Nat
      /\ Taken(j) = BlockSize(n, m, j) /\ keys \subseteq DOMAIN iterators
    <2>1. /\ m \in 1 .. n /\ Hosts = 1 .. m /\ Len(distribution) = m
          /\ j \in DOMAIN iterators /\ DOMAIN iterators \subseteq Hosts
          /\ BlockSize(n, m, j) \in Nat
          /\ Taken(j) = BlockSize(n, m, j) - Len(iterators[j]) /\ Len(iterators[j]) = 0
        BY <1>1, NextChunk
    <2>2. keys \subseteq DOMAIN iterators
        BY DEF IInv, YieldedInBlocks
    <2> QED BY <1>1, <2>1, <2>2 DEF Hosts
<1>3. \A k \in Hosts : Taken(k)' = Taken(k)
    <2> SUFFICES ASSUME NEW k \in Hosts PROVE Taken(k)' = Taken(k)
        OBVIOUS
    <2>1. CASE k = j
        <3>1. Taken(j)' = BlockSize(n, m, j) - 0
            BY <1>1 DEF Taken
        <3> QED BY <1>2, <2>1, <3>1
    <2>2. CASE k # j
        BY <1>1, <2>2 DEF Taken
    <2> QED BY <2>1, <2>2
<1>4. TypeOK'
    BY <1>1, <1>2 DEF IInv, TypeOK
<1>5. WrittenAsPlaced' /\ DealtAsPlaced'
    BY <1>1 DEF IInv, WrittenAsPlaced, DealtAsPlaced
<1>6. InRounds'
    BY <1>1, <1>2, <1>3 DEF IInv, InRounds
<1>7. YieldedInBlocks'
    <2>1. /\ keys' = {} => DOMAIN iterators' = {}
          /\ keys' \subseteq DOMAIN iterators'
          /\ ~(Len(distribution') < m')
        BY <1>1, <1>2
    <2>2. \A k \in DOMAIN iterators' :
             /\ Taken(k)' >= 0
             /\ iterators'[k] = Counting(BlockStart(n, m, k) + Taken(k)',
                                         BlockSize(n, m, k) - Taken(k)')
        BY <1>1, <1>2, <1>3 DEF IInv, YieldedInBlocks
    <2>3. /\ \A i \in DOMAIN sent : sent[i][2] \in Block(n, m, sent[i][1])
          /\ \A i, k \in DOMAIN sent : sent[i][2] = sent[k][2] => i = k
          /\ \A k \in Hosts : \A x \in Block(n, m, k) :
                x \in Yielded <=> Round(n, m, k, x) <= Taken(k)
        BY <1>2 DEF IInv, YieldedInBlocks
    <2>4. Yielded' = Yielded
        BY <1>1 DEF Yielded
    <2> QED BY <1>1, <1>2, <1>3, <2>1, <2>2, <2>3, <2>4 DEF YieldedInBlocks
<1> QED BY <1>4, <1>5, <1>6, <1>7 DEF IInv

\* Every step keeps the invariant.
LEMMA NextInvariant == IInv /\ [Next]_vars => IInv'
<1> SUFFICES ASSUME IInv, [Next]_vars PROVE IInv'
    OBVIOUS
<1>1. CASE UNCHANGED vars
    BY <1>1 DEF vars, IInv, TypeOK, WrittenAsPlaced, DealtAsPlaced, InRounds,
                YieldedInBlocks, Taken, Yielded, Hosts
<1> QED BY <1>1, WriteSegmentInvariant, DealToHostInvariant, YieldChunkInvariant,
           DropIteratorInvariant DEF Next

\* What has been written, dealt and yielded is what Placement says at every
\* turn of the loops.
THEOREM Invariant == Spec => []IInv
BY InitInvariant, NextInvariant, PTL DEF Spec

-----------------------------------------------------------------------------
(* What follows.                                                           *)

\* The segments of a file are a prefix of it that lacks fewer bytes than there
\* are segments, for every size of file and number of segments.
THEOREM SplitIsPrefix == Spec => []SegmentsArePrefix
<1>1. IInv => SegmentsArePrefix
    <2> SUFFICES ASSUME IInv, Len(segments) = NumSegments
                 PROVE  /\ \A i \in Segments : segments[i] = SegmentBytes(size, NumSegments, i)
                        /\ \E last \in size - NumSegments + 1 .. size :
                              UNION {segments[i] : i \in Segments} = 1 .. last
        BY DEF SegmentsArePrefix
    <2> DEFINE last == NumSegments * SegmentSize(size, NumSegments)
    <2>1. size \in Nat /\ NumSegments \in Nat \ {0} /\ NumSegments \in 1 .. NumSegments
        BY Numbers DEF IInv
    <2>2. DOMAIN segments = Segments
        BY LenProperties DEF IInv, TypeOK, Segments
    <2>3. last \in size - NumSegments + 1 .. size
        <3>1. last \in Nat /\ last <= size /\ last > size - NumSegments
            BY <2>1, SegmentsFit
        <3> HIDE DEF last
        <3> QED BY <2>1, <3>1
    <2>4. /\ \A i \in Segments : segments[i] = SegmentBytes(size, NumSegments, i)
          /\ UNION {segments[i] : i \in Segments} = 1 .. last
        BY <2>2 DEF IInv, WrittenAsPlaced
    <2> QED BY <2>3, <2>4
<1> QED BY <1>1, Invariant, PTL

\* Of the chunks still to be yielded, the one that comes next in Placement is
\* yielded, for every number of segments and datastores.
THEOREM HandedOutInOrder == Spec => YieldsInOrder
<1> DEFINE n == NumSegments
           Ordered == \A j \in Hosts, s \in Segments :
                         sent' = Append(sent, <<j, s>>) =>
                             NextInOrder(NumSegments, m, Segments \ Yielded, j, s)
<1>1. ASSUME IInv, [Next]_vars, NEW j \in Hosts, NEW s \in Segments,
             sent' = Append(sent, <<j, s>>)
      PROVE  NextInOrder(n, m, Segments \ Yielded, j, s)
    <2>1. /\ sent \in Seq(Hosts \X Segments) /\ <<j, s>> \in Hosts \X Segments
          /\ Len(sent) \in Nat /\ Len(sent') = Len(sent) + 1
        BY <1>1, AppendProperties, LenProperties DEF IInv, TypeOK
    <2>2. sent' # sent
        BY <2>1
    <2>3. PICK i \in Hosts : YieldChunk(i)
        BY <1>1, <2>2 DEF Next, WriteSegment, DealToHost, DropIterator, vars
    <2> DEFINE t == BlockStart(n, m, i) + Taken(i) + 1
    <2>4. /\ sent' = Append(sent, <<i, t>>) /\ t \in Segments
          /\ t \in Block(n, m, i) /\ t \notin Yielded /\ Round(n, m, i, t) = Taken(i) + 1
        BY <1>1, <2>3, YieldedNext
    <2>5. i = j /\ t = s
        <3> HIDE DEF t
        <3>1. <<i, t>> \in Hosts \X Segments
            BY <2>4
        <3>2. <<i, t>> = <<j, s>>
            BY <1>1, <2>1, <2>4, <3>1, AppendInjective
        <3> QED BY <3>2
    <2>6. s \in (Segments \ Yielded) \cap Block(n, m, j) /\ Round(n, m, j, s) = Taken(j) + 1
        BY <2>4, <2>5
    <2>7. /\ Len(distribution) = m /\ j \in DOMAIN iterators /\ Taken(j) \in Nat
          /\ j \in keys /\ (\A k \in keys : j <= k) /\ n \in Nat \ {0} /\ m \in 1 .. n
          /\ Hosts = 1 .. m
        <3>1. NextKey(j)
            BY <2>3, <2>5 DEF YieldChunk
        <3> QED BY <1>1, <3>1, NextChunk DEF NextKey
    <2>8. ASSUME NEW k \in 1 .. m, NEW x \in (Segments \ Yielded) \cap Block(n, m, k)
          PROVE  ~YieldedBefore(n, m, k, x, j, s)
        <3>1. ~(Round(n, m, k, x) <= Taken(k)) /\ BlockSize(n, m, k) \in Nat
            BY <1>1, <2>7, <2>8, BlocksInOrder DEF IInv, YieldedInBlocks
        <3>2. /\ Round(n, m, k, x) \in Int /\ Round(n, m, k, x) <= BlockSize(n, m, k)
            BY <2>7, <2>8, <3>1, RoundInBlock
        <3>3. k \in DOMAIN iterators
            <4> SUFFICES ASSUME k \notin DOMAIN iterators PROVE FALSE
                OBVIOUS
            <4>1. Taken(k) = BlockSize(n, m, k) - 0
                BY DEF Taken
            <4> QED BY <3>1, <3>2, <4>1
        <3>4. /\ k \in keys => Taken(k) = Taken(j) /\ ~(k < j)
              /\ k \notin keys => Taken(k) = Taken(j) + 1
            BY <1>1, <2>7, <3>3 DEF IInv, InRounds
        <3>5. ~(Round(n, m, k, x) < Round(n, m, j, s))
              /\ ~(Round(n, m, k, x) = Round(n, m, j, s) /\ k < j)
            BY <2>6, <2>7, <3>1, <3>2, <3>4
        <3> QED BY <3>5 DEF YieldedBefore
    <2> QED BY <2>6, <2>8 DEF NextInOrder
<1>2. IInv /\ [Next]_vars => [Ordered]_vars
    BY <1>1
<1> QED BY <1>2, Invariant, PTL DEF Spec, YieldsInOrder

\* In the end every segment has been yielded once, and no datastore has got two
\* more than another, for every number of segments and datastores.
THEOREM SentEvenly == Spec => []AllSentEvenly
<1>1. IInv => AllSentEvenly
    <2> SUFFICES ASSUME IInv, Done
                 PROVE  /\ Yielded = Segments /\ Len(sent) = NumSegments
                        /\ \A j, k \in Hosts : Load(j) <= Load(k) + 1
        BY DEF AllSentEvenly
    <2> DEFINE n == NumSegments
               l == Len(sent)
    <2>1. /\ n \in Nat \ {0} /\ m \in 1 .. n /\ Hosts = 1 .. m
          /\ l \in Nat /\ DOMAIN sent = 1 .. l /\ sent \in Seq(Hosts \X Segments)
          /\ \A i \in 1 .. l : sent[i][1] \in Hosts /\ sent[i][2] \in Segments
        <3>1. l \in Nat /\ DOMAIN sent = 1 .. l /\ sent \in Seq(Hosts \X Segments)
            BY LenProperties DEF IInv, TypeOK
        <3>2. \A i \in 1 .. l : sent[i] \in Hosts \X Segments
            BY <3>1, ElementOfSeq
        <3> QED BY <3>1, <3>2, Numbers DEF IInv, Hosts
    <2>2. Len(distribution) = m /\ DOMAIN iterators = {}
        BY DEF IInv, YieldedInBlocks, Done
    <2>3. ASSUME NEW j \in 1 .. m, NEW s \in Block(n, m, j) PROVE s \in Yielded
        <3>1. Taken(j) = BlockSize(n, m, j) /\ BlockSize(n, m, j) \in Nat
            <4>1. BlockSize(n, m, j) \in Nat
                BY <2>1, BlocksInOrder
            <4>2. Taken(j) = BlockSize(n, m, j) - 0
                BY <2>2 DEF Taken
            <4> QED BY <4>1, <4>2
        <3>2. Round(n, m, j, s) <= BlockSize(n, m, j)
            BY <2>1, <2>3, <3>1, RoundInBlock
        <3> QED BY <2>1, <2>2, <2>3, <3>1, <3>2 DEF IInv, YieldedInBlocks
    <2>4. Yielded = Segments
        <3>1. BlockStart(n, m, m + 1) = n /\ DOMAIN distribution = 1 .. m
            BY <2>1, <2>2, BlocksInOrder, LenProperties DEF IInv, TypeOK
        <3>2. \A s \in 1 .. n : \E j \in 1 .. m : s \in Block(n, m, j)
            BY <2>2, <3>1 DEF IInv, DealtAsPlaced
        <3>3. Segments \subseteq Yielded
            BY <2>3, <3>2 DEF Segments
        <3>4. Yielded \subseteq Segments
            BY <2>1 DEF Yielded
        <3> QED BY <3>3, <3>4
    <2>5. \A i, k \in 1 .. l : sent[i][2] = sent[k][2] => i = k
        BY <2>1 DEF IInv, YieldedInBlocks
    <2>6. l = n
        <3> DEFINE f == [i \in 1 .. l |-> sent[i][2]]
        <3>1. f \in [1 .. l -> Segments] /\ IsInjective(f)
            BY <2>1, <2>5 DEF IsInjective
        <3>2. \A s \in Segments : \E i \in 1 .. l : f[i] = s
            BY <2>1, <2>4 DEF Yielded
        <3>3. f \in Bijection(1 .. l, Segments)
            BY <3>1, <3>2 DEF Bijection, Injection, Surjection
        <3>4. Cardinality(Segments) = l
            <4> HIDE DEF f
            <4> QED BY <2>1, <3>3, FS_CountingElements DEF ExistsBijection
        <3> QED BY <2>1, <3>4, FirstNumbers DEF Segments
    <2>7. ASSUME NEW j \in 1 .. m PROVE Load(j) = BlockSize(n, m, j)
        <3> DEFINE D == {i \in 1 .. l : sent[i][1] = j}
                   f == [i \in D |-> sent[i][2]]
        <3>1. \A i \in D : sent[i][2] \in Block(n, m, j)
            BY <2>1 DEF IInv, YieldedInBlocks
        <3>2. f \in [D -> Block(n, m, j)] /\ IsInjective(f)
            BY <2>5, <3>1 DEF IsInjective
        <3>3. \A s \in Block(n, m, j) : \E i \in D : f[i] = s
            <4> TAKE s \in Block(n, m, j)
            <4>1. PICK i \in 1 .. l : sent[i][2] = s
                BY <2>1, <2>3 DEF Yielded
            <4>2. s \in Block(n, m, sent[i][1]) /\ sent[i][1] \in 1 .. m
                BY <2>1, <4>1 DEF IInv, YieldedInBlocks
            <4>3. sent[i][1] = j
                BY <2>1, <4>2, BlocksApart
            <4> QED BY <4>1, <4>3
        <3>4. f \in Bijection(D, Block(n, m, j))
            BY <3>2, <3>3 DEF Bijection, Injection, Surjection
        <3>5. IsFiniteSet(D)
            <4>1. IsFiniteSet(1 .. l) /\ D \subseteq 1 .. l
                BY <2>1, FirstNumbers
            <4> QED BY <4>1, FS_Subset
        <3>6. Cardinality(Block(n, m, j)) = Cardinality(D)
            <4> HIDE DEF f, D
            <4> QED BY <3>4, <3>5, FS_Bijection DEF ExistsBijection
        <3>7. Cardinality(Block(n, m, j)) = BlockSize(n, m, j)
            BY <2>1, BlocksFit
        <3> QED BY <2>1, <3>6, <3>7 DEF Load
    <2>8. \A j, k \in 1 .. m : BlockSize(n, m, j) <= BlockSize(n, m, k) + 1
        BY <2>1, BlocksFit
    <2> QED BY <2>1, <2>4, <2>6, <2>7, <2>8
<1> QED BY <1>1, Invariant, PTL
==============================================================================
