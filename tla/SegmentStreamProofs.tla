------------------------- MODULE SegmentStreamProofs -------------------------
(***************************************************************************)
(* What is registered is the segment, what is fetched has all its bytes in *)
(* their places, and what can be stored at all, for pieces, messages and   *)
(* segments of every size.                                                 *)
(***************************************************************************)
EXTENDS SegmentStream, SequenceTheorems, TLAPS

\* The sizes are numbers.
LEMMA Sizes ==
    /\ PieceSize \in Nat /\ PieceSize > 0
    /\ RetrieveSize \in Nat /\ RetrieveSize > 0
    /\ MessageLimit \in Nat /\ MessageLimit <= PieceSize
    /\ MaxLength \in Nat
BY StreamAssumption

\* The segment is a sequence of its bytes.
LEMMA SegmentType ==
    ASSUME length \in Nat
    PROVE  /\ Segment \in Seq(0 .. length)
           /\ Len(Segment) = length
           /\ \A i \in 1 .. length : Segment[i] = i
<1>1. Segment \in Seq(0 .. length)
    <2>1. \A i \in 1 .. length : i \in 0 .. length
        OBVIOUS
    <2> QED BY <2>1, IsASeq DEF Segment
<1> QED BY <1>1, LenProperties DEF Segment

\* The next bytes of a sequence: how many, and that they begin the rest.
LEMMA NextBytesProperties ==
    ASSUME NEW S, NEW s \in Seq(S), NEW i \in 0 .. Len(s), NEW n \in Nat
    PROVE  /\ NextBytes(s, i, n) \in Seq(S)
           /\ Len(NextBytes(s, i, n)) = IF i + n <= Len(s) THEN n ELSE Len(s) - i
           /\ \A k \in 1 .. Len(NextBytes(s, i, n)) : NextBytes(s, i, n)[k] = s[i + k]
<1> DEFINE end == IF i + n <= Len(s) THEN i + n ELSE Len(s)
<1>1. end \in Nat /\ end <= Len(s) /\ i <= end /\ Len(s) \in Nat
    BY LenProperties
<1>2. \A k \in i + 1 .. end : s[k] \in S
    BY <1>1, ElementOfSeq
<1>3. /\ SubSeq(s, i + 1, end) \in Seq(S)
      /\ Len(SubSeq(s, i + 1, end)) = IF i + 1 <= end THEN end - (i + 1) + 1 ELSE 0
      /\ \A k \in 1 .. end - (i + 1) + 1 : SubSeq(s, i + 1, end)[k] = s[(i + 1) + k - 1]
    <2> HIDE DEF end
    <2> QED BY <1>1, <1>2, SubSeqProperties
<1>4. NextBytes(s, i, n) = SubSeq(s, i + 1, end)
    BY DEF NextBytes
<1>5. Len(SubSeq(s, i + 1, end)) = end - i
    <2> HIDE DEF end
    <2> QED BY <1>1, <1>3
<1>6. \A k \in 1 .. end - i : SubSeq(s, i + 1, end)[k] = s[i + k]
    <2> HIDE DEF end
    <2>1. TAKE k \in 1 .. end - i
    <2>2. k \in 1 .. end - (i + 1) + 1 /\ (i + 1) + k - 1 = i + k
        BY <1>1
    <2> QED BY <2>2, <1>3
<1> QED BY <1>1, <1>3, <1>4, <1>5, <1>6

\* Damage leaves a piece its length and all bytes but one.
LEMMA ArrivingProperties ==
    ASSUME NEW n \in Nat, NEW piece \in Seq(0 .. n), NEW p \in Arriving(piece)
    PROVE  /\ p \in Seq(0 .. n) /\ Len(p) = Len(piece)
           /\ \A k \in 1 .. Len(piece) : p[k] \in {piece[k], 0}
<1>1. CASE p = piece
    BY <1>1
<1>2. ASSUME NEW i \in DOMAIN piece, p = [piece EXCEPT ![i] = 0]
      PROVE  /\ p \in Seq(0 .. n) /\ Len(p) = Len(piece)
             /\ \A k \in 1 .. Len(piece) : p[k] \in {piece[k], 0}
    <2>1. i \in 1 .. Len(piece) /\ 0 \in 0 .. n
        BY <1>2, LenProperties
    <2>2. p \in Seq(0 .. n) /\ Len(p) = Len(piece)
        BY <1>2, <2>1, ExceptSeq
    <2>3. \A k \in 1 .. Len(piece) : p[k] \in {piece[k], 0}
        BY <1>2, LenProperties
    <2> QED BY <2>2, <2>3
<1> QED BY <1>1, <1>2 DEF Arriving

-----------------------------------------------------------------------------
(* The invariant.                                                          *)

\* What the iterator reads of the segment.
LEMMA PieceProperties ==
    ASSUME length \in Nat, offset \in 0 .. length, offset < length
    PROVE  /\ Piece(offset) \in Seq(0 .. length)
           /\ \A p \in Arriving(Piece(offset)) :
                 p \in Seq(0 .. length) /\ Len(p) = Len(Piece(offset))
           /\ Len(Piece(offset)) = IF offset + PieceSize <= length
                                   THEN PieceSize ELSE length - offset
           /\ Len(Piece(offset)) > 0
           /\ offset + Len(Piece(offset)) \in 0 .. length
<1>1. /\ Piece(offset) \in Seq(0 .. length)
      /\ Len(Piece(offset)) = IF offset + PieceSize <= length
                              THEN PieceSize ELSE length - offset
    <2>1. Segment \in Seq(0 .. length) /\ Len(Segment) = length /\ offset \in 0 .. Len(Segment)
        BY SegmentType
    <2>2. PieceSize \in Nat
        BY Sizes
    <2> QED BY <2>1, <2>2, NextBytesProperties, Zenon DEF Piece
<1>2. Len(Piece(offset)) > 0 /\ offset + Len(Piece(offset)) \in 0 .. length
    BY <1>1, Sizes
<1> QED BY <1>1, <1>2, ArrivingProperties

LEMMA InitInvariant == Init => IInv
<1> SUFFICES ASSUME Init PROVE IInv
    OBVIOUS
<1>1. TypeOK
    <2>1. length \in 0 .. MaxLength /\ offset \in 0 .. length
        BY Sizes DEF Init
    <2>2. data \in Seq(0 .. length) /\ got \in Seq(0 .. length) /\ last \in 0 .. Len(data)
        BY EmptySeq DEF Init
    <2> QED BY <2>1, <2>2 DEF Init, TypeOK
<1> QED BY <1>1 DEF Init, IInv, OnePieceArrives, WrittenInOrder, FetchedSoFar

\* A message that fits is the last one of its segment, and the first one that
\* the handler is given.
LEMMA SendPieceInvariant == IInv /\ SendPiece => IInv'
<1> SUFFICES ASSUME IInv, SendPiece PROVE IInv'
    OBVIOUS
<1>0. /\ length \in Nat /\ length' = length /\ offset \in 0 .. length /\ offset < length
      /\ offset' \in 0 .. length /\ offset' = offset + Len(Piece(offset))
      /\ data = <<>> /\ last = 0
      /\ store = "receiving" /\ store' = store /\ client = "sending" /\ client' = client
      /\ row = {} /\ row' = {} /\ registered = {} /\ registered' = {}
      /\ fetch \notin {"reading", "done"} /\ UNCHANGED <<typed, fetchVars>>
    BY SMTT(30), Sizes, PieceProperties
       DEF IInv, TypeOK, OnePieceArrives, WrittenInOrder, FetchedSoFar, SendPiece
<1>1. /\ data' \in Seq(0 .. length) /\ last' = Len(data') /\ last' \in Nat
      /\ refused' \in BOOLEAN
      /\ data' # <<>> => offset' = length /\ Len(data') < PieceSize
    <2>1. CASE Fits(Piece(offset))
        <3>1. PICK piece \in Arriving(Piece(offset)) : Receive(piece)
            BY <2>1 DEF SendPiece
        <3>2. piece \in Seq(0 .. length) /\ Len(piece) = Len(Piece(offset))
            BY <1>0, PieceProperties
        <3>3. data' = piece /\ last' = Len(piece) /\ refused' = refused
            BY <1>0, <3>1, <3>2, ConcatEmptySeq DEF Receive
        <3>4. Len(piece) < PieceSize /\ Len(piece) \in Nat
            BY <2>1, <3>2, Sizes, LenProperties DEF Fits
        <3>5. offset' = length
            BY <1>0, <3>2, <3>4, PieceProperties, Sizes
        <3> QED BY <3>2, <3>3, <3>4, <3>5 DEF IInv, TypeOK
    <2>2. CASE ~Fits(Piece(offset))
        BY <1>0, <2>2, EmptySeq DEF SendPiece, Refuse
    <2> QED BY <2>1, <2>2
<1>2. TypeOK'
    BY <1>0, <1>1 DEF IInv, TypeOK, fetchVars
<1>3. OnePieceArrives' /\ WrittenInOrder' /\ FetchedSoFar'
    BY <1>0, <1>1 DEF OnePieceArrives, WrittenInOrder, FetchedSoFar, fetchVars
<1> QED BY <1>2, <1>3 DEF IInv

\* The Store handler writes what it was given, and registers it if that is the
\* segment.
LEMMA StoreInvariant ==
    IInv /\ (EndStream \/ StoreReturns \/ StoreRaises \/ StoreRejects \/ StoreChunk
             \/ Register \/ RegisterFails \/ DatastoreCrash) => IInv'
<1> SUFFICES ASSUME IInv,
                    \/ EndStream \/ StoreReturns \/ StoreRaises \/ StoreRejects
                    \/ StoreChunk \/ Register \/ RegisterFails \/ DatastoreCrash
             PROVE  IInv'
    OBVIOUS
<1>1. TypeOK'
    BY DEF IInv, TypeOK, EndStream, StoreReturns, StoreRaises, StoreRejects, StoreChunk,
           Register, RegisterFails, DatastoreCrash, clientVars, storeVars, fetchVars
<1>2. UNCHANGED <<length, typed, offset, data, last, got, fetch>>
    BY DEF EndStream, StoreReturns, StoreRaises, StoreRejects, StoreChunk,
           Register, RegisterFails, DatastoreCrash, clientVars, storeVars, fetchVars
<1>3. OnePieceArrives'
    BY <1>2 DEF IInv, OnePieceArrives
<1>4. WrittenInOrder'
    <2>1. Segment' = Segment
        BY <1>2 DEF Segment
    <2>2. CASE EndStream \/ StoreReturns
        BY <1>2, <2>1, <2>2 DEF IInv, WrittenInOrder, EndStream, StoreReturns, storeVars
    <2>3. CASE StoreRaises \/ StoreRejects \/ RegisterFails \/ DatastoreCrash
        BY <1>2, <2>1, <2>3
           DEF IInv, WrittenInOrder, StoreRaises, StoreRejects, RegisterFails,
               DatastoreCrash, clientVars
    <2>4. CASE StoreChunk
        BY <1>2, <2>1, <2>4 DEF IInv, OnePieceArrives, WrittenInOrder, StoreChunk, clientVars
    <2>5. CASE Register
        BY <1>2, <2>1, <2>5 DEF IInv, WrittenInOrder, Register, clientVars
    <2> QED BY <2>2, <2>3, <2>4, <2>5
<1>5. FetchedSoFar'
    <2>1. registered # {} => registered' # {}
        BY DEF EndStream, StoreReturns, StoreRaises, StoreRejects, StoreChunk,
               Register, RegisterFails, DatastoreCrash, storeVars
    <2> QED BY <1>2, <2>1 DEF IInv, FetchedSoFar
<1> QED BY <1>1, <1>3, <1>4, <1>5 DEF IInv

\* The pieces of a row come one after the other from its beginning.
LEMMA RetrieveInvariant ==
    IInv /\ (StartRetrieve \/ ReceivePiece \/ RetrieveEnds \/ RetrieveBreaks) => IInv'
<1> SUFFICES ASSUME IInv,
                    StartRetrieve \/ ReceivePiece \/ RetrieveEnds \/ RetrieveBreaks
             PROVE  IInv'
    OBVIOUS
<1>1. UNCHANGED <<clientVars, storeVars>>
    BY DEF StartRetrieve, ReceivePiece, RetrieveEnds, RetrieveBreaks
<1>2. OnePieceArrives' /\ WrittenInOrder' /\ Segment' = Segment
    BY <1>1 DEF IInv, OnePieceArrives, WrittenInOrder, Segment, clientVars, storeVars
<1>3. fetch' \in {"idle", "reading", "done", "failed"}
    BY DEF IInv, TypeOK, StartRetrieve, ReceivePiece, RetrieveEnds, RetrieveBreaks
<1>4. Segment \in Seq(0 .. length) /\ Len(Segment) = length /\ length \in Nat
    BY SegmentType, Sizes DEF IInv, TypeOK
<1>5. got' \in Seq(0 .. length) /\ FetchedSoFar'
    <2>1. CASE StartRetrieve
        <3>1. got' = <<>> /\ fetch' = "reading" /\ registered' # {} /\ length' = length
            BY <2>1 DEF StartRetrieve, clientVars, storeVars
        <3> QED BY <3>1, <1>4, EmptySeq DEF FetchedSoFar
    <2>2. CASE ReceivePiece
        <3>1. /\ fetch = "reading" /\ fetch' = fetch /\ registered' = registered
              /\ length' = length /\ registered # {}
              /\ row = {Segment} /\ \A i \in 1 .. Len(got) : got[i] \in {i, 0}
              /\ got \in Seq(0 .. length) /\ Len(got) \in Nat
            BY <2>2, <1>1, LenProperties
               DEF IInv, TypeOK, WrittenInOrder, FetchedSoFar, ReceivePiece, storeVars, clientVars
        <3> DEFINE next == NextBytes(Segment, Len(got), RetrieveSize)
        <3>2. /\ Len(got) < length
              /\ \E piece \in Arriving(next) : got' = got \o piece
            BY <2>2, <3>1, <1>4 DEF ReceivePiece
        <3>3. PICK piece \in Arriving(next) : got' = got \o piece
            BY <3>2
        <3>4. /\ next \in Seq(0 .. length) /\ Len(next) \in Nat
              /\ Len(got) + Len(next) <= length
              /\ \A k \in 1 .. Len(next) : next[k] = Len(got) + k
            <4>1. Len(got) \in 0 .. Len(Segment) /\ RetrieveSize \in Nat
                BY <1>4, <3>1, <3>2, Sizes
            <4>2. /\ next \in Seq(0 .. length)
                  /\ Len(next) = IF Len(got) + RetrieveSize <= Len(Segment)
                                 THEN RetrieveSize ELSE Len(Segment) - Len(got)
                  /\ \A k \in 1 .. Len(next) : next[k] = Segment[Len(got) + k]
                BY <1>4, <4>1, NextBytesProperties
            <4> HIDE DEF next
            <4>3. Len(next) \in Nat /\ Len(got) + Len(next) <= length
                BY <1>4, <4>1, <4>2
            <4>4. \A k \in 1 .. Len(next) : Len(got) + k \in 1 .. length
                BY <3>1, <4>3, <1>4
            <4>5. \A i \in 1 .. length : Segment[i] = i
                BY <1>4, SegmentType
            <4> QED BY <4>2, <4>3, <4>4, <4>5
        <3>5. /\ piece \in Seq(0 .. length) /\ Len(piece) = Len(next)
              /\ \A k \in 1 .. Len(next) : piece[k] \in {Len(got) + k, 0}
            <4> HIDE DEF next
            <4> QED BY <1>4, <3>4, ArrivingProperties
        <3> HIDE DEF next
        <3>6. /\ got' \in Seq(0 .. length) /\ Len(got') = Len(got) + Len(next)
              /\ \A k \in 1 .. Len(got) + Len(next) :
                    got'[k] = IF k <= Len(got) THEN got[k] ELSE piece[k - Len(got)]
            <4>1. /\ got \o piece \in Seq(0 .. length)
                  /\ Len(got \o piece) = Len(got) + Len(piece)
                  /\ \A k \in 1 .. Len(got) + Len(piece) :
                        (got \o piece)[k] = IF k <= Len(got) THEN got[k] ELSE piece[k - Len(got)]
                BY <3>1, <3>5, ConcatProperties
            <4>2. Len(piece) = Len(next)
                BY <3>5
            <4> QED BY <3>3, <4>1, <4>2, Zenon
        <3>7. \A k \in 1 .. Len(got) + Len(next) : got'[k] \in {k, 0}
            <4> TAKE k \in 1 .. Len(got) + Len(next)
            <4>1. CASE k <= Len(got)
                BY <3>1, <3>4, <3>6, <4>1
            <4>2. CASE ~(k <= Len(got))
                <5>1. k - Len(got) \in 1 .. Len(next) /\ Len(got) + (k - Len(got)) = k
                    BY <3>1, <3>4, <4>2
                <5> QED BY <3>5, <3>6, <4>2, <5>1
            <4> QED BY <4>1, <4>2
        <3> QED BY <3>1, <3>4, <3>6, <3>7 DEF FetchedSoFar
    <2>3. CASE RetrieveEnds
        <3>1. /\ fetch = "reading" /\ got' = got /\ row = {Segment}
              /\ length' = length /\ registered' = registered /\ FetchedSoFar
            BY <2>3 DEF IInv, WrittenInOrder, FetchedSoFar, RetrieveEnds, clientVars, storeVars
        <3>2. Len(got) = length
            BY <2>3, <3>1, <1>4 DEF RetrieveEnds
        <3> QED BY <3>1, <3>2 DEF FetchedSoFar, IInv, TypeOK
    <2>4. CASE RetrieveBreaks
        BY <2>4 DEF IInv, TypeOK, RetrieveBreaks, FetchedSoFar
    <2> QED BY <2>1, <2>2, <2>3, <2>4
<1>6. TypeOK'
    BY <1>1, <1>3, <1>5 DEF IInv, TypeOK, clientVars, storeVars
<1> QED BY <1>2, <1>5, <1>6 DEF IInv

\* Every step keeps the invariant.
LEMMA NextInvariant == IInv /\ [Next]_vars => IInv'
<1> SUFFICES ASSUME IInv, [Next]_vars PROVE IInv'
    OBVIOUS
<1>1. CASE UNCHANGED vars
    BY <1>1 DEF vars, clientVars, storeVars, fetchVars, IInv, TypeOK, OnePieceArrives,
                WrittenInOrder, FetchedSoFar, Segment
<1> QED BY <1>1, SendPieceInvariant, StoreInvariant, RetrieveInvariant DEF Next

\* What has arrived, been written and been fetched is tied together at every
\* stage of a Store call and of the fetches that follow.
THEOREM Invariant == Spec => []IInv
BY InitInvariant, NextInvariant, PTL DEF Spec

-----------------------------------------------------------------------------
(* What follows.                                                           *)

\* A chunk is registered only when the row holds the segment.
THEOREM RegisteredIsWhole == Spec => []RegisteredIsSegment
<1>1. IInv => RegisteredIsSegment
    BY DEF IInv, WrittenInOrder, RegisteredIsSegment
<1> QED BY <1>1, Invariant, PTL

\* The size of the last piece is that of the chunk, whatever the sizes, as long
\* as no piece of full size fits into a message.
THEOREM RegisteredSizeIsRight == Spec => []RegisteredSizeIsLength
<1>1. IInv => RegisteredSizeIsLength
    BY DEF IInv, TypeOK, OnePieceArrives, WrittenInOrder, RegisteredSizeIsLength
<1> QED BY <1>1, Invariant, PTL

\* Segments of no bytes or of a piece or more, and those of an upload without
\* a content type, are never stored.
THEOREM OnlyFittingStored == Spec => []StoredFits
<1>1. IInv => StoredFits
    <2> SUFFICES ASSUME IInv, client = "stored" PROVE typed /\ length \in 1 .. PieceSize - 1
        BY DEF StoredFits
    <2>1. typed /\ data # <<>> /\ data = Segment /\ Len(data) < PieceSize
        BY DEF IInv, OnePieceArrives, WrittenInOrder
    <2>2. length \in Nat /\ Len(Segment) = length
        BY SegmentType, Sizes DEF IInv, TypeOK
    <2>3. length # 0
        BY <2>1, <2>2, SegmentType, EmptySeq
    <2> QED BY <2>1, <2>2, <2>3, Sizes
<1> QED BY <1>1, Invariant, PTL

\* A fetch that returns has every byte of the segment in its place, or a
\* damaged one, however the pieces are cut.
THEOREM FetchedAllInPlace == Spec => []FetchedInPlace
<1>1. IInv => FetchedInPlace
    <2>1. IInv => \A i \in 1 .. length : Segment[i] = i
        BY SegmentType, Sizes DEF IInv, TypeOK
    <2> QED BY <2>1 DEF IInv, FetchedSoFar, FetchedInPlace
<1> QED BY <1>1, Invariant, PTL
==============================================================================
