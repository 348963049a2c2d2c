--------------------------- MODULE SegmentDispatch ---------------------------
(***************************************************************************)
(* The loops of one upload that touch neither network nor other requests:  *)
(* split_file cuts the file, distribute_chunks_with_sequence deals the     *)
(* segments to the datastores, even_chunk_iterator hands them out.  Each   *)
(* step is one turn of a loop.  ChunkedUpload uses the closed formulas of  *)
(* Placement instead of the loops; the properties here say it may.         *)
(*                                                                         *)
(* Bytes, segments and datastores are numbered from 1.  TopK never gives   *)
(* more datastores than it is asked for.                                   *)
(***************************************************************************)
EXTENDS Placement, Sequences, FiniteSets

CONSTANTS
    NumSegments,  \* Config.num_segments
    MaxSize       \* bound of the file size

ASSUME DispatchAssumption == NumSegments \in Nat \ {0} /\ MaxSize \in Nat

VARIABLES
    size,          \* file_size
    m,             \* len(grpc_strings)
    segments,      \* the bytes written to each segment file so far
    chunks,        \* what is left in chunks_iter
    extra,         \* extra_chunks
    distribution,  \* the chunks dealt to the first datastores
    iterators,     \* of each live key, what its iterator has left
    keys,          \* the keys still to visit in this pass, lowest first
    sent           \* what even_chunk_iterator has yielded: <<datastore, segment>>

vars == <<size, m, segments, chunks, extra, distribution, iterators, keys, sent>>

Segments == 1 .. NumSegments
Hosts == 1 .. m

TypeOK ==
    /\ size \in 0 .. MaxSize /\ m \in Segments
    /\ segments \in Seq(SUBSET (1 .. size)) /\ Len(segments) <= NumSegments
    /\ chunks \in Seq(Segments)
    /\ extra \in 0 .. m
    /\ distribution \in Seq(Seq(Segments)) /\ Len(distribution) <= m
    /\ DOMAIN iterators \subseteq Hosts
    /\ \A j \in DOMAIN iterators : iterators[j] \in Seq(Segments)
    /\ keys \subseteq Hosts
    /\ sent \in Seq(Hosts \X Segments) /\ Len(sent) <= NumSegments

Init ==
    /\ size \in 0 .. MaxSize
    /\ m \in Segments
    /\ segments = <<>>
    /\ chunks = [i \in Segments |-> i]
    /\ extra = NumSegments % m
    /\ distribution = <<>>
    /\ iterators = <<>>
    /\ keys = {}
    /\ sent = <<>>

\* Mutant: the file is opened anew in every turn.
WriteSegment_Reopened ==
    LET i       == Len(segments)
        current == Lesser(SegmentSize(size, NumSegments),
                          size - i * SegmentSize(size, NumSegments))
    IN  /\ i < NumSegments
        /\ segments' = Append(segments, 1 .. current)
        /\ UNCHANGED <<size, m, chunks, extra, distribution, iterators, keys, sent>>

\* One turn of split_file: read returns fewer bytes at the end of the file.
WriteSegment ==
    LET i       == Len(segments)
        offset  == Cardinality(UNION {segments[k] : k \in 1 .. i})
        current == Lesser(SegmentSize(size, NumSegments),
                          size - i * SegmentSize(size, NumSegments))
    IN  /\ i < NumSegments
        /\ segments' = Append(segments, offset + 1 .. offset + Lesser(current, size - offset))
        /\ UNCHANGED <<size, m, chunks, extra, distribution, iterators, keys, sent>>

\* Mutant: the chunks that do not divide evenly are forgotten.
DealToHost_NoExtra ==
    LET count == NumSegments \div m
    IN  /\ Len(segments) = NumSegments
        /\ Len(distribution) < m
        /\ distribution' = Append(distribution, SubSeq(chunks, 1, count))
        /\ chunks' = SubSeq(chunks, count + 1, Len(chunks))
        /\ UNCHANGED extra
        /\ iterators' = IF Len(distribution) = m - 1 THEN distribution' ELSE iterators
        /\ keys' = IF Len(distribution) = m - 1 THEN Hosts ELSE keys
        /\ UNCHANGED <<size, m, segments, sent>>

\* One turn of distribute_chunks_with_sequence; after the last one
\* even_chunk_iterator makes its iterators and lists their keys.
DealToHost ==
    LET count == (NumSegments \div m) + (IF extra > 0 THEN 1 ELSE 0)
    IN  /\ Len(segments) = NumSegments
        /\ Len(distribution) < m
        /\ distribution' = Append(distribution, SubSeq(chunks, 1, count))
        /\ chunks' = SubSeq(chunks, count + 1, Len(chunks))
        /\ extra' = IF extra > 0 THEN extra - 1 ELSE extra
        /\ iterators' = IF Len(distribution) = m - 1 THEN distribution' ELSE iterators
        /\ keys' = IF Len(distribution) = m - 1 THEN Hosts ELSE keys
        /\ UNCHANGED <<size, m, segments, sent>>

\* The dictionary has the datastores in their order.
NextKey(j) == j \in keys /\ \A k \in keys : j <= k

\* A pass that has visited all of its keys is followed by one over the keys
\* of the iterators that are left.
LaterKeys(j, its) == IF keys = {j} THEN DOMAIN its ELSE keys \ {j}

\* Mutant: an iterator is emptied before the next one is visited.
YieldChunk_KeyByKey(j) ==
    /\ NextKey(j)
    /\ iterators[j] # <<>>
    /\ sent' = Append(sent, <<j, Head(iterators[j])>>)
    /\ iterators' = [iterators EXCEPT ![j] = Tail(@)]
    /\ UNCHANGED <<size, m, segments, chunks, extra, distribution, keys>>

\* Mutant: the iterator is made anew for every chunk.
YieldChunk_NotConsumed(j) ==
    /\ NextKey(j)
    /\ iterators[j] # <<>>
    /\ sent' = Append(sent, <<j, Head(iterators[j])>>)
    /\ keys' = LaterKeys(j, iterators)
    /\ UNCHANGED <<size, m, segments, chunks, extra, distribution, iterators>>

\* The next key of the pass has a chunk left: it is yielded, and sent.
YieldChunk(j) ==
    /\ NextKey(j)
    /\ iterators[j] # <<>>
    /\ sent' = Append(sent, <<j, Head(iterators[j])>>)
    /\ iterators' = [iterators EXCEPT ![j] = Tail(@)]
    /\ keys' = LaterKeys(j, iterators')
    /\ UNCHANGED <<size, m, segments, chunks, extra, distribution>>

\* StopIteration: the iterator is deleted.
DropIterator(j) ==
    /\ NextKey(j)
    /\ iterators[j] = <<>>
    /\ iterators' = [k \in DOMAIN iterators \ {j} |-> iterators[k]]
    /\ keys' = LaterKeys(j, iterators')
    /\ UNCHANGED <<size, m, segments, chunks, extra, distribution, sent>>

Next == WriteSegment \/ DealToHost \/ \E j \in Hosts : YieldChunk(j) \/ DropIterator(j)

Spec == Init /\ [][Next]_vars

-----------------------------------------------------------------------------
Done == Len(distribution) = m /\ keys = {}

Yielded == {sent[i][2] : i \in DOMAIN sent}
Load(j) == Cardinality({i \in DOMAIN sent : sent[i][1] = j})

-----------------------------------------------------------------------------
(* What the proofs rest on.                                                *)

\* The segments written so far are those of Placement, and lie side by side.
WrittenAsPlaced ==
    /\ \A i \in DOMAIN segments : segments[i] = SegmentBytes(size, NumSegments, i)
    /\ UNION {segments[i] : i \in DOMAIN segments} =
          1 .. Len(segments) * SegmentSize(size, NumSegments)

\* The n numbers after d.
Counting(d, n) == [i \in 1 .. n |-> d + i]

\* Each datastore has been dealt its block, and the next chunk is the first one
\* of the next block.
DealtAsPlaced ==
    LET dealt == BlockStart(NumSegments, m, Len(distribution) + 1)
    IN  /\ chunks = Counting(dealt, NumSegments - dealt)
        /\ extra = (NumSegments % m) - Lesser(Len(distribution), NumSegments % m)
        /\ \A j \in DOMAIN distribution :
              distribution[j] = Counting(BlockStart(NumSegments, m, j), BlockSize(NumSegments, m, j))
        /\ \A s \in 1 .. dealt : \E j \in DOMAIN distribution : s \in Block(NumSegments, m, j)

\* How many chunks of datastore j have been yielded.
Taken(j) == BlockSize(NumSegments, m, j)
            - (IF j \in DOMAIN iterators THEN Len(iterators[j]) ELSE 0)

\* The live iterators take turns: those of which the key is still to be visited
\* are one chunk behind the others.
InRounds ==
    \A j, k \in DOMAIN iterators :
        /\ (j \in keys <=> k \in keys) => Taken(j) = Taken(k)
        /\ j \notin keys /\ k \in keys => Taken(j) = Taken(k) + 1

\* What has been yielded, and what the iterators have left, of each block.
YieldedInBlocks ==
    /\ Len(distribution) < m => keys = {} /\ sent = <<>> /\ DOMAIN iterators = {}
    /\ keys = {} => DOMAIN iterators = {}
    /\ keys \subseteq DOMAIN iterators
    /\ \A j \in DOMAIN iterators :
          /\ Taken(j) >= 0
          /\ iterators[j] = Counting(BlockStart(NumSegments, m, j) + Taken(j),
                                     BlockSize(NumSegments, m, j) - Taken(j))
    /\ \A i \in DOMAIN sent : sent[i][2] \in Block(NumSegments, m, sent[i][1])
    /\ \A i, k \in DOMAIN sent : sent[i][2] = sent[k][2] => i = k
    /\ Len(distribution) = m =>
          \A j \in Hosts : \A s \in Block(NumSegments, m, j) :
              s \in Yielded <=> Round(NumSegments, m, j, s) <= Taken(j)

IInv == TypeOK /\ WrittenAsPlaced /\ DealtAsPlaced /\ InRounds /\ YieldedInBlocks

-----------------------------------------------------------------------------
\* Whatever is yielded is what Placement says comes next of the segments not
\* yielded before: ChunkedUpload sends them in the order of the code.
YieldsInOrder ==
    [][\A j \in Hosts, s \in Segments :
          sent' = Append(sent, <<j, s>>) =>
              NextInOrder(NumSegments, m, Segments \ Yielded, j, s)]_vars

\* When the iterator is exhausted every segment has been sent, once, and no
\* datastore got two segments more than another.
AllSentEvenly ==
    Done => /\ Yielded = Segments /\ Len(sent) = NumSegments
            /\ \A j, k \in Hosts : Load(j) <= Load(k) + 1

\* The segments, put together in the order of their numbers, are a prefix of
\* the file that lacks fewer bytes than there are segments.
SegmentsArePrefix ==
    Len(segments) = NumSegments =>
        /\ \A i \in Segments : segments[i] = SegmentBytes(size, NumSegments, i)
        /\ \E last \in size - NumSegments + 1 .. size :
              UNION {segments[i] : i \in Segments} = 1 .. last
=============================================================================
