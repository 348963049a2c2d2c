------------------------------ MODULE Placement ------------------------------
(***************************************************************************)
(* The arithmetic of one upload: how split_file cuts a file into           *)
(* num_segments segments, how distribute_chunks_with_sequence deals the    *)
(* segments out to the datastores it was given, and the order in which     *)
(* even_chunk_iterator hands them back to the sending loop.                *)
(*                                                                         *)
(* Segments and datastores are numbered from 1, as split_file numbers      *)
(* chunk_sequence.  These are closed formulas, which SegmentDispatch shows *)
(* to be what the loops of the code compute.                               *)
(***************************************************************************)
EXTENDS Integers

Lesser(a, b) == IF a <= b THEN a ELSE b

(***************************************************************************)
(* split_file: every segment is read with the same length, file_size //    *)
(* num_segments, capped by what is left of the file.                       *)
(***************************************************************************)
SegmentSize(size, n) == size \div n

SegmentLength(size, n, i) ==
    Lesser(SegmentSize(size, n), size - (i - 1) * SegmentSize(size, n))

\* The bytes of the file, numbered from 1, that end up in segment i.
SegmentBytes(size, n, i) ==
    LET first == (i - 1) * SegmentSize(size, n)
    IN  first + 1 .. first + SegmentLength(size, n, i)

(***************************************************************************)
(* distribute_chunks_with_sequence: n chunks dealt to m datastores.  Each  *)
(* datastore takes n // m chunks from the common iterator, the first n % m *)
(* of them one more, so datastore j receives a contiguous block.           *)
(***************************************************************************)
BlockStart(n, m, j) == (j - 1) * (n \div m) + Lesser(j - 1, n % m)

BlockSize(n, m, j) == (n \div m) + (IF j <= n % m THEN 1 ELSE 0)

Block(n, m, j) ==
    BlockStart(n, m, j) + 1 .. BlockStart(n, m, j) + BlockSize(n, m, j)

(***************************************************************************)
(* even_chunk_iterator: it goes round the datastores in order, taking the  *)
(* next chunk of each.  Chunk s of datastore j is yielded before chunk t   *)
(* of datastore k when it comes up in an earlier round, or in the same     *)
(* round at an earlier datastore.                                          *)
(***************************************************************************)
Round(n, m, j, s) == s - BlockStart(n, m, j)

YieldedBefore(n, m, j, s, k, t) ==
    \/ Round(n, m, j, s) < Round(n, m, k, t)
    \/ Round(n, m, j, s) = Round(n, m, k, t) /\ j < k

\* Of the pending chunks of all the blocks, chunk s of datastore j is yielded
\* next.
NextInOrder(n, m, pending, j, s) ==
    /\ s \in pending \cap Block(n, m, j)
    /\ \A k \in 1 .. m : \A t \in pending \cap Block(n, m, k) :
          ~YieldedBefore(n, m, k, t, j, s)

==============================================================================
