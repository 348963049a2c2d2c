----------------------------- MODULE SegmentStream -----------------------------
(***************************************************************************)
(* One segment on its way to a datastore and back, piece by piece: the     *)
(* stream of StoreRequests that ChunkedUpload takes as one step, the row   *)
(* and the size the datastore registers, and the stream of                 *)
(* RetrieveResponses of a download.                                        *)
(*                                                                         *)
(* Bytes are numbered from 1, a byte damaged on the way, there or back, is *)
(* 0.  Hashes are taken not to collide, so a hash stands for the bytes     *)
(* hashed; only the datastore compares any.  gRPC keeps the messages of a  *)
(* stream in order and refuses one longer than its limit; what it does     *)
(* with the rest of that stream is left open, as is whether a handler sees *)
(* a broken stream end.                                                    *)
(***************************************************************************)
EXTENDS Integers, Sequences

CONSTANTS
    PieceSize,     \* bytes read for a StoreRequest: 4096 * 1024
    MessageLimit,  \* gRPC's default limit of a message: 4 MiB
    RetrieveSize,  \* chunkBufferMaxSize, the bytes of a RetrieveResponse
    MaxLength      \* bound of the length of a segment

ASSUME StreamAssumption ==
    /\ {PieceSize, RetrieveSize} \subseteq Nat \ {0}
    /\ MessageLimit \in Nat /\ MessageLimit <= PieceSize
    /\ MaxLength \in Nat

VARIABLES
    length,      \* the length of the segment file
    typed,       \* the upload has a content type
    client,      \* where send_segment_to_ip stands
    offset,      \* how far it has read the segment file
    data,        \* the bytes of the messages the Store handler was given
    last,        \* lastChunk.chunkSize, 0 while lastChunk is null
    refused,     \* gRPC has answered the call with RESOURCE_EXHAUSTED
    store,       \* where the Store handler stands
    row,         \* the rows inserted for this call: none or one
    registered,  \* the chunk sizes registered for it: none or one
    fetch,       \* where receive_segment_from_ip stands
    got          \* the bytes it has received

clientVars == <<length, typed, client, offset>>
storeVars  == <<data, last, refused, store, row, registered>>
fetchVars  == <<fetch, got>>
vars == <<clientVars, storeVars, fetchVars>>

TypeOK ==
    /\ length \in 0 .. MaxLength /\ offset \in 0 .. length
    /\ typed \in BOOLEAN /\ refused \in BOOLEAN
    /\ client \in {"sending", "waiting", "stored", "failed"}
    /\ data \in Seq(0 .. length) /\ last \in 0 .. Len(data)
    /\ store \in {"receiving", "ended", "registering", "ok", "error", "gone"}
    /\ row \subseteq {data} /\ registered \subseteq {last}
    /\ fetch \in {"idle", "reading", "done", "failed"}
    /\ got \in Seq(0 .. length)

\* The segment file, and what hash_file makes of it.
Segment == [i \in 1 .. length |-> i]

\* The next n bytes of s after the first i, fewer at its end.
NextBytes(s, i, n) == SubSeq(s, i + 1, IF i + n <= Len(s) THEN i + n ELSE Len(s))

\* Mutant: the limit is raised above any message.
Fits_Unlimited(piece) == TRUE

\* A message has other fields beside the bytes of its piece.
Fits(piece) == Len(piece) < MessageLimit

\* Mutant: pieces are made small enough for the limit.
Piece_Smaller(i) == NextBytes(Segment, i, PieceSize \div 4)

Piece(i) == NextBytes(Segment, i, PieceSize)

\* What may arrive of a piece: a byte of it is damaged on the way, or none.
Arriving(piece) == {piece} \cup {[piece EXCEPT ![i] = 0] : i \in DOMAIN piece}

Init ==
    /\ length \in 0 .. MaxLength /\ typed \in BOOLEAN
    /\ client = "sending" /\ offset = 0
    /\ data = <<>> /\ last = 0 /\ refused = FALSE
    /\ store = "receiving" /\ row = {} /\ registered = {}
    /\ fetch = "idle" /\ got = <<>>

-----------------------------------------------------------------------------
(* store_request_iterator and send_segment_to_ip.                          *)

\* The 'data' callback of the Store handler.
Receive(piece) ==
    /\ data' = data \o piece /\ last' = Len(piece)
    /\ UNCHANGED refused

\* Mutant: a refused message is remembered as the last one.
Refuse_Remembered(piece) ==
    /\ refused' = TRUE
    /\ last' = Len(piece)
    /\ UNCHANGED data

Refuse(piece) ==
    /\ refused' = TRUE
    /\ UNCHANGED <<data, last>>

\* One turn of the iterator, and gRPC on the other side: the piece is given to
\* the handler, perhaps damaged, or refused.
SendPiece ==
    /\ client = "sending" /\ store = "receiving"
    /\ offset < length
    /\ offset' = offset + Len(Piece(offset))
    /\ IF Fits(Piece(offset))
       THEN \E piece \in Arriving(Piece(offset)) : Receive(piece)
       ELSE Refuse(Piece(offset))
    /\ UNCHANGED <<length, typed, client, store, row, registered, fetchVars>>

\* The iterator is exhausted; an empty segment has sent no message.
EndStream ==
    /\ client = "sending" /\ store = "receiving"
    /\ offset = length
    /\ client' = "waiting" /\ store' = "ended"
    /\ UNCHANGED <<length, typed, offset, data, last, refused, row, registered, fetchVars>>

StoreReturns ==
    /\ client = "waiting"
    /\ store = "ok" /\ ~refused
    /\ client' = "stored"
    /\ UNCHANGED <<length, typed, offset, storeVars, fetchVars>>

\* An error status, or a connection that breaks at any time.
StoreRaises ==
    /\ client \in {"sending", "waiting"}
    /\ client' = "failed"
    /\ IF store = "receiving" THEN store' \in {"ended", "gone"} ELSE UNCHANGED store
    /\ UNCHANGED <<length, typed, offset, data, last, refused, row, registered, fetchVars>>

-----------------------------------------------------------------------------
(* The Store handler, from the 'end' of the stream on.                     *)

\* No message came, or checkStoreRequestValues finds an empty field in the
\* last one, or the INSERT fails.
StoreRejects ==
    /\ store = "ended"
    /\ store' = "error"
    /\ UNCHANGED <<clientVars, data, last, refused, row, registered, fetchVars>>

\* Mutant: the row is inserted and registered without comparing hashes.
StoreChunk_Unchecked ==
    /\ store = "ended"
    /\ last # 0 /\ typed
    /\ row' = {data}
    /\ store' = "registering"
    /\ UNCHANGED <<clientVars, data, last, refused, registered, fetchVars>>

\* The pieces are combined and inserted, then hashed: the chunk is registered
\* if the hash is the one sent with the last piece.
StoreChunk ==
    /\ store = "ended"
    /\ last # 0 /\ typed
    /\ row' = {data}
    /\ store' = IF data = Segment THEN "registering" ELSE "error"
    /\ UNCHANGED <<clientVars, data, last, refused, registered, fetchVars>>

\* registerFileChunk reaches the metadata service, with the chunkSize of the
\* last piece; its answer may be an error or come after the datastore's end.
Register ==
    /\ store = "registering"
    /\ registered' = {last}
    /\ store' \in {"ok", "error", "gone"}
    /\ UNCHANGED <<clientVars, data, last, refused, row, fetchVars>>

RegisterFails ==
    /\ store = "registering"
    /\ store' = "error"
    /\ UNCHANGED <<clientVars, data, last, refused, row, registered, fetchVars>>

DatastoreCrash ==
    /\ store \in {"receiving", "ended", "registering"}
    /\ store' = "gone"
    /\ UNCHANGED <<clientVars, data, last, refused, row, registered, fetchVars>>

-----------------------------------------------------------------------------
(* retrieve and receive_segment_from_ip.                                   *)

\* A download has found the chunk in the index of its file.
StartRetrieve ==
    /\ registered # {} /\ fetch # "reading"
    /\ fetch' = "reading" /\ got' = <<>>
    /\ UNCHANGED <<clientVars, storeVars>>

\* The network may damage it as it may on the way there.
ReceivePiece ==
    /\ fetch = "reading"
    /\ \E chunk \in row :
          /\ Len(got) < Len(chunk)
          /\ \E piece \in Arriving(NextBytes(chunk, Len(got), RetrieveSize)) :
                got' = got \o piece
    /\ UNCHANGED <<clientVars, storeVars, fetch>>

\* The stream ends after the last piece; without a message it is an error.
RetrieveEnds ==
    /\ fetch = "reading"
    /\ \E chunk \in row : Len(got) = Len(chunk)
    /\ fetch' = IF got = <<>> THEN "failed" ELSE "done"
    /\ UNCHANGED <<clientVars, storeVars, got>>

\* Mutant: the loop over the stream ends when the stream breaks.
RetrieveBreaks_TakenForEnd ==
    /\ fetch = "reading"
    /\ fetch' = IF got = <<>> THEN "failed" ELSE "done"
    /\ UNCHANGED <<clientVars, storeVars, got>>

\* An error status or a broken connection raises in the loop over the stream.
RetrieveBreaks ==
    /\ fetch = "reading"
    /\ fetch' = "failed"
    /\ UNCHANGED <<clientVars, storeVars, got>>

-----------------------------------------------------------------------------
Next ==
    \/ SendPiece \/ EndStream \/ StoreReturns \/ StoreRaises
    \/ StoreRejects \/ StoreChunk \/ Register \/ RegisterFails \/ DatastoreCrash
    \/ StartRetrieve \/ ReceivePiece \/ RetrieveEnds \/ RetrieveBreaks

Spec == Init /\ [][Next]_vars

-----------------------------------------------------------------------------
(* What the proofs rest on.                                                *)

\* Of the pieces of a segment the handler is given one at most: the last one,
\* because the others are too long for a message.
OnePieceArrives ==
    /\ last = Len(data)
    /\ data # <<>> => offset = length /\ Len(data) < PieceSize

\* What the datastore has written at each stage of a call; nothing changes
\* any more when it has been registered.
WrittenInOrder ==
    /\ store = "receiving" => row = {}
    /\ store \in {"receiving", "ended"} => registered = {}
    /\ store \in {"registering", "ok"} \/ registered # {} \/ client = "stored" =>
          typed /\ data # <<>> /\ data = Segment /\ row = {data}

\* What has been fetched is the beginning of the segment, but for bytes
\* damaged on the way.
FetchedSoFar ==
    fetch \in {"reading", "done"} =>
        /\ registered # {}
        /\ Len(got) <= length
        /\ \A i \in 1 .. Len(got) : got[i] \in {i, 0}
        /\ fetch = "done" => Len(got) = length

IInv == TypeOK /\ OnePieceArrives /\ WrittenInOrder /\ FetchedSoFar

-----------------------------------------------------------------------------
\* A chunk that the metadata service knows is the segment, byte by byte,
\* although pieces may be damaged or refused and a broken stream may look
\* like one that has ended.
RegisteredIsSegment == registered # {} => row = {Segment}

\* The size registered is "the length of the chunk in bytes", as the message
\* definition says, although the code registers that of the last piece: a
\* piece that others follow is always refused.
RegisteredSizeIsLength == \A size \in registered : \A chunk \in row : size = Len(chunk)

\* Store never succeeds for an empty segment, for one as long as a piece or
\* longer, or for an upload without a content type; so files of fewer bytes
\* than there are segments, or of more than those hold, cannot be stored.
StoredFits == client = "stored" => typed /\ length \in 1 .. PieceSize - 1

\* A fetch that returns has as many bytes as the segment and each of them in
\* its place, though a broken stream may come close to its end.  Any of them
\* may have been damaged on the way back: neither the hash nor the size that
\* the datastore and the metadata service give is looked at.
FetchedInPlace ==
    fetch = "done" => Len(got) = length /\ \A i \in 1 .. length : got[i] \in {Segment[i], 0}
==============================================================================
