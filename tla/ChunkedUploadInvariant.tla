----------------------- MODULE ChunkedUploadInvariant -----------------------
(***************************************************************************)
(* The inductive invariant of ChunkedUpload: what the steps of a request   *)
(* at the file handler, of its Store call at a datastore and of its        *)
(* RegisterFileChunk call at the metadata service know of each other.      *)
(***************************************************************************)
EXTENDS ChunkedUpload

\* A registration has got as far as redis shows, and a Store call is
\* answered OK only after its registration is complete.
CallIsRegistered(r) ==
    /\ reg[r] \in {"called", "zadded", "done"} => RowOf(r) \in rows /\ call[r].intact
    /\ reg[r] \in {"zadded", "done"} => EntryOf(r) \in index
    /\ reg[r] = "done" => HashOf(r) \in meta
    /\ call[r].stage = "ok" => reg[r] = "done"

\* A Store call, or a registration, still in progress belongs to the file
\* its request is waiting for, or was when it failed.
InProgress(r) ==
    call[r].stage \in {"received", "registering"} \/ reg[r] \in {"called", "zadded"}

CallIsCurrent(r) ==
    /\ pc[r] = "waiting" => call[r].file = File(r)
    /\ InProgress(r) => pc[r] \in {"waiting", "failed"} /\ call[r].file = File(r)
    /\ call[r].stage = "received" => reg[r] = "none"

\* The segment of a call is indexed by that call only.
NotIndexedYet(r) ==
    call[r].stage = "received" \/ reg[r] = "called" =>
        \A e \in index : ~(e.file = call[r].file /\ e.seq = call[r].seq)

\* Nothing is indexed of a file that is not being sent yet, and of the file
\* being sent only the segments acknowledged and the one under way.
IndexIsCurrent(r) ==
    \A e \in index : e.file[1] = r =>
        /\ e.file[2] <= current[r]
        /\ pc[r] \in {"idle", "saving", "saved"} => e.file[2] # current[r]
        /\ pc[r] = "sending" /\ e.file = File(r) => e.seq \notin pending[r]
        /\ pc[r] = "waiting" /\ e.file = File(r) /\ e.seq \in pending[r] =>
               e.seq = call[r].seq

\* Chunk ids are never used again, so what redis has of a call's chunk was
\* written for that call.
ChunkIsFresh(r) ==
    /\ \A e \in index : e.chunk[1] = r =>
          /\ e.chunk[2] <= call[r].n
          /\ e.chunk = Chunk(r) => /\ reg[r] \notin {"none", "called"}
                                   /\ e.file = call[r].file /\ e.seq = call[r].seq
    /\ \A h \in meta : h.chunk[1] = r =>
          /\ h.chunk[2] <= call[r].n
          /\ h.chunk = Chunk(r) => reg[r] \notin {"none", "called", "zadded"}

\* Nor do two rows have the same chunk id.
RowIsFresh(r) ==
    \A x \in rows : x.chunk[1] = r =>
        /\ x.chunk[2] <= call[r].n
        /\ x.chunk = Chunk(r) => call[r].stage # "received"

OneRowPerChunk == \A x, y \in rows : x.chunk = y.chunk => x = y

\* The segments acknowledged can be read, the files sent are complete and
\* nothing of them is left on the handler's disk.
Sent(r, k) == k < current[r] \/ pc[r] = "done"

SentIsReadable(r) ==
    /\ pc[r] \in {"sending", "waiting"} =>
           \A s \in Segments \ pending[r] : CanRead(File(r), s)
    /\ \A k \in 1 .. FilesPerRequest : Sent(r, k) =>
           /\ \A s \in Segments : CanRead(<<r, k>>, s)
           /\ local \cap Parts(<<r, k>>) = {}
    /\ pc[r] = "done" => current[r] = FilesPerRequest

AckedIsDone == \A f \in acked : pc[f[1]] = "done"

\* The whole invariant.  The safety properties follow from it: an upload is
\* answered only when everything it indexed is in place, and a call that
\* outlives its request never touches another file.
IInv ==
    /\ TypeOK
    /\ \A r \in Requests :
          /\ CallIsRegistered(r)
          /\ CallIsCurrent(r)
          /\ NotIndexedYet(r)
          /\ IndexIsCurrent(r)
          /\ SentIsReadable(r)
          /\ ChunkIsFresh(r)
          /\ RowIsFresh(r)
    /\ DescribedChunksIntact
    /\ OneRowPerChunk
    /\ OneChunkPerSegment
    /\ AckedIsDone
=============================================================================
