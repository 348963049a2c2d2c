---------------------------- MODULE ChunkedUpload ----------------------------
(***************************************************************************)
(* The upload path of the file store, across its four processes:           *)
(*                                                                         *)
(*   file handler  (Python) upload_file: split a file, ask the metadata    *)
(*                 service for datastores, send the segments one by one;   *)
(*   datastore     (TypeScript) Store: insert the chunk in SQLite, check   *)
(*                 its hash, register it with the metadata service;        *)
(*   metadata      (Go) RegisterFileChunk: ZADD, then HSET, in Redis;      *)
(*   redis         the sorted sets and hashes, which outlive the others.   *)
(*                                                                         *)
(* Any process may crash, any reply may be lost, and the handlers of a     *)
(* request whose client has given up run on.  An HTTP request uploads the  *)
(* files <<r, 1>> .. <<r, FilesPerRequest>> in turn; file and chunk        *)
(* identifiers stand for UUIDs, which are assumed never to repeat.         *)
(***************************************************************************)
EXTENDS Placement, FiniteSets, Sequences

CONSTANTS
    Requests,         \* HTTP upload requests
    FilesPerRequest,  \* files in the files[] part of a request
    Datastores,       \* identities "hostname:port"
    NumSegments       \* Config.num_segments, also the k of GetTopKDatastores

ASSUME UploadAssumption ==
    /\ FilesPerRequest \in Nat \ {0}
    /\ NumSegments \in Nat \ {0}
    /\ Datastores # {} /\ IsFiniteSet(Datastores)

FileIds  == Requests \X (1 .. FilesPerRequest)
Segments == 1 .. NumSegments
ChunkIds == Requests \X Nat

\* Files on the handler's disk: part 0 is files_inbound/<id>, part i > 0 is
\* file_segments/<id>_segment_i.dat.
LocalFiles == FileIds \X (0 .. NumSegments)

\* One Store call.  intact: the bytes received have the hash sent with them.
StoreCalls == [stage : {"none", "received", "registering", "ok", "error", "lost"},
               n : Nat, file : FileIds, seq : Segments, ds : Datastores,
               intact : BOOLEAN]

Rows  == [ds : Datastores, chunk : ChunkIds, file : FileIds, seq : Segments,
          intact : BOOLEAN]
Index == [file : FileIds, chunk : ChunkIds, seq : Segments]
Meta  == [chunk : ChunkIds, ds : Datastores, seq : Segments]

VARIABLES
    pc,        \* where upload_file stands for each request
    current,   \* the file of the request it works on
    hosts,     \* the datastore list it got for that file
    pending,   \* the segments of that file not yet acknowledged
    local,     \* files on the handler's disk
    acked,     \* file ids returned to a client with status 200
    call,      \* the request's last Store call, at the datastore
    reg,       \* the RegisterFileChunk call it made, at the metadata service
    rows,      \* chunks tables of all the datastores
    index,     \* redis sorted sets file:metadata:<file>, with scores
    meta,      \* redis hashes chunk:metadata:<chunk>
    up,        \* datastores that are running
    registry   \* datastores in the metadata service's heap

handlerVars  == <<pc, current, hosts, pending, local, acked>>
redisVars    == <<index, meta>>
serviceVars  == <<up, registry>>
vars == <<handlerVars, call, reg, rows, redisVars, serviceVars>>

Running == {"saving", "saved", "sending", "waiting"}
Ended   == {"rejected", "done", "failed"}

TypeOK ==
    /\ pc \in [Requests -> {"idle"} \cup Running \cup Ended]
    /\ current \in [Requests -> 1 .. FilesPerRequest]
    /\ hosts \in [Requests -> Seq(Datastores)]
    /\ pending \in [Requests -> SUBSET Segments]
    /\ local \subseteq LocalFiles
    /\ acked \subseteq FileIds
    /\ call \in [Requests -> StoreCalls]
    /\ reg \in [Requests -> {"none", "called", "zadded", "done", "failed"}]
    /\ rows \subseteq Rows
    /\ index \subseteq Index
    /\ meta \subseteq Meta
    /\ up \subseteq Datastores
    /\ registry \subseteq Datastores

File(r)    == <<r, current[r]>>
FilesOf(r) == {r} \X (1 .. FilesPerRequest)
Parts(f)   == {f} \X (0 .. NumSegments)
Chunk(r)   == <<r, call[r].n>>

\* What the last Store call of r leaves at its datastore, in the sorted set
\* of its file and in the hash of its chunk.
RowOf(r)   == [ds |-> call[r].ds, chunk |-> Chunk(r), file |-> call[r].file,
               seq |-> call[r].seq, intact |-> call[r].intact]
EntryOf(r) == [file |-> call[r].file, chunk |-> Chunk(r), seq |-> call[r].seq]
HashOf(r)  == [chunk |-> Chunk(r), ds |-> call[r].ds, seq |-> call[r].seq]

Init ==
    /\ pc = [r \in Requests |-> "idle"]
    /\ current = [r \in Requests |-> 1]
    /\ hosts = [r \in Requests |-> <<>>]
    /\ pending = [r \in Requests |-> {}]
    /\ local = {}
    /\ acked = {}
    /\ call = [r \in Requests |->
                 [stage |-> "none", n |-> 0, file |-> <<r, 1>>, seq |-> 1,
                  ds |-> CHOOSE d \in Datastores : TRUE, intact |-> TRUE]]
    /\ reg = [r \in Requests |-> "none"]
    /\ rows = {}
    /\ index = {}
    /\ meta = {}
    /\ up = Datastores
    /\ registry = {}

-----------------------------------------------------------------------------
(* The file handler: upload_file, one action per blocking call.            *)

\* The request arrives: without files it is answered 400, with files the
\* loop over them starts.
Accept(r) ==
    /\ pc[r] = "idle"
    /\ \E next \in {"saving", "rejected"} : pc' = [pc EXCEPT ![r] = next]
    /\ UNCHANGED <<current, hosts, pending, local, acked, call, reg, rows,
                   redisVars, serviceVars>>

\* file.save under a fresh id, then split_file.
SaveAndSplit(r) ==
    /\ pc[r] = "saving"
    /\ pc' = [pc EXCEPT ![r] = "saved"]
    /\ local' = local \cup Parts(File(r))
    /\ UNCHANGED <<current, hosts, pending, acked, call, reg, rows,
                   redisVars, serviceVars>>

\* The lists GetTopKDatastores may return: min(NumSegments, registered)
\* distinct datastores.  Which ones come first depends on their load.
TopLists ==
    LET k == Lesser(NumSegments, Cardinality(registry))
    IN  {hs \in [1 .. k -> registry] :
            \A i, j \in 1 .. k : hs[i] = hs[j] => i = j}

\* get_ip_list answers with at least one datastore.
GetIpList(r) ==
    /\ pc[r] = "saved"
    /\ registry # {}
    /\ \E hs \in TopLists : hosts' = [hosts EXCEPT ![r] = hs]
    /\ pending' = [pending EXCEPT ![r] = Segments]
    /\ pc' = [pc EXCEPT ![r] = "sending"]
    /\ UNCHANGED <<current, local, acked, call, reg, rows, redisVars, serviceVars>>

\* Connection timeout, an RPC error, or no datastores: status 500, and the
\* file and its segments stay on disk.
GetIpListFails(r) ==
    /\ pc[r] = "saved"
    /\ pc' = [pc EXCEPT ![r] = "failed"]
    /\ UNCHANGED <<current, hosts, pending, local, acked, call, reg, rows,
                   redisVars, serviceVars>>

\* even_chunk_iterator yields segment s of the j-th host.  send_segment_to_ip:
\* the channel became ready and the StoreRequests were sent to the last.
SendSegment(r) ==
    /\ pc[r] = "sending"
    /\ \E j \in 1 .. Len(hosts[r]) : \E s \in pending[r] : \E ok \in BOOLEAN :
        /\ NextInOrder(NumSegments, Len(hosts[r]), pending[r], j, s)
        /\ hosts[r][j] \in up
        /\ call' = [call EXCEPT ![r] =
                      [stage |-> "received", n |-> @.n + 1, file |-> File(r),
                       seq |-> s, ds |-> hosts[r][j], intact |-> ok]]
    /\ reg' = [reg EXCEPT ![r] = "none"]
    /\ pc' = [pc EXCEPT ![r] = "waiting"]
    /\ UNCHANGED <<current, hosts, pending, local, acked, rows, redisVars, serviceVars>>

\* The channel is not ready within ten seconds, or breaks before the stream
\* of requests is complete, which the datastore then drops: status 500.
ConnectTimesOut(r) ==
    /\ pc[r] = "sending"
    /\ pending[r] # {}
    /\ pc' = [pc EXCEPT ![r] = "failed"]
    /\ UNCHANGED <<current, hosts, pending, local, acked, call, reg, rows,
                   redisVars, serviceVars>>

\* stub.Store returns a StoreResponse.
StoreReturns(r) ==
    /\ pc[r] = "waiting"
    /\ call[r].stage = "ok"
    /\ pending' = [pending EXCEPT ![r] = @ \ {call[r].seq}]
    /\ pc' = [pc EXCEPT ![r] = "sending"]
    /\ UNCHANGED <<current, hosts, local, acked, call, reg, rows, redisVars, serviceVars>>

\* Mutant: the exception is caught and the segment sent again.
StoreRaises_Retried(r) ==
    /\ pc[r] = "waiting"
    /\ call[r].stage \in {"error", "lost"}
    /\ pc' = [pc EXCEPT ![r] = "sending"]
    /\ UNCHANGED <<current, hosts, pending, local, acked, call, reg, rows,
                   redisVars, serviceVars>>

\* Mutant: the exception is caught and the segment taken for sent.
StoreRaises_Ignored(r) ==
    /\ pc[r] = "waiting"
    /\ call[r].stage \in {"error", "lost"}
    /\ pending' = [pending EXCEPT ![r] = @ \ {call[r].seq}]
    /\ pc' = [pc EXCEPT ![r] = "sending"]
    /\ UNCHANGED <<current, hosts, local, acked, call, reg, rows, redisVars, serviceVars>>

\* stub.Store raises: the call was answered with an error status or its
\* server died.  Nothing catches the exception, so Flask answers 500.
StoreRaises(r) ==
    /\ pc[r] = "waiting"
    /\ call[r].stage \in {"error", "lost"}
    /\ pc' = [pc EXCEPT ![r] = "failed"]
    /\ UNCHANGED <<current, hosts, pending, local, acked, call, reg, rows,
                   redisVars, serviceVars>>

\* The connection breaks whatever the datastore is doing, so stub.Store
\* raises while the handler of the call runs on.
StoreConnectionLost(r) ==
    /\ pc[r] = "waiting"
    /\ pc' = [pc EXCEPT ![r] = "failed"]
    /\ UNCHANGED <<current, hosts, pending, local, acked, call, reg, rows,
                   redisVars, serviceVars>>

\* Mutant: it goes on with the next file although there is none.
FinishFile_Unbounded(r) ==
    /\ pc[r] = "sending"
    /\ pending[r] = {}
    /\ local' = local \ Parts(File(r))
    /\ current' = [current EXCEPT ![r] = @ + 1]
    /\ pc' = [pc EXCEPT ![r] = "saving"]
    /\ UNCHANGED <<hosts, pending, acked, call, reg, rows, redisVars, serviceVars>>

\* Mutant: the answer is returned inside the loop over the files.
FinishFile_ReturnsInLoop(r) ==
    /\ pc[r] = "sending"
    /\ pending[r] = {}
    /\ local' = local \ Parts(File(r))
    /\ pc' = [pc EXCEPT ![r] = "done"]
    /\ acked' = acked \cup FilesOf(r)
    /\ UNCHANGED <<current, hosts, pending, call, reg, rows, redisVars, serviceVars>>

\* Mutant: only the segments of the last file of a request are removed.
FinishFile_CleansLast(r) ==
    /\ pc[r] = "sending"
    /\ pending[r] = {}
    /\ \/ /\ current[r] < FilesPerRequest
          /\ current' = [current EXCEPT ![r] = @ + 1]
          /\ pc' = [pc EXCEPT ![r] = "saving"]
          /\ local' = local \ {<<File(r), 0>>}
          /\ UNCHANGED acked
       \/ /\ current[r] = FilesPerRequest
          /\ pc' = [pc EXCEPT ![r] = "done"]
          /\ local' = local \ Parts(File(r))
          /\ acked' = acked \cup FilesOf(r)
          /\ UNCHANGED current
    /\ UNCHANGED <<hosts, pending, call, reg, rows, redisVars, serviceVars>>

\* The iterator is exhausted: the file and its segments are removed, and the
\* loop goes on with the next file or the ids of all files are returned.
FinishFile(r) ==
    /\ pc[r] = "sending"
    /\ pending[r] = {}
    /\ local' = local \ Parts(File(r))
    /\ \/ /\ current[r] < FilesPerRequest
          /\ current' = [current EXCEPT ![r] = @ + 1]
          /\ pc' = [pc EXCEPT ![r] = "saving"]
          /\ UNCHANGED acked
       \/ /\ current[r] = FilesPerRequest
          /\ pc' = [pc EXCEPT ![r] = "done"]
          /\ acked' = acked \cup FilesOf(r)
          /\ UNCHANGED current
    /\ UNCHANGED <<hosts, pending, call, reg, rows, redisVars, serviceVars>>

\* The file handler dies with all the requests it is serving.
HandlerCrash ==
    /\ \E r \in Requests : pc[r] \in Running
    /\ pc' = [r \in Requests |-> IF pc[r] \in Running THEN "failed" ELSE pc[r]]
    /\ UNCHANGED <<current, hosts, pending, local, acked, call, reg, rows,
                   redisVars, serviceVars>>

-----------------------------------------------------------------------------
(* The datastores: the Store handler.                                      *)

\* The last message is missing or has an empty field (a segment of no bytes
\* sends no message at all), or the INSERT fails.
StoreRejects(r) ==
    /\ call[r].stage = "received"
    /\ call' = [call EXCEPT ![r].stage = "error"]
    /\ UNCHANGED <<handlerVars, reg, rows, redisVars, serviceVars>>

\* Mutant: the chunk is registered whatever its hash.
InsertChunk_Unchecked(r) ==
    /\ call[r].stage = "received"
    /\ rows' = rows \cup {RowOf(r)}
    /\ call' = [call EXCEPT ![r].stage = "registering"]
    /\ reg' = [reg EXCEPT ![r] = "called"]
    /\ UNCHANGED <<handlerVars, redisVars, serviceVars>>

\* The INSERT commits under a fresh chunk id.  Only then is the hash
\* compared: on a mismatch the row stays and the call fails, otherwise the
\* chunk is registered with the metadata service.
InsertChunk(r) ==
    /\ call[r].stage = "received"
    /\ rows' = rows \cup {RowOf(r)}
    /\ call' = [call EXCEPT ![r].stage =
                  IF call[r].intact THEN "registering" ELSE "error"]
    /\ reg' = [reg EXCEPT ![r] = IF call[r].intact THEN "called" ELSE @]
    /\ UNCHANGED <<handlerVars, redisVars, serviceVars>>

\* Mutant: Store is answered without waiting for the registration.
RegisterReturns_NotAwaited(r) ==
    /\ call[r].stage = "registering"
    /\ reg[r] \in {"called", "zadded", "done"}
    /\ call' = [call EXCEPT ![r].stage = "ok"]
    /\ UNCHANGED <<handlerVars, reg, rows, redisVars, serviceVars>>

\* registerFileChunk calls back without an error: status OK.
RegisterReturns(r) ==
    /\ call[r].stage = "registering"
    /\ reg[r] = "done"
    /\ call' = [call EXCEPT ![r].stage = "ok"]
    /\ UNCHANGED <<handlerVars, reg, rows, redisVars, serviceVars>>

\* Mutant: the error is dropped and nobody answers Store.
RegisterRaises_NoAnswer(r) ==
    /\ call[r].stage = "registering"
    /\ reg[r] = "failed"
    /\ call' = [call EXCEPT ![r].stage = "none"]
    /\ UNCHANGED <<handlerVars, reg, rows, redisVars, serviceVars>>

\* registerFileChunk calls back with the error of the metadata service.
RegisterRaises(r) ==
    /\ call[r].stage = "registering"
    /\ reg[r] = "failed"
    /\ call' = [call EXCEPT ![r].stage = "error"]
    /\ UNCHANGED <<handlerVars, reg, rows, redisVars, serviceVars>>

\* The connection to the metadata service breaks, whether or not the chunk
\* has been or will be registered: status ABORTED.
RegisterConnectionLost(r) ==
    /\ call[r].stage = "registering"
    /\ call' = [call EXCEPT ![r].stage = "error"]
    /\ UNCHANGED <<handlerVars, reg, rows, redisVars, serviceVars>>

DatastoreCrash(d) ==
    /\ d \in up
    /\ up' = up \ {d}
    /\ call' = [r \in Requests |->
                  IF call[r].ds = d /\ call[r].stage \in {"received", "registering"}
                  THEN [call[r] EXCEPT !.stage = "lost"] ELSE call[r]]
    /\ UNCHANGED <<handlerVars, reg, rows, redisVars, registry>>

\* The process comes back on the same database file.
DatastoreRestart(d) ==
    /\ d \notin up
    /\ up' = up \cup {d}
    /\ UNCHANGED <<handlerVars, call, reg, rows, redisVars, registry>>

-----------------------------------------------------------------------------
(* The metadata service: RegisterFileChunk and the heap of datastores.     *)

\* ZADD is applied; its answer may still be an error (a lost connection).
ZAdd(r) ==
    /\ reg[r] = "called"
    /\ index' = index \cup {EntryOf(r)}
    /\ \E next \in {"zadded", "failed"} : reg' = [reg EXCEPT ![r] = next]
    /\ UNCHANGED <<handlerVars, call, rows, meta, serviceVars>>

HSet(r) ==
    /\ reg[r] = "zadded"
    /\ meta' = meta \cup {HashOf(r)}
    /\ \E next \in {"done", "failed"} : reg' = [reg EXCEPT ![r] = next]
    /\ UNCHANGED <<handlerVars, call, rows, index, serviceVars>>

\* Mutant: the errors of redis are logged and not returned.
RedisFails_OnlyLogged(r) ==
    /\ reg[r] \in {"called", "zadded"}
    /\ reg' = [reg EXCEPT ![r] = "done"]
    /\ UNCHANGED <<handlerVars, call, rows, redisVars, serviceVars>>

\* ZADD or HSET is not applied.
RedisFails(r) ==
    /\ reg[r] \in {"called", "zadded"}
    /\ reg' = [reg EXCEPT ![r] = "failed"]
    /\ UNCHANGED <<handlerVars, call, rows, redisVars, serviceVars>>

\* The service dies and is started again: its calls in progress fail, its
\* heap is gone, redis keeps the rest.
MetadataCrash ==
    /\ registry # {} \/ \E r \in Requests : reg[r] \in {"called", "zadded"}
    /\ reg' = [r \in Requests |->
                 IF reg[r] \in {"called", "zadded"} THEN "failed" ELSE reg[r]]
    /\ registry' = {}
    /\ UNCHANGED <<handlerVars, call, rows, redisVars, up>>

Heartbeat(d) ==
    /\ d \in up \ registry
    /\ registry' = registry \cup {d}
    /\ UNCHANGED <<handlerVars, call, reg, rows, redisVars, up>>

\* A RemoveDead pass drops datastores whose heartbeats stopped arriving; they
\* are published without acknowledgement, so these may well be running.
Evict ==
    /\ \E gone \in (SUBSET registry) \ {{}} : registry' = registry \ gone
    /\ UNCHANGED <<handlerVars, call, reg, rows, redisVars, up>>

-----------------------------------------------------------------------------
UploadStep(r) ==
    \/ SaveAndSplit(r) \/ GetIpList(r) \/ GetIpListFails(r)
    \/ SendSegment(r) \/ ConnectTimesOut(r)
    \/ StoreReturns(r) \/ StoreRaises(r) \/ FinishFile(r)

StoreStep(r) ==
    StoreRejects(r) \/ InsertChunk(r) \/ RegisterReturns(r) \/ RegisterRaises(r)

RegisterStep(r) == ZAdd(r) \/ HSet(r) \/ RedisFails(r)

ConnectionLost(r) == StoreConnectionLost(r) \/ RegisterConnectionLost(r)

\* Every step but the death of the file handler, which ends its downloads too.
Step ==
    \/ \E r \in Requests :
          Accept(r) \/ UploadStep(r) \/ StoreStep(r) \/ RegisterStep(r) \/ ConnectionLost(r)
    \/ \E d \in Datastores :
          DatastoreCrash(d) \/ DatastoreRestart(d) \/ Heartbeat(d)
    \/ Evict
    \/ MetadataCrash

Next == Step \/ HandlerCrash

Spec == Init /\ [][Next]_vars

\* The threads and event loops keep running: a handler that can take its
\* next step takes it.  Nothing is assumed of crashes, restarts, heartbeats
\* or the network, and no call but the two connects has a deadline.
Fairness == \A r \in Requests :
    /\ WF_vars(UploadStep(r))
    /\ WF_vars(StoreStep(r))
    /\ WF_vars(RegisterStep(r))

FairSpec == Spec /\ Fairness

-----------------------------------------------------------------------------
(* What a download can find, and the properties.                           *)

\* A download of file f gets segment s: the sorted set of f has a member
\* with that score, whose hash names a datastore that holds its row.
CanRead(f, s) ==
    \E e \in index : /\ e.file = f /\ e.seq = s
                     /\ \E h \in meta : \E x \in rows :
                           /\ h.chunk = e.chunk /\ x.chunk = e.chunk
                           /\ x.ds = h.ds /\ x.file = f /\ x.seq = s /\ x.intact

readable == [f \in FileIds |-> {s \in Segments : CanRead(f, s)}]

\* Every file id a client was given with status 200 can be downloaded in
\* full, whatever crashed or got lost while it was uploaded: each of its
\* segments is indexed, described and held intact by the datastore that the
\* description names.
AckedFilesReadable == \A f \in acked : readable[f] = Segments

\* Nothing is offered for download that failed its checks: a described chunk
\* is held intact by the datastore named, although the row is inserted
\* before its hash is compared.
DescribedChunksIntact ==
    \A h \in meta : \E x \in rows :
        x.chunk = h.chunk /\ x.ds = h.ds /\ x.seq = h.seq /\ x.intact

\* No segment of a file is ever indexed twice, so a download never fetches
\* two chunks into the same segment file.
OneChunkPerSegment ==
    \A e1, e2 \in index : e1.file = e2.file /\ e1.seq = e2.seq => e1 = e2

\* A handler that answered 200 has left none of the uploaded files or
\* segments on its disk.
AckedFilesCleaned == \A f \in acked : local \cap Parts(f) = {}

\* What a client can reach by an id it was given is final: no handler that
\* is still running at a datastore or at the metadata service adds to the
\* index of an acknowledged file.
IndexOf(f) == {e \in index : e.file = f}
AckedFilesFinal ==
    [][\A f \in acked : f \in acked' /\ IndexOf(f)' = IndexOf(f)]_vars

\* Every request that was accepted is answered, with 200 or with an error,
\* although a Store call waits for its answer without a deadline.
RequestsEnd == \A r \in Requests : (pc[r] \in Running) ~> (pc[r] \in Ended)

\* Uploading implements an object store in which files are staged segment by
\* segment and become visible, complete and unchangeable, all at once.
Objects == INSTANCE ObjectStore WITH
    visible <- acked, stored <- readable, Batches <- {FilesOf(r) : r \in Requests}
ImplementsObjectStore == Objects!Spec
==============================================================================
