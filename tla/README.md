# A TLA+ verification of the distributed file store

The repository holds a centralised, distributed file store: an HTTP front end
cuts files into 13 segments and spreads them over datastores, a metadata
service knows where they are. This directory holds TLA+ models of its parts,
TLC configurations that check them on small instances, and proofs checked by
TLAPS that hold for every size.

## 1. The system

    client --HTTP--> file handler --gRPC GetTopKDatastores,
      GetFileChunkLocations--> metadata service --> Redis
                     |                                ^
                     +--gRPC Store, Retrieve--> datastores --gRPC RegisterFileChunk
                                                      |
                     metadata service <--ZeroMQ heartbeats--+

| Component | Code | State | Operations |
|---|---|---|---|
| File handler | `file-handler-server/` (Python, Flask, a thread per request) | files in `files_inbound/` and `file_segments/`; the local variables of each request | `upload_file`, `download_file` and the helpers they call |
| Datastore | `datastore-service/src/` (TypeScript, one event loop) | one SQLite table `chunks`; Store calls in progress | `store`, `retrieve`, the publisher's timer |
| Metadata service | `metadata-service/` (Go, goroutines) | the `DatastoreHeap` in memory | `RegisterFileChunk`, `GetFileChunkLocations`, `GetTopKDatastores`, the heartbeat loop, `PeriodicCheck` |
| Redis | external | sorted set `file:metadata:<file>`, hash `chunk:metadata:<chunk>` | `ZADD`, `HSET`, `ZRANGE`, `HGETALL` |
| Key-value store, prefix tree | `inmemory_kv.go`, `prefix_tree.go` | a map; a tree of nodes with values | `Put`, `Get`, `GetByPrefix`, `Delete`, `DeleteByPrefix`; used by no handler yet |

What is hard in it, and must be right:

* **Upload.** One HTTP request makes up to 13 Store calls per file, each of
  which makes a RegisterFileChunk call, which makes two Redis commands.
  Nothing is transactional and nothing is rolled back. Each party may die or
  lose the answer of the next, and then its callee runs on. *Correct* means: an
  id that a client is given with status 200 names a file that can be read in
  full and will not change; nothing that failed its check is offered; a request
  is always answered.
* **Download.** Threads share files on disk that are named after the file id
  only, and failed requests leave theirs behind; nothing checks what arrives.
  *Correct*: a download answered 200 has every segment, in its place and in full.
* **Splitting and dealing.** Three small loops with integer division. *Correct*:
  no segment is forgotten, sent twice or out of place, datastores get equal
  shares, and the segments are the file.
* **The heap of datastores.** A binary heap of pointers, kept beside a map,
  changed by heartbeats, by a sweep that walks over it by position while
  rearranging it, and (not intended) by TopK. *Correct*: map and slice agree,
  a datastore that is heard from stays, one that falls silent goes, TopK offers
  the best ones, nothing panics.
* **Streams.** A segment travels in pieces, each of which may be damaged, refused as
  too long, or be the last before the connection breaks; a hash is compared on the
  way in and nothing on the way out. *Correct*: only whole segments are registered,
  and no download takes a stream that broke for one that ended.
* **Heartbeats.** Timers of 10 and 13 seconds, a TTL of 17, three misses, and
  nothing acknowledged, with sweeps that may skip a datastore or check it twice.
  *Correct*: a running datastore is dropped by no misses but stale and doubled ones, a
  dead one is not offered for long.
* **The prefix tree.** Nodes are shared by keys, and deletions leave nodes behind.
  *Correct*: a key has the value that was put under it last, and none once deleted.

`PROJECT.json` lists every component, the hazards of this code at the line where
each bites, and which property covers each.

## 2. The modules

| Module | What it is | Proved in |
|---|---|---|
| `ObjectStore` | abstract: files are staged segment by segment and published complete | |
| `Placement` | the arithmetic of splitting, dealing and ordering, in closed form | |
| `SegmentDispatch` | the loops of `split_file`, `distribute_chunks_with_sequence` and `even_chunk_iterator`, one turn per step | `SegmentDispatchProofs` |
| `ChunkedUpload` | the upload path through handler, datastores, metadata service and Redis | `ChunkedUploadProofs` |
| `ChunkedUploadInvariant` | its inductive invariant `IInv` | |
| `FileDownload` | `download_file` in concurrent threads over one disk | `FileDownloadProofs` |
| `FileStore` | uploads and downloads composed, over what Redis and the datastores hold | `FileStoreProofs` |
| `SegmentStream` | the messages of one Store call and of the Retrieve calls after it | `SegmentStreamProofs` |
| `HeartbeatTiming` | one datastore's heartbeats and the sweeps, in seconds | `HeartbeatTimingProofs` |
| `DatastoreRegistry` | abstract: who may join and leave the set of known datastores | |
| `DatastoreHeap` | the heap with `container/heap`, heartbeats, sweeps and TopK | `DatastoreHeapProofs` |
| `KeyValueStore` | the in-memory store: a map | |
| `PrefixTree` | the prefix tree, beside that map, under the same calls | `PrefixTreeProofs` |
| `MC...` | instances for TLC; `file_store.cfg`, `heartbeat_timing.cfg` and `segment_stream.cfg` need none | |

How they fit:

    ObjectStore <--implements-- ChunkedUpload --uses--> Placement <--agrees-- SegmentDispatch
                                  ^   |
                          extends |   +-- registry: any subset --- DatastoreHeap --implements--> DatastoreRegistry
                                  |                                   | time in sweeps
    FileDownload <--implements-- FileStore                         HeartbeatTiming
                                  | one step each
                                SegmentStream

* `ChunkedUpload` extends `Placement` and takes from it the order in which segments go
  out; `SegmentDispatch` extends it too and shows that the loops of the code go in
  that order. `ChunkedUpload` implements `ObjectStore`, with `visible <- acked`,
  `Batches` the sets of files of the requests, each published together, and
  `stored <- readable`, the segments a download would find through the index, the
  hash and the table.
* In `ChunkedUpload` the heap appears as a set, `registry`, that heartbeats enter and
  from which any datastores may drop out at any time: more than the heap allows, so
  nothing proved of uploads depends on the sweeps being right. `GetIpList` takes any
  list of the right length of distinct members of it; `TopKIsBest` shows the length
  and the membership.
* `DatastoreHeap` counts time in sweeps, and `HeartbeatTiming` shows that this is right
  of the intervals of the code (`LateAsCounted`). The other way, `HeartbeatTiming` takes
  from the heap that a sweep may check a datastore any number of times up to the
  number of datastores, or pass it by, and that only checks count misses:
  `SweepCounts`, which is proved of the heap.
* `FileStore` extends `ChunkedUpload` with downloads, whose answers come from the index,
  the hashes and the rows; it implements `FileDownload`, which takes them for granted.
* A Store call is one step in `ChunkedUpload` and a fetch one step in `FileStore`, with
  what says whether the bytes were intact. `SegmentStream` is the inside of these
  steps: damage, refused pieces, broken streams.

### ChunkedUpload and the code

One action per blocking call of a handler; what happens between two of them
touches only the handler's own variables. For a request `r`, `pc[r]` is the place in
`upload_file`, `call[r]` its last Store call as the datastore sees it, `reg[r]` the
registration that call made. They live on when the request fails.

| Code | Action |
|---|---|
| `upload_file` 29-38: no files, or the loop starts | `Accept` |
| 45-54 `file.save`, `split_file` | `SaveAndSplit` |
| 59-71 `get_ip_list` and its error returns | `GetIpList`, `GetIpListFails` |
| 78-95 `send_segment_to_ip` and its outcomes | `SendSegment`, `ConnectTimesOut`, `StoreReturns`, `StoreRaises`, `StoreConnectionLost` |
| 97-115 clean-up, next file or answer | `FinishFile` |
| `store` 42-45, 108-111 | `StoreRejects` |
| 59-99 INSERT, hash check, registration sent | `InsertChunk` |
| 99-106 the callback | `RegisterReturns`, `RegisterRaises`, `RegisterConnectionLost` |
| `RegisterFileChunk` 143-150, 162-166 | `ZAdd`, `HSet`, `RedisFails` |
| processes dying and coming back | `HandlerCrash`, `DatastoreCrash`, `DatastoreRestart`, `MetadataCrash` |
| heartbeat loop, `RemoveDead` | `Heartbeat`, `Evict` |

A Redis command whose answer is lost has been applied and is reported as an
error: both outcomes are in `ZAdd` and `HSet`. UUIDs are taken to be unique; a chunk
id is the request and the number of its call.

### FileDownload, FileStore and the code

A segment file is `absent`, `empty` (opened with mode `wb` and not yet written),
`whole`, or `damaged`: of full length, with bytes that the network spoilt, which
`receive_segment_from_ip` does not notice; the output file has, at each position, nothing,
one of the two, or bytes that belong elsewhere. `OpenSegment` and `WriteSegment` are the two halves of lines
120-121 of `FileTransmission.py`, between which the handler may die or another
thread may run; `AppendSegment` is one `copyfileobj` of `reassemble_file`. The constant
`Overlapping`, which `FileStore` has too, says whether clients ask for a file that is being
downloaded; the code accepts that (`ServerAPIRoutes.py:117-122`).

`FileStore` replaces the three steps of `FileDownload` that depend on other processes.
`GetLocations` is `GetFileChunkLocations`: `ZRANGE` of the file's set, by score, then
`HGETALL` of each member, where a missing hash is an error. `OpenSegment` looks the row
up at the datastore the hash names and writes to the file of the row's sequence
number; `RetrieveFails` is a datastore that is down or has no such row. An upload puts
its segments under the same names in the same directory, and removes them before its
client has the id (`AckedFilesCleaned`), so a download finds only what downloads left.
`DatastoreRecreated` is a container that is created anew without its database file
(`database.ts:7` is not on the volume of `docker-compose.yml:64`); the variable `lost`
remembers the rows that went with it and is read by no action. `FileHandlerCrash` ends
uploads and downloads together.

### SegmentStream and the code

`SendPiece` is one turn of `store_request_iterator` with what gRPC and the `data`
callback of `store` do with the message: a piece as long as the message limit is
refused, since a message has other fields too. `EndStream`, `StoreReturns`, `StoreRaises`
are `send_segment_to_ip`; `StoreRejects`, `StoreChunk`, `Register`, `RegisterFails` the rest
of `store`; `StartRetrieve`, `ReceivePiece`, `RetrieveEnds`, `RetrieveBreaks` are `retrieve` and
`receive_segment_from_ip`. Bytes are numbers, a hash stands for the bytes hashed, and a byte damaged on the way is
0: `Arriving`, in both directions. `FileTransmission.py:111-121` writes what it
receives and compares neither its hash nor its size with what the metadata service
said. What gRPC does with the rest of a stream after refusing one
message, and whether a handler sees a broken stream end, is left open.

### HeartbeatTiming and the code

`timer` is the `setInterval` of `startPublisher`, `sweep` the `time.Sleep` of `PeriodicCheck`,
`age` is `time.Since(LastHeartbeat)`, `missed` the `MissedCount`. `flight` is the age of
the heartbeat on its way: ZeroMQ publishes without acknowledgement, so it may be
lost. `PublisherDies` is a rejection in the timer's asynchronous callback, which nothing
handles and which ends the process. `passes` counts the sweeps since the heartbeat: it
is `silent` of `DatastoreHeap`, and no action reads it.

The sweep of `datastores.go:200-216` calls `heap.Fix(h, i)` and then goes on to position
i + 1 of a slice it has rearranged, so it may pass a datastore by or check it again.
With one datastore there is no slice to rearrange, so `RemoveDead` chooses: `Skip`, or
`Check` with any number of checks up to `MaxChecks`, the number of datastores. At most `MaxSkipped` sweeps skip it between two heartbeats; the theorems hold for
every value of it. `skipped` counts such sweeps and `extra` the misses that are not one for a
sweep since the last heartbeat, those left over from before it and those counted beyond the
first in a sweep; both are history, which nothing but that bound reads.

### DatastoreHeap and the code

`heap` is the Go structure: slice, map, and of each element its `Index`, `MissedCount`
and status. `Down`, `Up`, `Fix`, `Push`, `Pop`, `Remove`, `Heapify` are `container/heap`
(external, from its documented algorithm) calling the `Less`, `Swap`, `Push` and `Pop`
of the code. A loop is its turn (`DownTurn`, `UpTurn`, `HeapifyTurn`, `PopTurn`,
`SweepTurn`), which leaves a loop that has ended as it is, repeated as often as the
size of the heap can ask for (`Repeat`, a recursive function); `LoopsEnd` shows that this is
often enough. Positions count from 1, so the Index -1 that `Pop` leaves is 0.

Time is counted in sweeps: no datastore is late at the first sweep after its
heartbeat, all are at the third, and the second may go either way, so `RemoveDead`
chooses the set `late` accordingly. `silent[d]` counts the sweeps since the heartbeat and
is capped by `MaxSilent`, which only has to exceed what the property of a run
looks at. `ScoreModulus` stands for 2^64.

TopK runs under the read lock, so several may overlap; they make the same
copy and write the same values, and one action models any number of them. That is
the outcome the data race has in the build, not a claim that Go defines it.

### KeyValueStore, PrefixTree and the code

`m` is the map of `inMemoryKeyValueStore`. A node of the tree is named by the runes
on the way to it, and `value` maps the nodes there are to their values; `Put` makes the
nodes on the way (`AddChilds`), `Delete` leaves the node with a nil value, `DeleteByPrefix`
unlinks the node's children. Every call goes to both. `Runes` is Go's decoding: bytes
that are not valid UTF-8 all become U+FFFD, so keys that contain such bytes can
share a node; `Plain` keys are the others. The prefix tree has no lock, so its calls are
taken one after the other.

## 3. What is checked

Every property of a passing run has a mutant in `PROJECT.json`: an operator beside
the original (marked "Mutant" in the module) that changes it as a plausible bug
would, and that TLC must find to break the property. The mutants are not part of
`Next`.

| Run | Instance | Shows |
|---|---|---|
| `upload_two_requests` | 2 requests, 1 file, 2 segments, 2 datastores; 1.2 million states | `AckedFilesReadable`, `DescribedChunksIntact`, `OneChunkPerSegment`, `AckedFilesFinal`, `ImplementsObjectStore`, `IInv` |
| `file_store` | 1 request with 2 files, 1 download, 2 segments, 2 datastores; 307 000 states | `LostOnlyWithContainer`, `AckedFilesCleaned`, `ImplementsDownload`, `RequestsEnd`, `DownloadsEnd`, `StoreIInv` |
| `dispatch_all_sizes` | 13 segments, 1 to 13 datastores, 0 to 26 bytes; 14 000 states | `YieldsInOrder`, `AllSentEvenly`, `SegmentsArePrefix`, `IInv` |
| `download_one_at_a_time` | 3 downloads, 2 files, 3 segments; 567 000 states | `DeliveredWhole`, typing |
| `heap_deployed` | 3 datastores, k = 13, 3 misses, two loads; 120 000 states | `ImplementsRegistry`, `MapMatchesHeap`, `IndexIsSafe`, `TopKIsBest`, `SweepCounts`, `SilentIsDropped`, typing |
| `heartbeat_timing` | 10, 13 and 17 seconds, 3 misses, as deployed, up to 3 checks in a sweep, 2 sweeps that skip; 1.0 million states | `AliveIsKept`, `SilentIsOffered`, `LateAsCounted`, `BecomesKnown`, `IInv` |
| `segment_stream` | segments of 0 to 9 bytes in pieces of 4; 1 000 states | `RegisteredIsSegment`, `RegisteredSizeIsLength`, `StoredFits`, `FetchedInPlace`, `IInv` |
| `prefix_tree` | 8 keys, 2 values and nil; 171 000 states | `StoredAnswers`, `StoredBelowIsSeen`, typing |

Why the bounds are enough. Two requests and two datastores let an orphaned
handler of one upload meet every step of the other. Two files of a request give the
step from one to the next, and a download beside them meets every stage of the
second. 26 bytes give segments of zero, one and two bytes with every remainder. Three
downloads of two files let one follow two that failed, beside one of another file.
Three datastores are what `docker-compose.yml` starts, and a heap of three has a root
with two children. With two loads a datastore can become better or worse than
another; the difference outweighs the missed heartbeats, as bytes do in the code.
Heartbeats run with the seconds of the code; a delivery takes up to 2 of them
(`MaxDelay`) and a sweep comes up to one late (`MaxLag`), both far more than a machine
that works needs, and four heartbeats in a row may be lost (`MaxLost`), the most that
the intervals forgive. A sweep has up to three checks for the datastore, as many as there are
datastores (`MaxChecks`), and two sweeps in a row may skip it (`MaxSkipped`), so skipping and
counting twice combine. Nine bytes give segments of none to three pieces, with a last
piece of every length; the message limit is the piece size, as in the code. The
keys are a key, its extensions by one and by two characters, a sibling, another
branch, and two keys that decode alike. The proofs of section 4 remove the bounds from
every invariant and from every other property but the liveness ones.

Deadlock is not checked where the system may stop: all requests of an instance may
have ended.

### Fairness

`ChunkedUpload!Fairness` is weak fairness of the steps that a running thread, event
loop or goroutine takes by itself: the handler's, the Store handler's, the
registration's. Nothing is assumed of the network, crashes, restarts or
heartbeats. A Store call to a datastore that has died ends, because the connection
is reset (`stage = "lost"`); a machine that vanishes without a reset, which the
call's missing deadline would let hang for ever, is outside the model.
`FileStore!StoreFairness` is the same, and weak fairness of the steps of a download.

`DatastoreHeap!SweepsGoOn` says that sweeps go on as long as the process lives
and there is a datastore: `PeriodicCheck` is an endless loop. It is weak fairness of
`RemoveDead` written without `ENABLED`, which costs TLC exponential time for an
operator as deep as this. `SilentIsDropped` holds once the loads that are reported no
longer change (`LoadsSettle`): if the loads of the other datastores change between the
sweeps for ever, a dead one can be moved past the position of the sweep each time.

`HeartbeatTiming!Fairness` says that time passes, timers fire, heartbeats that are not
lost arrive, and sweeps run. `MaxLost` bounds the losses in a row; without it nothing
would ever be known of a datastore. Restarts of the metadata service are not bounded:
`BecomesKnown` asks that the datastore becomes known once, after each of them.

### Findings

The violation runs each check one sentence of the repository that the code does
not keep; section "findings" of `PROJECT.json` quotes them.

| Run | The code |
|---|---|
| `download_at_once` | simultaneous downloads of one file overwrite each other's files |
| `heap_late_removal` | a sweep skips a datastore that its own `heap.Fix` moves past it (and can count one twice in the same way) |
| `heap_update_unfixed` | TopK's copy leaves each element of the real heap with the `Index` of a popped one, so the `heap.Fix` of the next heartbeat does nothing, and the heap is out of order |
| `heap_score_wraps` | the unsigned score of a full datastore wraps around to the best |

The first changes the bytes that users get back. Despite the others TopK offers
the best datastores by the score as it is computed (`TopKIsBest`), because it makes a
heap of its copy first, and uploads stay correct, because they do not depend on which
datastores are offered.

What else the models show:

* `split_file` gives every segment `file_size // num_segments` bytes, the last one
  too (`FileSegmentation.py:24-36`), so the last `file_size % num_segments` bytes of a file are
  in no segment: `SegmentsArePrefix` says that no more than these are lost. A download
  that delivers every segment in full still lacks them.
* Nothing is compared on the way back: a byte damaged in a RetrieveResponse goes into
  the segment file, and the download is answered 200 with it (`FetchedInPlace` and
  `DeliveredWhole` allow no more). `GetFileChunkLocations` hands the hash to the
  handler, which does not use it.
* `Get` of the prefix tree answers nil without an error for a key that was deleted and
  for a prefix of a key that was put. The map answers with an error, and its tests
  require that (`inmemory_kv_test.go:90-93`, `:122-125`); the tree has the same interface and
  no tests of its own. `StoredAnswers` is therefore weaker than equal answers: a stored value
  is returned, and where the map has nothing the tree has no value but nil.
* With k below the number of datastores the wrong `Index` that TopK leaves may lie beyond
  the heap, and a heartbeat can panic after removals: `heap_deployed.cfg` with `K = 1`
  violates `IndexIsSafe`. The deployed k = 13 and three datastores are safe, but only
  because the `Index` is then that of a popped element (`heap_update_unfixed`).
* A full piece of 4 MiB never fits a message, so no segment of 4 MiB or more, and
  hence no file of 52 MiB or more, can be stored; nor can a file of fewer than 13
  bytes, or an upload without a content type (`StoredFits`). This is also what
  makes the size registered, that of the last piece, right (`RegisteredSizeIsLength`).
* A dead datastore is offered for up to 17 + 4 * 14 = 73 seconds, and 14 more for every
  sweep that passes it by (`SilentIsOffered`); nothing in the code bounds how many do,
  but for loads that settle (`SilentIsDropped`).
* A running datastore can be dropped with fewer losses than the intervals forgive, by
  misses that a heartbeat did not reset or that one sweep counted twice; `AliveIsKept`
  shows that there is no other way.

## 4. What is proved

Every proof is of the specification for all values of the constants, under the
named assumption of its module (`UploadAssumption`, `DispatchAssumption`,
`DownloadAssumption`, `StoreAssumption`, `StreamAssumption`, `TimingAssumption`,
`HeapAssumption`, `KeyAssumption`, `ValueAssumption`). None of them is more than that numbers are
numbers, sets finite or not empty where the code needs it, and two relations that the
deployed constants have: in `StreamAssumption`, that the message limit is no more than a
piece (`MessageLimit <= PieceSize`); in `TimingAssumption`, that a heartbeat arrives or is
lost before the next is sent (`MaxDelay < PublishInterval`).

**Uploads** (`ChunkedUploadProofs`). `TypeCorrect`; `Invariant`, `[]IInv`, and from it
`AckedReadable`, `DescribedIntact`, `OneChunk`, `AckedCleaned`; `AckedFinal`, no step changes
the index of an acknowledged file; `ImplementsStore`, every behaviour is one of
`ObjectStore`. `AckedFilesReadable` is not inductive: it says nothing of requests in
progress. `IInv` adds, for each request: how far the registration of its call has got
shows in the tables (`CallIsRegistered`); a call that is still running belongs to the
file its request is at, or was at when it failed (`CallIsCurrent`), so it never touches a
file handed out; the segment of a call is not indexed before its own ZADD
(`NotIndexedYet`); what is indexed of a request's files is what it has sent
(`IndexIsCurrent`); chunk ids are fresh in redis and in the tables (`ChunkIsFresh`,
`RowIsFresh`, hence `OneRowPerChunk`); what left `pending` can be read (`SentIsReadable`).
One lemma per part shows that every step keeps it. Rows and Redis entries are never
deleted (`NothingDeleted`), hence what can be read stays so (`ReadableForever`).

**Downloads** (`FileDownloadProofs`). Typing, and that downloads which do not overlap
with one of the same file have every segment in its place and of full length
(`DownloadsWhole`). The invariant adds that a
running download has the files named after its file for itself (`OneAtATime`), and that
all segments it has fetched, and positions it has filled, are still right
(`Progress`). The run `download_at_once` shows that the assumption is needed.

**From upload to download** (`FileStoreProofs`). A container that is created anew takes
rows away, which `ChunkedUpload` never does. But with `held`, the rows there are and the
lost ones, in place of `rows`, every step of the store is a step of `ChunkedUpload`: no
step of an upload depends on a row being there. So `IInv` holds of `held`
(`UploadInvariant`). Of a file whose id a client has it says that the index has one entry
for each segment; `ZRANGE` lists them with strictly growing sequence numbers, and a
strictly growing sequence of the numbers 1 to n counts them (`Climbs`), so the location
of segment i is in place i (`RangeInOrder`). A chunk has one row, so what is found there
is the segment, intact (`FoundIsRight`), whatever becomes of it on the way back. With `LocationsInPlace`, which says this of the
locations a running download holds, `StoreInvariant` follows; `OnlyContainersLose`, that a
file whose id a client has loses nothing but rows of containers created anew;
`StoreImplementsDownload`, that every step is one of `FileDownload`, whether downloads overlap
or not; and with the theorem about that, `DownloadedIsStored`: if no file is asked for
while it is being downloaded (`~Overlapping`), a download answered 200 has, in order and
of full length, the segments that the upload under its id sent and whose hashes were
checked when they were stored. It is not the claim that the client gets its file back:
overlapping downloads break it (`download_at_once`), `split_file` has dropped the
remainder before, and bytes may be damaged on the way back.

**Splitting and dealing** (`SegmentDispatchProofs`). `Invariant` ties each loop to the
closed form of `Placement`: the segments written are its prefix of the file
(`WrittenAsPlaced`), the chunks dealt are its blocks (`DealtAsPlaced`), and the iterators
have each given up as many of their block as the round says, one more for the keys
already visited in this pass (`InRounds`, `YieldedInBlocks`). From it `SplitIsPrefix`,
`HandedOutInOrder` and `SentEvenly`, for every number of segments and datastores and every
size. This is what lets `ChunkedUpload` use `Placement` for the loops.

**Streams** (`SegmentStreamProofs`). At most one piece of a call gets through, the last,
because the others are as long as the limit (`OnePieceArrives`); what is registered has
passed the comparison of hashes (`WrittenInOrder`); a fetch has as many bytes as it has read of the
row, each in its place or damaged (`FetchedSoFar`). From it `RegisteredIsWhole`, `RegisteredSizeIsRight`, `OnlyFittingStored`,
`FetchedAllInPlace`.

**Heartbeats** (`HeartbeatTimingProofs`). The misses counted and the sweeps that skipped
the datastore bound the time for which nothing was heard (`MissesCoverAge`), the sweeps passed bound
it from below (`PassesFitAge`), the heartbeats lost bound the age of the last one of a
running datastore (`SteadyAge`), and a miss beyond the `extra` ones takes time
(`MissesTakeTime`). `OfferedNoLonger` holds for all intervals. `CountedRight` and `RunningIsKept`
need what the deployed intervals have and are stated with it. For `CountedRight`: a sweep
comes within the TTL of the one before (`SweepsInTime`, 14 <= 17), and two sweeps take longer
(`LateAtThird`, 17 < 26). For `RunningIsKept`: the intervals forgive the losses
(`LossesForgiven`, (4 + 1) * 10 + 2 <= 17 + 3 * 13).

**The heap of datastores** (`DatastoreHeapProofs`). `HeapInv`, that is `TypeOK` and
`MapMatchesHeap` together, is inductive: the map can only agree with the slice if no
datastore is in the slice twice, which is what the cardinality in it says, and the
positions fit `Index` only for the same reason. The argument has three layers.

1. *Loops.* A loop of `container/heap` and of the sweep is a recursive function of its
   turn. `NatSetInduction` is induction for a set of numbers, from the well-foundedness
   of `<`; by it a function can be iterated (`IterationExists`), so a recursive definition
   has a solution (`RecursionExists`), and what every turn keeps holds at the end. There
   is one rule per loop (`DownLoop`, `UpLoop`, `HeapifyLoop`, `PopLoop`, `SweepLoop`), as a
   rule for all turns at once would need an operator as a parameter. `LoopsEnd`: the turns
   that the model grants to `heap.down`, `heap.up` and `RemoveDead` are always enough.
2. *Shuffling.* Whatever the scores are, `heap.down`, `heap.up` and `heap.Fix` only swap
   (`Shuffled`): the same datastores, each once, known to the map, with an `Index` that is
   either new and right or old and not moved. `PopTakesLast`, `RemoveTakesOut` and `PushAdds`
   do the rest; in `RemoveTakesOut` the map lacks the element that leaves, or has it
   again through `Swap`, and is right after the `Pop` in either case. `Swept` is what a
   sweep keeps. From it `HeapTypeOK`, `MapAlwaysMatches`, `HeapImplementsRegistry`,
   `SweepAlwaysCounts` (each turn checks one datastore, `CheckedOnce`, and the count of
   each is that of its checks so far, `CountedSoFar`), and `IndexAlwaysSafe`. The last has the hypothesis `K >= Cardinality(Datastores)`: TopK
   then pops all datastores and leaves each with the `Index` of a popped one. Deployed, k
   is 13 and `docker-compose.yml` starts three datastores; for a smaller `K` the theorem is
   false (see "What else the models show"). It says that nothing panics, not that
   `heap.Fix` does its work.
3. *Order.* `Settling` says that a heap is in order but at one position, and that the
   children of that position are not better than its parent; a turn of `heap.down` moves the
   position down (`SwapSettles`), so `heap.down` puts it right (`DownOrders`), `heap.Init` makes a heap of
   any slice (`HeapifyOrders`), the root of a heap is its best (`RootIsBest`), and every
   `heap.Pop` takes the best of what is left and leaves a heap (`PopRoot`). Hence
   `TopKAlwaysBest`, for every k and whatever order the updates and sweeps have left.

**Prefix tree** (`PrefixTreeProofs`). `TypeCorrect`, that the tree stays closed under
parents, and `ValuesAgree`, that Get of a plain key has the value that the map has, and
none but nil where the map has none, for all keys and characters; the two together are
inductive. `StoredIsSeen` follows: a plain key in
the map has its node, closed under parents, so one of its prefixes is a child of any
node above it and GetByPrefix finds that child.

Only model-checked: the liveness properties (`RequestsEnd`, `DownloadsEnd`,
`SilentIsDropped`, `BecomesKnown`), which the provers have no rule for. What the violation
runs check is false and has no theorem.

## 5. What is not modelled

* `RemoveDatastore`, which has no caller. After a TopK it would hand `heap.Remove` the
  Index -1.
* The conversion of statuses to strings and back: `formatBytes` always writes what
  `parseBytes` reads, rounded to two decimals, which can reorder datastores of almost
  equal score only.
* Redis losing its last writes: `docker-compose.yml` turns `appendonly` on, which by
  default syncs once a second. A file acknowledged within that second could be lost.
* Overlapping sends of the publisher: zeromq.js rejects a send while another is under
  way, which ends the process like any rejection in the callback (`PublisherDies`).
* The sizes and names that `GetFileChunkLocations` and `main`'s handlers only copy.
* The environment's configuration, and the limits of memory and processors.
* Generated code and message definitions, simulations, sample clients, scripts.

## 6. Plan

Done, in this order: `ObjectStore`, `Placement`, `ChunkedUpload` and its proofs;
`DatastoreRegistry`, `DatastoreHeap`; `FileDownload` and its proofs; `SegmentDispatch`;
`KeyValueStore` and `PrefixTree`; `SegmentStream`; `HeartbeatTiming`; `FileStore`; the
proofs of these five; the loops of `DatastoreHeap` as recursive functions, and the proofs
of the heap and of `StoredBelowIsSeen`. Left:

1. The steps that the liveness properties rest on, as theorems: that each step of a
   request comes nearer to its answer, by a measure that no crash raises; that a sweep
   which moves nothing looks at every datastore.
2. The clocks of `HeartbeatTiming` in `DatastoreHeap` itself, for several datastores: which
   sweeps skip or repeat a check would then follow from the heap, where now any may.
3. `AckedFilesReadable` under a Redis that loses its last writes, which it will not
   survive: what is lost, and what a download then answers.
