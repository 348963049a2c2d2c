---------------------------- MODULE FileStoreProofs ----------------------------
(***************************************************************************)
(* From the upload to the download, for any number of requests, files,     *)
(* segments, datastores and downloads.  Had no container been created anew *)
(* the store would hold more rows and the uploads would not notice: with   *)
(* held in place of rows every step is one of ChunkedUpload, so that its   *)
(* invariant holds.  It says of a file whose id a client has that redis    *)
(* lists one chunk for each segment and that the chunk, if it is still     *)
(* there, is the right one; so every step of a download is one that        *)
(* FileDownload allows, and what it proves of downloads holds here.        *)
(***************************************************************************)
EXTENDS FileStore, FiniteSetTheorems, TLAPS

C == INSTANCE ChunkedUploadProofs WITH rows <- held
P == INSTANCE FileDownloadProofs WITH pc <- dpc, Files <- FileIds

-----------------------------------------------------------------------------
(* The uploads.                                                            *)

\* The definitions of ChunkedUpload that do not read the rows are the same.
LEMMA SameCardinality == \A S : C!Cardinality(S) = Cardinality(S)
BY DEF C!Cardinality, Cardinality

\* The order of the index does not read the rows.
LEMMA SameOrder ==
    \A n, k, p, j, s : C!NextInOrder(n, k, p, j, s) <=> NextInOrder(n, k, p, j, s)
BY DEF C!NextInOrder, NextInOrder, C!Block, Block, C!BlockStart, BlockStart,
       C!BlockSize, BlockSize, C!Lesser, Lesser, C!Round, Round, C!YieldedBefore,
       YieldedBefore

\* Nor do the lists of TopK.
LEMMA SameLists == C!TopLists = TopLists
BY SameCardinality DEF C!TopLists, TopLists, C!Lesser, Lesser

\* The assumption of the uploads.
LEMMA UploadConstants ==
    /\ FilesPerRequest \in Nat \ {0} /\ NumSegments \in Nat \ {0}
    /\ Datastores # {} /\ C!IsFiniteSet(Datastores)
BY UploadAssumption DEF C!IsFiniteSet, IsFiniteSet

\* The steps of a request.
LEMMA RequestSteps ==
    ASSUME NEW r \in Requests, UNCHANGED lost
    PROVE  /\ Accept(r) => C!Accept(r)
           /\ UploadStep(r) => C!UploadStep(r)
           /\ StoreStep(r) => C!StoreStep(r)
           /\ RegisterStep(r) => C!RegisterStep(r)
           /\ ConnectionLost(r) => C!ConnectionLost(r)
<1> USE DEF held, handlerVars, redisVars, serviceVars, C!handlerVars, C!redisVars,
            C!serviceVars
<1>1. Accept(r) => C!Accept(r)
    BY DEF Accept, C!Accept
<1>2. UploadStep(r) => C!UploadStep(r)
    <2>1. SaveAndSplit(r) => C!SaveAndSplit(r)
        BY DEF SaveAndSplit, C!SaveAndSplit, Parts, C!Parts, File, C!File
    <2>2. GetIpList(r) \/ GetIpListFails(r) => C!GetIpList(r) \/ C!GetIpListFails(r)
        BY SameLists DEF GetIpList, C!GetIpList, GetIpListFails, C!GetIpListFails,
           Segments, C!Segments
    <2>3. SendSegment(r) => C!SendSegment(r)
        BY SameOrder DEF SendSegment, C!SendSegment, File, C!File
    <2>4. ConnectTimesOut(r) \/ StoreReturns(r) \/ StoreRaises(r) =>
              C!ConnectTimesOut(r) \/ C!StoreReturns(r) \/ C!StoreRaises(r)
        BY DEF ConnectTimesOut, StoreReturns, StoreRaises, C!ConnectTimesOut,
           C!StoreReturns, C!StoreRaises
    <2>5. FinishFile(r) => C!FinishFile(r)
        BY DEF FinishFile, C!FinishFile, Parts, C!Parts, File, C!File, FilesOf, C!FilesOf
    <2> QED BY <2>1, <2>2, <2>3, <2>4, <2>5 DEF UploadStep, C!UploadStep
<1>3. StoreStep(r) => C!StoreStep(r)
    BY DEF StoreStep, C!StoreStep, StoreRejects, InsertChunk, RegisterReturns,
       RegisterRaises, C!StoreRejects, C!InsertChunk, C!RegisterReturns,
       C!RegisterRaises, RowOf, C!RowOf, Chunk, C!Chunk
<1>4. RegisterStep(r) => C!RegisterStep(r)
    BY DEF RegisterStep, C!RegisterStep, ZAdd, HSet, RedisFails, C!ZAdd, C!HSet,
       C!RedisFails, EntryOf, C!EntryOf, HashOf, C!HashOf, Chunk, C!Chunk
<1>5. ConnectionLost(r) => C!ConnectionLost(r)
    BY DEF ConnectionLost, StoreConnectionLost, RegisterConnectionLost,
       C!ConnectionLost, C!StoreConnectionLost, C!RegisterConnectionLost
<1> QED BY <1>1, <1>2, <1>3, <1>4, <1>5

\* The steps of the processes.
LEMMA ProcessSteps ==
    ASSUME UNCHANGED lost
    PROVE  /\ \A d \in Datastores : /\ DatastoreCrash(d) => C!DatastoreCrash(d)
                                    /\ DatastoreRestart(d) => C!DatastoreRestart(d)
                                    /\ Heartbeat(d) => C!Heartbeat(d)
           /\ Evict => C!Evict
           /\ MetadataCrash => C!MetadataCrash
BY DEF held, handlerVars, redisVars, serviceVars, C!handlerVars, C!redisVars,
       C!serviceVars, DatastoreCrash, C!DatastoreCrash, DatastoreRestart,
       C!DatastoreRestart, Heartbeat, C!Heartbeat, Evict, C!Evict, MetadataCrash,
       C!MetadataCrash

\* Creating a container anew is, to the uploads, a restart of the datastore.
LEMMA StoreImplementsUpload ==
    ASSUME TypeOK, [StoreNext]_storeVars
    PROVE  [C!Next]_(C!vars)
<1> USE DEF held, handlerVars, redisVars, serviceVars, C!handlerVars, C!redisVars,
            C!serviceVars, vars, C!vars, uploadVars
<1>1. ASSUME Step, UNCHANGED lost PROVE C!Next
    BY <1>1, RequestSteps, ProcessSteps DEF Step, C!Step, C!Next
<1>2. ASSUME NEW q \in Downloads, Start(q) \/ DownloadStep(q) \/ RetrieveConnectionLost(q)
      PROVE  UNCHANGED C!vars
    BY <1>2 DEF Start, DownloadStep, RetrieveConnectionLost, GetLocations, LocationsFail,
       OpenSegment, RetrieveFails, OpenOutput, LocalStep
<1>3. ASSUME FileHandlerCrash PROVE C!HandlerCrash \/ UNCHANGED C!vars
    <2>1. CASE \E r \in Requests : pc[r] \in Running
        BY <1>3, <2>1 DEF FileHandlerCrash, C!HandlerCrash, Running, C!Running
    <2>2. CASE \A r \in Requests : pc[r] \notin Running
        <3>1. pc' = pc
            BY <1>3, <2>2 DEF FileHandlerCrash, TypeOK
        <3> QED BY <1>3, <3>1 DEF FileHandlerCrash
    <2> QED BY <2>1, <2>2
<1>4. ASSUME NEW d \in Datastores, DatastoreRecreated(d) PROVE C!DatastoreRestart(d)
    BY <1>4 DEF DatastoreRecreated, C!DatastoreRestart
<1>5. ASSUME UNCHANGED storeVars PROVE UNCHANGED C!vars
    BY <1>5 DEF storeVars
<1> QED BY <1>1, <1>2, <1>3, <1>4, <1>5 DEF StoreNext, C!Next, C!Step

\* What the rows held have, those there have too.
LEMMA RowsTyped == C!TypeOK => TypeOK /\ lost \subseteq Rows
BY DEF C!TypeOK, TypeOK, held, C!Running, Running, C!Ended, Ended, C!Segments, Segments,
       C!LocalFiles, LocalFiles, C!FileIds, FileIds, C!StoreCalls, StoreCalls, C!Rows,
       Rows, C!Index, Index, C!Meta, Meta, C!ChunkIds, ChunkIds

\* The uploads start in their invariant.
LEMMA UploadInit == StoreInit => C!IInv
<1>1. StoreInit => C!Init
    BY DEF StoreInit, Init, C!Init, held
<1> QED BY <1>1, UploadConstants, C!InitInvariant

\* The invariant of the uploads, with held for rows, always holds.
LEMMA UploadInvariant ==
    ASSUME C!IInv, [StoreNext]_storeVars
    PROVE  C!IInv' /\ TypeOK' /\ lost' \subseteq Rows
<1>1. C!TypeOK
    BY DEF C!IInv
<1>2. [C!Next]_(C!vars)
    BY <1>1, RowsTyped, StoreImplementsUpload
<1>3. C!IInv'
    BY <1>2, UploadConstants, C!NextInvariant
<1>4. C!TypeOK'
    BY <1>3 DEF C!IInv
<1>5. (C!TypeOK => TypeOK /\ lost \subseteq Rows)'
    BY RowsTyped, PTL
<1> QED BY <1>3, <1>4, <1>5

-----------------------------------------------------------------------------
(* What a download finds.                                                  *)

\* A strictly increasing sequence of the numbers 1 .. n counts them.
LEMMA Climbs ==
    ASSUME NEW n \in Nat, NEW g \in [1 .. n -> 1 .. n], NEW i \in 1 .. n,
           \A j, k \in 1 .. n : j < k => g[j] < g[k]
    PROVE  g[i] = i
<1>0. \A j, k \in 1 .. n : g[j] = g[k] => j = k
    <2> SUFFICES ASSUME NEW j \in 1 .. n, NEW k \in 1 .. n, j # k
                 PROVE  g[j] # g[k]
        OBVIOUS
    <2>1. g[j] \in Int /\ g[k] \in Int /\ (j < k \/ k < j)
        OBVIOUS
    <2> QED BY <2>1
<1>1. g[i] \in 1 .. n /\ g[i] \in Int /\ i \in Int
    OBVIOUS
<1>2. i <= g[i]
    <2> DEFINE h == [k \in 1 .. i |-> g[k]]
    <2>a. \A j, k \in 1 .. i : g[j] = g[k] => j = k
        BY <1>0
    <2>b. ASSUME NEW k \in 1 .. i PROVE g[k] \in 1 .. g[i]
        <3>1. k \in 1 .. n /\ g[k] \in 1 .. n /\ (k = i \/ k < i)
            OBVIOUS
        <3>2. k = i \/ g[k] < g[i]
            BY <3>1
        <3>3. g[k] \in Int /\ g[k] >= 1
            BY <3>1
        <3> QED BY <1>1, <3>2, <3>3
    <2>1. h \in [1 .. i -> 1 .. g[i]]
        BY <2>b
    <2>2. \A j, k \in 1 .. i : h[j] = h[k] => j = k
        BY <2>a
    <2>3. h \in Injection(1 .. i, 1 .. g[i])
        BY <2>1, <2>2 DEF Injection, IsInjective
    <2>4. Cardinality(1 .. i) <= Cardinality(1 .. g[i])
        <3> HIDE DEF h
        <3>1. IsFiniteSet(1 .. g[i])
            BY <1>1, FS_Interval
        <3> QED BY <2>3, <3>1, FS_Injection
    <2>5. Cardinality(1 .. i) = i /\ Cardinality(1 .. g[i]) = g[i]
        BY <1>1, FS_Interval
    <2> QED BY <2>4, <2>5
<1>3. g[i] <= i
    <2> DEFINE h == [k \in i .. n |-> g[k]]
    <2>a. \A j, k \in i .. n : g[j] = g[k] => j = k
        BY <1>0
    <2>b. ASSUME NEW k \in i .. n PROVE g[k] \in g[i] .. n
        <3>1. k \in 1 .. n /\ g[k] \in 1 .. n /\ (k = i \/ i < k)
            OBVIOUS
        <3>2. k = i \/ g[i] < g[k]
            BY <3>1
        <3>3. g[k] \in Int /\ g[k] <= n
            BY <3>1
        <3> QED BY <1>1, <3>2, <3>3
    <2>1. h \in [i .. n -> g[i] .. n]
        BY <2>b
    <2>2. \A j, k \in i .. n : h[j] = h[k] => j = k
        BY <2>a
    <2>3. h \in Injection(i .. n, g[i] .. n)
        BY <2>1, <2>2 DEF Injection, IsInjective
    <2>4. Cardinality(i .. n) <= Cardinality(g[i] .. n)
        <3> HIDE DEF h
        <3>1. IsFiniteSet(g[i] .. n)
            BY <1>1, FS_Interval
        <3> QED BY <2>3, <3>1, FS_Injection
    <2>5. Cardinality(i .. n) = n - i + 1 /\ Cardinality(g[i] .. n) = n - g[i] + 1
        BY <1>1, FS_Interval
    <2> QED BY <1>1, <2>4, <2>5
<1> QED BY <1>1, <1>2, <1>3

\* The index of a file whose id a client has lists one chunk for each segment.
LEMMA IndexOfAcked ==
    ASSUME C!IInv, NEW f \in acked
    PROVE  /\ \A e \in IndexOf(f) : e.seq \in Segments
           /\ \A e1, e2 \in IndexOf(f) : e1.seq = e2.seq => e1 = e2
           /\ \A s \in Segments : \E e \in IndexOf(f) : e.seq = s
           /\ Cardinality(IndexOf(f)) = NumSegments
<1>1. \A e \in IndexOf(f) : e.seq \in Segments
    BY DEF IndexOf, C!IInv, C!TypeOK, C!Index, C!Segments, Segments
<1>2. \A e1, e2 \in IndexOf(f) : e1.seq = e2.seq => e1 = e2
    BY DEF IndexOf, C!IInv, C!OneChunkPerSegment
<1>3. \A s \in C!Segments : C!CanRead(f, s)
    BY UploadConstants, C!AckedCanRead
<1>4. \A s \in Segments : \E e \in IndexOf(f) : e.seq = s
    BY <1>3 DEF C!Segments, Segments, C!CanRead, IndexOf
<1>5. Cardinality(IndexOf(f)) = NumSegments
    <2> DEFINE seqOf == [e \in IndexOf(f) |-> e.seq]
    <2>1. seqOf \in [IndexOf(f) -> Segments]
        BY <1>1
    <2>2. seqOf \in Injection(IndexOf(f), Segments)
        BY <1>2, <2>1 DEF Injection, IsInjective
    <2>3. seqOf \in Surjection(IndexOf(f), Segments)
        BY <1>4, <2>1 DEF Surjection
    <2>4. IsFiniteSet(Segments) /\ Cardinality(Segments) = NumSegments
        BY UploadConstants, FS_Interval DEF Segments
    <2> HIDE DEF seqOf
    <2> QED BY <2>2, <2>3, <2>4, FS_Injection
<1> QED BY <1>1, <1>2, <1>4, <1>5

\* So ZRANGE puts the chunk of segment i in place i.
LEMMA RangeInOrder ==
    ASSUME C!IInv, NEW f \in acked, NEW es \in ZRange(f)
    PROVE  /\ es \in [Segments -> IndexOf(f)]
           /\ \A i \in Segments : es[i].seq = i
<1>1. /\ es \in [1 .. NumSegments -> IndexOf(f)]
      /\ \A i, j \in 1 .. NumSegments : i < j => es[i] # es[j] /\ es[i].seq <= es[j].seq
    BY IndexOfAcked DEF ZRange
<1> DEFINE g == [i \in 1 .. NumSegments |-> es[i].seq]
<1>2. g \in [1 .. NumSegments -> 1 .. NumSegments]
    BY <1>1, IndexOfAcked DEF Segments
<1>3. \A i, j \in 1 .. NumSegments : i < j => g[i] < g[j]
    <2> SUFFICES ASSUME NEW i \in 1 .. NumSegments, NEW j \in 1 .. NumSegments, i < j
                 PROVE  es[i].seq < es[j].seq
        OBVIOUS
    <2>1. es[i].seq # es[j].seq /\ es[i].seq <= es[j].seq
        BY <1>1, IndexOfAcked
    <2>2. es[i].seq \in Int /\ es[j].seq \in Int
        BY <1>1, IndexOfAcked DEF Segments
    <2> QED BY <2>1, <2>2
<1>4. NumSegments \in Nat
    BY UploadConstants
<1>5. \A i \in 1 .. NumSegments : g[i] = i
    <2> HIDE DEF g
    <2> QED BY <1>2, <1>3, <1>4, Climbs
<1> QED BY <1>1, <1>5 DEF Segments

\* The row that a location names, if it is still there, is the one of the
\* segment.
LEMMA FoundIsRight ==
    ASSUME C!IInv, NEW q \in Downloads, LocationsInPlace(q), dpc[q] = "fetching",
           NEW i \in Segments, NEW x \in RowsAt(locations[q][i])
    PROVE  x.seq = i /\ x.intact
<1>1. file[q] \in acked
    BY DEF LocationsInPlace, D!Running
<1>2. PICK e \in index : e.file = file[q] /\ e.seq = i /\ e.chunk = locations[q][i].chunk
    BY DEF LocationsInPlace, IndexOf
<1>3. C!CanRead(file[q], i)
    BY <1>1, UploadConstants, C!AckedCanRead DEF C!Segments, Segments
<1>4. PICK e2 \in index, y \in held :
          e2.file = file[q] /\ e2.seq = i /\ y.chunk = e2.chunk /\ y.seq = i /\ y.intact
    BY <1>3 DEF C!CanRead
<1>5. e = e2
    BY <1>2, <1>4 DEF C!IInv, C!OneChunkPerSegment
<1>6. x \in held /\ x.chunk = y.chunk
    BY <1>2, <1>4, <1>5 DEF RowsAt, held
<1>7. x = y
    BY <1>4, <1>6 DEF C!IInv, C!OneRowPerChunk
<1> QED BY <1>4, <1>7

-----------------------------------------------------------------------------
(* The downloads.                                                          *)

\* P has the theorems about the downloads, D their definitions.
LEMMA SameDownloads ==
    /\ D!Init <=> P!Init
    /\ D!TypeOK <=> P!TypeOK
    /\ [D!Next]_(D!vars) <=> [P!Next]_(P!vars)
    /\ D!DeliveredWhole <=> P!DeliveredWhole
<1> USE DEF D!Segments, P!Segments, D!Nothing, P!Nothing, D!Running, P!Running, D!Fetched, P!Fetched, D!Contents,
           P!Contents
<1>1. (D!Init <=> P!Init) /\ (D!TypeOK <=> P!TypeOK) /\ (D!DeliveredWhole <=> P!DeliveredWhole)
    BY DEF D!Init, P!Init, D!TypeOK, P!TypeOK, D!DeliveredWhole, P!DeliveredWhole
<1>2. [D!Next]_(D!vars) <=> [P!Next]_(P!vars)
    BY DEF D!Next, D!Start, D!DownloadStep, D!HandlerCrash, D!GetLocations,
       D!LocationsFail, D!OpenSegment, D!WriteSegment, D!RetrieveFails, D!OpenOutput,
       D!AppendSegment, D!SendFile, D!vars, P!Next, P!Start, P!DownloadStep,
       P!HandlerCrash, P!GetLocations, P!LocationsFail, P!OpenSegment, P!WriteSegment,
       P!RetrieveFails, P!OpenOutput, P!AppendSegment, P!SendFile, P!vars
<1> QED BY <1>1, <1>2

\* The assumption of the downloads.
LEMMA DownloadConstants ==
    NumSegments \in Nat \ {0} /\ FileIds # {} /\ Overlapping \in BOOLEAN
<1>1. PICK r \in Requests : TRUE
    BY StoreAssumption
<1>2. <<r, 1>> \in FileIds
    BY UploadConstants DEF FileIds
<1> QED BY <1>2, UploadConstants, StoreAssumption

\* What a running download needs is there.
LEMMA LocationsLength ==
    ASSUME NEW q \in Downloads, LocationsInPlace(q), dpc[q] \in {"fetching", "writing"},
           locations \in [Downloads -> Seq(Meta)]
    PROVE  Len(locations[q]) = NumSegments
<1>1. locations[q] \in Seq(Meta) /\ DOMAIN locations[q] = 1 .. NumSegments
    BY DEF LocationsInPlace, Segments
<1>2. Len(locations[q]) \in Nat /\ DOMAIN locations[q] = 1 .. Len(locations[q])
    BY <1>1
<1> QED BY <1>1, <1>2, UploadConstants

\* Every step of the store is, to its downloads, a step of FileDownload.
LEMMA DownloadSteps ==
    ASSUME C!IInv, D!TypeOK, locations \in [Downloads -> Seq(Meta)],
           \A q \in Downloads : LocationsInPlace(q), [StoreNext]_storeVars
    PROVE  [D!Next]_(D!vars)
<1>1. CASE UNCHANGED downloadVars
    BY <1>1 DEF downloadVars, D!vars
<1>2. ASSUME NEW q \in Downloads, Start(q) PROVE D!Start(q)
    BY <1>2 DEF Start
<1>3. ASSUME NEW q \in Downloads, DownloadStep(q) \/ RetrieveConnectionLost(q)
      PROVE  D!DownloadStep(q)
    <2>1. CASE GetLocations(q)
        BY <2>1 DEF GetLocations, D!DownloadStep, D!GetLocations
    <2>2. CASE LocationsFail(q) \/ LocalStep(q)
        BY <2>2 DEF LocationsFail, LocalStep, D!DownloadStep
    <2>3. CASE OpenSegment(q)
        <3>1. next[q] \in Segments /\ Location(q) = locations[q][next[q]] /\ dpc[q] = "fetching"
            <4>1. dpc[q] = "fetching" /\ next[q] <= Len(locations[q])
                BY <2>3 DEF OpenSegment, Fetching
            <4>2. Len(locations[q]) = NumSegments
                BY <4>1, LocationsLength
            <4>3. next[q] \in 1 .. NumSegments + 1
                BY DEF D!TypeOK
            <4> QED BY <4>1, <4>2, <4>3, UploadConstants DEF Location, Segments
        <3>2. PICK x \in RowsAt(Location(q)) :
                  segment' = [segment EXCEPT ![file[q]][x.seq] =
                                 IF x.intact THEN "empty" ELSE "corrupt"]
            BY <2>3 DEF OpenSegment
        <3>3. x.seq = next[q] /\ x.intact
            BY <3>1, FoundIsRight
        <3>4. segment' = [segment EXCEPT ![file[q]][next[q]] = "empty"]
            BY <3>2, <3>3
        <3>5. next[q] <= NumSegments
            BY <3>1, UploadConstants DEF Segments
        <3> QED BY <2>3, <3>1, <3>4, <3>5 DEF OpenSegment, D!DownloadStep, D!OpenSegment
    <2>4. CASE RetrieveFails(q) \/ RetrieveConnectionLost(q)
        BY <2>4, LocationsLength DEF RetrieveFails, RetrieveConnectionLost, Fetching,
           D!DownloadStep, D!RetrieveFails
    <2>5. CASE OpenOutput(q)
        BY <2>5, LocationsLength DEF OpenOutput, D!DownloadStep, D!OpenOutput
    <2> QED BY <1>3, <2>1, <2>2, <2>3, <2>4, <2>5 DEF DownloadStep
<1>4. ASSUME FileHandlerCrash PROVE D!HandlerCrash \/ UNCHANGED D!vars
    <2>1. CASE \E q \in Downloads : dpc[q] \in D!Running
        BY <1>4, <2>1 DEF FileHandlerCrash, D!HandlerCrash
    <2>2. CASE \A q \in Downloads : dpc[q] \notin D!Running
        <3>1. dpc' = dpc
            BY <1>4, <2>2 DEF FileHandlerCrash, D!TypeOK
        <3> QED BY <1>4, <3>1 DEF FileHandlerCrash, D!vars
    <2> QED BY <2>1, <2>2
<1>5. ASSUME NEW d \in Datastores, DatastoreRecreated(d) PROVE UNCHANGED downloadVars
    BY <1>5 DEF DatastoreRecreated
<1>6. ASSUME UNCHANGED storeVars PROVE UNCHANGED downloadVars
    BY <1>6 DEF storeVars
<1> QED BY <1>1, <1>2, <1>3, <1>4, <1>5, <1>6 DEF StoreNext, D!Next

\* Locations stay in place: what they are compared with only grows.
LEMMA LocationsStay ==
    ASSUME C!IInv, [StoreNext]_storeVars, NEW q \in Downloads, LocationsInPlace(q),
           \/ dpc'[q] = dpc[q]
           \/ dpc'[q] \notin D!Running
           \/ dpc[q] = "fetching" /\ dpc'[q] = "writing"
           \/ dpc[q] = "writing" /\ dpc'[q] = "fetching"
           \/ dpc[q] \in D!Running /\ dpc'[q] = "assembling",
           file'[q] = file[q], locations'[q] = locations[q]
    PROVE  LocationsInPlace(q)'
<1>1. [C!Next]_(C!vars)
    BY RowsTyped, StoreImplementsUpload DEF C!IInv
<1>2. acked \subseteq acked' /\ index \subseteq index' /\ meta \subseteq meta'
    BY <1>1, UploadConstants, C!AckedForever, C!NothingDeleted
<1>3. IndexOf(file[q]) \subseteq IndexOf(file[q])'
    BY <1>2 DEF IndexOf
<1> QED BY <1>2 DEF LocationsInPlace, IndexOf, D!Running

\* Every step of the store keeps the locations of a download in place.
LEMMA LocationsKept ==
    ASSUME C!IInv, D!TypeOK, locations \in [Downloads -> Seq(Meta)],
           \A q \in Downloads : LocationsInPlace(q), [StoreNext]_storeVars
    PROVE  /\ locations' \in [Downloads -> Seq(Meta)]
           /\ \A q \in Downloads : LocationsInPlace(q)'
<1> USE DEF D!TypeOK
<1>1. CASE UNCHANGED <<downloadVars, locations>>
    <2>1. dpc' = dpc /\ file' = file /\ locations' = locations
        BY <1>1 DEF downloadVars
    <2>2. ASSUME NEW q \in Downloads PROVE LocationsInPlace(q)'
        <3>1. dpc'[q] = dpc[q] /\ file'[q] = file[q] /\ locations'[q] = locations[q] /\ LocationsInPlace(q)
            BY <2>1
        <3> QED BY <3>1, LocationsStay
    <2> QED BY <2>1, <2>2
<1>2. ASSUME NEW q \in Downloads, Start(q)
      PROVE  /\ locations' \in [Downloads -> Seq(Meta)]
             /\ \A p \in Downloads : LocationsInPlace(p)'
    <2>1. /\ UNCHANGED <<acked, locations>> /\ dpc'[q] = "locating" /\ file'[q] \in acked
          /\ \A p \in Downloads \ {q} : dpc'[p] = dpc[p] /\ file'[p] = file[p]
        BY <1>2 DEF Start, D!Start, uploadVars, vars, handlerVars
    <2>2. LocationsInPlace(q)'
        BY <2>1 DEF LocationsInPlace
    <2>3. ASSUME NEW p \in Downloads, p # q PROVE LocationsInPlace(p)'
        BY <2>1, <2>3, LocationsStay
    <2> QED BY <2>1, <2>2, <2>3
<1>3. ASSUME NEW q \in Downloads, GetLocations(q)
      PROVE  /\ locations' \in [Downloads -> Seq(Meta)]
             /\ \A p \in Downloads : LocationsInPlace(p)'
    <2>0. PICK es \in ZRange(file[q]) : \E hs \in [DOMAIN es -> meta] :
              /\ \A i \in DOMAIN es : hs[i].chunk = es[i].chunk
              /\ locations' = [locations EXCEPT ![q] = hs]
        BY <1>3 DEF GetLocations
    <2>1. PICK hs \in [DOMAIN es -> meta] :
              /\ \A i \in DOMAIN es : hs[i].chunk = es[i].chunk
              /\ locations' = [locations EXCEPT ![q] = hs]
        BY <2>0
    <2>2. file[q] \in acked
        BY <1>3 DEF GetLocations, LocationsInPlace, D!Running
    <2>3. /\ es \in [Segments -> IndexOf(file[q])] /\ DOMAIN es = Segments
          /\ \A i \in Segments : es[i].seq = i
        BY <2>2, RangeInOrder
    <2>4. meta \subseteq Meta
        BY RowsTyped DEF C!IInv, TypeOK
    <2>5. hs \in [1 .. NumSegments -> Meta] /\ NumSegments \in Nat
        BY <2>3, <2>4, UploadConstants DEF Segments
    <2>6. hs \in Seq(Meta)
        BY <2>5
    <2>7. /\ UNCHANGED <<acked, index, meta, file>> /\ dpc'[q] = "fetching"
          /\ locations'[q] = hs
          /\ \A p \in Downloads \ {q} : dpc'[p] = dpc[p] /\ locations'[p] = locations[p]
        BY <1>3, <2>1 DEF GetLocations, uploadVars, vars, handlerVars, redisVars
    <2>8. LocationsInPlace(q)'
        BY <2>1, <2>2, <2>3, <2>7 DEF LocationsInPlace, IndexOf
    <2>9. ASSUME NEW p \in Downloads, p # q PROVE LocationsInPlace(p)'
        BY <2>7, <2>9, LocationsStay
    <2> QED BY <2>1, <2>6, <2>8, <2>9
<1>4. ASSUME NEW q \in Downloads,
             \/ LocationsFail(q) \/ OpenSegment(q) \/ RetrieveFails(q)
             \/ RetrieveConnectionLost(q) \/ OpenOutput(q) \/ LocalStep(q)
      PROVE  /\ locations' \in [Downloads -> Seq(Meta)]
             /\ \A p \in Downloads : LocationsInPlace(p)'
    <2>1. UNCHANGED <<file, locations>> /\ \A p \in Downloads \ {q} : dpc'[p] = dpc[p]
        BY <1>4 DEF LocationsFail, D!LocationsFail, OpenSegment, RetrieveFails,
           RetrieveConnectionLost, OpenOutput, LocalStep, D!WriteSegment,
           D!AppendSegment, D!SendFile
    <2>2. \/ dpc'[q] = dpc[q] \/ dpc'[q] \notin D!Running
          \/ dpc[q] = "fetching" /\ dpc'[q] = "writing"
          \/ dpc[q] = "writing" /\ dpc'[q] = "fetching"
          \/ dpc[q] \in D!Running /\ dpc'[q] = "assembling"
        BY <1>4 DEF LocationsFail, D!LocationsFail, OpenSegment, RetrieveFails,
           RetrieveConnectionLost, OpenOutput, LocalStep, D!WriteSegment,
           D!AppendSegment, D!SendFile, Fetching, D!Running
    <2>3. ASSUME NEW p \in Downloads PROVE LocationsInPlace(p)'
        BY <2>1, <2>2, LocationsStay
    <2> QED BY <2>1, <2>3
<1>5. ASSUME FileHandlerCrash
      PROVE  /\ locations' \in [Downloads -> Seq(Meta)]
             /\ \A p \in Downloads : LocationsInPlace(p)'
    <2>1. UNCHANGED <<file, locations>> /\ \A p \in Downloads : dpc'[p] \notin D!Running
        BY <1>5 DEF FileHandlerCrash, D!Running
    <2> QED BY <2>1, LocationsStay
<1>6. ASSUME NEW d \in Datastores, DatastoreRecreated(d)
      PROVE  UNCHANGED <<downloadVars, locations>>
    BY <1>6 DEF DatastoreRecreated
<1>7. ASSUME UNCHANGED storeVars PROVE UNCHANGED <<downloadVars, locations>>
    BY <1>7 DEF storeVars
<1> QED BY <1>1, <1>2, <1>3, <1>4, <1>5, <1>6, <1>7 DEF StoreNext, DownloadStep

-----------------------------------------------------------------------------
(* The store.                                                              *)

\* The invariant holds initially and every step keeps it.
LEMMA StoreInitInvariant == StoreInit => C!IInv /\ StoreIInv
<1> SUFFICES ASSUME StoreInit PROVE C!IInv /\ StoreIInv
    OBVIOUS
<1>1. C!IInv /\ TypeOK /\ lost \subseteq Rows
    BY UploadInit, RowsTyped DEF C!IInv
<1>2. D!TypeOK
    BY DownloadConstants, SameDownloads, P!InitType DEF StoreInit
<1>3. locations \in [Downloads -> Seq(Meta)]
    BY DEF StoreInit
<1>4. \A q \in Downloads : LocationsInPlace(q)
    BY DEF StoreInit, D!Init, LocationsInPlace, D!Running
<1> QED BY <1>1, <1>2, <1>3, <1>4 DEF StoreIInv, StoreTypeOK

\* Every step keeps the invariant of the store.
LEMMA StoreNextInvariant ==
    ASSUME C!IInv, StoreIInv, [StoreNext]_storeVars
    PROVE  C!IInv' /\ StoreIInv' /\ [D!Next]_(D!vars)
<1> USE DEF StoreIInv, StoreTypeOK
<1>1. C!IInv' /\ TypeOK' /\ lost' \subseteq Rows
    BY UploadInvariant
<1>2. [D!Next]_(D!vars)
    BY DownloadSteps
<1>3. D!TypeOK'
    <2>1. [P!Next]_(P!vars) /\ P!TypeOK
        BY <1>2, SameDownloads
    <2>2. P!TypeOK'
        BY <2>1, DownloadConstants, P!NextType
    <2>3. (D!TypeOK <=> P!TypeOK)'
        BY SameDownloads, PTL
    <2> QED BY <2>2, <2>3
<1> QED BY <1>1, <1>2, <1>3, LocationsKept

\* The invariant of the uploads with held for rows, and that of the downloads
\* on top of it, always hold.
THEOREM StoreInvariant == StoreSpec => []StoreIInv
<1> QED BY StoreInitInvariant, StoreNextInvariant, PTL DEF StoreSpec

\* Nothing is lost of a file whose id a client has but the rows that went
\* with containers created anew.
THEOREM OnlyContainersLose == StoreSpec => []LostOnlyWithContainer
<1>1. C!IInv => LostOnlyWithContainer
    <2> SUFFICES ASSUME C!IInv, NEW f \in acked, NEW s \in Segments
                 PROVE  \E e \in index, h \in meta, x \in held :
                            /\ e.file = f /\ e.seq = s
                            /\ h.chunk = e.chunk
                            /\ x.chunk = e.chunk /\ x.ds = h.ds
                            /\ x.file = f /\ x.seq = s /\ x.intact
        BY DEF LostOnlyWithContainer
    <2>1. C!CanRead(f, s)
        BY UploadConstants, C!AckedCanRead DEF C!Segments, Segments
    <2> QED BY <2>1 DEF C!CanRead
<1> QED BY <1>1, StoreInitInvariant, StoreNextInvariant, PTL DEF StoreSpec

\* Downloads from the store are downloads as FileDownload describes them,
\* whether they overlap or not.
THEOREM StoreImplementsDownload == StoreSpec => ImplementsDownload
<1>1. StoreInit => D!Init
    BY DEF StoreInit
<1> QED BY <1>1, StoreInitInvariant, StoreNextInvariant, PTL
        DEF StoreSpec, ImplementsDownload, D!Spec

\* From end to end: a download that is answered with status 200 carries, each
\* of full length and in order, the segments that the upload under the id sent
\* and the datastores checked the hashes of, whatever crashes, whichever answers
\* get lost and whatever containers are created anew; this as long as no file is
\* asked for while it is being downloaded.  It says nothing of what split_file
\* puts in no segment, and a segment may be damaged on the way back.
THEOREM DownloadedIsStored ==
    ASSUME ~Overlapping
    PROVE  StoreSpec => []D!DeliveredWhole
<1>1. D!Spec => P!Spec
    BY SameDownloads, PTL DEF D!Spec, P!Spec
<1>2. P!Spec => []P!DeliveredWhole
    BY DownloadConstants, P!DownloadsWhole
<1>3. D!DeliveredWhole <=> P!DeliveredWhole
    BY SameDownloads
<1> QED BY <1>1, <1>2, <1>3, StoreImplementsDownload, PTL DEF ImplementsDownload
===============================================================================
