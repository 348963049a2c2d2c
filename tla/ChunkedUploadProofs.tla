------------------------- MODULE ChunkedUploadProofs -------------------------
(***************************************************************************)
(* The properties of ChunkedUpload for any number of requests, files per   *)
(* request, datastores and segments: typing, the inductive invariant IInv, *)
(* the safety properties that follow from it, and that uploading           *)
(* implements ObjectStore.                                                 *)
(***************************************************************************)
EXTENDS ChunkedUploadInvariant, FiniteSetTheorems, TLAPS

\* A list of datastores that GetTopKDatastores returns is a sequence.
LEMMA TopListsType ==
    ASSUME registry \subseteq Datastores
    PROVE  TopLists \subseteq Seq(Datastores)
<1>1. Cardinality(registry) \in Nat
    BY UploadAssumption, FS_Subset, FS_CardinalityType
<1>2. Lesser(NumSegments, Cardinality(registry)) \in Nat
    BY <1>1, UploadAssumption DEF Lesser
<1> QED BY <1>2 DEF TopLists

\* The initial state is well typed.
LEMMA InitType == Init => TypeOK
<1> SUFFICES ASSUME Init PROVE TypeOK
    OBVIOUS
<1>1. (CHOOSE d \in Datastores : TRUE) \in Datastores
    BY UploadAssumption
<1>2. call \in [Requests -> StoreCalls]
    BY <1>1, UploadAssumption DEF Init, StoreCalls, FileIds, Segments
<1> QED BY <1>2, UploadAssumption DEF Init, TypeOK

\* What a Store call leaves behind has the types of the tables.
LEMMA LeftBehindType ==
    ASSUME TypeOK, NEW r \in Requests
    PROVE  /\ RowOf(r) \in Rows /\ EntryOf(r) \in Index /\ HashOf(r) \in Meta
           /\ File(r) \in FileIds
BY DEF TypeOK, StoreCalls, RowOf, EntryOf, HashOf, Chunk, ChunkIds, Rows, Index,
       Meta, File, FileIds

\* A handler that moves its call to another stage keeps the calls' type.
LEMMA StageType ==
    ASSUME TypeOK, NEW r \in Requests,
           NEW st \in {"none", "received", "registering", "ok", "error", "lost"}
    PROVE  [call EXCEPT ![r].stage = st] \in [Requests -> StoreCalls]
<1>1. call[r] \in StoreCalls
    BY DEF TypeOK
<1>2. [call[r] EXCEPT !.stage = st] \in StoreCalls
    BY <1>1 DEF StoreCalls
<1> QED BY <1>2 DEF TypeOK

\* And that is all it changes.
LEMMA StageOnly ==
    ASSUME TypeOK, NEW r \in Requests,
           NEW st \in {"none", "received", "registering", "ok", "error", "lost"},
           call' = [call EXCEPT ![r].stage = st]
    PROVE  /\ call' \in [Requests -> StoreCalls]
           /\ call'[r].stage = st
           /\ call'[r].n = call[r].n /\ call'[r].file = call[r].file
           /\ call'[r].seq = call[r].seq /\ call'[r].ds = call[r].ds
           /\ call'[r].intact = call[r].intact
           /\ \A q \in Requests \ {r} : call'[q] = call[q]
<1>1. call[r] \in StoreCalls /\ DOMAIN call = Requests
    BY DEF TypeOK
<1>2. call'[r] = [call[r] EXCEPT !.stage = st]
    BY <1>1
<1>3. \A q \in Requests \ {r} : call'[q] = call[q]
    BY <1>1
<1> QED BY <1>1, <1>2, <1>3, StageType DEF StoreCalls

\* Every step of the four processes keeps the state well typed.
LEMMA NextType == TypeOK /\ [Next]_vars => TypeOK'
<1> SUFFICES ASSUME TypeOK, [Next]_vars PROVE TypeOK'
    OBVIOUS
<1> USE DEF TypeOK, handlerVars, redisVars, serviceVars, Running, Ended
<1>1. ASSUME NEW r \in Requests, Accept(r) PROVE TypeOK'
    BY <1>1 DEF Accept
<1>2. ASSUME NEW r \in Requests, UploadStep(r) PROVE TypeOK'
    <2>1. CASE SaveAndSplit(r)
        BY <2>1, LeftBehindType DEF SaveAndSplit, Parts, LocalFiles
    <2>2. CASE GetIpList(r)
        BY <2>2, TopListsType DEF GetIpList
    <2>3. CASE GetIpListFails(r)
        BY <2>3 DEF GetIpListFails
    <2>4. CASE SendSegment(r)
        <3>1. PICK j \in 1 .. Len(hosts[r]), s \in pending[r], ok \in BOOLEAN :
                 call' = [call EXCEPT ![r] =
                           [stage |-> "received", n |-> @.n + 1, file |-> File(r),
                            seq |-> s, ds |-> hosts[r][j], intact |-> ok]]
            BY <2>4 DEF SendSegment
        <3>2. hosts[r][j] \in Datastores
            OBVIOUS
        <3>3. call[r].n + 1 \in Nat
            BY DEF StoreCalls
        <3>4. call' \in [Requests -> StoreCalls]
            BY <3>1, <3>2, <3>3, LeftBehindType DEF StoreCalls
        <3> QED BY <2>4, <3>4 DEF SendSegment
    <2>5. CASE ConnectTimesOut(r)
        BY <2>5 DEF ConnectTimesOut
    <2>6. CASE StoreReturns(r)
        BY <2>6 DEF StoreReturns
    <2>7. CASE StoreRaises(r)
        BY <2>7 DEF StoreRaises
    <2>8. CASE FinishFile(r)
        <3>1. current' \in [Requests -> 1 .. FilesPerRequest]
            <4>1. current[r] \in 1 .. FilesPerRequest
                OBVIOUS
            <4>2. CASE current[r] < FilesPerRequest
                <5>1. current[r] + 1 \in 1 .. FilesPerRequest
                    BY <4>1, <4>2, UploadAssumption
                <5> QED BY <2>8, <4>2, <5>1 DEF FinishFile
            <4>3. CASE ~(current[r] < FilesPerRequest)
                BY <2>8, <4>3 DEF FinishFile
            <4> QED BY <4>2, <4>3
        <3>2. pc' \in [Requests -> {"idle"} \cup Running \cup Ended]
            BY <2>8 DEF FinishFile
        <3>3. acked' \subseteq FileIds
            BY <2>8 DEF FinishFile, FilesOf, FileIds
        <3> QED BY <2>8, <3>1, <3>2, <3>3 DEF FinishFile
    <2> QED BY <1>2, <2>1, <2>2, <2>3, <2>4, <2>5, <2>6, <2>7, <2>8 DEF UploadStep
<1>3. ASSUME NEW r \in Requests, StoreStep(r) PROVE TypeOK'
    <2>1. CASE StoreRejects(r)
        <3>1. call' \in [Requests -> StoreCalls]
            BY <2>1, StageType DEF StoreRejects
        <3> QED BY <2>1, <3>1 DEF StoreRejects
    <2>2. CASE InsertChunk(r)
        <3>1. (IF call[r].intact THEN "registering" ELSE "error")
                  \in {"registering", "error"}
            OBVIOUS
        <3>2. call' \in [Requests -> StoreCalls]
            BY <2>2, <3>1, StageType DEF InsertChunk
        <3> QED BY <2>2, <3>2, LeftBehindType DEF InsertChunk
    <2>3. CASE RegisterReturns(r) \/ RegisterRaises(r)
        <3>1. /\ [call EXCEPT ![r].stage = "ok"] \in [Requests -> StoreCalls]
              /\ [call EXCEPT ![r].stage = "error"] \in [Requests -> StoreCalls]
            BY StageType
        <3> QED BY <2>3, <3>1 DEF RegisterReturns, RegisterRaises
    <2> QED BY <1>3, <2>1, <2>2, <2>3 DEF StoreStep
<1>4. ASSUME NEW r \in Requests, RegisterStep(r) PROVE TypeOK'
    BY <1>4, LeftBehindType DEF RegisterStep, ZAdd, HSet, RedisFails
<1>5. ASSUME NEW r \in Requests, ConnectionLost(r) PROVE TypeOK'
    <2>1. CASE StoreConnectionLost(r)
        BY <2>1 DEF StoreConnectionLost
    <2>2. CASE RegisterConnectionLost(r)
        <3>1. call' \in [Requests -> StoreCalls]
            BY <2>2, StageType DEF RegisterConnectionLost
        <3> QED BY <2>2, <3>1 DEF RegisterConnectionLost
    <2> QED BY <1>5, <2>1, <2>2 DEF ConnectionLost
<1>6. ASSUME NEW d \in Datastores, DatastoreCrash(d) PROVE TypeOK'
    <2>1. ASSUME NEW r \in Requests PROVE [call[r] EXCEPT !.stage = "lost"] \in StoreCalls
        <3>1. call[r] \in StoreCalls
            OBVIOUS
        <3> QED BY <3>1 DEF StoreCalls
    <2>2. call' \in [Requests -> StoreCalls]
        BY <1>6, <2>1 DEF DatastoreCrash
    <2>3. up' \subseteq Datastores
        BY <1>6 DEF DatastoreCrash
    <2> QED BY <1>6, <2>2, <2>3 DEF DatastoreCrash
<1>7. ASSUME NEW d \in Datastores, DatastoreRestart(d) \/ Heartbeat(d) PROVE TypeOK'
    BY <1>7 DEF DatastoreRestart, Heartbeat
<1>8. ASSUME HandlerCrash PROVE TypeOK'
    BY <1>8 DEF HandlerCrash
<1>9. ASSUME MetadataCrash PROVE TypeOK'
    BY <1>9 DEF MetadataCrash
<1>10. ASSUME Evict PROVE TypeOK'
    BY <1>10 DEF Evict
<1>11. ASSUME UNCHANGED vars PROVE TypeOK'
    BY <1>11 DEF vars
<1> QED BY <1>1, <1>2, <1>3, <1>4, <1>5, <1>6, <1>7, <1>8, <1>9, <1>10, <1>11 DEF Next, Step

\* Every variable of the upload path keeps its type.
THEOREM TypeCorrect == Spec => []TypeOK
<1> QED BY InitType, NextType, PTL DEF Spec

-----------------------------------------------------------------------------
(* The inductive invariant.  Most steps touch one side only: the handler's *)
(* variables, or the calls and what they leave in the datastores and redis.*)

callVars == <<call, reg, rows, index, meta>>

\* The steps of Next, by which of the two sides they change.
LEMMA StepKinds ==
    ASSUME [Next]_vars
    PROVE  \/ UNCHANGED callVars
           \/ \E r \in Requests : SendSegment(r)
           \/ UNCHANGED handlerVars
BY DEF Next, Step, vars, callVars, handlerVars, redisVars, serviceVars, Accept, UploadStep,
       SaveAndSplit, GetIpList, GetIpListFails, ConnectTimesOut, StoreReturns,
       StoreRaises, FinishFile, StoreStep, StoreRejects, InsertChunk, RegisterReturns,
       RegisterRaises, RegisterStep, ZAdd, HSet, RedisFails, ConnectionLost,
       StoreConnectionLost, RegisterConnectionLost, DatastoreCrash, DatastoreRestart,
       Heartbeat, Evict, HandlerCrash, MetadataCrash

\* The steps that change neither side's calls.
LEMMA CallSteps ==
    ASSUME [Next]_vars
    PROVE  \/ UNCHANGED callVars
           \/ \E r \in Requests : \/ SendSegment(r) \/ StoreStep(r) \/ RegisterStep(r)
                                  \/ RegisterConnectionLost(r)
           \/ \E d \in Datastores : DatastoreCrash(d)
           \/ MetadataCrash
BY DEF Next, Step, vars, callVars, handlerVars, redisVars, serviceVars, Accept, UploadStep,
       SaveAndSplit, GetIpList, GetIpListFails, ConnectTimesOut, StoreReturns,
       StoreRaises, FinishFile, ConnectionLost, StoreConnectionLost, DatastoreRestart,
       Heartbeat, Evict, HandlerCrash

\* The steps of the file handler.
LEMMA HandlerSteps ==
    ASSUME [Next]_vars
    PROVE  \/ UNCHANGED handlerVars
           \/ \E r \in Requests : Accept(r) \/ UploadStep(r) \/ StoreConnectionLost(r)
           \/ HandlerCrash
BY DEF Next, Step, vars, handlerVars, redisVars, serviceVars, StoreStep, StoreRejects,
       InsertChunk, RegisterReturns, RegisterRaises, RegisterStep, ZAdd, HSet,
       RedisFails, ConnectionLost, RegisterConnectionLost, DatastoreCrash,
       DatastoreRestart, Heartbeat, Evict, MetadataCrash

\* Nothing is ever deleted from a chunks table or from redis.
LEMMA NothingDeleted ==
    ASSUME [Next]_vars
    PROVE  rows \subseteq rows' /\ index \subseteq index' /\ meta \subseteq meta'
BY CallSteps DEF callVars, SendSegment, StoreStep, StoreRejects, InsertChunk,
       RegisterReturns, RegisterRaises, RegisterStep, ZAdd, HSet, RedisFails,
       RegisterConnectionLost, DatastoreCrash, MetadataCrash, handlerVars, redisVars,
       serviceVars

\* So a segment that can be read can be read from then on.
LEMMA ReadableForever ==
    ASSUME [Next]_vars, NEW f, NEW s, CanRead(f, s)
    PROVE  CanRead(f, s)'
BY NothingDeleted DEF CanRead

\* Sending replaces the request's call by a fresh one, of a pending segment
\* of the current file.
LEMMA SendEffect ==
    ASSUME TypeOK, NEW r \in Requests, SendSegment(r)
    PROVE  /\ call'[r].stage = "received"
           /\ call'[r].file = File(r)
           /\ call'[r].seq \in pending[r]
           /\ call'[r].n = call[r].n + 1
           /\ reg'[r] = "none" /\ pc'[r] = "waiting"
           /\ \A q \in Requests \ {r} :
                 call'[q] = call[q] /\ reg'[q] = reg[q] /\ pc'[q] = pc[q]
BY DEF SendSegment, TypeOK

\* A step of the Store handler moves its call on; a registration is called
\* only by the step that leaves the call waiting for it.
LEMMA StoreEffect ==
    ASSUME TypeOK, NEW r \in Requests, StoreStep(r)
    PROVE  /\ call[r].stage \in {"received", "registering"}
           /\ \/ call'[r].stage \in {"ok", "error"} /\ reg' = reg
              \/ /\ call[r].stage = "received" /\ call'[r].stage = "registering"
                 /\ reg'[r] = "called"
           /\ call'[r].file = call[r].file /\ call'[r].seq = call[r].seq
           /\ \A q \in Requests \ {r} : call'[q] = call[q] /\ reg'[q] = reg[q]
           /\ UNCHANGED <<handlerVars, redisVars>>
<1>1. CASE StoreRejects(r)
    BY <1>1 DEF StoreRejects, TypeOK, StoreCalls
<1>2. CASE InsertChunk(r)
    BY <1>2 DEF InsertChunk, TypeOK, StoreCalls
<1>3. CASE RegisterReturns(r)
    BY <1>3 DEF RegisterReturns, TypeOK, StoreCalls
<1>4. CASE RegisterRaises(r)
    BY <1>4 DEF RegisterRaises, TypeOK, StoreCalls
<1> QED BY <1>1, <1>2, <1>3, <1>4 DEF StoreStep

\* A step of one call leaves the other requests' calls as they are.
LEMMA CallIsRegisteredStep ==
    ASSUME TypeOK, [Next]_vars, \A r \in Requests : CallIsRegistered(r),
           NEW q \in Requests
    PROVE  CallIsRegistered(q)'
<1> USE DEF CallIsRegistered, RowOf, EntryOf, HashOf, Chunk, handlerVars, redisVars,
            serviceVars
<1>1. CASE UNCHANGED callVars
    BY <1>1 DEF callVars
<1>2. ASSUME NEW r \in Requests, SendSegment(r) PROVE CallIsRegistered(q)'
    <2>1. UNCHANGED <<rows, index, meta>>
        BY <1>2 DEF SendSegment
    <2> QED BY <1>2, <2>1, SendEffect
<1>3. ASSUME NEW r \in Requests, StoreStep(r) PROVE CallIsRegistered(q)'
    <2>1. CASE StoreRejects(r)
        BY <2>1 DEF StoreRejects, TypeOK, StoreCalls
    <2>2. CASE InsertChunk(r)
        <3>1. /\ call'[r].stage \in {"registering", "error"}
              /\ call'[r].n = call[r].n /\ call'[r].file = call[r].file
              /\ call'[r].seq = call[r].seq /\ call'[r].ds = call[r].ds
              /\ call'[r].intact = call[r].intact
              /\ \A p \in Requests \ {r} : call'[p] = call[p]
            BY <2>2, StageOnly DEF InsertChunk
        <3>2. /\ rows' = rows \cup {RowOf(r)} /\ UNCHANGED <<index, meta>>
              /\ reg'[r] = (IF call[r].intact THEN "called" ELSE reg[r])
              /\ \A p \in Requests \ {r} : reg'[p] = reg[p]
            BY <2>2 DEF InsertChunk, TypeOK
        <3>3. CASE q # r
            BY <3>1, <3>2, <3>3
        <3>4. CASE q = r
            <4>1. RowOf(r)' = RowOf(r) /\ EntryOf(r)' = EntryOf(r) /\ HashOf(r)' = HashOf(r)
                BY <3>1
            <4> HIDE DEF RowOf, EntryOf, HashOf
            <4> QED BY <3>1, <3>2, <3>4, <4>1
        <3> QED BY <3>3, <3>4
    <2>3. CASE RegisterReturns(r)
        BY <2>3 DEF RegisterReturns, TypeOK, StoreCalls
    <2>4. CASE RegisterRaises(r)
        BY <2>4 DEF RegisterRaises, TypeOK, StoreCalls
    <2> QED BY <1>3, <2>1, <2>2, <2>3, <2>4 DEF StoreStep
<1>4. ASSUME NEW r \in Requests, RegisterStep(r) PROVE CallIsRegistered(q)'
    BY <1>4 DEF RegisterStep, ZAdd, HSet, RedisFails, TypeOK
<1>5. ASSUME NEW r \in Requests, RegisterConnectionLost(r) PROVE CallIsRegistered(q)'
    BY <1>5 DEF RegisterConnectionLost, TypeOK, StoreCalls
<1>6. ASSUME NEW d \in Datastores, DatastoreCrash(d) PROVE CallIsRegistered(q)'
    BY <1>6 DEF DatastoreCrash, TypeOK, StoreCalls
<1>7. ASSUME MetadataCrash PROVE CallIsRegistered(q)'
    BY <1>7 DEF MetadataCrash, TypeOK
<1> QED BY <1>1, <1>2, <1>3, <1>4, <1>5, <1>6, <1>7, CallSteps

\* The handler moves on, or gives up, only when its call is not in progress
\* or fails with it.
LEMMA CallIsCurrentStep ==
    ASSUME TypeOK, [Next]_vars,
           \A r \in Requests : CallIsRegistered(r) /\ CallIsCurrent(r),
           NEW q \in Requests
    PROVE  CallIsCurrent(q)'
<1> USE DEF CallIsCurrent, InProgress, File, handlerVars, redisVars, serviceVars
<1>1. CASE UNCHANGED vars
    BY <1>1 DEF vars
<1>2. ASSUME NEW r \in Requests, Accept(r) PROVE CallIsCurrent(q)'
    BY <1>2 DEF Accept, TypeOK
<1>3. ASSUME NEW r \in Requests, UploadStep(r) PROVE CallIsCurrent(q)'
    <2>1. CASE SaveAndSplit(r) \/ GetIpList(r) \/ GetIpListFails(r)
        BY <2>1 DEF SaveAndSplit, GetIpList, GetIpListFails, TypeOK
    <2>2. CASE SendSegment(r)
        <3>1. UNCHANGED current
            BY <2>2 DEF SendSegment
        <3> QED BY <2>2, <3>1, SendEffect
    <2>3. CASE ConnectTimesOut(r)
        BY <2>3 DEF ConnectTimesOut, TypeOK
    <2>4. CASE StoreReturns(r)
        BY <2>4 DEF StoreReturns, CallIsRegistered, TypeOK
    <2>5. CASE StoreRaises(r)
        BY <2>5 DEF StoreRaises, TypeOK
    <2>6. CASE FinishFile(r)
        BY <2>6 DEF FinishFile, TypeOK
    <2> QED BY <1>3, <2>1, <2>2, <2>3, <2>4, <2>5, <2>6 DEF UploadStep
<1>4. ASSUME NEW r \in Requests, StoreStep(r) PROVE CallIsCurrent(q)'
    BY <1>4, StoreEffect
<1>5. ASSUME NEW r \in Requests, RegisterStep(r) PROVE CallIsCurrent(q)'
    BY <1>5 DEF RegisterStep, ZAdd, HSet, RedisFails, TypeOK
<1>6. ASSUME NEW r \in Requests, ConnectionLost(r) PROVE CallIsCurrent(q)'
    <2>1. CASE StoreConnectionLost(r)
        BY <2>1 DEF StoreConnectionLost, TypeOK
    <2>2. CASE RegisterConnectionLost(r)
        <3>1. /\ call'[r].stage = "error"
              /\ call'[r].file = call[r].file /\ call[r].stage = "registering"
              /\ \A p \in Requests \ {r} : call'[p] = call[p]
            BY <2>2, StageOnly DEF RegisterConnectionLost
        <3>2. UNCHANGED <<pc, current, reg>>
            BY <2>2 DEF RegisterConnectionLost
        <3> QED BY <3>1, <3>2
    <2> QED BY <1>6, <2>1, <2>2 DEF ConnectionLost
<1>7. ASSUME NEW d \in Datastores, DatastoreCrash(d) PROVE CallIsCurrent(q)'
    BY <1>7 DEF DatastoreCrash, TypeOK, StoreCalls
<1>8. ASSUME NEW d \in Datastores, DatastoreRestart(d) \/ Heartbeat(d)
      PROVE  CallIsCurrent(q)'
    BY <1>8 DEF DatastoreRestart, Heartbeat
<1>9. ASSUME HandlerCrash PROVE CallIsCurrent(q)'
    BY <1>9 DEF HandlerCrash, Running, TypeOK
<1>10. ASSUME MetadataCrash PROVE CallIsCurrent(q)'
    BY <1>10 DEF MetadataCrash, TypeOK
<1>11. ASSUME Evict PROVE CallIsCurrent(q)'
    BY <1>11 DEF Evict
<1> QED BY <1>1, <1>2, <1>3, <1>4, <1>5, <1>6, <1>7, <1>8, <1>9, <1>10, <1>11 DEF Next, Step

\* The index grows by the entry of one call, at its ZADD.
LEMMA IndexGrows ==
    ASSUME [Next]_vars
    PROVE  \/ index' = index
           \/ \E r \in Requests : ZAdd(r) /\ index' = index \cup {EntryOf(r)}
BY CallSteps DEF callVars, SendSegment, StoreStep, StoreRejects, InsertChunk,
       RegisterReturns, RegisterRaises, RegisterStep, ZAdd, HSet, RedisFails,
       RegisterConnectionLost, DatastoreCrash, MetadataCrash, handlerVars, redisVars,
       serviceVars

\* Files of different requests are different, so no other request's ZADD can
\* index the segment of a call.
LEMMA NotIndexedYetStep ==
    ASSUME TypeOK, [Next]_vars,
           \A r \in Requests : CallIsCurrent(r) /\ NotIndexedYet(r) /\ IndexIsCurrent(r),
           NEW q \in Requests
    PROVE  NotIndexedYet(q)'
<1> USE DEF NotIndexedYet, handlerVars, redisVars, serviceVars
<1>1. CASE UNCHANGED callVars
    BY <1>1 DEF callVars
<1>2. ASSUME NEW r \in Requests, SendSegment(r) PROVE NotIndexedYet(q)'
    <2>1. index' = index /\ pc[r] = "sending"
        BY <1>2 DEF SendSegment
    <2>2. \A e \in index : e.file = File(r) => e.seq \notin pending[r]
        BY <2>1 DEF IndexIsCurrent, File
    <2> QED BY <1>2, <2>1, <2>2, SendEffect
<1>3. ASSUME NEW r \in Requests, StoreStep(r) PROVE NotIndexedYet(q)'
    BY <1>3, StoreEffect DEF CallIsCurrent
<1>4. ASSUME NEW r \in Requests, RegisterStep(r) PROVE NotIndexedYet(q)'
    <2>1. CASE ZAdd(r)
        <3>1. CASE q = r
            BY <2>1, <3>1 DEF ZAdd, CallIsCurrent, TypeOK
        <3>2. CASE q # r
            <4>1. InProgress(r) /\ call[r].file = <<r, current[r]>>
                BY <2>1 DEF ZAdd, InProgress, CallIsCurrent, File
            <4>2. InProgress(q) => call[q].file = <<q, current[q]>>
                BY DEF CallIsCurrent, File
            <4>3. EntryOf(r).file = call[r].file
                BY DEF EntryOf
            <4>4. /\ call'[q] = call[q] /\ reg'[q] = reg[q]
                  /\ index' = index \cup {EntryOf(r)}
                BY <2>1, <3>2 DEF ZAdd, TypeOK
            <4> QED BY <3>2, <4>1, <4>2, <4>3, <4>4 DEF InProgress
        <3> QED BY <3>1, <3>2
    <2>2. CASE HSet(r) \/ RedisFails(r)
        BY <2>2 DEF HSet, RedisFails, TypeOK
    <2> QED BY <1>4, <2>1, <2>2 DEF RegisterStep
<1>5. ASSUME NEW r \in Requests, RegisterConnectionLost(r) PROVE NotIndexedYet(q)'
    BY <1>5 DEF RegisterConnectionLost, TypeOK, StoreCalls
<1>6. ASSUME NEW d \in Datastores, DatastoreCrash(d) PROVE NotIndexedYet(q)'
    BY <1>6 DEF DatastoreCrash, TypeOK, StoreCalls
<1>7. ASSUME MetadataCrash PROVE NotIndexedYet(q)'
    BY <1>7 DEF MetadataCrash, TypeOK
<1> QED BY <1>1, <1>2, <1>3, <1>4, <1>5, <1>6, <1>7, CallSteps

\* While the handler stands still its calls keep their segments.
LEMMA SegmentKept ==
    ASSUME TypeOK, [Next]_vars, UNCHANGED handlerVars, NEW q \in Requests
    PROVE  call'[q].seq = call[q].seq
<1>1. CASE UNCHANGED callVars
    BY <1>1 DEF callVars
<1>2. ASSUME NEW r \in Requests, SendSegment(r) PROVE FALSE
    BY <1>2 DEF SendSegment, handlerVars, TypeOK
<1>3. ASSUME NEW r \in Requests, StoreStep(r) PROVE call'[q].seq = call[q].seq
    BY <1>3, StoreEffect
<1>4. ASSUME NEW r \in Requests, RegisterStep(r) PROVE call'[q].seq = call[q].seq
    BY <1>4 DEF RegisterStep, ZAdd, HSet, RedisFails
<1>5. ASSUME NEW r \in Requests, RegisterConnectionLost(r)
      PROVE  call'[q].seq = call[q].seq
    BY <1>5 DEF RegisterConnectionLost, TypeOK, StoreCalls
<1>6. ASSUME NEW d \in Datastores, DatastoreCrash(d) PROVE call'[q].seq = call[q].seq
    BY <1>6 DEF DatastoreCrash, TypeOK, StoreCalls
<1>7. ASSUME MetadataCrash PROVE call'[q].seq = call[q].seq
    BY <1>7 DEF MetadataCrash
<1> QED BY <1>1, <1>2, <1>3, <1>4, <1>5, <1>6, <1>7, CallSteps

\* What is indexed of a request stays the segments it has sent: entries are
\* added by the call it waits for, before the request moves on.
LEMMA IndexIsCurrentStep ==
    ASSUME TypeOK, [Next]_vars,
           \A r \in Requests : CallIsCurrent(r) /\ IndexIsCurrent(r),
           NEW q \in Requests
    PROVE  IndexIsCurrent(q)'
<1> USE DEF IndexIsCurrent, File
<1>0. \A e \in index : e.file = <<e.file[1], e.file[2]>> /\ e.file[2] \in 1 .. FilesPerRequest
    BY DEF TypeOK, Index, FileIds
<1>1. CASE UNCHANGED handlerVars
    <2>1. call'[q].seq = call[q].seq
        BY <1>1, SegmentKept
    <2>2. CASE index' = index
        BY <1>1, <2>1, <2>2 DEF handlerVars
    <2>3. ASSUME NEW r \in Requests, ZAdd(r), index' = index \cup {EntryOf(r)}
          PROVE  IndexIsCurrent(q)'
        <3>1. /\ EntryOf(r).file = <<r, current[r]>> /\ EntryOf(r).seq = call[r].seq
              /\ pc[r] \in {"waiting", "failed"}
            BY <2>3 DEF ZAdd, EntryOf, CallIsCurrent, InProgress
        <3>2. current[q] \in Nat
            BY DEF TypeOK
        <3> QED BY <1>1, <2>1, <2>3, <3>1, <3>2 DEF handlerVars
    <2> QED BY <2>2, <2>3, IndexGrows
<1>2. ASSUME NEW r \in Requests, Accept(r) \/ UploadStep(r) \/ StoreConnectionLost(r)
      PROVE  IndexIsCurrent(q)'
    <2>1. CASE Accept(r) \/ SaveAndSplit(r) \/ GetIpListFails(r) \/ ConnectTimesOut(r)
               \/ StoreRaises(r) \/ StoreConnectionLost(r)
        BY <2>1 DEF Accept, SaveAndSplit, GetIpListFails, ConnectTimesOut, StoreRaises,
                    StoreConnectionLost, TypeOK, redisVars
    <2>2. CASE GetIpList(r)
        BY <2>2, <1>0 DEF GetIpList, TypeOK, redisVars
    <2>3. CASE SendSegment(r)
        <3>1. UNCHANGED <<current, pending, index>> /\ pc[r] = "sending"
            BY <2>3 DEF SendSegment, redisVars
        <3> QED BY <2>3, <3>1, SendEffect
    <2>4. CASE StoreReturns(r)
        BY <2>4 DEF StoreReturns, TypeOK, redisVars
    <2>5. CASE FinishFile(r)
        <3>1. /\ UNCHANGED <<pending, index, call>>
              /\ pc'[r] \in {"saving", "done"} /\ current'[r] >= current[r]
              /\ pc'[r] = "saving" => current'[r] > current[r]
              /\ \A p \in Requests \ {r} : pc'[p] = pc[p] /\ current'[p] = current[p]
            BY <2>5 DEF FinishFile, TypeOK, redisVars
        <3>2. current[r] \in Nat /\ current'[r] \in Nat
            BY NextType DEF TypeOK
        <3> QED BY <1>0, <3>1, <3>2
    <2> QED BY <1>2, <2>1, <2>2, <2>3, <2>4, <2>5 DEF UploadStep
<1>3. ASSUME HandlerCrash PROVE IndexIsCurrent(q)'
    BY <1>3 DEF HandlerCrash, Running, TypeOK, redisVars
<1> QED BY <1>1, <1>2, <1>3, HandlerSteps

\* An acknowledged call has put its segment where a download finds it.
LEMMA AcknowledgedIsReadable ==
    ASSUME NEW r \in Requests, CallIsRegistered(r), call[r].stage = "ok"
    PROVE  CanRead(call[r].file, call[r].seq)
BY DEF CallIsRegistered, CanRead, RowOf, EntryOf, HashOf

\* A segment leaves pending, and a file the loop, only when a download would
\* find it, and what a download finds stays.
LEMMA SentIsReadableStep ==
    ASSUME TypeOK, [Next]_vars,
           \A r \in Requests :
              CallIsRegistered(r) /\ CallIsCurrent(r) /\ SentIsReadable(r),
           NEW q \in Requests
    PROVE  SentIsReadable(q)'
<1> USE DEF SentIsReadable, Sent, File
<1>0. \A f, s : CanRead(f, s) => CanRead(f, s)'
    BY ReadableForever
<1>1. CASE UNCHANGED handlerVars
    BY <1>0, <1>1 DEF handlerVars, Parts
<1>2. ASSUME NEW r \in Requests, Accept(r) \/ UploadStep(r) \/ StoreConnectionLost(r)
      PROVE  SentIsReadable(q)'
    <2>1. CASE Accept(r) \/ GetIpListFails(r) \/ ConnectTimesOut(r)
               \/ StoreRaises(r) \/ StoreConnectionLost(r)
        BY <2>1, <1>0 DEF Accept, GetIpListFails, ConnectTimesOut, StoreRaises,
                    StoreConnectionLost, TypeOK, Parts
    <2>2. CASE SaveAndSplit(r)
        <3>1. ASSUME NEW k \in 1 .. FilesPerRequest, Sent(q, k)
              PROVE  <<q, k>> # File(r)
            BY <2>2, <3>1 DEF SaveAndSplit, TypeOK
        <3>2. ASSUME NEW k \in 1 .. FilesPerRequest, Sent(q, k)
              PROVE  Parts(<<q, k>>) \cap Parts(File(r)) = {}
            BY <3>1, <3>2 DEF Parts
        <3>3. /\ UNCHANGED <<current, pending>> /\ local' = local \cup Parts(File(r))
              /\ pc'[r] = "saved" /\ pc[r] = "saving"
              /\ \A p \in Requests \ {r} : pc'[p] = pc[p]
            BY <2>2 DEF SaveAndSplit, TypeOK
        <3>4. \A k : Sent(q, k)' <=> Sent(q, k)
            BY <3>3
        <3>5. \A k : Parts(<<q, k>>)' = Parts(<<q, k>>)
            BY DEF Parts
        <3> HIDE DEF File, Sent
        <3>6. \A k \in 1 .. FilesPerRequest : Sent(q, k)' =>
                /\ \A s \in Segments : CanRead(<<q, k>>, s)'
                /\ (local \cap Parts(<<q, k>>) = {})'
            BY <1>0, <3>2, <3>3, <3>4, <3>5
        <3> USE DEF File, Sent
        <3> QED BY <1>0, <3>3, <3>6 DEF Segments
    <2>3. CASE GetIpList(r)
        <3>1. /\ UNCHANGED <<current, local>> /\ pc[r] = "saved" /\ pc'[r] = "sending"
              /\ pending'[r] = Segments
              /\ \A p \in Requests \ {r} : pc'[p] = pc[p] /\ pending'[p] = pending[p]
            BY <2>3 DEF GetIpList, TypeOK
        <3> QED BY <1>0, <3>1 DEF Parts
    <2>4. CASE SendSegment(r)
        <3>1. UNCHANGED <<current, pending, local>> /\ pc[r] = "sending"
            BY <2>4 DEF SendSegment
        <3> QED BY <2>4, <3>1, <1>0, SendEffect DEF Parts
    <2>5. CASE StoreReturns(r)
        <3>1. CanRead(File(r), call[r].seq)
            BY <2>5, AcknowledgedIsReadable DEF StoreReturns, CallIsCurrent
        <3>2. /\ pc[r] = "waiting" /\ pc'[r] = "sending" /\ UNCHANGED <<current, local>>
              /\ pending'[r] = pending[r] \ {call[r].seq}
              /\ \A p \in Requests \ {r} : pc'[p] = pc[p] /\ pending'[p] = pending[p]
            BY <2>5 DEF StoreReturns, TypeOK
        <3>3. CASE q = r
            <4>1. \A s \in Segments \ pending'[r] : CanRead(File(r), s)'
                BY <1>0, <3>1, <3>2
            <4> QED BY <1>0, <3>2, <3>3, <4>1 DEF Parts, Segments
        <3>4. CASE q # r
            BY <1>0, <3>2, <3>4 DEF Parts, Segments
        <3> QED BY <3>3, <3>4
    <2>6. CASE FinishFile(r)
        <3>1. \A s \in Segments : CanRead(File(r), s)
            BY <2>6 DEF FinishFile
        <3>2. CASE q = r
            <4>1. current[r] \in Nat /\ FilesPerRequest \in Nat
                BY UploadAssumption DEF TypeOK
            <4>2. /\ pc'[r] \in {"saving", "done"} /\ local' = local \ Parts(File(r))
                  /\ pc'[r] = "done" => /\ current[r] = FilesPerRequest
                                        /\ current'[r] = current[r]
                  /\ pc'[r] = "saving" => current'[r] = current[r] + 1
                BY <2>6 DEF FinishFile, TypeOK
            <4>3. ASSUME NEW k \in 1 .. FilesPerRequest, Sent(r, k)'
                  PROVE  k < current[r] \/ k = current[r]
                BY <4>1, <4>2, <4>3
            <4>4. ASSUME NEW k \in 1 .. FilesPerRequest, Sent(r, k)'
                  PROVE  /\ \A s \in Segments : CanRead(<<r, k>>, s)'
                         /\ (local \cap Parts(<<r, k>>) = {})'
                BY <1>0, <3>1, <4>2, <4>3, <4>4 DEF Parts
            <4> QED BY <3>2, <4>2, <4>4
        <3>3. CASE q # r
            BY <2>6, <3>3, <1>0 DEF FinishFile, TypeOK, Parts
        <3> QED BY <3>2, <3>3
    <2> QED BY <1>2, <2>1, <2>2, <2>3, <2>4, <2>5, <2>6 DEF UploadStep
<1>3. ASSUME HandlerCrash PROVE SentIsReadable(q)'
    BY <1>3, <1>0 DEF HandlerCrash, Running, TypeOK, Parts
<1> QED BY <1>1, <1>2, <1>3, HandlerSteps

\* Redis learns of a chunk only from the call it was made for.
LEMMA ChunkIsFreshStep ==
    ASSUME TypeOK, [Next]_vars,
           \A r \in Requests : CallIsCurrent(r) /\ ChunkIsFresh(r),
           NEW q \in Requests
    PROVE  ChunkIsFresh(q)'
<1> USE DEF ChunkIsFresh, Chunk, handlerVars, redisVars, serviceVars
<1>0. /\ \A e \in index : e.chunk = <<e.chunk[1], e.chunk[2]>> /\ e.chunk[2] \in Nat
      /\ \A h \in meta : h.chunk = <<h.chunk[1], h.chunk[2]>> /\ h.chunk[2] \in Nat
      /\ \A r \in Requests : call[r].n \in Nat
    BY DEF TypeOK, Index, Meta, ChunkIds, StoreCalls
<1>1. CASE UNCHANGED callVars
    BY <1>1 DEF callVars
<1>2. ASSUME NEW r \in Requests, SendSegment(r) PROVE ChunkIsFresh(q)'
    <2>1. UNCHANGED <<index, meta>>
        BY <1>2 DEF SendSegment
    <2>2. /\ \A e \in index : e.chunk[1] = r => e.chunk[2] < call'[r].n
          /\ \A h \in meta : h.chunk[1] = r => h.chunk[2] < call'[r].n
        BY <1>0, <1>2, SendEffect
    <2>3. call'[r].n \in Nat
        BY <1>0, <1>2, SendEffect
    <2>4. CASE q = r
        BY <1>0, <2>1, <2>2, <2>3, <2>4
    <2>5. CASE q # r
        BY <1>2, <2>1, <2>5, SendEffect
    <2> QED BY <2>4, <2>5
<1>3. ASSUME NEW r \in Requests, StoreStep(r) PROVE ChunkIsFresh(q)'
    <2>1. CASE InsertChunk(r)
        <3>1. reg[r] = "none"
            BY <2>1 DEF InsertChunk, CallIsCurrent
        <3> QED BY <2>1, <3>1 DEF InsertChunk, TypeOK, StoreCalls
    <2>2. CASE StoreRejects(r)
        BY <2>2 DEF StoreRejects, TypeOK, StoreCalls
    <2>3. CASE RegisterReturns(r)
        BY <2>3 DEF RegisterReturns, TypeOK, StoreCalls
    <2>4. CASE RegisterRaises(r)
        BY <2>4 DEF RegisterRaises, TypeOK, StoreCalls
    <2> QED BY <1>3, <2>1, <2>2, <2>3, <2>4 DEF StoreStep
<1>4. ASSUME NEW r \in Requests, RegisterStep(r) PROVE ChunkIsFresh(q)'
    <2>1. CASE ZAdd(r)
        BY <1>0, <2>1 DEF ZAdd, EntryOf, TypeOK
    <2>2. CASE HSet(r)
        BY <1>0, <2>2 DEF HSet, HashOf, TypeOK
    <2>3. CASE RedisFails(r)
        BY <2>3 DEF RedisFails, TypeOK
    <2> QED BY <1>4, <2>1, <2>2, <2>3 DEF RegisterStep
<1>5. ASSUME NEW r \in Requests, RegisterConnectionLost(r) PROVE ChunkIsFresh(q)'
    BY <1>5 DEF RegisterConnectionLost, TypeOK, StoreCalls
<1>6. ASSUME NEW d \in Datastores, DatastoreCrash(d) PROVE ChunkIsFresh(q)'
    BY <1>6 DEF DatastoreCrash, TypeOK, StoreCalls
<1>7. ASSUME MetadataCrash PROVE ChunkIsFresh(q)'
    BY <1>7 DEF MetadataCrash, TypeOK
<1> QED BY <1>1, <1>2, <1>3, <1>4, <1>5, <1>6, <1>7, CallSteps

\* A call inserts its row once, under an id that no call had before.
LEMMA RowIsFreshStep ==
    ASSUME TypeOK, [Next]_vars, \A r \in Requests : RowIsFresh(r), OneRowPerChunk
    PROVE  OneRowPerChunk' /\ \A r \in Requests : RowIsFresh(r)'
<1> USE DEF RowIsFresh, OneRowPerChunk, Chunk, handlerVars, redisVars, serviceVars
<1>0. /\ \A x \in rows : /\ x.chunk = <<x.chunk[1], x.chunk[2]>>
                         /\ x.chunk[1] \in Requests /\ x.chunk[2] \in Nat
      /\ \A r \in Requests : call[r].n \in Nat
    BY DEF TypeOK, Rows, ChunkIds, StoreCalls
<1>1. CASE UNCHANGED callVars
    BY <1>1 DEF callVars
<1>2. ASSUME NEW r \in Requests, SendSegment(r)
      PROVE  OneRowPerChunk' /\ \A q \in Requests : RowIsFresh(q)'
    <2>1. rows' = rows
        BY <1>2 DEF SendSegment
    <2>2. \A x \in rows : x.chunk[1] = r =>
              x.chunk[2] <= call'[r].n /\ x.chunk # <<r, call'[r].n>>
        BY <1>0, <1>2, SendEffect
    <2>3. ASSUME NEW q \in Requests PROVE RowIsFresh(q)'
        BY <1>0, <1>2, <2>1, <2>2, SendEffect
    <2> QED BY <2>1, <2>3
<1>3. ASSUME NEW r \in Requests, InsertChunk(r)
      PROVE  OneRowPerChunk' /\ \A q \in Requests : RowIsFresh(q)'
    <2>1. /\ rows' = rows \cup {RowOf(r)} /\ RowOf(r).chunk = <<r, call[r].n>>
          /\ call[r].stage = "received"
        BY <1>3 DEF InsertChunk, RowOf
    <2>2. \A q \in Requests : call'[q].n = call[q].n
        BY <1>3 DEF InsertChunk, TypeOK, StoreCalls
    <2>3. call'[r].stage # "received" /\ \A q \in Requests \ {r} : call'[q] = call[q]
        BY <1>3 DEF InsertChunk, TypeOK, StoreCalls
    <2>4. \A x \in rows : x.chunk # RowOf(r).chunk
        BY <2>1
    <2>5. OneRowPerChunk'
        BY <2>1, <2>4
    <2>6. ASSUME NEW q \in Requests, NEW x \in rows', x.chunk[1] = q
          PROVE  x.chunk[2] <= call'[q].n /\ (x.chunk = <<q, call'[q].n>> => call'[q].stage # "received")
        <3>1. CASE x \in rows
            BY <2>2, <2>3, <2>6, <3>1
        <3>2. CASE x = RowOf(r)
            BY <1>0, <2>1, <2>2, <2>3, <2>6, <3>2
        <3> QED BY <2>1, <2>6, <3>1, <3>2
    <2> QED BY <2>5, <2>6
<1>4. ASSUME \/ \E r \in Requests : \/ StoreStep(r) /\ ~InsertChunk(r)
                                    \/ RegisterStep(r)
                                    \/ RegisterConnectionLost(r)
             \/ \E d \in Datastores : DatastoreCrash(d)
             \/ MetadataCrash
      PROVE  OneRowPerChunk' /\ \A q \in Requests : RowIsFresh(q)'
    <2>1. rows' = rows
        BY <1>4 DEF StoreStep, StoreRejects, RegisterReturns, RegisterRaises, RegisterStep,
           ZAdd, HSet, RedisFails, RegisterConnectionLost, DatastoreCrash, MetadataCrash
    <2>2. ASSUME NEW q \in Requests
          PROVE  /\ call'[q].n = call[q].n
                 /\ call'[q].stage = "received" => call[q].stage = "received"
        <3>1. ASSUME NEW r \in Requests, StoreRejects(r) \/ RegisterReturns(r) \/ RegisterRaises(r)
                                             \/ RegisterConnectionLost(r)
              PROVE  /\ call'[q].n = call[q].n
                     /\ call'[q].stage = "received" => call[q].stage = "received"
            <4>1. call' = [call EXCEPT ![r].stage = "ok"] \/ call' = [call EXCEPT ![r].stage = "error"]
                BY <3>1 DEF StoreRejects, RegisterReturns, RegisterRaises,
                   RegisterConnectionLost
            <4>2. call'[q].n = call[q].n /\ call'[q].stage \in {call[q].stage, "ok", "error"}
                <5>1. CASE q = r
                    BY <4>1, <5>1 DEF TypeOK, StoreCalls
                <5>2. CASE q # r
                    BY <4>1, <5>2 DEF TypeOK
                <5> QED BY <5>1, <5>2
            <4> QED BY <4>2
        <3>2. ASSUME NEW r \in Requests, RegisterStep(r) PROVE call' = call
            BY <3>2 DEF RegisterStep, ZAdd, HSet, RedisFails
        <3>3. ASSUME NEW d \in Datastores, DatastoreCrash(d)
              PROVE  /\ call'[q].n = call[q].n
                     /\ call'[q].stage = "received" => call[q].stage = "received"
            BY <3>3 DEF DatastoreCrash, TypeOK, StoreCalls
        <3>4. ASSUME MetadataCrash PROVE call' = call
            BY <3>4 DEF MetadataCrash
        <3> QED BY <1>4, <3>1, <3>2, <3>3, <3>4 DEF StoreStep
    <2> QED BY <2>1, <2>2
<1> QED BY <1>1, <1>2, <1>3, <1>4, CallSteps

\* The description of a chunk is written after its row, and only of a chunk
\* that passed its hash check.
LEMMA DescribedStep ==
    ASSUME TypeOK, [Next]_vars, \A r \in Requests : CallIsRegistered(r),
           DescribedChunksIntact
    PROVE  DescribedChunksIntact'
<1>1. meta' = meta \/ \E r \in Requests : HSet(r)
    BY CallSteps DEF callVars, SendSegment, StoreStep, StoreRejects, InsertChunk,
       RegisterReturns, RegisterRaises, RegisterStep, ZAdd, RedisFails,
       RegisterConnectionLost, DatastoreCrash, MetadataCrash, handlerVars, redisVars,
       serviceVars
<1>2. CASE meta' = meta
    BY <1>2, NothingDeleted DEF DescribedChunksIntact
<1>3. ASSUME NEW r \in Requests, HSet(r) PROVE DescribedChunksIntact'
    <2>1. /\ RowOf(r) \in rows /\ RowOf(r).chunk = HashOf(r).chunk
          /\ RowOf(r).ds = HashOf(r).ds /\ RowOf(r).seq = HashOf(r).seq
          /\ RowOf(r).intact
        BY <1>3 DEF HSet, CallIsRegistered, RowOf, HashOf
    <2>2. meta' = meta \cup {HashOf(r)}
        BY <1>3 DEF HSet
    <2> QED BY <2>1, <2>2, NothingDeleted DEF DescribedChunksIntact
<1> QED BY <1>1, <1>2, <1>3

\* ZADD adds an entry of a segment that has none yet.
LEMMA OneChunkStep ==
    ASSUME TypeOK, [Next]_vars, \A r \in Requests : NotIndexedYet(r), OneChunkPerSegment
    PROVE  OneChunkPerSegment'
<1>1. CASE index' = index
    BY <1>1 DEF OneChunkPerSegment
<1>2. ASSUME NEW r \in Requests, ZAdd(r), index' = index \cup {EntryOf(r)}
      PROVE  OneChunkPerSegment'
    <2>1. \A e \in index : ~(e.file = EntryOf(r).file /\ e.seq = EntryOf(r).seq)
        BY <1>2 DEF ZAdd, NotIndexedYet, EntryOf
    <2> QED BY <1>2, <2>1 DEF OneChunkPerSegment
<1> QED BY <1>1, <1>2, IndexGrows

\* Ids are handed out by the last step of a request, which never moves again.
LEMMA AckedIsDoneStep ==
    ASSUME TypeOK, [Next]_vars, AckedIsDone
    PROVE  AckedIsDone'
<1> USE DEF AckedIsDone
<1>0. \A f \in acked : f[1] \in Requests
    BY DEF TypeOK, FileIds
<1>1. CASE UNCHANGED handlerVars
    BY <1>1 DEF handlerVars
<1>2. ASSUME NEW r \in Requests, Accept(r) \/ UploadStep(r) \/ StoreConnectionLost(r)
      PROVE  AckedIsDone'
    BY <1>0, <1>2 DEF Accept, UploadStep, SaveAndSplit, GetIpList, GetIpListFails,
       SendSegment, ConnectTimesOut, StoreReturns, StoreRaises, FinishFile, FilesOf,
       StoreConnectionLost, TypeOK
<1>3. ASSUME HandlerCrash PROVE AckedIsDone'
    BY <1>0, <1>3 DEF HandlerCrash, Running, TypeOK
<1> QED BY <1>1, <1>2, <1>3, HandlerSteps

\* The inductive invariant holds initially.
LEMMA InitInvariant == Init => IInv
<1> SUFFICES ASSUME Init PROVE IInv
    OBVIOUS
<1>1. \A r \in Requests : CallIsRegistered(r) /\ CallIsCurrent(r) /\ NotIndexedYet(r)
                          /\ IndexIsCurrent(r) /\ SentIsReadable(r)
                          /\ ChunkIsFresh(r) /\ RowIsFresh(r)
    BY UploadAssumption DEF Init, CallIsRegistered, CallIsCurrent, InProgress,
       NotIndexedYet, IndexIsCurrent, SentIsReadable, Sent, File,
       ChunkIsFresh, RowIsFresh
<1>2. DescribedChunksIntact /\ OneRowPerChunk /\ OneChunkPerSegment /\ AckedIsDone
    BY DEF Init, DescribedChunksIntact, OneRowPerChunk, OneChunkPerSegment, AckedIsDone
<1> QED BY <1>1, <1>2, InitType DEF IInv

\* Every step keeps the inductive invariant.
LEMMA NextInvariant == IInv /\ [Next]_vars => IInv'
<1> SUFFICES ASSUME IInv, [Next]_vars PROVE IInv'
    OBVIOUS
<1>1. TypeOK'
    BY NextType DEF IInv
<1>2. ASSUME NEW q \in Requests
      PROVE  /\ CallIsRegistered(q)' /\ CallIsCurrent(q)' /\ NotIndexedYet(q)'
             /\ IndexIsCurrent(q)' /\ SentIsReadable(q)' /\ ChunkIsFresh(q)'
             /\ RowIsFresh(q)'
    BY CallIsRegisteredStep, CallIsCurrentStep, NotIndexedYetStep, IndexIsCurrentStep,
       SentIsReadableStep, ChunkIsFreshStep, RowIsFreshStep DEF IInv
<1>3. DescribedChunksIntact' /\ OneRowPerChunk' /\ OneChunkPerSegment' /\ AckedIsDone'
    BY DescribedStep, RowIsFreshStep, OneChunkStep, AckedIsDoneStep DEF IInv
<1> QED BY <1>1, <1>2, <1>3 DEF IInv

\* The inductive invariant always holds.
THEOREM Invariant == Spec => []IInv
<1> QED BY InitInvariant, NextInvariant, PTL DEF Spec

-----------------------------------------------------------------------------
(* The properties of ChunkedUpload, for any number of requests, files,     *)
(* segments and datastores.                                                *)

\* The segments of a file that was acknowledged can be read.
LEMMA AckedCanRead ==
    ASSUME IInv, NEW f \in acked
    PROVE  \A s \in Segments : CanRead(f, s)
<1>1. f = <<f[1], f[2]>> /\ f[1] \in Requests /\ f[2] \in 1 .. FilesPerRequest
    BY DEF IInv, TypeOK, FileIds
<1>2. \A s \in Segments : CanRead(<<f[1], f[2]>>, s)
    BY <1>1 DEF IInv, AckedIsDone, SentIsReadable, Sent
<1> QED BY <1>1, <1>2

\* Every file id given to a client can be downloaded in full.
THEOREM AckedReadable == Spec => []AckedFilesReadable
<1>1. IInv => AckedFilesReadable
    BY AckedCanRead DEF IInv, TypeOK, AckedFilesReadable, readable
<1> QED BY <1>1, Invariant, PTL

\* What has been described is held intact.
THEOREM DescribedIntact == Spec => []DescribedChunksIntact
<1>1. IInv => DescribedChunksIntact
    BY DEF IInv
<1> QED BY <1>1, Invariant, PTL

\* No segment is indexed twice.
THEOREM OneChunk == Spec => []OneChunkPerSegment
<1>1. IInv => OneChunkPerSegment
    BY DEF IInv
<1> QED BY <1>1, Invariant, PTL

\* A successful upload leaves nothing on the handler's disk.
THEOREM AckedCleaned == Spec => []AckedFilesCleaned
<1>1. IInv => AckedFilesCleaned
    <2> SUFFICES ASSUME IInv, NEW f \in acked PROVE local \cap Parts(f) = {}
        BY DEF AckedFilesCleaned
    <2>1. /\ f = <<f[1], f[2]>>
          /\ f[1] \in Requests /\ f[2] \in 1 .. FilesPerRequest
        BY DEF IInv, TypeOK, FileIds
    <2> QED BY <2>1 DEF IInv, AckedIsDone, SentIsReadable, Sent
<1> QED BY <1>1, Invariant, PTL

\* An id that was given to a client stays given.
LEMMA AckedForever == ASSUME [Next]_vars PROVE acked \subseteq acked'
BY HandlerSteps DEF handlerVars, Accept, UploadStep, SaveAndSplit, GetIpList,
   GetIpListFails, SendSegment, ConnectTimesOut, StoreReturns, StoreRaises, FinishFile,
   StoreConnectionLost, HandlerCrash

\* No call that is still running touches a file that was acknowledged.
THEOREM AckedFinal == Spec => AckedFilesFinal
<1>1. ASSUME IInv, [Next]_vars, NEW f \in acked
      PROVE  f \in acked' /\ IndexOf(f)' = IndexOf(f)
    <2>1. f \in acked'
        BY <1>1, AckedForever
    <2>2. CASE index' = index
        BY <2>1, <2>2 DEF IndexOf
    <2>3. ASSUME NEW r \in Requests, ZAdd(r), index' = index \cup {EntryOf(r)}
          PROVE  IndexOf(f)' = IndexOf(f)
        <3>1. EntryOf(r).file = File(r) /\ pc[r] # "done"
            BY <1>1, <2>3 DEF IInv, ZAdd, CallIsCurrent, InProgress, EntryOf
        <3>2. EntryOf(r).file # f
            BY <1>1, <3>1 DEF IInv, AckedIsDone, File
        <3> QED BY <2>3, <3>2 DEF IndexOf
    <2> QED BY <1>1, <2>1, <2>2, <2>3, IndexGrows
<1>2. IInv /\ [Next]_vars =>
        [\A f \in acked : f \in acked' /\ IndexOf(f)' = IndexOf(f)]_vars
    BY <1>1
<1> QED BY <1>2, Invariant, PTL DEF Spec, AckedFilesFinal

-----------------------------------------------------------------------------
(* The refinement: HSET is the step that stages a segment, the last        *)
(* FinishFile publishes the files of its request, the rest is invisible.   *)

\* A segment becomes readable only by the HSET of a call for it.
LEMMA ReadableChanges ==
    ASSUME IInv, [Next]_vars, NEW f \in FileIds, NEW s \in Segments,
           CanRead(f, s)', ~CanRead(f, s)
    PROVE  \E r \in Requests : HSet(r) /\ f = call[r].file /\ s = call[r].seq
<1>1. PICK e \in index', h \in meta', x \in rows' :
        /\ e.file = f /\ e.seq = s /\ h.chunk = e.chunk /\ x.chunk = e.chunk
        /\ x.ds = h.ds /\ x.file = f /\ x.seq = s /\ x.intact
    BY DEF CanRead
<1>2. ~(e \in index /\ h \in meta /\ x \in rows)
    BY <1>1 DEF CanRead
<1>3. CASE UNCHANGED <<rows, index, meta>>
    BY <1>1, <1>2, <1>3
<1>4. ASSUME NEW r \in Requests, InsertChunk(r) PROVE FALSE
    <2>1. /\ rows' = rows \cup {RowOf(r)} /\ UNCHANGED <<index, meta>>
          /\ reg[r] = "none"
        BY <1>4 DEF InsertChunk, IInv, CallIsCurrent, redisVars
    <2>2. h.chunk = Chunk(r) /\ h.chunk[1] = r /\ h \in meta
        BY <1>1, <1>2, <2>1 DEF RowOf, Chunk
    <2> QED BY <2>1, <2>2 DEF IInv, ChunkIsFresh
<1>5. ASSUME NEW r \in Requests, ZAdd(r) PROVE FALSE
    <2>1. /\ index' = index \cup {EntryOf(r)} /\ UNCHANGED <<rows, meta>>
          /\ reg[r] = "called"
        BY <1>5 DEF ZAdd
    <2>2. h.chunk = Chunk(r) /\ h.chunk[1] = r /\ h \in meta
        BY <1>1, <1>2, <2>1 DEF EntryOf, Chunk
    <2> QED BY <2>1, <2>2 DEF IInv, ChunkIsFresh
<1>6. ASSUME NEW r \in Requests, HSet(r)
      PROVE  f = call[r].file /\ s = call[r].seq
    <2>1. meta' = meta \cup {HashOf(r)} /\ UNCHANGED <<rows, index>>
        BY <1>6 DEF HSet
    <2>2. e.chunk = Chunk(r) /\ e.chunk[1] = r /\ e \in index
        BY <1>1, <1>2, <2>1 DEF HashOf, Chunk
    <2> QED BY <1>1, <2>2 DEF IInv, ChunkIsFresh
<1>7. \/ UNCHANGED <<rows, index, meta>>
      \/ \E r \in Requests : InsertChunk(r) \/ ZAdd(r) \/ HSet(r)
    BY CallSteps DEF callVars, SendSegment, StoreStep, StoreRejects, RegisterReturns,
       RegisterRaises, RegisterStep, RedisFails, RegisterConnectionLost,
       DatastoreCrash, MetadataCrash, handlerVars, redisVars, serviceVars
<1> QED BY <1>3, <1>4, <1>5, <1>6, <1>7

\* HSET stages the segment of its call, of a file nobody knows yet.
LEMMA HSetStages ==
    ASSUME IInv, [Next]_vars, NEW r \in Requests, HSet(r)
    PROVE  [Objects!Next]_(Objects!objectVars)
<1>1. PICK g \in FileIds, t \in Segments : g = call[r].file /\ t = call[r].seq
    BY DEF IInv, TypeOK, StoreCalls
<1>2. g \notin acked /\ acked' = acked
    <2>1. g = <<r, current[r]>> /\ pc[r] # "done"
        BY <1>1 DEF HSet, IInv, CallIsCurrent, InProgress, File
    <2> QED BY <2>1 DEF HSet, IInv, AckedIsDone, handlerVars
<1>3. ASSUME NEW f \in FileIds, NEW s \in Segments
      PROVE  CanRead(f, s)' <=> CanRead(f, s) \/ (f = g /\ s = t /\ CanRead(g, t)')
    <2>1. ASSUME CanRead(f, s)', ~CanRead(f, s) PROVE f = g /\ s = t
        <3>1. PICK q \in Requests : HSet(q) /\ f = call[q].file /\ s = call[q].seq
            BY <2>1, ReadableChanges
        <3>2. reg[r] = "zadded" /\ reg'[r] # "zadded"
            BY DEF HSet, IInv, TypeOK
        <3>3. q # r => reg'[r] = reg[r]
            BY <3>1 DEF HSet, IInv, TypeOK
        <3> QED BY <1>1, <3>1, <3>2, <3>3
    <2> QED BY <2>1, ReadableForever
<1>4. CASE CanRead(g, t)'
    <2>1. readable' = [readable EXCEPT ![g] = @ \cup {t}]
        <3>1. {x \in Segments : CanRead(g, x)'} = {x \in Segments : CanRead(g, x)} \cup {t}
            BY <1>1, <1>3, <1>4
        <3>2. ASSUME NEW f \in FileIds, f # g
              PROVE  {x \in Segments : CanRead(f, x)'} = {x \in Segments : CanRead(f, x)}
            BY <1>3, <3>2
        <3> QED BY <1>1, <3>1, <3>2 DEF readable
    <2> QED BY <1>1, <1>2, <2>1 DEF Objects!Next, Objects!Stage
<1>5. CASE ~CanRead(g, t)'
    <2>1. readable' = readable
        BY <1>3, <1>5 DEF readable
    <2> QED BY <1>2, <2>1 DEF Objects!objectVars
<1> QED BY <1>4, <1>5

\* FinishFile of a request's last file publishes complete files.
LEMMA FinishPublishes ==
    ASSUME IInv, [Next]_vars, NEW r \in Requests, FinishFile(r)
    PROVE  [Objects!Next]_(Objects!objectVars)
<1>1. readable' = readable
    <2>1. UNCHANGED <<rows, index, meta>>
        BY DEF FinishFile, redisVars
    <2>2. \A f \in FileIds, s \in Segments : CanRead(f, s)' <=> CanRead(f, s)
        BY <2>1 DEF CanRead
    <2> QED BY <2>2 DEF readable
<1>2. CASE acked' = acked
    BY <1>1, <1>2 DEF Objects!objectVars
<1>3. CASE acked' # acked
    <2>1. /\ acked' = acked \cup FilesOf(r) /\ current[r] = FilesPerRequest
          /\ pc[r] = "sending" /\ pending[r] = {}
        BY <1>3 DEF FinishFile
    <2>2. FilesOf(r) \subseteq FileIds
        BY DEF FilesOf, FileIds
    <2>3. ASSUME NEW f \in FilesOf(r) PROVE readable[f] = Segments
        <3>1. /\ f \in FileIds /\ f = <<r, f[2]>> /\ f[2] \in 1 .. FilesPerRequest
            BY DEF FilesOf, FileIds
        <3>2. f[2] < current[r] \/ f = File(r)
            BY <2>1, <3>1, UploadAssumption DEF File
        <3>3. \A s \in Segments : CanRead(f, s)
            BY <2>1, <3>1, <3>2 DEF IInv, SentIsReadable, Sent
        <3> QED BY <3>1, <3>3 DEF readable
    <2> QED BY <1>1, <2>1, <2>2, <2>3 DEF Objects!Next, Objects!Publish
<1> QED BY <1>2, <1>3

\* The upload path implements the object store.
THEOREM ImplementsStore == Spec => ImplementsObjectStore
<1>1. Init => Objects!Init
    <2> SUFFICES ASSUME Init PROVE Objects!Init
        OBVIOUS
    <2>1. \A f, s : ~CanRead(f, s)
        BY DEF Init, CanRead
    <2> QED BY <2>1 DEF Init, Objects!Init, readable
<1>2. IInv /\ [Next]_vars => [Objects!Next]_(Objects!objectVars)
    <2> SUFFICES ASSUME IInv, [Next]_vars PROVE [Objects!Next]_(Objects!objectVars)
        OBVIOUS
    <2>1. CASE \E r \in Requests : HSet(r)
        BY <2>1, HSetStages
    <2>2. CASE \E r \in Requests : FinishFile(r)
        BY <2>2, FinishPublishes
    <2>3. CASE ~(\E r \in Requests : HSet(r) \/ FinishFile(r))
        <3>1. \A f \in FileIds, s \in Segments : CanRead(f, s)' <=> CanRead(f, s)
            BY <2>3, ReadableChanges, ReadableForever
        <3>2. readable' = readable
            BY <3>1 DEF readable
        <3>3. acked' = acked
            BY <2>3, HandlerSteps DEF handlerVars, Accept, UploadStep, SaveAndSplit,
               GetIpList, GetIpListFails, SendSegment, ConnectTimesOut, StoreReturns,
               StoreRaises, StoreConnectionLost, HandlerCrash
        <3> QED BY <3>2, <3>3 DEF Objects!objectVars
    <2> QED BY <2>1, <2>2, <2>3
<1> QED BY <1>1, <1>2, Invariant, PTL DEF Spec, ImplementsObjectStore, Objects!Spec

==============================================================================
