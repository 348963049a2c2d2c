------------------------------- MODULE FileStore -------------------------------
(***************************************************************************)
(* The whole store: ChunkedUpload, and downloads that are served, by the   *)
(* file handler that serves the uploads, from what redis and the           *)
(* datastores then hold.  FileDownload takes it that the locations of a    *)
(* file come one for each segment, in order, and that the bytes fetched    *)
(* are those of the segment; here they are whatever is found.              *)
(*                                                                         *)
(* A datastore's database is a file in its container, so it outlives the   *)
(* process and not the container, which may be created anew.               *)
(***************************************************************************)
EXTENDS ChunkedUpload

CONSTANTS
    Downloads,   \* HTTP download requests
    Overlapping  \* whether clients download one file several times at once

ASSUME StoreAssumption == Requests # {} /\ Overlapping \in BOOLEAN

VARIABLES
    dpc,        \* where download_file stands for each request
    file,       \* the file it was asked for
    locations,  \* the answer of the metadata service
    next,       \* the location, or the segment, it comes to next
    aligned,    \* every segment it copied so far had its full length
    segment,    \* file_segments/<f>_segment_<i>.dat
    output,     \* the segments in files_inbound/<f>.<ext>, by position
    delivered,  \* the body of the answer with status 200
    lost        \* rows that went with containers created anew

uploadVars   == vars
downloadVars == <<dpc, file, next, aligned, segment, output, delivered>>
D == INSTANCE FileDownload WITH pc <- dpc, Files <- FileIds
storeVars == <<uploadVars, downloadVars, locations, lost>>

StoreTypeOK ==
    /\ TypeOK
    /\ D!TypeOK
    /\ locations \in [Downloads -> Seq(Meta)]
    /\ lost \subseteq Rows

StoreInit ==
    /\ Init
    /\ D!Init
    /\ locations = [q \in Downloads |-> <<>>]
    /\ lost = {}

-----------------------------------------------------------------------------
(* download_file, where it depends on the other processes.                 *)

\* Clients ask for files whose ids they were given; for one that is being
\* downloaded already only if Overlapping allows it, as the code does.
Start(q) ==
    /\ D!Start(q)
    /\ file'[q] \in acked
    /\ UNCHANGED <<uploadVars, locations, lost>>

\* Mutant: the members of the set in any order.
ZRange_AnyOrder(f) ==
    LET n == Cardinality(IndexOf(f))
    IN  {es \in [1 .. n -> IndexOf(f)] : \A i, j \in 1 .. n : es[i] = es[j] => i = j}

\* ZRANGE 0 -1: the members of the sorted set by their scores.
ZRange(f) ==
    LET n == Cardinality(IndexOf(f))
    IN  {es \in [1 .. n -> IndexOf(f)] :
            \A i, j \in 1 .. n : i < j => es[i] # es[j] /\ es[i].seq <= es[j].seq}

\* HGETALL of every member.  A hash that is not there is an error, and a file
\* without locations is too, so all that is left is D!LocationsFail.
GetLocations(q) ==
    /\ dpc[q] = "locating"
    /\ IndexOf(file[q]) # {}
    /\ \E es \in ZRange(file[q]) : \E hs \in [DOMAIN es -> meta] :
          /\ \A i \in DOMAIN es : hs[i].chunk = es[i].chunk
          /\ locations' = [locations EXCEPT ![q] = hs]
    /\ dpc' = [dpc EXCEPT ![q] = "fetching"]
    /\ UNCHANGED <<uploadVars, file, next, aligned, segment, output, delivered, lost>>

\* The chunk at the next location, when its datastore holds it.
Fetching(q)  == dpc[q] = "fetching" /\ next[q] <= Len(locations[q])
Location(q)  == locations[q][next[q]]
RowsAt(h)    == {x \in rows : x.ds = h.ds /\ x.chunk = h.chunk}

\* retrieve: the whole row is streamed.  The segment file is named after the
\* sequence number of the row, and filled with its bytes.  Those of a row
\* that failed the check of its hash have no counterpart in FileDownload.
OpenSegment(q) ==
    /\ Fetching(q)
    /\ Location(q).ds \in up
    /\ \E x \in RowsAt(Location(q)) :
          segment' = [segment EXCEPT ![file[q]][x.seq] =
                         IF x.intact THEN "empty" ELSE "corrupt"]
    /\ dpc' = [dpc EXCEPT ![q] = "writing"]
    /\ UNCHANGED <<uploadVars, file, locations, next, aligned, output, delivered, lost>>

\* Mutant: a chunk that is not found leaves the call unanswered.
RetrieveFails_NoAnswer(q) ==
    /\ Fetching(q)
    /\ Location(q).ds \notin up
    /\ dpc' = [dpc EXCEPT ![q] = "failed"]
    /\ UNCHANGED <<uploadVars, file, locations, next, aligned, segment, output,
                   delivered, lost>>

\* The datastore is down, or answers that it does not find the chunk.
RetrieveFails(q) ==
    /\ Fetching(q)
    /\ Location(q).ds \in up => RowsAt(Location(q)) = {}
    /\ dpc' = [dpc EXCEPT ![q] = "failed"]
    /\ UNCHANGED <<uploadVars, file, locations, next, aligned, segment, output,
                   delivered, lost>>

\* The connection breaks.
RetrieveConnectionLost(q) ==
    /\ Fetching(q)
    /\ dpc' = [dpc EXCEPT ![q] = "failed"]
    /\ UNCHANGED <<uploadVars, file, locations, next, aligned, segment, output,
                   delivered, lost>>

\* All locations have been fetched: reassemble_file empties the output file.
OpenOutput(q) ==
    /\ dpc[q] = "fetching"
    /\ next[q] = Len(locations[q]) + 1
    /\ output' = [output EXCEPT ![file[q]] = D!Nothing]
    /\ next' = [next EXCEPT ![q] = 1]
    /\ aligned' = [aligned EXCEPT ![q] = TRUE]
    /\ dpc' = [dpc EXCEPT ![q] = "assembling"]
    /\ UNCHANGED <<uploadVars, file, locations, segment, delivered, lost>>

\* The rest of download_file is the file handler's own.
LocalStep(q) ==
    /\ D!WriteSegment(q) \/ D!AppendSegment(q) \/ D!SendFile(q)
    /\ UNCHANGED <<uploadVars, locations, lost>>

LocationsFail(q) == D!LocationsFail(q) /\ UNCHANGED <<uploadVars, locations, lost>>

-----------------------------------------------------------------------------
\* The file handler dies with all its uploads and downloads.
FileHandlerCrash ==
    /\ (\E r \in Requests : pc[r] \in Running) \/ (\E q \in Downloads : dpc[q] \in D!Running)
    /\ pc' = [r \in Requests |-> IF pc[r] \in Running THEN "failed" ELSE pc[r]]
    /\ dpc' = [q \in Downloads |-> IF dpc[q] \in D!Running THEN "failed" ELSE dpc[q]]
    /\ UNCHANGED <<current, hosts, pending, local, acked, call, reg, rows, redisVars,
                   serviceVars, file, locations, next, aligned, segment, output,
                   delivered, lost>>

\* The container of a datastore is created anew, with an empty database.
DatastoreRecreated(d) ==
    /\ d \notin up
    /\ rows' = {x \in rows : x.ds # d}
    /\ up' = up \cup {d}
    /\ lost' = lost \cup {x \in rows : x.ds = d}
    /\ UNCHANGED <<handlerVars, call, reg, redisVars, registry, downloadVars, locations>>

DownloadStep(q) ==
    \/ GetLocations(q) \/ LocationsFail(q)
    \/ OpenSegment(q) \/ RetrieveFails(q)
    \/ OpenOutput(q) \/ LocalStep(q)

StoreNext ==
    \/ Step /\ UNCHANGED <<downloadVars, locations, lost>>
    \/ \E q \in Downloads : Start(q) \/ DownloadStep(q) \/ RetrieveConnectionLost(q)
    \/ FileHandlerCrash
    \/ \E d \in Datastores : DatastoreRecreated(d)

StoreSpec == StoreInit /\ [][StoreNext]_storeVars

\* As for uploads: the threads and event loops run, the connects have a
\* deadline, and nothing is assumed of the network.
StoreFairness ==
    /\ \A r \in Requests :
          /\ WF_storeVars(UploadStep(r) /\ UNCHANGED <<downloadVars, locations, lost>>)
          /\ WF_storeVars(StoreStep(r) /\ UNCHANGED <<downloadVars, locations, lost>>)
          /\ WF_storeVars(RegisterStep(r) /\ UNCHANGED <<downloadVars, locations, lost>>)
    /\ \A q \in Downloads : WF_storeVars(DownloadStep(q))

FairStoreSpec == StoreSpec /\ StoreFairness

-----------------------------------------------------------------------------
(* What the proofs rest on, beside the invariant of the uploads with held  *)
(* for rows.                                                               *)

\* What the datastores would hold had no container been created anew.
held == rows \cup lost

\* A running download is one of a file whose id a client has, and the
\* locations it works with are those of the file, one for each segment.
LocationsInPlace(q) ==
    /\ dpc[q] \in D!Running => file[q] \in acked
    /\ dpc[q] \in {"fetching", "writing"} =>
          /\ DOMAIN locations[q] = Segments
          /\ \A i \in Segments :
                /\ locations[q][i] \in meta
                /\ \E e \in IndexOf(file[q]) :
                      e.seq = i /\ e.chunk = locations[q][i].chunk

StoreIInv ==
    /\ StoreTypeOK
    /\ \A q \in Downloads : LocationsInPlace(q)

-----------------------------------------------------------------------------
\* Downloading implements FileDownload: what redis and the datastores hold of
\* a file whose id a client has is what FileDownload takes for granted, also
\* after containers were lost, when the fetch of a segment fails and never
\* brings another one.
ImplementsDownload == D!Spec

\* Of a file whose id a client has nothing is ever lost but the rows of
\* datastores whose containers were created anew: with these in place it could
\* still be read in full.
LostOnlyWithContainer ==
    \A f \in acked : \A s \in Segments :
        \E e \in index, h \in meta, x \in held :
            /\ e.file = f /\ e.seq = s
            /\ h.chunk = e.chunk
            /\ x.chunk = e.chunk /\ x.ds = h.ds /\ x.file = f /\ x.seq = s /\ x.intact

\* Every download is answered, with 200 or with an error.
DownloadsEnd ==
    \A q \in Downloads : (dpc[q] \in D!Running) ~> (dpc[q] \in {"done", "failed"})
===============================================================================
