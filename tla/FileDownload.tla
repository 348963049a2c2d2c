---------------------------- MODULE FileDownload ----------------------------
(***************************************************************************)
(* download_file at the file handler.  The threads that serve downloads    *)
(* share the handler's disk: the segments of file f are written to files   *)
(* named after f and their number only, and put together in a file named   *)
(* after f, all opened with mode 'wb', which empties what is there.        *)
(*                                                                         *)
(* The metadata service answers with one location for each segment, in     *)
(* order: ChunkedUpload shows that of every file whose id a client has.    *)
(* Any fetch may fail, and the handler may die and be started again, which *)
(* leaves its files as they are.  A fetch that succeeds has all the bytes  *)
(* in their places, but perhaps damaged on the way (SegmentStream).        *)
(***************************************************************************)
EXTENDS Integers

CONSTANTS
    Downloads,    \* HTTP download requests
    Files,        \* ids of uploaded files
    NumSegments,  \* Config.num_segments
    Overlapping   \* whether clients download one file several times at once

ASSUME DownloadAssumption ==
    /\ NumSegments \in Nat \ {0}
    /\ Files # {}
    /\ Overlapping \in BOOLEAN

Segments == 1 .. NumSegments

VARIABLES
    pc,        \* where download_file stands for each request
    file,      \* the file it was asked for
    next,      \* the segment it comes to next
    aligned,   \* every segment it copied so far had its full length
    segment,   \* file_segments/<f>_segment_<i>.dat
    output,    \* the segments in files_inbound/<f>.<ext>, by position
    delivered  \* the body of the answer with status 200

vars == <<pc, file, next, aligned, segment, output, delivered>>

\* A segment that has been fetched, of its full length in either case.
Fetched == {"whole", "damaged"}

\* What a file put together has at the place of a segment.
Contents == {"nothing", "wrong"} \cup Fetched

Running == {"locating", "fetching", "writing", "assembling"}

TypeOK ==
    /\ pc \in [Downloads -> {"idle", "done", "failed"} \cup Running]
    /\ file \in [Downloads -> Files]
    /\ next \in [Downloads -> 1 .. NumSegments + 1]
    /\ \A d \in Downloads : pc[d] = "writing" => next[d] \in Segments
    /\ aligned \in [Downloads -> BOOLEAN]
    /\ segment \in [Files -> [Segments -> {"absent", "empty"} \cup Fetched]]
    /\ output \in [Files -> [Segments -> Contents]]
    /\ delivered \in [Downloads -> [Segments -> Contents]]

Nothing == [i \in Segments |-> "nothing"]

Init ==
    /\ pc = [d \in Downloads |-> "idle"]
    /\ file = [d \in Downloads |-> CHOOSE f \in Files : TRUE]
    /\ next = [d \in Downloads |-> 1]
    /\ aligned = [d \in Downloads |-> TRUE]
    /\ segment = [f \in Files |-> [i \in Segments |-> "absent"]]
    /\ output = [f \in Files |-> Nothing]
    /\ delivered = [d \in Downloads |-> Nothing]

Start(d) ==
    /\ pc[d] = "idle"
    /\ \E f \in Files :
          /\ Overlapping \/ \A e \in Downloads : pc[e] \in Running => file[e] # f
          /\ file' = [file EXCEPT ![d] = f]
    /\ pc' = [pc EXCEPT ![d] = "locating"]
    /\ UNCHANGED <<next, aligned, segment, output, delivered>>

\* get_ips_for_uuid.
GetLocations(d) ==
    /\ pc[d] = "locating"
    /\ pc' = [pc EXCEPT ![d] = "fetching"]
    /\ UNCHANGED <<file, next, aligned, segment, output, delivered>>

\* The metadata service does not answer, or with an error: status 500.
LocationsFail(d) ==
    /\ pc[d] = "locating"
    /\ pc' = [pc EXCEPT ![d] = "failed"]
    /\ UNCHANGED <<file, next, aligned, segment, output, delivered>>

\* Mutant: the loop over the locations is left one turn late.
OpenSegment_OneMore(d) ==
    /\ pc[d] = "fetching"
    /\ next[d] <= NumSegments + 1
    /\ segment' = [segment EXCEPT ![file[d]][next[d]] = "empty"]
    /\ pc' = [pc EXCEPT ![d] = "writing"]
    /\ UNCHANGED <<file, next, aligned, output, delivered>>

\* receive_segment_from_ip: the stream has been read to its end; opening the
\* segment file empties it.
OpenSegment(d) ==
    /\ pc[d] = "fetching"
    /\ next[d] <= NumSegments
    /\ segment' = [segment EXCEPT ![file[d]][next[d]] = "empty"]
    /\ pc' = [pc EXCEPT ![d] = "writing"]
    /\ UNCHANGED <<file, next, aligned, output, delivered>>

\* The data is written as it came: its hash is not looked at.
WriteSegment(d) ==
    /\ pc[d] = "writing"
    /\ \E data \in Fetched : segment' = [segment EXCEPT ![file[d]][next[d]] = data]
    /\ next' = [next EXCEPT ![d] = @ + 1]
    /\ pc' = [pc EXCEPT ![d] = "fetching"]
    /\ UNCHANGED <<file, aligned, output, delivered>>

\* Mutant: a segment that cannot be fetched is passed over.
RetrieveFails_Skipped(d) ==
    /\ pc[d] = "fetching"
    /\ next[d] <= NumSegments
    /\ next' = [next EXCEPT ![d] = @ + 1]
    /\ UNCHANGED <<pc, file, aligned, segment, output, delivered>>

\* The datastore is not reached, or ends the stream with an error or before
\* its first message: status 500, the segments so far stay.
RetrieveFails(d) ==
    /\ pc[d] = "fetching"
    /\ next[d] <= NumSegments
    /\ pc' = [pc EXCEPT ![d] = "failed"]
    /\ UNCHANGED <<file, next, aligned, segment, output, delivered>>

\* reassemble_file opens, and empties, the output file.
OpenOutput(d) ==
    /\ pc[d] = "fetching"
    /\ next[d] = NumSegments + 1
    /\ output' = [output EXCEPT ![file[d]] = Nothing]
    /\ next' = [next EXCEPT ![d] = 1]
    /\ aligned' = [aligned EXCEPT ![d] = TRUE]
    /\ pc' = [pc EXCEPT ![d] = "assembling"]
    /\ UNCHANGED <<file, segment, delivered>>

\* A segment is copied to where the one before it ended; after an empty one
\* everything lands in the wrong place.  A missing one raises.
AppendSegment(d) ==
    LET i == next[d]
        f == file[d]
    IN  /\ pc[d] = "assembling"
        /\ i <= NumSegments
        /\ IF segment[f][i] = "absent"
           THEN /\ pc' = [pc EXCEPT ![d] = "failed"]
                /\ UNCHANGED <<next, aligned, output>>
           ELSE /\ next' = [next EXCEPT ![d] = i + 1]
                /\ aligned' = [aligned EXCEPT ![d] = @ /\ segment[f][i] \in Fetched]
                /\ output' = [output EXCEPT ![f][i] =
                                IF segment[f][i] = "empty" THEN @
                                ELSE IF aligned[d] THEN segment[f][i] ELSE "wrong"]
                /\ UNCHANGED pc
        /\ UNCHANGED <<file, segment, delivered>>

\* send_file answers with what the output file holds.
SendFile(d) ==
    /\ pc[d] = "assembling"
    /\ next[d] = NumSegments + 1
    /\ delivered' = [delivered EXCEPT ![d] = output[file[d]]]
    /\ pc' = [pc EXCEPT ![d] = "done"]
    /\ UNCHANGED <<file, next, aligned, segment, output>>

\* The handler dies with all the requests it is serving.
HandlerCrash ==
    /\ \E d \in Downloads : pc[d] \in Running
    /\ pc' = [d \in Downloads |-> IF pc[d] \in Running THEN "failed" ELSE pc[d]]
    /\ UNCHANGED <<file, next, aligned, segment, output, delivered>>

DownloadStep(d) ==
    \/ GetLocations(d) \/ LocationsFail(d)
    \/ OpenSegment(d) \/ WriteSegment(d) \/ RetrieveFails(d)
    \/ OpenOutput(d) \/ AppendSegment(d) \/ SendFile(d)

Next == (\E d \in Downloads : Start(d) \/ DownloadStep(d)) \/ HandlerCrash

Spec == Init /\ [][Next]_vars

-----------------------------------------------------------------------------
\* A download answered with status 200 carries every segment of its file, in
\* order and of full length, whatever earlier downloads of it that failed, or
\* the death of the handler in the middle of a write, have left on disk.  Bytes
\* of a segment may have been damaged on the way back, which nothing notices.
DeliveredWhole ==
    \A d \in Downloads : pc[d] = "done" => \A i \in Segments : delivered[d][i] \in Fetched
=============================================================================
