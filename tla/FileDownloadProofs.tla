------------------------- MODULE FileDownloadProofs -------------------------
(***************************************************************************)
(* Downloads that do not overlap with one of the same file carry all its   *)
(* segments, however many of each there are.  DeliveredWhole alone is      *)
(* not inductive: it needs that a running download has the files named     *)
(* after its file for itself, and that what it wrote there is still there. *)
(***************************************************************************)
EXTENDS FileDownload, TLAPS

\* At most one of the running downloads works on the files named after f.
OneAtATime ==
    \A d, e \in Downloads :
        pc[d] \in Running /\ pc[e] \in Running /\ file[d] = file[e] => d = e

\* What a running download has written so far is still there.
Progress(d) ==
    /\ pc[d] \in {"idle", "locating"} => next[d] = 1
    /\ pc[d] \in {"fetching", "writing"} =>
          \A i \in Segments : i < next[d] => segment[file[d]][i] \in Fetched
    /\ pc[d] = "assembling" =>
          /\ aligned[d]
          /\ \A i \in Segments : segment[file[d]][i] \in Fetched
          /\ \A i \in Segments : i < next[d] => output[file[d]][i] \in Fetched

IInv ==
    /\ TypeOK
    /\ OneAtATime
    /\ \A d \in Downloads : Progress(d)
    /\ DeliveredWhole

\* The initial state is well typed.
LEMMA InitType == Init => TypeOK
<1>1. (CHOOSE f \in Files : TRUE) \in Files
    BY DownloadAssumption
<1> QED BY <1>1, DownloadAssumption DEF Init, TypeOK, Nothing, Segments, Contents

\* Every step of the handler keeps its state well typed.
LEMMA NextType == TypeOK /\ [Next]_vars => TypeOK'
<1> SUFFICES ASSUME TypeOK, [Next]_vars PROVE TypeOK'
    OBVIOUS
<1> USE DownloadAssumption DEF TypeOK, Running, Fetched, Contents
<1>1. ASSUME NEW d \in Downloads, Start(d) PROVE TypeOK'
    BY <1>1 DEF Start
<1>2. ASSUME NEW d \in Downloads, GetLocations(d) \/ LocationsFail(d) \/ RetrieveFails(d)
      PROVE  TypeOK'
    BY <1>2 DEF GetLocations, LocationsFail, RetrieveFails
<1>3. ASSUME NEW d \in Downloads, OpenSegment(d) PROVE TypeOK'
    <2>1. next[d] \in Segments
        BY <1>3 DEF OpenSegment, Segments
    <2> QED BY <1>3, <2>1 DEF OpenSegment
<1>9. ASSUME NEW d \in Downloads, WriteSegment(d) PROVE TypeOK'
    <2>1. next[d] \in Segments
        BY <1>9 DEF WriteSegment
    <2>2. next' \in [Downloads -> 1 .. NumSegments + 1]
        BY <1>9, <2>1 DEF WriteSegment, Segments
    <2> QED BY <1>9, <2>1, <2>2 DEF WriteSegment
<1>4. ASSUME NEW d \in Downloads, OpenOutput(d) PROVE TypeOK'
    BY <1>4 DEF OpenOutput, Nothing
<1>5. ASSUME NEW d \in Downloads, AppendSegment(d) PROVE TypeOK'
    <2>1. next[d] \in Segments
        BY <1>5 DEF AppendSegment, Segments
    <2>2. CASE segment[file[d]][next[d]] = "absent"
        BY <1>5, <2>2 DEF AppendSegment
    <2>3. CASE segment[file[d]][next[d]] # "absent"
        <3>1. \A v : v \in Contents =>
                [output EXCEPT ![file[d]][next[d]] = v]
                    \in [Files -> [Segments -> Contents]]
            BY <2>1
        <3>2. output[file[d]][next[d]] \in Contents
            BY <2>1
        <3> DEFINE v == IF segment[file[d]][next[d]] = "empty"
                        THEN output[file[d]][next[d]]
                        ELSE IF aligned[d] THEN segment[file[d]][next[d]] ELSE "wrong"
        <3>8. v \in Contents
            BY <2>1, <2>3, <3>2
        <3>9. output' = [output EXCEPT ![file[d]][next[d]] = v]
            BY <1>5, <2>3 DEF AppendSegment
        <3>3. output' \in [Files -> [Segments -> Contents]]
            BY <3>1, <3>8, <3>9
        <3>4. next' = [next EXCEPT ![d] = next[d] + 1] /\ pc' = pc
            BY <1>5, <2>3 DEF AppendSegment
        <3>5. aligned' \in [Downloads -> BOOLEAN]
            BY <1>5, <2>3 DEF AppendSegment
        <3>6. next' \in [Downloads -> 1 .. NumSegments + 1]
            BY <2>1, <3>4 DEF Segments
        <3>7. \A e \in Downloads : pc'[e] = "writing" => next'[e] \in Segments
            BY <1>5, <3>4 DEF AppendSegment
        <3> QED BY <1>5, <3>3, <3>4, <3>5, <3>6, <3>7 DEF AppendSegment
    <2> QED BY <2>2, <2>3
<1>6. ASSUME NEW d \in Downloads, SendFile(d) PROVE TypeOK'
    BY <1>6 DEF SendFile
<1>7. ASSUME HandlerCrash PROVE TypeOK'
    BY <1>7 DEF HandlerCrash
<1>8. ASSUME UNCHANGED vars PROVE TypeOK'
    BY <1>8 DEF vars
<1> QED BY <1>1, <1>2, <1>3, <1>4, <1>5, <1>6, <1>7, <1>8, <1>9 DEF Next, DownloadStep

\* The state of the download handler is always well typed.
THEOREM TypeCorrect == Spec => []TypeOK
<1> QED BY InitType, NextType, PTL DEF Spec

-----------------------------------------------------------------------------
\* A download keeps its progress in a step that leaves alone its own
\* variables and, while it runs, the files named after its file.
LEMMA ProgressFrame ==
    ASSUME NEW d \in Downloads, Progress(d),
           pc'[d] = pc[d], file'[d] = file[d], next'[d] = next[d], aligned'[d] = aligned[d],
           pc[d] \in Running => /\ segment'[file[d]] = segment[file[d]]
                                /\ output'[file[d]] = output[file[d]]
    PROVE  Progress(d)'
BY DEF Progress, Running

\* A step of one download leaves the others alone: their variables are their
\* own, and their files are not those of the one that steps.
LEMMA OthersProgress ==
    ASSUME TypeOK, OneAtATime, NEW d \in Downloads, DownloadStep(d),
           NEW e \in Downloads, e # d, Progress(e)
    PROVE  Progress(e)' /\ pc'[e] = pc[e] /\ delivered'[e] = delivered[e]
<1> USE DEF TypeOK, Running
<1>1. pc[d] \in Running
    BY DEF DownloadStep, GetLocations, LocationsFail, OpenSegment, WriteSegment,
           RetrieveFails, OpenOutput, AppendSegment, SendFile
<1>2. /\ pc'[e] = pc[e] /\ file'[e] = file[e] /\ next'[e] = next[e]
      /\ aligned'[e] = aligned[e] /\ delivered'[e] = delivered[e]
    BY DEF DownloadStep, GetLocations, LocationsFail, OpenSegment, WriteSegment,
           RetrieveFails, OpenOutput, AppendSegment, SendFile
<1>3. ASSUME pc[e] \in Running
      PROVE  segment'[file[e]] = segment[file[e]] /\ output'[file[e]] = output[file[e]]
    <2>1. file[e] # file[d] /\ file[e] \in Files
        BY <1>1, <1>3 DEF OneAtATime
    <2> QED
        BY <2>1 DEF DownloadStep, GetLocations, LocationsFail, OpenSegment, WriteSegment,
                    RetrieveFails, OpenOutput, AppendSegment, SendFile
<1> QED BY <1>2, <1>3, ProgressFrame

\* What the step of a download does for its own progress, and that an answer
\* it sends is whole.
LEMMA OwnProgress ==
    ASSUME TypeOK, NEW d \in Downloads, DownloadStep(d), Progress(d)
    PROVE  /\ Progress(d)'
           /\ pc'[d] = "done" => \A i \in Segments : delivered'[d][i] \in Fetched
<1> USE DownloadAssumption DEF TypeOK, Progress, Running, Segments
<1>1. CASE GetLocations(d) \/ LocationsFail(d) \/ RetrieveFails(d)
    BY <1>1 DEF GetLocations, LocationsFail, RetrieveFails
<1>2. CASE OpenSegment(d)
    BY <1>2 DEF OpenSegment
<1>3. CASE WriteSegment(d)
    <2>1. PICK data \in Fetched :
             /\ pc'[d] = "fetching" /\ next'[d] = next[d] + 1 /\ file' = file
             /\ segment'[file[d]] = [segment[file[d]] EXCEPT ![next[d]] = data]
        BY <1>3 DEF WriteSegment
    <2>2. \A i \in Segments : i < next[d] => segment[file[d]][i] \in Fetched
        BY <1>3 DEF WriteSegment
    <2>3. \A i \in Segments : i < next'[d] => segment'[file'[d]][i] \in Fetched
        BY <2>1, <2>2
    <2> QED BY <2>1, <2>3
<1>4. CASE OpenOutput(d)
    BY <1>4 DEF OpenOutput
<1>5. CASE AppendSegment(d)
    <2>1. /\ aligned[d] /\ next[d] \in Segments /\ pc[d] = "assembling"
          /\ segment[file[d]][next[d]] \in Fetched
        BY <1>5 DEF AppendSegment
    <2>2. /\ pc' = pc /\ file' = file /\ segment' = segment
          /\ next'[d] = next[d] + 1 /\ aligned'[d]
          /\ output'[file[d]] =
                [output[file[d]] EXCEPT ![next[d]] = segment[file[d]][next[d]]]
        BY <1>5, <2>1 DEF AppendSegment, Fetched
    <2>3. \A i \in Segments : i < next'[d] => output'[file'[d]][i] \in Fetched
        BY <2>1, <2>2
    <2> QED BY <2>1, <2>2, <2>3
<1>6. CASE SendFile(d)
    BY <1>6 DEF SendFile
<1> QED BY <1>1, <1>2, <1>3, <1>4, <1>5, <1>6 DEF DownloadStep

\* No step lets two downloads of one file run, as long as clients do not ask
\* for a file that is being downloaded.
LEMMA OneAtATimeStep ==
    ASSUME ~Overlapping, TypeOK, OneAtATime, [Next]_vars
    PROVE  OneAtATime'
<1> USE DEF TypeOK, OneAtATime, Running
<1>1. ASSUME NEW d \in Downloads, Start(d) PROVE OneAtATime'
    BY <1>1 DEF Start
<1>2. ASSUME NEW d \in Downloads, DownloadStep(d) PROVE OneAtATime'
    <2>1. file' = file /\ \A e \in Downloads : pc'[e] \in Running => pc[e] \in Running
        BY <1>2 DEF DownloadStep, GetLocations, LocationsFail, OpenSegment, WriteSegment,
                    RetrieveFails, OpenOutput, AppendSegment, SendFile
    <2> QED BY <2>1
<1>3. ASSUME HandlerCrash PROVE OneAtATime'
    BY <1>3 DEF HandlerCrash
<1>4. ASSUME UNCHANGED vars PROVE OneAtATime'
    BY <1>4 DEF vars
<1> QED BY <1>1, <1>2, <1>3, <1>4 DEF Next

\* The inductive invariant holds initially.
LEMMA InitInvariant == Init => IInv
<1> SUFFICES ASSUME Init PROVE IInv
    OBVIOUS
<1>1. TypeOK
    BY InitType
<1>2. OneAtATime /\ DeliveredWhole /\ \A d \in Downloads : Progress(d)
    BY DEF Init, OneAtATime, DeliveredWhole, Progress, Running
<1> QED BY <1>1, <1>2 DEF IInv

\* Every step keeps the inductive invariant when downloads do not overlap.
LEMMA NextInvariant ==
    ASSUME ~Overlapping, IInv, [Next]_vars
    PROVE  IInv'
<1> USE DEF IInv
<1>1. TypeOK'
    BY NextType
<1>2. OneAtATime'
    BY OneAtATimeStep
<1>3. DeliveredWhole' /\ \A d \in Downloads : Progress(d)'
    <2>1. ASSUME NEW d \in Downloads, Start(d)
          PROVE  DeliveredWhole' /\ \A e \in Downloads : Progress(e)'
        <3>1. Progress(d)'
            BY <2>1 DEF Start, Progress, TypeOK
        <3>2. ASSUME NEW e \in Downloads, e # d PROVE Progress(e)'
            BY <2>1, <3>2, ProgressFrame DEF Start, TypeOK
        <3>3. DeliveredWhole'
            BY <2>1 DEF Start, TypeOK, DeliveredWhole
        <3> QED BY <3>1, <3>2, <3>3
    <2>2. ASSUME NEW d \in Downloads, DownloadStep(d)
          PROVE  DeliveredWhole' /\ \A e \in Downloads : Progress(e)'
        <3>1. \A e \in Downloads : Progress(e)'
            BY <2>2, OwnProgress, OthersProgress
        <3>2. DeliveredWhole'
            BY <2>2, OwnProgress, OthersProgress DEF DeliveredWhole
        <3> QED BY <3>1, <3>2
    <2>3. ASSUME HandlerCrash
          PROVE  DeliveredWhole' /\ \A e \in Downloads : Progress(e)'
        BY <2>3 DEF HandlerCrash, TypeOK, DeliveredWhole, Progress, Running
    <2>4. ASSUME UNCHANGED vars
          PROVE  DeliveredWhole' /\ \A e \in Downloads : Progress(e)'
        BY <2>4 DEF vars, DeliveredWhole, Progress
    <2> QED BY <2>1, <2>2, <2>3, <2>4 DEF Next
<1> QED BY <1>1, <1>2, <1>3

\* Every download that is answered with status 200 carries all segments of its
\* file in order, each of full length, as long as no file is asked for while
\* it is being downloaded.
THEOREM DownloadsWhole ==
    ASSUME ~Overlapping
    PROVE  Spec => []DeliveredWhole
<1>1. Init => IInv
    BY InitInvariant
<1>2. IInv /\ [Next]_vars => IInv'
    BY NextInvariant
<1>3. IInv => DeliveredWhole
    BY DEF IInv
<1> QED BY <1>1, <1>2, <1>3, PTL DEF Spec
=============================================================================
