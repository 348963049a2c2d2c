------------------------- MODULE HeartbeatTimingProofs -------------------------
(***************************************************************************)
(* How long a silent datastore is offered and how many lost heartbeats a   *)
(* running one survives, for all intervals and however often a sweep skips *)
(* a datastore or checks it again.                                         *)
(***************************************************************************)
EXTENDS HeartbeatTiming, TLAPS

-----------------------------------------------------------------------------
(* Arithmetic.                                                             *)

\* A sum of naturals is one.
LEMMA SumOfNats == ASSUME NEW a \in Nat, NEW b \in Nat PROVE a + b \in Nat
OBVIOUS

\* And zero is not above it.
LEMMA ZeroIsLeast ==
    ASSUME NEW a \in Nat, NEW b \in Nat, NEW c \in Nat
    PROVE  0 <= a + b + c
OBVIOUS

\* One more of w.
LEMMA OneMore ==
    ASSUME NEW a \in Nat, NEW w \in Nat
    PROVE  a * w \in Nat /\ (a + 1) * w = a * w + w /\ 0 * w = 0
OBVIOUS

\* Products of naturals grow with their factors.
LEMMA Grows ==
    ASSUME NEW a \in Nat, NEW b \in Nat, NEW w \in Nat, a <= b
    PROVE  a * w <= b * w
<1>1. PICK c \in Nat : b = a + c
    <2> WITNESS b - a \in Nat
    <2> QED OBVIOUS
<1>2. (a + c) * w = a * w + c * w
    OBVIOUS
<1>3. c * w \in Nat /\ a * w \in Nat
    BY OneMore
<1> QED BY <1>1, <1>2, <1>3

\* The constants are numbers.
LEMMA Intervals ==
    /\ PublishInterval \in Nat /\ SweepInterval \in Nat /\ TTL \in Nat
    /\ PublishInterval > 0 /\ SweepInterval > 0 /\ TTL > 0
    /\ MaxMissed \in Nat /\ MaxDelay \in Nat /\ MaxLag \in Nat /\ MaxLost \in Nat
    /\ Window \in Nat /\ Window >= SweepInterval /\ Window = SweepInterval + MaxLag
    /\ MaxChecks \in Nat /\ MaxSkipped \in Nat
BY TimingAssumption DEF Window

-----------------------------------------------------------------------------
(* The invariant.                                                          *)

\* The Boolean and the numeric variables; they take different provers.
Booleans == alive \in BOOLEAN /\ steady \in BOOLEAN /\ known \in BOOLEAN

Numbers ==
    /\ timer \in 0 .. PublishInterval /\ sweep \in 0 .. Window
    /\ flight \in Nothing .. MaxDelay
    /\ lost \in 0 .. MaxLost
    /\ missed \in 0 .. MaxMissed
    /\ age \in Nat /\ passes \in Nat
    /\ skipped \in 0 .. MaxSkipped /\ extra \in 0 .. missed

LEMMA InitInvariant == Init => IInv
<1> SUFFICES ASSUME Init PROVE IInv
    OBVIOUS
<1>1. Booleans
    BY Zenon DEF Init, Booleans
<1>2. Numbers
    BY Intervals DEF Init, Numbers, Nothing
<1>3. TypeOK
    BY <1>1, <1>2 DEF TypeOK, Booleans, Numbers
<1>4. MissesCoverAge /\ PassesFitAge /\ SteadyAge /\ MissesTakeTime
    BY DEF Init, MissesCoverAge, PassesFitAge, SteadyAge, MissesTakeTime
<1> QED BY <1>3, <1>4 DEF IInv

\* What a sweep does when it keeps the datastore.
Kept ==
    /\ sweep >= SweepInterval /\ sweep' = 0
    /\ known /\ passes' = passes + 1 /\ UNCHANGED <<known, age, datastoreVars>>

\* A sweep skips the datastore, or checks it and keeps it, or drops it.
Skips == Skip /\ Kept
Checks(checks) == Check(checks) /\ Kept
Drops ==
    /\ sweep >= SweepInterval /\ sweep' = 0
    /\ ~known \/ \E checks \in 1 .. MaxChecks : ~Healthy(CheckTTL(checks))
    /\ Forget /\ UNCHANGED datastoreVars

\* There are no other sweeps.
LEMMA SweepCases ==
    RemoveDead => Skips \/ (\E checks \in 1 .. MaxChecks : Checks(checks)) \/ Drops
BY Zenon DEF RemoveDead, Skips, Checks, Drops, Kept

LEMMA NextBooleans == Booleans /\ [Next]_vars => Booleans'
<1> SUFFICES ASSUME Booleans, [Next]_vars PROVE Booleans'
    OBVIOUS
<1>1. alive' \in BOOLEAN /\ steady' \in BOOLEAN
    BY Zenon DEF Booleans, Next, vars, datastoreVars, Publish, PublisherDies, DatastoreRestart,
       HeartbeatLost, AddOrUpdateDatastore, Arrive, RemoveDead, MetadataRestart, Tick
<1>2. known' \in BOOLEAN
    <2>1. known' = known \/ known' = TRUE \/ known' = FALSE
        BY Zenon DEF Next, vars, serviceVars, Publish, PublisherDies, DatastoreRestart,
           HeartbeatLost, AddOrUpdateDatastore, RemoveDead, Forget, MetadataRestart, Tick
    <2> QED BY <2>1, Zenon DEF Booleans
<1> QED BY <1>1, <1>2 DEF Booleans

LEMMA NextNumbers == Numbers /\ [Next]_vars => Numbers'
<1> SUFFICES ASSUME Numbers, [Next]_vars PROVE Numbers'
    OBVIOUS
<1> USE Intervals DEF Numbers, Nothing, datastoreVars, serviceVars
<1>1. CASE Publish
    BY <1>1 DEF Publish
<1>2. CASE PublisherDies
    BY <1>2 DEF PublisherDies
<1>3. CASE DatastoreRestart
    BY <1>3 DEF DatastoreRestart
<1>4. CASE HeartbeatLost
    BY <1>4 DEF HeartbeatLost
<1>5. CASE AddOrUpdateDatastore
    BY <1>5 DEF AddOrUpdateDatastore, Arrive
<1>6. CASE RemoveDead
    <2>1. CASE Skips
        BY <1>6, <2>1 DEF Skips, Skip, Kept
    <2>2. ASSUME NEW checks \in 1 .. MaxChecks, Checks(checks) PROVE Numbers'
        BY <1>6, <2>2 DEF Checks, Check, Healthy, CheckTTL, Kept
    <2>3. CASE Drops
        BY <1>6, <2>3 DEF Drops, Forget
    <2> QED BY <1>6, <2>1, <2>2, <2>3, SweepCases
<1>7. CASE MetadataRestart
    BY <1>7 DEF MetadataRestart, Forget
<1>8. CASE Tick
    BY <1>8 DEF Tick
<1>9. CASE UNCHANGED vars
    BY <1>9 DEF vars
<1> QED BY <1>1, <1>2, <1>3, <1>4, <1>5, <1>6, <1>7, <1>8, <1>9 DEF Next

LEMMA NextType == TypeOK /\ [Next]_vars => TypeOK'
BY NextBooleans, NextNumbers DEF TypeOK, Booleans, Numbers

\* A sweep adds a window, for a miss that it counts or for having skipped.
LEMMA NextMissesCoverAge ==
    ASSUME TypeOK, TypeOK', MissesCoverAge, [Next]_vars
    PROVE  MissesCoverAge'
<1> DEFINE n == missed + skipped
           m == missed' + skipped'
           covered == n * Window
           later == m * Window
<1>1. n \in Nat /\ age \in Nat /\ sweep \in Nat /\ sweep <= Window
    <2>1. missed \in Nat /\ skipped \in Nat
        BY Intervals DEF TypeOK
    <2>2. age \in Nat /\ sweep \in Nat /\ sweep <= Window
        BY Intervals DEF TypeOK
    <2> QED BY <2>1, <2>2
<1>2. m \in Nat /\ age' \in Nat /\ sweep' \in Nat
    <2>1. missed' \in Nat /\ skipped' \in Nat
        BY Intervals DEF TypeOK
    <2>2. age' \in Nat /\ sweep' \in Nat
        BY Intervals DEF TypeOK
    <2> HIDE DEF covered, later
    <2>3. m \in Nat
        BY <2>1, SumOfNats
    <2> QED BY <2>2, <2>3
<1>3. /\ covered \in Nat /\ later \in Nat
      /\ m >= n => later >= covered
      /\ m >= n + 1 => later >= covered + Window
    <2> HIDE DEF n, m
    <2>1. /\ covered \in Nat /\ later \in Nat
          /\ (n + 1) * Window = covered + Window
        BY <1>1, <1>2, OneMore, Intervals
    <2>2. m >= n => later >= covered
        BY <1>1, <1>2, Grows, Intervals
    <2>3. m >= n + 1 => later >= (n + 1) * Window
        BY <1>1, <1>2, Grows, Intervals
    <2> QED BY <2>1, <2>2, <2>3
<1>4. known => age <= TTL + covered + sweep
    BY DEF MissesCoverAge
<1>5. SUFFICES ASSUME known' PROVE age' <= TTL + later + sweep'
    BY DEF MissesCoverAge
<1> HIDE DEF covered, later
<1> USE Intervals
<1>6. CASE UNCHANGED <<known, age, missed, skipped, sweep>>
    BY <1>1, <1>3, <1>4, <1>5, <1>6
<1>7. CASE AddOrUpdateDatastore
    <2>1. age' = 0
        BY <1>7 DEF AddOrUpdateDatastore
    <2> HIDE DEF n, m
    <2>2. later \in Nat /\ TTL \in Nat /\ sweep' \in Nat
        BY <1>2, <1>3, Intervals
    <2>3. 0 <= TTL + later + sweep'
        BY <2>2, ZeroIsLeast
    <2> QED BY <2>1, <2>3, Zenon
<1>8. CASE RemoveDead
    <2>1. CASE Skips
        <3>1. known /\ m = n + 1 /\ age' = age /\ sweep' = 0
            <4>1. missed \in Nat /\ skipped \in Nat
                BY Intervals DEF TypeOK
            <4> QED BY <4>1, <2>1 DEF Skips, Skip, Kept
        <3> HIDE DEF n, m
        <3> QED BY <1>1, <1>3, <1>4, <3>1
    <2>2. ASSUME NEW checks \in 1 .. MaxChecks, Checks(checks)
          PROVE  age' <= TTL + later + sweep'
        <3>1. /\ known /\ skipped' = skipped /\ age' = age /\ sweep' = 0
              /\ missed' = IF age > TTL THEN missed + checks ELSE 0
            BY <2>2 DEF Checks, Check, Kept, CheckTTL
        <3>2. CASE age > TTL
            <4>1. m >= n + 1
                BY <3>1, <3>2, Intervals DEF TypeOK
            <4> HIDE DEF n, m
            <4> QED BY <1>1, <1>3, <1>4, <3>1, <4>1
        <3>3. CASE ~(age > TTL)
            BY <1>1, <1>3, <3>1, <3>3
        <3> QED BY <3>2, <3>3
    <2>3. CASE Drops
        BY <1>5, <2>3 DEF Drops, Forget
    <2> QED BY <1>8, <2>1, <2>2, <2>3, SweepCases
<1>9. CASE MetadataRestart
    BY <1>5, <1>9 DEF MetadataRestart, Forget
<1>10. CASE Tick
    <2>1. /\ known /\ m = n /\ age' = age + 1 /\ sweep' = sweep + 1
        BY <1>5, <1>10 DEF Tick
    <2> HIDE DEF n, m
    <2> QED BY <1>1, <1>3, <1>4, <2>1
<1>11. CASE Publish \/ PublisherDies \/ DatastoreRestart \/ HeartbeatLost \/ UNCHANGED vars
    BY <1>6, <1>11
       DEF Publish, PublisherDies, DatastoreRestart, HeartbeatLost, vars, serviceVars
<1> QED BY <1>7, <1>8, <1>9, <1>10, <1>11 DEF Next

LEMMA NextPassesFitAge ==
    ASSUME TypeOK, PassesFitAge, [Next]_vars
    PROVE  PassesFitAge'
<1> USE Intervals DEF PassesFitAge, TypeOK
<1>1. CASE Publish \/ PublisherDies \/ DatastoreRestart \/ HeartbeatLost \/ UNCHANGED vars
    BY <1>1 DEF Publish, PublisherDies, DatastoreRestart, HeartbeatLost, vars, serviceVars
<1>2. CASE AddOrUpdateDatastore
    BY <1>2 DEF AddOrUpdateDatastore, Arrive
<1>3. CASE RemoveDead
    <2>1. CASE Kept
        BY <2>1 DEF Kept
    <2>2. CASE Drops
        BY <2>2 DEF Drops, Forget
    <2> QED BY <1>3, <2>1, <2>2, SweepCases DEF Skips, Checks
<1>4. CASE MetadataRestart
    BY <1>4 DEF MetadataRestart, Forget
<1>5. CASE Tick
    BY <1>5 DEF Tick
<1> QED BY <1>1, <1>2, <1>3, <1>4, <1>5 DEF Next

\* Every period adds a heartbeat that is lost or under way.
LEMMA NextSteadyAge ==
    ASSUME TypeOK, TypeOK', SteadyAge, [Next]_vars
    PROVE  SteadyAge'
<1>0. /\ lost * PublishInterval \in Nat /\ lost \in Nat /\ timer \in Nat
      /\ (lost + 1) * PublishInterval = lost * PublishInterval + PublishInterval
      /\ 0 * PublishInterval = 0
      /\ age \in Nat
    BY OneMore, Intervals DEF TypeOK
<1>1. CASE Publish
    <2>1. flight = Nothing
        BY <1>1, Intervals, TimingAssumption DEF Publish, TypeOK, SteadyAge, Nothing
    <2> QED BY <1>0, <1>1, <2>1, Intervals DEF Publish, SteadyAge, Nothing, serviceVars
<1>2. CASE PublisherDies
    BY <1>2, Intervals DEF PublisherDies, SteadyAge, TypeOK, Nothing, serviceVars
<1>3. CASE DatastoreRestart
    BY <1>3 DEF DatastoreRestart, SteadyAge, serviceVars
<1>4. CASE HeartbeatLost
    BY <1>0, <1>4 DEF HeartbeatLost, SteadyAge, serviceVars
<1>5. CASE AddOrUpdateDatastore
    BY <1>0, <1>5 DEF AddOrUpdateDatastore, Arrive, SteadyAge
<1>6. CASE RemoveDead
    <2>1. CASE Kept
        BY <1>0, <2>1 DEF Kept, SteadyAge, datastoreVars
    <2>2. CASE Drops
        BY <1>0, <2>2 DEF Drops, Forget, SteadyAge, datastoreVars
    <2> QED BY <1>6, <2>1, <2>2, SweepCases DEF Skips, Checks
<1>7. CASE MetadataRestart
    BY <1>7 DEF MetadataRestart, Forget, SteadyAge, datastoreVars
<1>8. CASE Tick
    <2>1. lost' = lost /\ (flight' = Nothing <=> flight = Nothing)
        BY <1>8 DEF Tick, TypeOK, Nothing
    <2>2. steady /\ known => timer' = timer + 1 /\ age' = age + 1
        BY <1>8 DEF Tick, SteadyAge
    <2>3. flight' # Nothing => timer' <= flight'
        BY <1>0, <1>8, Intervals DEF Tick, TypeOK, SteadyAge, Nothing
    <2>4. steady' = steady /\ known' = known /\ alive' = alive
        BY <1>8 DEF Tick
    <2> QED BY <1>0, <2>1, <2>2, <2>3, <2>4, Intervals DEF SteadyAge
<1>9. CASE UNCHANGED vars
    BY <1>9 DEF vars, datastoreVars, serviceVars, SteadyAge
<1> QED BY <1>1, <1>2, <1>3, <1>4, <1>5, <1>6, <1>7, <1>8, <1>9 DEF Next

\* A sweep that counts one more miss comes a SweepInterval after the one
\* before; the others that it counts are extra, like those a heartbeat finds.
LEMMA NextMissesTakeTime ==
    ASSUME TypeOK, TypeOK', MissesTakeTime, [Next]_vars
    PROVE  MissesTakeTime'
<1> DEFINE n == missed - extra
<1>0. /\ missed \in Nat /\ sweep \in Nat /\ age \in Nat /\ n \in Nat
      /\ extra \in Nat
    BY Intervals DEF TypeOK
<1>1. n > 0 => /\ (n - 1) * SweepInterval \in Nat
               /\ n * SweepInterval = (n - 1) * SweepInterval + SweepInterval
    <2> HIDE DEF n
    <2> SUFFICES ASSUME n > 0
                 PROVE  /\ (n - 1) * SweepInterval \in Nat
                        /\ n * SweepInterval = (n - 1) * SweepInterval + SweepInterval
        OBVIOUS
    <2>1. PICK m \in Nat : n = m + 1
        <3>1. n - 1 \in Nat /\ n = (n - 1) + 1
            BY <1>0
        <3> QED BY <3>1
    <2> QED BY <2>1, OneMore, Intervals
<1>2. known /\ n > 0 => age > TTL + (n - 1) * SweepInterval + sweep
    BY <1>0 DEF MissesTakeTime
<1>3. CASE Publish \/ PublisherDies \/ DatastoreRestart \/ HeartbeatLost \/ UNCHANGED vars
    BY <1>3 DEF Publish, PublisherDies, DatastoreRestart, HeartbeatLost, vars, serviceVars,
                MissesTakeTime
<1>4. CASE AddOrUpdateDatastore
    <2>1. missed' = extra' /\ extra' \in Nat
        BY <1>4, <1>0 DEF AddOrUpdateDatastore, Arrive
    <2> QED BY <2>1 DEF MissesTakeTime
<1>5. CASE RemoveDead
    <2>1. CASE Skips
        <3>1. /\ known /\ UNCHANGED <<missed, extra, age>>
              /\ sweep' = 0
            BY <2>1 DEF Skips, Skip, Kept
        <3> QED BY <1>0, <1>1, <3>1, Intervals DEF MissesTakeTime
    <2>2. ASSUME NEW checks \in 1 .. MaxChecks, Checks(checks) PROVE MissesTakeTime'
        <3>1. /\ known /\ age' = age /\ sweep' = 0 /\ sweep >= SweepInterval
              /\ missed' = IF age > TTL THEN missed + checks ELSE 0
              /\ extra' = IF age > TTL THEN extra + checks - 1 ELSE 0
            BY <2>2 DEF Checks, Check, Kept, CheckTTL
        <3>2. CASE age > TTL
            <4>1. missed' - extra' - 1 = n
                BY <1>0, <3>1, <3>2
            <4> HIDE DEF n
            <4>2. age > TTL + n * SweepInterval
                <5>1. CASE n = 0
                    BY <3>2, <5>1, <1>0, Intervals, OneMore
                <5>2. CASE n > 0
                    BY <1>0, <1>1, <1>2, <3>1, <5>2, Intervals
                <5> QED BY <1>0, <5>1, <5>2
            <4>3. n * SweepInterval \in Nat
                BY <1>0, OneMore, Intervals
            <4> QED BY <1>0, <3>1, <4>1, <4>2, <4>3, Intervals DEF MissesTakeTime
        <3>3. CASE ~(age > TTL)
            BY <3>1, <3>3 DEF MissesTakeTime
        <3> QED BY <3>2, <3>3
    <2>3. CASE Drops
        BY <2>3 DEF Drops, Forget, MissesTakeTime
    <2> QED BY <1>5, <2>1, <2>2, <2>3, SweepCases
<1>6. CASE MetadataRestart
    BY <1>6 DEF MetadataRestart, Forget, MissesTakeTime
<1>7. CASE Tick
    <2>1. /\ UNCHANGED <<missed, extra, known>> /\ sweep' = sweep + 1
          /\ known => age' = age + 1
        BY <1>7 DEF Tick
    <2> QED BY <1>0, <1>1, <2>1, Intervals DEF MissesTakeTime
<1> QED BY <1>3, <1>4, <1>5, <1>6, <1>7 DEF Next

LEMMA NextInvariant == IInv /\ [Next]_vars => IInv'
<1> SUFFICES ASSUME IInv, [Next]_vars PROVE IInv'
    OBVIOUS
<1>1. TypeOK'
    BY NextType DEF IInv
<1>2. MissesCoverAge' /\ PassesFitAge' /\ SteadyAge'
    BY <1>1, NextMissesCoverAge, NextPassesFitAge, NextSteadyAge DEF IInv
<1>3. MissesTakeTime'
    BY <1>1, NextMissesTakeTime DEF IInv
<1> QED BY <1>1, <1>2, <1>3 DEF IInv

\* For all intervals, and however often a sweep skips a datastore or checks it
\* again, the misses and the sweeps that skipped it cover its silence, and the
\* heartbeats lost the age of the last one of a running datastore.
THEOREM Invariant == Spec => []IInv
<1>1. Init => IInv
    BY InitInvariant
<1>2. IInv /\ [Next]_vars => IInv'
    BY NextInvariant
<1> QED BY <1>1, <1>2, PTL DEF Spec

-----------------------------------------------------------------------------
(* What follows.                                                           *)

LEMMA SilentOffered == IInv => SilentIsOffered
<1> SUFFICES ASSUME IInv, known
             PROVE  age <= TTL + (MaxMissed + 1 + skipped) * Window
    BY DEF SilentIsOffered
<1> DEFINE n == missed + skipped
           m == MaxMissed + skipped
<1>1. /\ n \in Nat /\ m \in Nat /\ n <= m /\ sweep \in Nat /\ sweep <= Window /\ age \in Nat
      /\ MaxMissed + 1 + skipped = m + 1
    BY Intervals DEF IInv, TypeOK
<1>2. age <= TTL + n * Window + sweep
    BY DEF IInv, MissesCoverAge
<1>3. age <= TTL + (m + 1) * Window
    <2> HIDE DEF n, m
    <2>1. n * Window <= m * Window /\ n * Window \in Nat
        BY <1>1, Grows, OneMore, Intervals
    <2>2. (m + 1) * Window = m * Window + Window /\ m * Window \in Nat
        BY <1>1, OneMore, Intervals
    <2> QED BY <1>1, <1>2, <2>1, <2>2, Intervals
<1> QED BY <1>1, <1>3

\* A datastore of which nothing is heard is offered for no longer than the TTL
\* and a window for each miss forgiven, for the sweep that drops it and for
\* each sweep that skips it, whatever the intervals.
THEOREM OfferedNoLonger == Spec => []SilentIsOffered
BY Invariant, SilentOffered, PTL

\* The sweep after a heartbeat does not find it late.
SweepsInTime == Window <= TTL

\* Two sweeps on, every heartbeat is late.
LateAtThird == TTL < 2 * SweepInterval

\* Where a sweep comes within the TTL of the one before and two sweeps do
\* not, late heartbeats can be counted in sweeps, as DatastoreHeap does.
THEOREM CountedRight == ASSUME SweepsInTime, LateAtThird PROVE Spec => []LateAsCounted
<1>1. IInv => LateAsCounted
    BY Intervals DEF IInv, TypeOK, PassesFitAge, LateAsCounted, SweepsInTime, LateAtThird
<1> QED BY <1>1, Invariant, PTL

\* The time for which MaxLost heartbeats in a row may be missing passes before
\* the sweep that counts one miss too many.
LossesForgiven ==
    (MaxLost + 1) * PublishInterval + MaxDelay <= TTL + MaxMissed * SweepInterval

LEMMA DroppedIsNotSteady ==
    ASSUME IInv, LossesForgiven, RemoveDead, known, ~known', steady
    PROVE  extra > 0 \/ missed < MaxMissed
<1> SUFFICES ASSUME extra = 0, missed = MaxMissed PROVE FALSE
    BY Intervals DEF IInv, TypeOK
<1>0. /\ sweep \in Nat /\ age \in Nat /\ lost \in Nat /\ lost <= MaxLost
      /\ timer \in Nat /\ timer <= PublishInterval
    BY Intervals DEF IInv, TypeOK
<1>1. sweep >= SweepInterval /\ \E checks \in 1 .. MaxChecks : ~Healthy(CheckTTL(checks))
    BY DEF RemoveDead
<1>2. age > TTL
    BY <1>1, Intervals DEF CheckTTL, Healthy
<1>4. age > TTL + MaxMissed * SweepInterval
    <2>1. CASE MaxMissed = 0
        BY <1>0, <1>2, <2>1, Intervals, OneMore
    <2>2. CASE MaxMissed > 0
        <3>1. age > TTL + (MaxMissed - 1) * SweepInterval + sweep
            <4>1. missed > extra /\ missed - extra - 1 = MaxMissed - 1
                BY <2>2, Intervals
            <4> QED BY <4>1 DEF IInv, MissesTakeTime
        <3>2. PICK n \in Nat : MaxMissed = n + 1
            <4>1. MaxMissed - 1 \in Nat /\ MaxMissed = (MaxMissed - 1) + 1
                BY <2>2, Intervals
            <4> QED BY <4>1
        <3>3. /\ (MaxMissed - 1) * SweepInterval \in Nat
              /\ MaxMissed * SweepInterval = (MaxMissed - 1) * SweepInterval + SweepInterval
            BY <3>2, OneMore, Intervals
        <3> QED BY <1>0, <1>1, <3>1, <3>3, Intervals
    <2> QED BY <2>1, <2>2, Intervals
<1>5. age <= (MaxLost + 1) * PublishInterval + MaxDelay
    <2>1. /\ lost * PublishInterval <= MaxLost * PublishInterval
          /\ lost * PublishInterval \in Nat /\ MaxLost * PublishInterval \in Nat
          /\ (lost + 1) * PublishInterval = lost * PublishInterval + PublishInterval
          /\ (MaxLost + 1) * PublishInterval = MaxLost * PublishInterval + PublishInterval
        BY <1>0, Grows, OneMore, Intervals
    <2>2. CASE flight = Nothing
        <3>1. age <= timer + lost * PublishInterval
            BY <2>2 DEF IInv, SteadyAge
        <3> QED BY <1>0, <2>1, <3>1, Intervals
    <2>3. CASE flight # Nothing
        <3>1. age <= timer + (lost + 1) * PublishInterval /\ timer <= MaxDelay
            BY <1>0, <2>3, Intervals DEF IInv, SteadyAge, TypeOK, Nothing
        <3> QED BY <1>0, <2>1, <3>1, Intervals
    <2> QED BY <2>2, <2>3
<1>6. /\ MaxMissed * SweepInterval \in Nat
      /\ (MaxLost + 1) * PublishInterval \in Nat
    BY OneMore, Intervals
<1> QED BY <1>0, <1>4, <1>5, <1>6, Intervals DEF LossesForgiven

\* If the intervals forgive the heartbeats that can be lost in a row, a sweep
\* drops a datastore that has been running since its last heartbeat only by a
\* miss from before it or by one counted twice in a sweep.
THEOREM RunningIsKept == ASSUME LossesForgiven PROVE Spec => AliveIsKept
<1>1. IInv /\ [Next]_vars =>
          [RemoveDead /\ known /\ ~known' /\ steady => extra > 0 \/ missed < MaxMissed]_vars
    BY DroppedIsNotSteady
<1> QED BY <1>1, Invariant, PTL DEF Spec, AliveIsKept
===============================================================================
