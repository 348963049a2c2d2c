---------------------------- MODULE HeartbeatTiming ----------------------------
(***************************************************************************)
(* One datastore's heartbeats and the sweeps of the metadata service, in   *)
(* seconds.  DatastoreHeap counts time in sweeps and takes it that none    *)
(* finds a heartbeat late at the first and every one at the third; here    *)
(* that is shown of the intervals of the code, and how many heartbeats     *)
(* may be lost before a running datastore is dropped.                      *)
(*                                                                         *)
(* Heartbeats are published without acknowledgement, so they may be lost   *)
(* or come late.  A timer fires when its time has come, but a goroutine    *)
(* may be woken late.  Time passes in steps of a second; what happens      *)
(* within one happens in any order.                                        *)
(*                                                                         *)
(* A sweep walks over a heap that it rearranges, so it may pass one        *)
(* datastore by and check another more than once.  With the others left    *)
(* out, any number of checks up to MaxChecks may fall to this one;         *)
(* SweepCounts of DatastoreHeap says the same of the heap itself.          *)
(***************************************************************************)
EXTENDS Integers

CONSTANTS
    PublishInterval,  \* PUBLISH_INTERVAL
    SweepInterval,    \* the interval of PeriodicCheck
    TTL,              \* DEFAULT_TTL
    MaxMissed,        \* DEFAULT_MAX_MISSED
    MaxDelay,         \* bound of the time from the timer to AddOrUpdateDatastore
    MaxLag,           \* bound of the time a sweep comes late
    MaxLost,          \* bound of the heartbeats lost one after the other
    MaxChecks,        \* the most checks of it in one sweep: the number of datastores
    MaxSkipped        \* bound of the sweeps between two heartbeats that skip it

ASSUME TimingAssumption ==
    /\ {PublishInterval, SweepInterval, TTL} \subseteq Nat \ {0}
    /\ {MaxMissed, MaxDelay, MaxLag, MaxLost, MaxChecks, MaxSkipped} \subseteq Nat
    /\ MaxDelay < PublishInterval

VARIABLES
    alive,   \* the datastore's process runs
    timer,   \* seconds since its timer last fired
    flight,  \* the seconds its last heartbeat has been on its way, or Nothing
    lost,    \* heartbeats lost since one arrived
    steady,  \* its process has not died since then
    known,   \* the datastore is in the heap
    age,     \* time.Since(LastHeartbeat)
    missed,  \* MissedCount
    sweep,   \* seconds since the last RemoveDead
    passes,  \* sweeps since LastHeartbeat, what DatastoreHeap calls silent
    skipped, \* how many of these did not check it; history, no action but the bound reads it
    extra    \* misses in MissedCount that are not one for a sweep since LastHeartbeat: those
             \* from before it, and those a sweep counted beyond its first; history

datastoreVars == <<alive, timer, flight, lost, steady>>
serviceVars   == <<known, age, missed, sweep, passes, skipped, extra>>
vars == <<datastoreVars, serviceVars>>

Nothing == -1

\* The most time between two sweeps.
Window == SweepInterval + MaxLag

TypeOK ==
    /\ alive \in BOOLEAN /\ steady \in BOOLEAN /\ known \in BOOLEAN
    /\ timer \in 0 .. PublishInterval /\ sweep \in 0 .. Window
    /\ flight \in Nothing .. MaxDelay
    /\ lost \in 0 .. MaxLost
    /\ missed \in 0 .. MaxMissed
    /\ age \in Nat /\ passes \in Nat
    /\ skipped \in 0 .. MaxSkipped /\ extra \in 0 .. missed

Init ==
    /\ alive = TRUE /\ timer = 0 /\ flight = Nothing /\ lost = 0 /\ steady = TRUE
    /\ known = FALSE /\ age = 0 /\ missed = 0 /\ sweep = 0 /\ passes = 0
    /\ skipped = 0 /\ extra = 0

-----------------------------------------------------------------------------
(* startPublisher: the timer and the socket.                               *)

\* The callback reads the system's status and sends the heartbeat.
Publish ==
    /\ alive
    /\ timer = PublishInterval
    /\ timer' = 0 /\ flight' = 0
    /\ UNCHANGED <<alive, lost, steady, serviceVars>>

\* getSystemStatus raises in the callback; nobody handles the rejection, which
\* ends the process.  It may as well die of something else.
PublisherDies ==
    /\ alive
    /\ alive' = FALSE /\ steady' = FALSE /\ timer' = 0
    /\ UNCHANGED <<flight, lost, serviceVars>>

DatastoreRestart ==
    /\ ~alive
    /\ alive' = TRUE
    /\ UNCHANGED <<timer, flight, lost, steady, serviceVars>>

\* There is no connection, or it has not been subscribed to yet.
HeartbeatLost ==
    /\ flight # Nothing
    /\ lost < MaxLost
    /\ flight' = Nothing /\ lost' = lost + 1
    /\ UNCHANGED <<alive, timer, steady, serviceVars>>

-----------------------------------------------------------------------------
(* The goroutine that reads heartbeats, and PeriodicCheck.                 *)

Arrive ==
    /\ flight # Nothing
    /\ flight' = Nothing /\ lost' = 0 /\ steady' = alive
    /\ passes' = 0 /\ skipped' = 0 /\ extra' = (IF known THEN missed ELSE 0)
    /\ UNCHANGED <<alive, timer, sweep>>

\* Mutant: LastHeartbeat of a known datastore is not renewed.
AddOrUpdateDatastore_NotRenewed ==
    /\ Arrive
    /\ known' = TRUE
    /\ age' = (IF known THEN age ELSE 0) /\ missed' = (IF known THEN missed ELSE 0)

\* Mutant: the heartbeat of an unknown datastore is ignored.
AddOrUpdateDatastore_OnlyUpdate ==
    /\ Arrive
    /\ age' = 0
    /\ UNCHANGED <<known, missed>>

\* The missed count of a known datastore stays until the next sweep.
AddOrUpdateDatastore ==
    /\ Arrive
    /\ known' = TRUE
    /\ age' = 0 /\ missed' = (IF known THEN missed ELSE 0)

\* Mutant: a check that finds the heartbeat in time leaves the count.
CheckTTL_NotReset(checks) == IF age > TTL THEN missed + checks ELSE missed

\* MissedCount after so many calls of CheckTTL, one at least.
CheckTTL(checks) == IF age > TTL THEN missed + checks ELSE 0

\* Mutant: off by one.
Healthy_OneMore(count) == count <= MaxMissed + 1

Healthy(count) == count <= MaxMissed

Forget == known' = FALSE /\ age' = 0 /\ missed' = 0 /\ passes' = 0 /\ skipped' = 0 /\ extra' = 0

\* The sweep passes the datastore by.
Skip ==
    /\ skipped < MaxSkipped
    /\ skipped' = skipped + 1
    /\ UNCHANGED <<missed, extra>>

\* It checks the datastore and keeps it.
Check(checks) ==
    /\ Healthy(CheckTTL(checks))
    /\ missed' = CheckTTL(checks)
    /\ extra' = IF age > TTL THEN extra + checks - 1 ELSE 0
    /\ UNCHANGED skipped

RemoveDead ==
    /\ sweep >= SweepInterval
    /\ sweep' = 0
    /\ \/ /\ known
          /\ Skip \/ \E checks \in 1 .. MaxChecks : Check(checks)
          /\ passes' = passes + 1
          /\ UNCHANGED <<known, age>>
       \/ /\ ~known \/ \E checks \in 1 .. MaxChecks : ~Healthy(CheckTTL(checks))
          /\ Forget
    /\ UNCHANGED datastoreVars

\* The process dies and is started again, with an empty heap.
MetadataRestart ==
    /\ Forget /\ sweep' = 0
    /\ UNCHANGED datastoreVars

-----------------------------------------------------------------------------
Tick ==
    /\ alive => timer < PublishInterval
    /\ flight < MaxDelay
    /\ sweep < Window
    /\ timer' = IF alive THEN timer + 1 ELSE timer
    /\ flight' = IF flight = Nothing THEN Nothing ELSE flight + 1
    /\ age' = IF known THEN age + 1 ELSE age
    /\ sweep' = sweep + 1
    /\ UNCHANGED <<alive, lost, steady, known, missed, passes, skipped, extra>>

Next ==
    \/ Publish \/ PublisherDies \/ DatastoreRestart \/ HeartbeatLost
    \/ AddOrUpdateDatastore \/ RemoveDead \/ MetadataRestart
    \/ Tick

Spec == Init /\ [][Next]_vars

\* Time passes, timers fire and goroutines run.  Heartbeats arrive unless
\* they are lost, and MaxLost bounds how many are lost in a row.
Fairness == WF_vars(Tick) /\ WF_vars(Publish) /\ WF_vars(AddOrUpdateDatastore)
            /\ WF_vars(RemoveDead)

FairSpec == Spec /\ Fairness

-----------------------------------------------------------------------------
(* What the proofs rest on.                                                *)

\* The misses counted, and the sweeps that counted none, cover the time for
\* which nothing was heard.
MissesCoverAge == known => age <= TTL + (missed + skipped) * Window + sweep

\* Sweeps are SweepInterval apart and not earlier.
PassesFitAge ==
    known => /\ passes = 0 => age <= sweep
             /\ passes >= 1 => age >= sweep
             /\ passes >= 2 => age >= SweepInterval + sweep

\* While the process lives, only heartbeats that were lost, or are on their
\* way, have been sent since the last one that arrived.
SteadyAge ==
    /\ steady => alive
    /\ flight # Nothing => timer <= flight
    /\ steady /\ known =>
          age <= timer + (IF flight = Nothing THEN lost ELSE lost + 1) * PublishInterval

\* The first miss counted since the heartbeat takes it to be older than the
\* TTL, and another one a sweep more, unless one sweep counted both.
MissesTakeTime ==
    known /\ missed > extra => age > TTL + (missed - extra - 1) * SweepInterval + sweep

IInv == TypeOK /\ MissesCoverAge /\ PassesFitAge /\ SteadyAge /\ MissesTakeTime

-----------------------------------------------------------------------------
\* DatastoreHeap's view of time: when a sweep comes, a datastore heard from
\* since the sweep before is not late, one not heard from for two sweeps is.
LateAsCounted ==
    known /\ sweep >= SweepInterval =>
        /\ passes = 0 => age <= TTL
        /\ passes >= 2 => age > TTL

\* A sweep that drops a datastore which has been running since its last
\* heartbeat counts a miss that the lost heartbeats do not account for: one
\* kept from before that heartbeat, or a second one of the same sweep.  Apart
\* from these the deployed intervals forgive MaxLost = 4 losses in a row.
AliveIsKept ==
    [][RemoveDead /\ known /\ ~known' /\ steady => extra > 0 \/ missed < MaxMissed]_vars

\* A datastore that is silent leaves the heap, and is not offered to uploads
\* any more, within 73 seconds as deployed and 14 more for every sweep that
\* passes it by.
SilentIsOffered == known => age <= TTL + (MaxMissed + 1 + skipped) * Window

\* A running datastore becomes known, also after the metadata service has
\* been restarted or it has been dropped, unless it dies.
BecomesKnown == alive ~> known \/ ~alive
==============================================================================
