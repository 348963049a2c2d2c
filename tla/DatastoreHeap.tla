---------------------------- MODULE DatastoreHeap ----------------------------
(***************************************************************************)
(* The metadata service's DatastoreHeap: the datastores it has heard from, *)
(* as a binary heap of pointers that knows, in every element, where the    *)
(* element is (Index), so that container/heap can fix it after an update.  *)
(* Heartbeats, the periodic RemoveDead and GetTopKDatastores run under a   *)
(* lock, so each is one action; TopK calls that overlap, as readers may,   *)
(* write the same Index values as one of them alone.                       *)
(*                                                                         *)
(* Positions count from 1 (Go's Index + 1), so Pop's Index of -1 is 0.     *)
(* Time is counted in RemoveDead passes: a pass comes 13 s after another,  *)
(* and a heartbeat is late when it is older than the TTL of 17 s.  So none *)
(* is late at the first pass after it, every one is at the third, and the  *)
(* second may find it either way.                                          *)
(***************************************************************************)
EXTENDS Integers, Sequences, FiniteSets

CONSTANTS
    Datastores,     \* identities "hostname:port"
    Statuses,       \* what heartbeats report: [ram, space, db : Nat]
    K,              \* the k of GetTopKDatastores requests
    MaxMissed,      \* DEFAULT_MAX_MISSED
    ScoreModulus,   \* 2^64 in the code, where Score is an uint64
    MaxSilent       \* bound of the passes counted since a heartbeat

ASSUME HeapAssumption ==
    /\ IsFiniteSet(Datastores) /\ K \in Nat \ {0} /\ MaxMissed \in Nat /\ ScoreModulus \in Nat \ {0}
    /\ Statuses \subseteq [ram : Nat, space : Nat, db : Nat]
    /\ Statuses # {} /\ MaxSilent \in Nat \ {0, 1}

VARIABLES
    heap,     \* the DatastoreHeap and the fields of its TTLDatastores
    silent,   \* RemoveDead passes since the last heartbeat of each
    crashed   \* a goroutine has panicked, and with it the process

vars == <<heap, silent, crashed>>

\* The fields of a TTLDatastore that is not in the heap have these values.
NoStatus == CHOOSE s \in Statuses : TRUE

NewDatastoreHeap ==
    [internalData |-> <<>>, internalMap |-> {},
     index  |-> [d \in Datastores |-> 0],
     missed |-> [d \in Datastores |-> 0],
     status |-> [d \in Datastores |-> NoStatus]]

Registered == {heap.internalData[i] : i \in DOMAIN heap.internalData}

TypeOK ==
    /\ heap \in [internalData : Seq(Datastores),
                internalMap  : SUBSET Datastores,
                index  : [Datastores -> 0 .. Cardinality(Datastores)],
                missed : [Datastores -> 0 .. MaxMissed],
                status : [Datastores -> Statuses]]
    /\ silent \in [Datastores -> 0 .. MaxSilent]
    /\ crashed \in BOOLEAN

-----------------------------------------------------------------------------
(* TTLDatastore.Score and container/heap on a DatastoreHeap h.             *)

\* Unsigned arithmetic: a difference below zero wraps around.
Score(h, d) ==
    LET s == h.status[d]
    IN  (5 * s.ram + 5 * s.space - 50 * s.db - 10 * h.missed[d]) % ScoreModulus

Less(h, i, j) == Score(h, h.internalData[i]) > Score(h, h.internalData[j])

\* Mutant: only one of the two elements is told its new position.
Swap_OneIndex(h, i, j) ==
    LET di == h.internalData[i]
        dj == h.internalData[j]
    IN  [h EXCEPT !.internalData = [@ EXCEPT ![i] = dj, ![j] = di],
                  !.index[dj] = i,
                  !.internalMap = @ \cup {di, dj}]

Swap(h, i, j) ==
    LET di == h.internalData[i]
        dj == h.internalData[j]
    IN  [h EXCEPT !.internalData = [@ EXCEPT ![i] = dj, ![j] = di],
                  !.index = [@ EXCEPT ![dj] = i, ![di] = j],
                  !.internalMap = @ \cup {di, dj}]

\* The state of a loop after n turns; a loop that has ended stays as it is.
Repeat(Turn(_), start, n) ==
    LET after[k \in Nat] == IF k = 0 THEN start ELSE Turn(after[k - 1])
    IN  after[n]

\* A turn of heap.down at position s.at among the first n.  An element that
\* has no child there, as the one at position 0, stays.
DownTurn(s, n) ==
    LET left  == 2 * s.at
        child == IF left + 1 <= n /\ Less(s.heap, left + 1, left) THEN left + 1 ELSE left
    IN  IF left \in 1 .. n /\ Less(s.heap, child, s.at)
        THEN [heap |-> Swap(s.heap, s.at, child), at |-> child]
        ELSE s

Down(h, i, n) == Repeat(LAMBDA s : DownTurn(s, n), [heap |-> h, at |-> i], n \div 2)

\* A turn of heap.up.
UpTurn(s) ==
    LET parent == s.at \div 2
    IN  IF s.at > 1 /\ Less(s.heap, s.at, parent)
        THEN [heap |-> Swap(s.heap, parent, s.at), at |-> parent]
        ELSE s

Up(h, j) == Repeat(UpTurn, [heap |-> h, at |-> j], j \div 2)

Fix(h, i, n) ==
    LET down == Down(h, i, n) IN IF down.at > i THEN down.heap ELSE Up(h, i).heap

\* heap.Push, with the Push of DatastoreHeap: appended, then moved up.
Push(h, d) ==
    LET n == Len(h.internalData) + 1
    IN  Up([h EXCEPT !.internalData = Append(@, d), !.internalMap = @ \cup {d},
                     !.index[d] = n, !.missed[d] = 0], n).heap

\* Mutant: the element leaves the slice and not the map.
Pop_NotFromMap(h) ==
    LET n == Len(h.internalData)
    IN  [h EXCEPT !.internalData = SubSeq(@, 1, n - 1),
                  !.index[h.internalData[n]] = 0]

\* The Pop of DatastoreHeap: the last element leaves.
Pop(h) ==
    LET n == Len(h.internalData)
        d == h.internalData[n]
    IN  [h EXCEPT !.internalData = SubSeq(@, 1, n - 1), !.internalMap = @ \ {d},
                  !.index[d] = 0]

\* heap.Remove of position i.
Remove(h, i) ==
    LET n == Len(h.internalData)
    IN  Pop(IF i = n THEN h ELSE Fix(Swap(h, i, n), i, n - 1))

\* heap.Init: the inner nodes are moved down, from the last one to the root.
HeapifyTurn(s) ==
    IF s.at = 0 THEN s
    ELSE [heap |-> Down(s.heap, s.at, Len(s.heap.internalData)).heap, at |-> s.at - 1]

Heapify(h) ==
    LET inner == Len(h.internalData) \div 2
    IN  Repeat(HeapifyTurn, [heap |-> h, at |-> inner], inner).heap

\* heap.Pop, while there is something to pop: the root is moved to the end
\* and popped there.
PopTurn(s) ==
    LET n == Len(s.heap.internalData)
    IN  IF n = 0 THEN s
        ELSE [heap |-> Pop(Down(Swap(s.heap, 1, n), 1, n - 1).heap),
              top  |-> Append(s.top, s.heap.internalData[1])]

PopK(h) == Repeat(PopTurn, [heap |-> h, top |-> <<>>], K)

\* Mutant: the copied slice is taken for a heap as it is.
TopK_NoInit(h) == PopK([h EXCEPT !.internalMap = {}])

\* TopK works on a copy of the slice and a map of its own, but the copy
\* holds the same pointers.
TopK(h) == PopK(Heapify([h EXCEPT !.internalMap = {}]))

\* Mutant: every pass counts as a missed heartbeat.
CheckTTL_AlwaysCounts(h, d, late) == [h EXCEPT !.missed[d] = @ + 1]

\* Mutant: the passes found late are not counted, only marked.
CheckTTL_NotCounted(h, d, late) == [h EXCEPT !.missed[d] = IF d \in late THEN 1 ELSE 0]

\* CheckTTL of d, whose last heartbeat is older than the TTL if it is in late.
CheckTTL(h, d, late) == [h EXCEPT !.missed[d] = IF d \in late THEN @ + 1 ELSE 0]

\* Mutant: off by one.
Healthy_OneMore(h, d) == h.missed[d] <= MaxMissed + 1

\* What CheckTTL returns.
Healthy(h, d) == h.missed[d] <= MaxMissed

\* A turn of RemoveDead at position s.at: an element that has missed too
\* many heartbeats is removed, else the heap is fixed around it.
SweepTurn(s, late) ==
    LET d       == s.heap.internalData[s.at]
        checked == CheckTTL(s.heap, d, late)
    IN  IF s.at > Len(s.heap.internalData) THEN s
        ELSE IF Healthy(checked, d)
        THEN [heap |-> Fix(checked, s.at, Len(checked.internalData)), at |-> s.at + 1]
        ELSE [s EXCEPT !.heap = Remove([checked EXCEPT !.internalMap = @ \ {d}], s.at)]

Sweep(h, late) ==
    Repeat(LAMBDA s : SweepTurn(s, late), [heap |-> h, at |-> 1], Len(h.internalData))

-----------------------------------------------------------------------------
Init ==
    /\ heap = NewDatastoreHeap
    /\ silent = [d \in Datastores |-> 0]
    /\ crashed = FALSE

\* A heartbeat of a known datastore: AddOrUpdateDatastore replaces its
\* status and fixes the heap at its Index; an Index beyond the heap panics.
UpdateDatastore(d, s) ==
    /\ ~crashed
    /\ d \in heap.internalMap
    /\ IF heap.index[d] > Len(heap.internalData)
       THEN crashed' = TRUE /\ UNCHANGED <<heap, silent>>
       ELSE /\ heap' = Fix([heap EXCEPT !.status[d] = s], heap.index[d],
                           Len(heap.internalData))
            /\ silent' = [silent EXCEPT ![d] = 0]
            /\ UNCHANGED crashed

\* The first heartbeat of a datastore, or the first after it was removed.
AddDatastore(d, s) ==
    /\ ~crashed
    /\ d \notin heap.internalMap
    /\ heap' = Push([heap EXCEPT !.status[d] = s], d)
    /\ silent' = [silent EXCEPT ![d] = 0]
    /\ UNCHANGED crashed

\* What Go's garbage collector does with a removed element.
Collected(h) ==
    LET live == {h.internalData[i] : i \in DOMAIN h.internalData}
    IN  [h EXCEPT !.missed = [d \in Datastores |-> IF d \in live THEN @[d] ELSE 0],
                  !.status = [d \in Datastores |-> IF d \in live THEN @[d] ELSE NoStatus]]

\* One pass of PeriodicCheck.
RemoveDead ==
    /\ ~crashed
    /\ \E late \in SUBSET {d \in Registered : silent[d] >= 1} :
          /\ {d \in Registered : silent[d] >= 2} \subseteq late
          /\ heap' = Collected(Sweep(heap, late).heap)
    /\ silent' = [d \in Datastores |->
                    IF d \notin Registered' THEN 0
                    ELSE IF silent[d] < MaxSilent THEN silent[d] + 1 ELSE MaxSilent]
    /\ UNCHANGED crashed

\* GetTopKDatastores.
GetTopK ==
    /\ ~crashed
    /\ heap' = [heap EXCEPT !.index = TopK(heap).heap.index]
    /\ UNCHANGED <<silent, crashed>>

Restart ==
    /\ heap' = NewDatastoreHeap
    /\ silent' = [d \in Datastores |-> 0]
    /\ crashed' = FALSE

Next ==
    \/ \E d \in Datastores, s \in Statuses : UpdateDatastore(d, s) \/ AddDatastore(d, s)
    \/ RemoveDead
    \/ GetTopK
    \/ Restart

Spec == Init /\ [][Next]_vars

\* PeriodicCheck sleeps and sweeps forever.  This is WF_vars(RemoveDead): a
\* pass over a heap that is not empty can always be made and changes it.
SweepsGoOn == []<>(crashed \/ Registered = {}) \/ []<><<RemoveDead>>_vars

FairSpec == Spec /\ SweepsGoOn

-----------------------------------------------------------------------------
\* The map that heartbeats look datastores up in and the slice that sweeps
\* and TopK read hold the same datastores, each once, though removals delete
\* from the map before the swaps of heap.Remove write to it again.
MapMatchesHeap ==
    /\ heap.internalMap = Registered
    /\ Cardinality(Registered) = Len(heap.internalData)

\* No heartbeat panics, as long as requests ask for at least as many datastores
\* as there are: the Index of an element is its position or, once TopK has
\* popped its copy, that of a popped one.  heap.Fix does nothing there, so the
\* next heartbeat may leave the heap out of order (UpdateKeepsOrder).
IndexIsSafe ==
    /\ \A i \in DOMAIN heap.internalData : heap.index[heap.internalData[i]] \in {0, i}
    /\ ~crashed

\* GetTopKDatastores offers the best datastores by score, best first, even
\* when updates and sweeps have left the heap itself out of order.
TopKIsBest ==
    LET top == TopK(heap).top
        chosen == {top[i] : i \in DOMAIN top}
    IN  /\ Len(top) = IF K < Cardinality(Registered) THEN K ELSE Cardinality(Registered)
        /\ Cardinality(chosen) = Len(top) /\ chosen \subseteq Registered
        /\ \A i \in 2 .. Len(top) : Score(heap, top[i - 1]) >= Score(heap, top[i])
        /\ \A c \in chosen, d \in Registered \ chosen : Score(heap, c) >= Score(heap, d)

\* A sweep checks a datastore once or, as it moves elements around, not at all
\* or again: the misses of one that is late grow by the number of checks, which
\* the number of datastores bounds, and one that is dropped had too many.
Counted(count, checks, isLate) ==
    IF checks = 0 THEN count ELSE IF isLate THEN count + checks ELSE 0
SweepCounts ==
    [][RemoveDead =>
         \A d \in Registered :
            \E checks \in 0 .. Len(heap.internalData), isLate \in BOOLEAN :
               LET count == Counted(heap.missed[d], checks, isLate)
               IN  /\ silent[d] = 0 => ~isLate
                   /\ silent[d] >= 2 => isLate
                   /\ d \in Registered' => heap'.missed[d] = count
                   /\ d \notin Registered' => count > MaxMissed]_vars

\* The heap implements the registry: a sweep drops no datastore that was
\* heard from since the sweep before, and neither updates nor TopK add or
\* lose one.
Registry == INSTANCE DatastoreRegistry WITH
    registry <- Registered, recent <- {d \in Registered : silent[d] = 0}
ImplementsRegistry == Registry!Spec

\* A datastore that has fallen silent is dropped, or heard from again,
\* although a sweep that moves elements around may skip it, once the others
\* report the same loads again and again.
LoadsSettle ==
    <>[][\A d \in Registered \cap Registered' : heap'.status[d] = heap.status[d]]_vars
SilentIsDropped ==
    LoadsSettle => \A d \in Datastores : silent[d] >= 1 ~> silent[d] = 0

-----------------------------------------------------------------------------
(* What comments and tests say of the heap and the code does not keep.     *)

\* "RemoveDead removes any Datastore that has exceeded its TTL": a datastore
\* late at more than MaxMissed passes does not survive the next.
RemovedAfterMaxMissed ==
    [][RemoveDead => \A d \in Registered' : silent[d] <= MaxMissed + 1]_vars

\* "heap.Fix re-establishes the heap ordering after the update", and TopK works
\* on "a copy to not disturb the original heap": a heartbeat leaves no element
\* with a higher score below one with a lower, unless one was before.
HeapOrdered == \A i \in 2 .. Len(heap.internalData) : ~Less(heap, i, i \div 2)
UpdateKeepsOrder ==
    [][(\E d \in Datastores, s \in Statuses : UpdateDatastore(d, s)) /\ HeapOrdered =>
          HeapOrdered']_vars

\* "A datastore with a higher score is preferred", the score being computed
\* as it is written, without the wrap of unsigned arithmetic.
WrittenScore(d) ==
    LET s == heap.status[d]
    IN  5 * s.ram + 5 * s.space - 50 * s.db - 10 * heap.missed[d]
HigherScorePreferred ==
    Registered # {} =>
        \A d \in Registered : WrittenScore(TopK(heap).top[1]) >= WrittenScore(d)
==============================================================================
