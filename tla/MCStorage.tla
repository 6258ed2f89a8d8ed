----------------------------- MODULE MCStorage ------------------------------
(***************************************************************************)
(* Where btpd keeps what it works on: the files and the resume data        *)
(* (Content), the heap of timers (TimeHeap) and the hash table             *)
(* (HashTable).  They share nothing, and a behaviour is one of one of      *)
(* them, `which'; the others stay in an initial state.                     *)
(***************************************************************************)
EXTENDS MCContent

CONSTANTS
    Handles, Delays, Slack, MaxLate, None,  \* of TimeHeap
    MaxBuckets                              \* of HashTable

VARIABLES
    which,
    heap, ix, run, called, alarm, woken, aborted,
    ratio, buckets, count, it, present, todo, bad

heapvars == <<heap, ix, run, called, alarm, woken, aborted>>
tablevars == <<ratio, buckets, count, it, present, todo, bad>>

Timing == INSTANCE TimeHeap

ASSUME TimingAssumption ==
    /\ Delays \subseteq Nat /\ Slack \in Nat \ {0} /\ MaxLate \in Nat
    /\ None \notin Handles

\* All keys share the first bucket, four of them one of three, none one of seven.
MCKeys == 1..5
MCHash == [k \in MCKeys |-> IF k = 5 THEN 1 ELSE 3 * (k - 1)]

Table == INSTANCE HashTable WITH
    Keys <- MCKeys, Hash <- MCHash, Ratios <- {1, 3}, size <- count

------------------------------------------------------------------------------
MCInit ==
    /\ which \in {"files", "heap", "table"} /\ Init /\ Timing!Init /\ Table!Init
    /\ which # "table" => ratio = 1
    /\ which # "files" => errors = {}

MCNext ==
    \/ which = "files" /\ Next /\ UNCHANGED <<which, heapvars, tablevars>>
    \/ which = "heap" /\ Timing!Next /\ UNCHANGED <<which, vars, tablevars>>
    \/ which = "table" /\ Table!Next /\ UNCHANGED <<which, vars, heapvars>>

MCSpec == MCInit /\ [][MCNext]_<<which, vars, heapvars, tablevars>>

\* The timers are alike: while heap and handles agree, the times in the heap
\* and the place of the timer that is called say all of a state but names.
Times == [i \in 1..Len(heap) |-> heap[i].t]
Place == IF called = None THEN -2 ELSE ix[called]
UpToNames ==
    <<which, vars, tablevars, run, alarm, woken, aborted,
      IF Timing!HeapOk THEN <<Times, Place>> ELSE <<heap, ix, called>>>>

\* TimeHeap's properties (timeheap.c and timer.c), and HashTable's (hashtable.c).
HeapOk == Timing!HeapOk
ImplementsTimers == Timing!ImplementsTimers
IsTheSet == Table!IsTheSet

=============================================================================
