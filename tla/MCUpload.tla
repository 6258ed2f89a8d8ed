------------------------------ MODULE MCUpload ------------------------------
(***************************************************************************)
(* A small instance of Upload, and of the timers its ten seconds rest on   *)
(* (TimeHeap).  Upload's choke_cb happens again and again because a timer  *)
(* that is set fires, which is what TimeHeap promises; nothing else is     *)
(* common to the two, and a behaviour is one of one of them, `part'.       *)
(***************************************************************************)
EXTENDS Upload

CONSTANTS
    p1, p2, p3,                                 \* model values
    Handles, Delays, Slack, MaxLate, None       \* of TimeHeap

VARIABLES part, heap, ix, run, called, alarm, woken, aborted

heapvars == <<heap, ix, run, called, alarm, woken, aborted>>

\* Two torrents: one with all peers but the first.
TwoNets == [p \in Peers |-> IF p = p1 THEN 1 ELSE 2]

\* No limit, no uploads, and one or two slots.
Limits == {-1, 0, 1, 2}

Timing == INSTANCE TimeHeap

ASSUME TimingAssumption ==
    /\ Delays \subseteq Nat /\ Slack \in Nat \ {0} /\ MaxLate \in Nat
    /\ None \notin Handles

------------------------------------------------------------------------------
\* The part that does not run is in one of its initial states.
MCInit ==
    /\ part \in {"upload", "timers"} /\ Init /\ Timing!Init
    /\ part = "timers" => max = 0

MCNext ==
    \/ part = "upload" /\ Next /\ UNCHANGED <<part, heapvars>>
    \/ part = "timers" /\ Timing!Next /\ UNCHANGED <<part, vars>>

MCSpec ==
    /\ MCInit /\ [][MCNext]_<<part, vars, heapvars>>
    /\ WF_vars(part = "upload" /\ choke_cb)
    /\ part = "timers" => Timing!Fairness

\* TimeHeap's property (evtimers_run, evtimer_delay and evloop).
TimersFire == Timing!TimersFire

=============================================================================
