------------------------------- MODULE Timers -------------------------------
(***************************************************************************)
(* What the timers of evloop/timer.c promise.  A timer that is set fires   *)
(* once, unless it is deleted or set anew first; at most a millisecond     *)
(* before its time, and after all that are due before it; and a call of    *)
(* evtimers_run ends only when nothing is due by the clock it has read.    *)
(* Times are relative to the clock.                                        *)
(***************************************************************************)
EXTENDS Integers

CONSTANTS
    Handles,  \* timers
    Delays,   \* for how long they are set
    Slack,    \* one millisecond
    MaxLate,  \* bound: how late a timer, and how long a call, can be
    None      \* no timer

VARIABLES
    due,      \* when each timer that is set is to fire
    run,      \* how long ago evtimers_run has read the clock, or -1
    called    \* the timer whose callback runs, or None

vars == <<due, run, called>>

Init == due = <<>> /\ run = -1 /\ called = None

Pass ==
    /\ run < MaxLate /\ \A h \in DOMAIN due : due[h] > -MaxLate
    /\ due' = [h \in DOMAIN due |-> due[h] - 1]
    /\ run' = IF run = -1 THEN -1 ELSE run + 1
    /\ UNCHANGED called

Callbacks == run = -1 \/ called # None

Set(h) ==
    /\ Callbacks
    /\ \E d \in Delays :
         due' = [k \in DOMAIN due \union {h} |-> IF k = h THEN d ELSE due[k]]
    /\ UNCHANGED <<run, called>>

Without(h) == [k \in DOMAIN due \ {h} |-> due[k]]

Clear(h) == Callbacks /\ due' = Without(h) /\ UNCHANGED <<run, called>>

Begin == run = -1 /\ run' = 0 /\ UNCHANGED <<due, called>>

Due(h) == due[h] + run < Slack

Fire(h) ==
    /\ run # -1 /\ called = None /\ h \in DOMAIN due /\ Due(h)
    /\ \A k \in DOMAIN due : due[h] <= due[k]
    /\ due' = Without(h)
    /\ called' = h
    /\ UNCHANGED run

Return == called # None /\ called' = None /\ UNCHANGED <<due, run>>

End ==
    /\ run # -1 /\ called = None /\ \A h \in DOMAIN due : ~Due(h)
    /\ run' = -1
    /\ UNCHANGED <<due, called>>

Next ==
    \/ Pass \/ Begin \/ Return \/ End
    \/ \E h \in Handles : Set(h) \/ Clear(h) \/ Fire(h)

Spec == Init /\ [][Next]_vars

\* No timer stays set for ever, unless it is set anew again and again.
Fires == \A h \in Handles :
    <>[](h \in DOMAIN due) => []<><<Set(h)>>_vars

=============================================================================
