------------------------------ MODULE TimeHeap ------------------------------
(***************************************************************************)
(* Timers (evloop/timer.c) in a binary heap (evloop/timeheap.c) whose      *)
(* entries point at their handles and whose handles know their index, and  *)
(* the event loop as far as it runs them and waits for them (evloop/       *)
(* epoll.c).  Indices start at 0 as in the code.  All times are relative   *)
(* to the clock: they decrease when it advances.                           *)
(***************************************************************************)
EXTENDS Integers, Sequences, FiniteSets

CONSTANTS
    Handles,  \* timers
    Delays,   \* for how long they are set: natural numbers
    Slack,    \* one millisecond, in units of the clock: at least one
    MaxLate,  \* bound: how late a timer, and how long a call, can be
    None      \* no timer: not one of the handles

VARIABLES
    heap,     \* entries [t, h]; index i of the code is i + 1 here
    ix,       \* h->th.i of every timer
    run,      \* the age of `now' in evtimers_run, or -1 when it does not run
    called,   \* the timer whose callback runs, or None
    alarm,    \* the time epoll_wait still waits, or Never; or NotWaiting
    woken,    \* the last epoll_wait has timed out, and nothing was fired yet
    aborted   \* an assertion failed

Never == -1
NotWaiting == -2

vars == <<heap, ix, run, called, alarm, woken, aborted>>

Init ==
    /\ heap = <<>> /\ ix = [h \in Handles |-> -1]
    /\ run = -1 /\ called = None /\ alarm = NotWaiting
    /\ woken = FALSE /\ aborted = FALSE

------------------------------------------------------------------------------
(* The heap, for a state s of entries `e' (those in use) and indices `i' *)

Use(s) == Len(s.e)
T(s, i) == s.e[i + 1].t
lt(s, a, b) == T(s, a) < T(s, b)

\* An entry is stored at index j and its handle told so.
Put(s, j, x) == [e |-> [s.e EXCEPT ![j + 1] = x], i |-> [s.i EXCEPT ![x.h] = j]]
swap(s, i, j) == Put(Put(s, i, s.e[j + 1]), j, s.e[i + 1])

RECURSIVE bubble_up(_, _)
bubble_up(s, i) ==
    LET p == (i - 1) \div 2 IN
    IF i # 0 /\ lt(s, i, p) THEN bubble_up(swap(s, i, p), p) ELSE s

\* The smaller child of i.
child(s, i) ==
    LET li == 2 * i + 1
        ri == 2 * i + 2
    IN IF ri < Use(s) /\ ~lt(s, li, ri) THEN ri ELSE li

RECURSIVE bubble_down(_, _)
bubble_down(s, i) ==
    IF 2 * i + 1 < Use(s) /\ lt(s, child(s, i), i)
    THEN bubble_down(swap(s, i, child(s, i)), child(s, i)) ELSE s

timeheap_insert(s, h, t) ==
    bubble_up([e |-> Append(s.e, [t |-> t, h |-> h]),
               i |-> [s.i EXCEPT ![h] = Use(s)]], Use(s))

\* The last entry replaces the one at index j and moves to its place.
Bug_settle(s, j, earlier) == bubble_down(s, j)
settle(s, j, earlier) == IF earlier THEN bubble_up(s, j) ELSE bubble_down(s, j)

timeheap_remove(s, j) ==
    LET n == Use(s) - 1
        last == s.e[n + 1]
        rest == [s EXCEPT !.e = SubSeq(@, 1, n)]
    IN CASE n = 0 -> rest
         [] j = n -> rest
         [] OTHER -> settle(Put(rest, j, last), j, last.t < T(s, j))

timeheap_change(s, h, t) ==
    LET j == s.i[h]
        s2 == [s EXCEPT !.e[j + 1].t = t]
    IN IF t < T(s, j) THEN bubble_up(s2, j) ELSE bubble_down(s2, j)

Heap == [e |-> heap, i |-> ix]
Becomes(s) == heap' = s.e /\ ix' = s.i

------------------------------------------------------------------------------
(* Timers.  They are set and deleted by callbacks: their own, and those of *)
(* the descriptors the loop has found ready. *)

Waiting == alarm # NotWaiting
MayOperate == ~aborted /\ ~Waiting /\ (run = -1 \/ called # None)

InHeap(h) == ix[h] >= 0 /\ ix[h] < Len(heap)

evtimer_add(h, d) ==
    /\ MayOperate
    /\ IF ix[h] = -1
       THEN Becomes(timeheap_insert(Heap, h, d)) /\ UNCHANGED aborted
       ELSE IF InHeap(h)
       THEN Becomes(timeheap_change(Heap, h, d)) /\ UNCHANGED aborted
       ELSE aborted' = TRUE /\ UNCHANGED <<heap, ix>>
    /\ UNCHANGED <<run, called, alarm, woken>>

unset(i, h) == [i EXCEPT ![h] = -1]

evtimer_del(h) ==
    /\ MayOperate /\ ix[h] >= 0
    /\ IF InHeap(h)
       THEN LET s == timeheap_remove(Heap, ix[h]) IN
            heap' = s.e /\ ix' = unset(s.i, h) /\ UNCHANGED aborted
       ELSE aborted' = TRUE /\ UNCHANGED <<heap, ix>>
    /\ UNCHANGED <<run, called, alarm, woken>>

\* The loop comes back to evtimers_run after the callbacks of descriptors.
evtimers_run ==
    /\ ~aborted /\ ~Waiting /\ run = -1
    /\ run' = 0
    /\ UNCHANGED <<heap, ix, called, alarm, woken, aborted>>

\* Less than a millisecond is left, by the clock evtimers_run has read.
Bug_early(t) == t + run < 2 * Slack
Bug_exact(t) == t + run <= 0
is_due(t) == t + run < Slack
TopDue == heap # <<>> /\ is_due(heap[1].t)

\* One turn of the loop; what the callback does are steps that follow.
fire ==
    /\ ~aborted /\ run # -1 /\ called = None /\ TopDue
    /\ LET s == timeheap_remove(Heap, 0) IN
       /\ heap' = s.e /\ ix' = unset(s.i, heap[1].h) /\ called' = heap[1].h
       /\ woken' = FALSE
    /\ UNCHANGED <<run, alarm, aborted>>

return ==
    /\ ~aborted /\ called # None
    /\ called' = None
    /\ UNCHANGED <<heap, ix, run, alarm, woken, aborted>>

\* A timer that has become due since counts as 0, and -1 is for ever.
Bug_evtimer_delay ==
    IF heap = <<>> \/ heap[1].t < 0 THEN Never ELSE heap[1].t
evtimer_delay ==
    CASE heap = <<>> -> Never
      [] heap # <<>> /\ heap[1].t < 0 -> 0
      [] OTHER -> heap[1].t

\* epoll_wait is given whole milliseconds.
millisecs(delay) == IF delay = Never THEN delay ELSE Slack * (delay \div Slack)

epoll_wait ==
    /\ ~aborted /\ run # -1 /\ called = None /\ ~TopDue
    /\ run' = -1 /\ woken' = FALSE
    /\ alarm' = millisecs(evtimer_delay)
    /\ UNCHANGED <<heap, ix, called, aborted>>

\* epoll_wait times out, and evtimers_run reads the clock.
timed_out ==
    /\ ~aborted /\ alarm = 0
    /\ alarm' = NotWaiting /\ run' = 0 /\ woken' = TRUE
    /\ UNCHANGED <<heap, ix, called, aborted>>

\* There are events, or a signal.
has_events ==
    /\ ~aborted /\ Waiting
    /\ alarm' = NotWaiting
    /\ UNCHANGED <<heap, ix, run, called, woken, aborted>>

\* The clock advances.  Nothing but the bound keeps it from doing so.
pass ==
    /\ ~aborted /\ run < MaxLate /\ \A i \in 1..Len(heap) : heap[i].t > -MaxLate
    /\ heap' = [i \in 1..Len(heap) |-> [heap[i] EXCEPT !.t = @ - 1]]
    /\ run' = IF run = -1 THEN -1 ELSE run + 1
    /\ alarm' = IF alarm > 0 THEN alarm - 1 ELSE alarm
    /\ UNCHANGED <<ix, called, woken, aborted>>

Loop == evtimers_run \/ fire \/ return \/ epoll_wait \/ timed_out

Next ==
    \/ \E h \in Handles : evtimer_del(h) \/ \E d \in Delays : evtimer_add(h, d)
    \/ Loop \/ has_events \/ pass

Spec == Init /\ [][Next]_vars

\* Callbacks return, and the loop goes on; it need not find events.
Fairness == WF_vars(Loop) /\ WF_vars(pass)

------------------------------------------------------------------------------
(* Properties *)

\* Types; handles and entries point at each other, a timer that is not in the
\* heap knows it, and so the assertions of timeheap.c hold; and no entry is
\* earlier than its parent, on which finding the next timer rests.
HeapOk ==
    /\ heap \in Seq([t : Int, h : Handles])
    /\ \A j \in 1..Len(heap) : ix[heap[j].h] = j - 1
    /\ \A h \in Handles : ix[h] = -1 \/ (InHeap(h) /\ heap[ix[h] + 1].h = h)
    /\ \A i \in 1..(Len(heap) - 1) : T(Heap, (i - 1) \div 2) <= T(Heap, i)
    /\ run \in -1..MaxLate /\ alarm \in Int /\ woken \in BOOLEAN
    /\ called \in Handles \union {None} /\ ~aborted

\* Setting, deleting and firing timers in any order, from callbacks too, does
\* what Timers says: timers are fired in order, at most a millisecond early,
\* and evtimers_run ends only when nothing is due by its clock.
Abs == INSTANCE Timers WITH
    due <- [h \in {k \in Handles : InHeap(k)} |-> heap[ix[h] + 1].t]
ImplementsTimers == Abs!Spec

\* When epoll_wait has timed out there is a timer to fire, though the time waited
\* was rounded down to milliseconds: the tolerance of evtimers_run is as large as
\* what the rounding takes away, and the loop does not spin.
NoSpin == woken => TopDue

\* The loop serves its timers: it does not come back early for nothing, and
\* every timer fires unless it is deleted or set anew, whether or not there are
\* events - epoll_wait never sleeps past the first one.
TimersFire == []NoSpin /\ Abs!Fires

=============================================================================
