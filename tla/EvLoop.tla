------------------------------- MODULE EvLoop -------------------------------
(***************************************************************************)
(* The event loop over poll(2) (evloop/poll.c): an array of descriptors    *)
(* with the events asked for and the events found, and a loop over it in   *)
(* which the callbacks add, change and remove entries.  Removing one moves *)
(* the last into its place.  Entries keep their `revents' from one use of  *)
(* a place to the next.  The array does not grow here (Capacity).          *)
(*                                                                         *)
(* How btpd uses the loop: a callback adds events, changes them and        *)
(* removes its own.  Only the callback of a btcli connection, which stops  *)
(* torrents, removes others too.  It adds none, for what it starts begins  *)
(* in later callbacks and timers; it reads and never asks for "write".     *)
(***************************************************************************)
EXTENDS Integers, Sequences, FiniteSets

CONSTANTS
    Events,    \* struct fdev
    Clients,   \* those of btcli connections
    Capacity,  \* bound: m_cap
    MaxOps,    \* bound: what a callback does
    None       \* no event

Types == {"read", "write"}

VARIABLES
    slot,     \* m_pfds and m_pevs, indices 0..Capacity-1
    size,     \* m_size
    ix,       \* ev->i of every event, -1 when it is not registered
    cur,      \* m_cur
    curdel,   \* m_curdel
    type,     \* the loop: "poll", "read", "write" or "next"
    called,   \* the event whose callback runs, or None
    ops,      \* what the callback may still do
    bad       \* a callback was made for an event that is gone or not enabled

vars == <<slot, size, ix, cur, curdel, type, called, ops, bad>>

Slots == 0..(Capacity - 1)
Empty == [ev |-> None, events |-> {}, revents |-> {}]

Init ==
    /\ slot = [i \in Slots |-> Empty] /\ size = 0
    /\ ix = [e \in Events |-> -1]
    /\ cur = -1 /\ curdel = FALSE /\ type = "poll"
    /\ called = None /\ ops = 0 /\ bad = FALSE

Known == {e \in Events : ix[e] # -1}

\* What may be asked for an event.
Asked(e) == IF e \in Clients THEN {{"read"}} ELSE SUBSET Types

------------------------------------------------------------------------------
(* Operations on events, by a callback or, between rounds, by a timer *)

MayOperate == ~bad /\ (type = "poll" \/ (called # None /\ ops > 0))
Operated == ops' = (IF type = "poll" THEN ops ELSE ops - 1)

fdev_new(e, ts) ==
    /\ MayOperate /\ e \notin Known /\ size < Capacity /\ e # called /\ called \notin Clients
    /\ slot' = [slot EXCEPT ![size].ev = e, ![size].events = ts]
    /\ ix' = [ix EXCEPT ![e] = size]
    /\ size' = size + 1
    /\ Operated
    /\ UNCHANGED <<cur, curdel, type, called, bad>>

\* fdev_enable and fdev_disable.
fdev_change(e, ts) ==
    /\ MayOperate /\ e \in Known /\ slot[ix[e]].events # ts
    /\ slot' = [slot EXCEPT ![ix[e]].events = ts]
    /\ Operated
    /\ UNCHANGED <<size, ix, cur, curdel, type, called, bad>>

\* A callback removes its own event, one of a btcli connection any.
Removes(e) == type = "poll" \/ e = called \/ called \in Clients

Bug_notes(i) == curdel
notes(i) == curdel \/ i = cur

moved(e, i) == [ix EXCEPT ![slot[size - 1].ev] = i, ![e] = -1]

fdev_del(e) ==
    /\ MayOperate /\ e \in Known /\ Removes(e)
    /\ slot' = [slot EXCEPT ![ix[e]] = slot[size - 1]]
    /\ ix' = moved(e, ix[e])
    /\ size' = size - 1
    /\ curdel' = notes(ix[e])
    /\ Operated
    /\ UNCHANGED <<cur, type, called, bad>>

------------------------------------------------------------------------------
(* The loop *)

\* poll: the descriptors found ready for something.
poll ==
    /\ ~bad /\ type = "poll" /\ size > 0
    /\ \E r \in [0..(size - 1) -> SUBSET Types] :
         slot' = [i \in Slots |-> IF i < size THEN [slot[i] EXCEPT !.revents = r[i]]
                                  ELSE slot[i]]
    /\ cur' = 0 /\ type' = "read"
    /\ UNCHANGED <<size, ix, curdel, called, ops, bad>>

Ready(t) == t \in slot[cur].events \intersect slot[cur].revents

\* Whether the callback is made for the entry at cur.
calls(t) == Ready(t) /\ (t = "read" \/ ~curdel)

Later(t) == IF t = "read" THEN "write" ELSE "next"

callback(t) ==
    /\ ~bad /\ type = t /\ called = None /\ calls(t)
    /\ called' = slot[cur].ev
    /\ bad' = (slot[cur].ev \notin Known \/ t \notin slot[ix[slot[cur].ev]].events)
    /\ ops' = MaxOps
    /\ UNCHANGED <<slot, size, ix, cur, curdel, type>>

return(t) ==
    /\ ~bad /\ type = t /\ called # None
    /\ called' = None /\ ops' = 0 /\ type' = Later(t)
    /\ UNCHANGED <<slot, size, ix, cur, curdel, bad>>

skip(t) ==
    /\ ~bad /\ type = t /\ called = None /\ ~calls(t)
    /\ type' = Later(t)
    /\ UNCHANGED <<slot, size, ix, cur, curdel, called, ops, bad>>

\* The next entry; the same place again when its entry was removed.
next ==
    /\ ~bad /\ type = "next"
    /\ LET c == IF curdel THEN cur ELSE cur + 1 IN
       IF c < size THEN cur' = c /\ type' = "read"
       ELSE cur' = -1 /\ type' = "poll"
    /\ curdel' = FALSE
    /\ UNCHANGED <<slot, size, ix, called, ops, bad>>

Next ==
    \/ \E e \in Events :
         \/ \E ts \in Asked(e) : fdev_new(e, ts) \/ fdev_change(e, ts)
         \/ fdev_del(e)
    \/ poll \/ next
    \/ \E t \in Types : callback(t) \/ return(t) \/ skip(t)

Spec == Init /\ [][Next]_vars

------------------------------------------------------------------------------
(* Properties *)

\* Types; events and entries point at each other.
TypeOK ==
    /\ slot \in [Slots -> [ev : Events \union {None}, events : SUBSET Types,
                           revents : SUBSET Types]]
    /\ size = Cardinality(Known) /\ size <= Capacity
    /\ \A e \in Known : ix[e] \in 0..(size - 1) /\ slot[ix[e]].ev = e
    /\ cur \in -1..(Capacity - 1) /\ {curdel, bad} \subseteq BOOLEAN
    /\ type \in Types \union {"poll", "next"}
    /\ called \in Events \union {None} /\ ops \in 0..MaxOps

\* A callback is made only for an event that is registered and asks for it,
\* whatever the callbacks before it have added and removed; and the tables by
\* which it is found stay consistent.
CallsLive == TypeOK /\ ~bad

=============================================================================
