------------------------------ MODULE EvBatch -------------------------------
(***************************************************************************)
(* The event loops over epoll(7) and kqueue(2) (evloop/epoll.c and         *)
(* evloop/kqueue.c): the system hands out a batch of ready events, and the *)
(* loop goes through it making callbacks, which add, change and remove     *)
(* events that may still be in the batch.  An event knows its positions    *)
(* there, so that fdev_del can mark them as no longer valid.               *)
(*                                                                         *)
(* With epoll an entry tells all that an event is ready for (an error      *)
(* counts as everything), with kqueue one thing it asked for.              *)
(*                                                                         *)
(* How btpd uses the loop: as in EvLoop, but here any callback may add     *)
(* events.  The memory of a removed one may serve for a new one.           *)
(***************************************************************************)
EXTENDS Integers, Sequences, FiniteSets

CONSTANTS
    Events,    \* struct fdev
    Clients,   \* those of btcli connections
    MaxBatch,  \* entries of m_evs (100)
    MaxOps,    \* bound: what a callback does
    None       \* no event

Types == {"read", "write"}

VARIABLES
    split,    \* kqueue, not epoll
    flags,    \* ev->flags
    known,    \* the events in use
    idx,      \* ev->index; ev->rdidx and ev->wridx
    batch,    \* m_evs
    valid,    \* m_valid
    cur,      \* i of the loop, 0 when it waits
    type,     \* what is looked at: "read", "write" or "next"
    called,   \* the event whose callback runs, or None
    ops,      \* what the callback may still do
    renewed,  \* events added since the batch was handed out
    bad       \* an entry was used whose event is gone or not enabled

regs == <<flags, known, idx, renewed>>
vars == <<split, regs, batch, valid, cur, type, called, ops, bad>>

Init ==
    /\ split \in BOOLEAN
    /\ flags = [e \in Events |-> {}] /\ known = {} /\ idx = [e \in Events |-> {}]
    /\ batch = <<>> /\ valid = <<>> /\ cur = 0 /\ type = "next"
    /\ called = None /\ ops = 0 /\ renewed = {} /\ bad = FALSE

\* What may be asked for an event.
Asked(e) == IF e \in Clients THEN {{"read"}} ELSE SUBSET Types

------------------------------------------------------------------------------
(* Operations on events, by a callback or, between rounds, by a timer *)

MayOperate == ~bad /\ (cur = 0 \/ (called # None /\ ops > 0))
Operated == ops' = (IF cur = 0 THEN ops ELSE ops - 1)

fdev_new(e, ts) ==
    /\ MayOperate /\ e \notin known
    /\ flags' = [flags EXCEPT ![e] = ts]
    /\ idx' = [idx EXCEPT ![e] = {}]
    /\ known' = known \union {e}
    /\ renewed' = IF cur = 0 THEN {} ELSE renewed \union {e}
    /\ Operated
    /\ UNCHANGED <<split, batch, valid, cur, type, called, bad>>

\* fdev_enable and fdev_disable.
fdev_change(e, ts) ==
    /\ MayOperate /\ e \in known /\ flags[e] # ts
    /\ flags' = [flags EXCEPT ![e] = ts]
    /\ Operated
    /\ UNCHANGED <<split, known, idx, renewed, batch, valid, cur, type, called, bad>>

\* A callback removes its own event, one of a btcli connection any.
Removes(e) == cur = 0 \/ e = called \/ called \in Clients

Bug_positions(e) == {i \in idx[e] : batch[i].types # {"write"}}
positions(e) == idx[e]

fdev_del(e) ==
    /\ MayOperate /\ e \in known /\ Removes(e)
    /\ valid' = [i \in DOMAIN valid |-> valid[i] /\ i \notin positions(e)]
    /\ flags' = [flags EXCEPT ![e] = {}]
    /\ known' = known \ {e}
    /\ Operated
    /\ UNCHANGED <<split, idx, renewed, batch, cur, type, called, bad>>

------------------------------------------------------------------------------
(* The loop *)

Entry == [ev : Events, types : (SUBSET Types) \ {{}}]

\* What the system can report of the events that ask for something.
Reports == {x \in Entry : IF split THEN \E t \in flags[x.ev] : x.types = {t}
                          ELSE flags[x.ev] # {}}
Distinct(b) ==
    \A i, j \in DOMAIN b : i < j => b[i].ev # b[j].ev \/ (split /\ b[i] # b[j])

epoll_wait ==
    /\ ~bad /\ cur = 0
    /\ \E n \in 1..MaxBatch : \E b \in [1..n -> Reports] :
         /\ Distinct(b)
         /\ batch' = b
         /\ idx' = [e \in Events |-> IF \E i \in 1..n : b[i].ev = e
                                     THEN {i \in 1..n : b[i].ev = e} ELSE idx[e]]
         /\ valid' = [i \in 1..n |-> TRUE]
    /\ cur' = 1 /\ type' = "read" /\ renewed' = {}
    /\ UNCHANGED <<split, flags, known, called, ops, bad>>

\* Whether the callback is made for the entry at cur.
calls(t) == valid[cur] /\ t \in flags[batch[cur].ev] \intersect batch[cur].types

Later(t) == IF t = "read" THEN "write" ELSE "next"

callback(t) ==
    LET e == batch[cur].ev IN
    /\ ~bad /\ cur > 0 /\ type = t /\ called = None /\ calls(t)
    /\ called' = e
    /\ bad' = (e \notin known \/ e \in renewed \/ t \notin flags[e])
    /\ ops' = MaxOps
    /\ UNCHANGED <<split, regs, batch, valid, cur, type>>

return(t) ==
    /\ ~bad /\ type = t /\ called # None
    /\ called' = None /\ ops' = 0 /\ type' = Later(t)
    /\ UNCHANGED <<split, regs, batch, valid, cur, bad>>

skip(t) ==
    /\ ~bad /\ cur > 0 /\ type = t /\ called = None /\ ~calls(t)
    /\ type' = Later(t)
    /\ UNCHANGED <<split, regs, batch, valid, cur, called, ops, bad>>

\* The event of a valid entry has no position any more; then the next entry.
next ==
    LET e == batch[cur].ev IN
    /\ ~bad /\ cur > 0 /\ type = "next"
    /\ idx' = IF valid[cur] THEN [idx EXCEPT ![e] = @ \ {cur}] ELSE idx
    /\ bad' = (valid[cur] /\ (e \notin known \/ e \in renewed))
    /\ IF cur < Len(batch) THEN cur' = cur + 1 /\ type' = "read" /\ UNCHANGED <<batch, valid>>
       ELSE cur' = 0 /\ type' = "next" /\ batch' = <<>> /\ valid' = <<>>
    /\ UNCHANGED <<split, flags, known, renewed, called, ops>>

Next ==
    \/ \E e \in Events :
         \/ \E ts \in Asked(e) : fdev_new(e, ts) \/ fdev_change(e, ts)
         \/ fdev_del(e)
    \/ epoll_wait \/ next
    \/ \E t \in Types : callback(t) \/ return(t) \/ skip(t)

Spec == Init /\ [][Next]_vars

------------------------------------------------------------------------------
(* Properties *)

\* Types.
TypeOK ==
    /\ flags \in [Events -> SUBSET Types] /\ known \subseteq Events
    /\ idx \in [Events -> SUBSET (1..MaxBatch)]
    /\ batch \in Seq(Entry) /\ DOMAIN valid = DOMAIN batch
    /\ cur \in 0..Len(batch) /\ type \in Types \union {"next"}
    /\ called \in Events \union {None} /\ ops \in 0..MaxOps

\* Entries of the batch that are still to be dealt with.
Ahead == {i \in DOMAIN batch : i >= cur /\ valid[i]}

\* No callback is made, and no event touched, on the strength of an entry whose
\* event has been removed, disabled, or removed and set up anew since the batch
\* was handed out; every event still ahead in the batch knows where.
BatchLive ==
    /\ TypeOK /\ ~bad
    /\ \A e \in known : idx[e] = {i \in Ahead : batch[i].ev = e}

=============================================================================
