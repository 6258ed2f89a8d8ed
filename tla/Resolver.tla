------------------------------ MODULE Resolver ------------------------------
(***************************************************************************)
(* Connecting to a host by name: the thread that calls getaddrinfo         *)
(* (btpd/addrinfo.c), the queue through which it hands its results to the  *)
(* main thread (btpd/thread_cb.c), and the attempts to connect to each of  *)
(* the addresses (btpd/nameconn.c).                                        *)
(*                                                                         *)
(* A step is what a thread does between two points where the other can     *)
(* interfere: a section under m_aiq_lock or m_td_lock is one step, and so  *)
(* is what follows it up to the next lock, signal, write or wait.          *)
(***************************************************************************)
EXTENDS Integers, Sequences, FiniteSets, SequencesExt

CONSTANTS
    Reqs,       \* calls of btpd_name_connect
    MaxAddrs,   \* bound: addresses of a host
    None        \* no request

ASSUME ResolverAssumption == MaxAddrs \in Nat /\ None \notin Reqs

VARIABLES
    ctx,      \* struct ai_ctx: where it is, whether cancelled, its addresses
    nc,       \* struct nameconn: state, addresses left, socket
    aiq,      \* m_aiq
    tpc,      \* the resolver thread: where it is, and
    tctx,     \*   the request it works on
    cbs,      \* m_td_cbs
    pipe,     \* bytes in the pipe
    mpc,      \* the main thread: where it is,
    mreq,     \*   the request it is making, and
    tmpq,     \*   tmpq of td_cb
    fault     \* freed memory was used or freed again

vars == <<ctx, nc, aiq, tpc, tctx, cbs, pipe, mpc, mreq, tmpq, fault>>

Init ==
    /\ ctx = [r \in Reqs |-> [live |-> FALSE, cancel |-> FALSE, addrs |-> 0]]
    /\ nc = [r \in Reqs |-> [st |-> "none", left |-> 0, sd |-> FALSE]]
    /\ aiq = <<>> /\ tpc = "check" /\ tctx = None
    /\ cbs = <<>> /\ pipe = 0
    /\ mpc = "idle" /\ mreq = None /\ tmpq = <<>> /\ fault = FALSE

------------------------------------------------------------------------------
(* The resolver thread: addrinfo_td *)

\* pthread_cond_wait when the queue is empty, else the first request is taken.
addrinfo_td_next ==
    IF aiq = <<>> THEN tpc' = "waiting" /\ UNCHANGED <<aiq, tctx>>
    ELSE tpc' = "resolve" /\ tctx' = Head(aiq) /\ aiq' = Tail(aiq)

td_check ==
    /\ tpc = "check"
    /\ addrinfo_td_next
    /\ UNCHANGED <<ctx, nc, cbs, pipe, mpc, mreq, tmpq, fault>>

\* A wait may end without a signal.
td_spurious ==
    /\ tpc = "waiting"
    /\ tpc' = "check"
    /\ UNCHANGED <<ctx, nc, aiq, tctx, cbs, pipe, mpc, mreq, tmpq, fault>>

\* getaddrinfo: an error is no addresses.
td_resolve ==
    /\ tpc = "resolve"
    /\ \E n \in 0..MaxAddrs : ctx' = [ctx EXCEPT ![tctx].addrs = n]
    /\ tpc' = "post"
    /\ UNCHANGED <<nc, aiq, tctx, cbs, pipe, mpc, mreq, tmpq, fault>>

\* td_post_begin, td_post and the unlocking in td_post_end.
td_post ==
    /\ tpc = "post"
    /\ cbs' = Append(cbs, tctx) /\ tctx' = None /\ tpc' = "write"
    /\ UNCHANGED <<ctx, nc, aiq, pipe, mpc, mreq, tmpq, fault>>

\* The write in td_post_end.
td_write == pipe' = pipe + 1

td_post_end ==
    /\ tpc = "write"
    /\ td_write /\ tpc' = "check"
    /\ UNCHANGED <<ctx, nc, aiq, tctx, cbs, mpc, mreq, tmpq, fault>>

------------------------------------------------------------------------------
(* The main thread *)

\* Code of the main thread runs in callbacks of the event loop and in the
\* callbacks td_cb calls.
Running == mpc \in {"idle", "run"}

\* btpd_name_connect and btpd_addrinfo up to the lock, and the insertion.
btpd_name_connect(r) ==
    /\ Running /\ mreq = None /\ nc[r].st = "none"
    /\ nc' = [nc EXCEPT ![r].st = "ai"]
    /\ ctx' = [ctx EXCEPT ![r].live = TRUE]
    /\ aiq' = Append(aiq, r)
    /\ mreq' = r
    /\ UNCHANGED <<tpc, tctx, cbs, pipe, mpc, tmpq, fault>>

\* pthread_cond_signal, after unlocking.
Bug_signalled(pc) == IF Len(aiq) > 1 /\ pc = "waiting" THEN "check" ELSE pc
signalled(pc) == IF pc = "waiting" THEN "check" ELSE pc

addrinfo_signal ==
    /\ mreq # None
    /\ tpc' = signalled(tpc)
    /\ mreq' = None
    /\ UNCHANGED <<ctx, nc, aiq, tctx, cbs, pipe, mpc, tmpq, fault>>

\* td_cb reads the pipe, then moves the queue to its own under the lock.
td_cb_read ==
    /\ mpc = "idle" /\ mreq = None /\ pipe > 0
    /\ pipe' = 0 /\ mpc' = "read"
    /\ UNCHANGED <<ctx, nc, aiq, tpc, tctx, cbs, mreq, tmpq, fault>>

td_cb_move ==
    /\ mpc = "read"
    /\ tmpq' = cbs /\ cbs' = <<>> /\ mpc' = "run"
    /\ UNCHANGED <<ctx, nc, aiq, tpc, tctx, pipe, mreq, fault>>

td_cb_end ==
    /\ mpc = "run" /\ mreq = None /\ tmpq = <<>>
    /\ mpc' = "idle"
    /\ UNCHANGED <<ctx, nc, aiq, tpc, tctx, cbs, pipe, mreq, tmpq, fault>>

\* nc_connect with n addresses left: connect fails at once for some of them;
\* then one succeeds, is in progress, or none is left.
Bug_starts_over(n) ==
    IF n = 0 THEN {[st |-> "failed", left |-> 0, sd |-> FALSE]}
    ELSE {[st |-> "conn", left |-> i, sd |-> TRUE] : i \in 1..MaxAddrs}
nc_connect(n) ==
    {[st |-> "failed", left |-> 0, sd |-> FALSE]}
    \union {[st |-> "done", left |-> 0, sd |-> TRUE] : i \in 1..n}
    \union {[st |-> "conn", left |-> i - 1, sd |-> TRUE] : i \in 1..n}

\* nc_ai_cb.
nc_ai_cb(n) ==
    IF n = 0 THEN {[st |-> "failed", left |-> 0, sd |-> FALSE]}
    ELSE nc_connect(n)

\* addrinfo_td_cb, called by td_cb: the context is freed in any case.
calls_back(c) == ~c.cancel

Bug_freed(c) == IF c.cancel THEN c ELSE [c EXCEPT !.live = FALSE, !.addrs = 0]
freed(c) == [c EXCEPT !.live = FALSE, !.addrs = 0]

addrinfo_td_cb ==
    /\ mpc = "run" /\ mreq = None /\ tmpq # <<>>
    /\ LET r == Head(tmpq) IN
       /\ ctx' = [ctx EXCEPT ![r] = freed(@)]
       /\ IF calls_back(ctx[r])
          THEN /\ \E n2 \in nc_ai_cb(ctx[r].addrs) : nc' = [nc EXCEPT ![r] = n2]
               /\ fault' = (~ctx[r].live \/ nc[r].st # "ai")
          ELSE /\ UNCHANGED nc
               /\ fault' = ~ctx[r].live
    /\ tmpq' = Tail(tmpq)
    /\ UNCHANGED <<aiq, tpc, tctx, cbs, pipe, mpc, mreq>>

\* nc_write_cb: the attempt has ended; another one may follow.
nc_write_cb(r) ==
    /\ mpc = "idle" /\ mreq = None /\ nc[r].st = "conn"
    /\ \/ nc' = [nc EXCEPT ![r] = [st |-> "done", left |-> 0, sd |-> TRUE]]
       \/ \E n2 \in nc_connect(nc[r].left) : nc' = [nc EXCEPT ![r] = n2]
    /\ UNCHANGED <<ctx, aiq, tpc, tctx, cbs, pipe, mpc, mreq, tmpq, fault>>

\* btpd_name_connect_cancel, by httptr_cancel, for what is not answered yet.
cancelled(c) == [c EXCEPT !.cancel = TRUE]

btpd_name_connect_cancel(r) ==
    /\ Running /\ mreq = None /\ nc[r].st \in {"ai", "conn"}
    /\ ctx' = IF nc[r].st = "ai" THEN [ctx EXCEPT ![r] = cancelled(@)] ELSE ctx
    /\ fault' = (nc[r].st = "ai" /\ ~ctx[r].live)
    /\ nc' = [nc EXCEPT ![r] = [st |-> "cancelled", left |-> 0, sd |-> FALSE]]
    /\ UNCHANGED <<aiq, tpc, tctx, cbs, pipe, mpc, mreq, tmpq>>

------------------------------------------------------------------------------
Thread == td_check \/ td_resolve \/ td_post \/ td_post_end

Main == addrinfo_signal \/ td_cb_read \/ td_cb_move \/ td_cb_end \/ addrinfo_td_cb

Next ==
    \/ Thread \/ td_spurious \/ Main
    \/ \E r \in Reqs : \/ btpd_name_connect(r) \/ btpd_name_connect_cancel(r)
                       \/ nc_write_cb(r)

Spec == Init /\ [][Next]_vars

\* Both threads go on, getaddrinfo returns, and every attempt to connect ends
\* with an event.
Fairness == /\ WF_vars(Thread) /\ WF_vars(Main)
            /\ \A r \in Reqs : WF_vars(nc_write_cb(r))

------------------------------------------------------------------------------
(* Properties *)

Ctx == [live : BOOLEAN, cancel : BOOLEAN, addrs : 0..MaxAddrs]
Nc == [st : {"none", "ai", "conn", "done", "failed", "cancelled"},
       left : 0..MaxAddrs, sd : BOOLEAN]

\* Types; nc_connect never walks past the last address.
TypeOK ==
    /\ ctx \in [Reqs -> Ctx] /\ nc \in [Reqs -> Nc]
    /\ aiq \in Seq(Reqs) /\ cbs \in Seq(Reqs) /\ tmpq \in Seq(Reqs)
    /\ tpc \in {"check", "waiting", "resolve", "post", "write"}
    /\ tctx \in Reqs \union {None} /\ mreq \in Reqs \union {None}
    /\ pipe \in Nat /\ mpc \in {"idle", "read", "run"} /\ fault \in BOOLEAN

\* A request the thread does not see, because it waits, is followed by a
\* signal; and a result td_cb does not see is followed by a byte in the pipe.
NoLostWakeup ==
    /\ tpc = "waiting" /\ aiq # <<>> => mreq # None
    /\ cbs # <<>> => pipe > 0 \/ tpc = "write" \/ mpc = "read"

Queued == Range(aiq) \union Range(cbs) \union Range(tmpq) \union ({tctx} \ {None})

\* A context exists exactly while one of the queues or the thread holds it,
\* and only one does, so that it is freed once and is not forgotten; and no
\* callback reaches a nameconn that was freed by a cancel.
HeldOnce ==
    /\ TypeOK /\ ~fault
    /\ {r \in Reqs : ctx[r].live} = Queued
    /\ Len(aiq) + Len(cbs) + Len(tmpq) + (IF tctx = None THEN 0 ELSE 1)
         = Cardinality(Queued)

\* The caller sees what Connect promises, for every interleaving of the
\* threads and of late results with cancelled requests.
Abs == INSTANCE Connect WITH answer <- [r \in Reqs |->
    CASE nc[r].st = "none" -> "none"
      [] nc[r].st \in {"ai", "conn"} -> "pending"
      [] nc[r].st = "done" -> "socket"
      [] nc[r].st = "failed" -> "error"
      [] nc[r].st = "cancelled" -> "cancelled"]
ImplementsConnect == Abs!Spec

=============================================================================
