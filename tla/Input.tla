------------------------------- MODULE Input --------------------------------
(***************************************************************************)
(* What btpd receives from its peers (net.c): the bytes of a connection    *)
(* arrive in any portions, are read within a bandwidth limit, and are cut  *)
(* into the fields of the handshake and of the messages, which are then    *)
(* dispatched.                                                             *)
(*                                                                         *)
(* A byte is a triple: the number of its message in the stream, the field, *)
(* and its place in the field.  So it can be seen whether net_state gets   *)
(* exactly the bytes of the field it expects.  Message 0 is the handshake. *)
(* What the messages do is the matter of Download, Upload and OutQueue.    *)
(* The loop of net_read is one step per field; nothing else happens        *)
(* meanwhile (`who' is set).                                               *)
(***************************************************************************)
EXTENDS Integers, Sequences, FiniteSets

CONSTANTS
    Peers,      \* connections
    Streams,    \* what the peers may send: functions from Peers to sequences
    SHAKE,      \* bytes of each of the three fields of a handshake (28, 20, 20)
    SIZE,       \* bytes of a message's length (4)
    META,       \* bytes of the index and offset of a block (8)
    GRBUFLEN,   \* bytes read beyond the field that is being filled
    LimitIn,    \* net_bw_limit_in, when there is a limit
    Nobody      \* no peer

VARIABLES
    stream,     \* what each peer sends
    got,        \* how much of it has been read
    in,         \* p->in: state, st_bytes, the message, and buf up to off
    dispatched, \* the messages dispatched, in order
    counted,    \* p->count_dwn
    alive,      \* not killed
    ev,         \* EV_READ is enabled
    readq,      \* net_bw_readq
    limit,      \* net_bw_limit_in
    budget,     \* m_bw_bytes_in
    ticking,    \* net_bw_tick is under way
    who,        \* the peer in net_read, or Nobody
    iov,        \* iov[1]: bytes read that are still to be looked at
    misread     \* a field was read from bytes that are not its own

sched == <<ev, readq, limit, ticking>>
vars == <<stream, got, in, dispatched, counted, alive, sched, budget, who, iov,
          misread>>

Least(a, b) == IF a <= b THEN a ELSE b

------------------------------------------------------------------------------
(* The stream *)

Bytes(i, field, n) == [k \in 1..n |-> <<i, field, k>>]

Encoded(i, m) ==
    Bytes(i, "size", SIZE) \o
    CASE m.kind = "keepalive" -> <<>>
      [] m.kind \in {"flag", "unknown"} -> Bytes(i, "head", 1)
      [] m.kind \in {"fixed", "refused"} -> Bytes(i, "head", 1) \o Bytes(i, "body", m.body)
      [] m.kind = "piece" -> Bytes(i, "head", 1) \o Bytes(i, "meta", META)
                               \o Bytes(i, "body", m.body)

Wire(s) ==
    LET upto[i \in 0..Len(s)] ==
          IF i = 0 THEN Bytes(0, "pstr", SHAKE) \o Bytes(0, "info", SHAKE) \o Bytes(0, "id", SHAKE)
          ELSE upto[i - 1] \o Encoded(i, s[i])
    IN upto[Len(s)]

------------------------------------------------------------------------------
Init ==
    /\ stream \in Streams
    /\ got = [p \in Peers |-> 0]
    /\ in = [p \in Peers |-> [state |-> "pstr", st_bytes |-> SHAKE, msg |-> 0, buf |-> <<>>]]
    /\ dispatched = [p \in Peers |-> <<>>] /\ counted = [p \in Peers |-> 0]
    /\ alive = [p \in Peers |-> TRUE] /\ ev = [p \in Peers |-> TRUE]
    /\ readq = <<>> /\ limit \in {0, LimitIn} /\ budget = limit
    /\ ticking = FALSE /\ who = Nobody /\ iov = <<>> /\ misread = FALSE

Idle == who = Nobody /\ ~misread

\* Bytes are still to come.
More(p) == got[p] < Len(Wire(stream[p]))

------------------------------------------------------------------------------
(* Reading *)

\* net_progress: bytes of blocks are counted as they come.
InBlock(p) == in[p].state = "body" /\ stream[p][in[p].msg].kind = "piece"
net_progress(p, n) == IF InBlock(p) THEN [counted EXCEPT ![p] = @ + n] ELSE counted

\* peer_kill, as far as reading is concerned.  A peer that is being read is not
\* in net_bw_readq; otherwise it is removed (killed).
peer_kill(p) == alive' = [alive EXCEPT ![p] = FALSE]

\* Bytes still needed for a field of which a part is kept.
Rest(p) == IF in[p].buf = <<>> THEN 0 ELSE in[p].st_bytes - Len(in[p].buf)

\* What readv may take: the rest of the field, and as much as GRBUFLEN.
room(p, rmax) ==
    IF rmax = 0 THEN Rest(p) + GRBUFLEN
    ELSE LET r == Least(Rest(p), rmax) IN r + Least(rmax - r, GRBUFLEN)

\* readv and what follows up to the first field that is complete.
taken(p, n) == Least(n, Rest(p))

received(p, n) ==
    LET new == SubSeq(Wire(stream[p]), got[p] + 1, got[p] + n)
        r == taken(p, n) IN
    /\ got' = [got EXCEPT ![p] = @ + n]
    /\ counted' = net_progress(p, r)
    /\ in' = [in EXCEPT ![p].buf = @ \o SubSeq(new, 1, r)]
    /\ IF n < Rest(p) THEN who' = Nobody /\ iov' = <<>>
       ELSE who' = p /\ iov' = SubSeq(new, r + 1, n)
    /\ UNCHANGED alive

net_read(p, rmax) ==
    \/ \E n \in 1..Least(room(p, rmax), Len(Wire(stream[p])) - got[p]) :
         received(p, n) /\ budget' = (IF rmax = 0 THEN budget ELSE budget - n)
    \/ UNCHANGED <<got, in, counted, alive, who, iov, budget>>    \* EAGAIN
    \/ /\ peer_kill(p)                                            \* error or end
       /\ UNCHANGED <<got, in, counted, who, iov, budget>>

------------------------------------------------------------------------------
(* net_state, for one field *)

\* The bytes of the field: those kept, now complete, or the next ones.
Kept(p) == in[p].buf # <<>>
Field(p) == IF Kept(p) THEN in[p].buf ELSE SubSeq(iov, 1, in[p].st_bytes)

\* The message a field is of, as its bytes say.
Of(p, b) == IF b = <<>> \/ in[p].state # "size" THEN in[p].msg ELSE b[1][1]

Set(state, n) == [state |-> state, st_bytes |-> n]

\* peer_set_in_state of each case.
after(state, m) ==
    CASE state = "pstr" -> Set("info", SHAKE)
      [] state = "info" -> Set("id", SHAKE)
      [] state = "id" -> Set("size", SIZE)
      [] state = "size" -> IF m.kind = "keepalive" THEN Set("size", SIZE) ELSE Set("head", 1)
      [] state = "head" -> IF m.kind = "flag" THEN Set("size", SIZE)
                           ELSE IF m.kind = "piece" THEN Set("meta", META)
                           ELSE Set("body", m.body)
      [] state = "meta" -> Set("body", m.body)
      [] state = "body" -> Set("size", SIZE)

\* net_mh_ok and net_dispatch_msg.
net_mh_ok(m) == m.kind # "unknown"
Dispatches(state, m) == state = "body" \/ (state = "head" /\ m.kind = "flag")
Bad(state, m) == (state = "head" /\ ~net_mh_ok(m)) \/ (state = "body" /\ m.kind = "refused")

net_state(p, b) ==
    LET i == Of(p, b)
        state == in[p].state
        m == IF i = 0 THEN [kind |-> "shake", body |-> 0] ELSE stream[p][i]
        s == after(state, m) IN
    /\ misread' = (b # Bytes(i, state, Len(b)))
    /\ IF b # Bytes(i, state, Len(b)) \/ Bad(state, m)
       THEN /\ peer_kill(p) /\ who' = Nobody
            /\ UNCHANGED <<in, dispatched>>
       ELSE /\ in' = [in EXCEPT ![p] = [state |-> s.state, st_bytes |-> s.st_bytes,
                                        msg |-> i, buf |-> <<>>]]
            /\ dispatched' = [dispatched EXCEPT
                                ![p] = IF Dispatches(state, m) THEN Append(@, i) ELSE @]
            /\ UNCHANGED <<alive, who>>

\* The loop of net_read.
Bug_Complete(p) == Kept(p) \/ in[p].st_bytes < Len(iov)
Complete(p) == Kept(p) \/ in[p].st_bytes <= Len(iov)

net_read_field(p) ==
    /\ who = p /\ ~misread /\ Complete(p)
    /\ counted' = IF Kept(p) THEN counted ELSE net_progress(p, in[p].st_bytes)
    /\ iov' = IF Kept(p) THEN iov ELSE SubSeq(iov, in[p].st_bytes + 1, Len(iov))
    /\ net_state(p, Field(p))
    /\ UNCHANGED <<stream, got, sched, budget>>

\* What is left is kept for the next call.
net_read_end(p) ==
    /\ who = p /\ ~misread /\ ~Complete(p)
    /\ counted' = net_progress(p, Len(iov))
    /\ in' = [in EXCEPT ![p].buf = iov]
    /\ who' = Nobody /\ iov' = <<>>
    /\ UNCHANGED <<stream, got, dispatched, alive, sched, budget, misread>>

------------------------------------------------------------------------------
(* Bandwidth *)

\* A read event.
net_read_cb(p) ==
    /\ Idle /\ ~ticking /\ alive[p] /\ ev[p] /\ More(p)
    /\ \/ limit = 0 /\ net_read(p, 0) /\ UNCHANGED <<ev, readq>>
       \/ limit > 0 /\ budget > 0 /\ net_read(p, budget) /\ UNCHANGED <<ev, readq>>
       \/ /\ limit > 0 /\ budget = 0
          /\ ev' = [ev EXCEPT ![p] = FALSE] /\ readq' = Append(readq, p)
          /\ UNCHANGED <<got, in, counted, alive, budget, who, iov>>
    /\ UNCHANGED <<stream, dispatched, limit, ticking, misread>>

\* The part of net_bw_tick that is about reading.
net_bw_tick ==
    /\ Idle /\ ~ticking
    /\ ticking' = TRUE /\ budget' = limit
    /\ UNCHANGED <<stream, got, in, dispatched, counted, alive, ev, readq, limit, who, iov, misread>>

Allowed == limit = 0 \/ budget > 0
Rmax == IF limit = 0 THEN 0 ELSE budget

Bug_rearmed(p) == ev
rearmed(p) == [ev EXCEPT ![p] = TRUE]

tick_next ==
    /\ Idle /\ ticking /\ readq # <<>> /\ Allowed
    /\ readq' = Tail(readq)
    /\ ev' = rearmed(Head(readq))
    /\ net_read(Head(readq), Rmax)
    /\ UNCHANGED <<stream, dispatched, limit, ticking, misread>>

tick_end ==
    /\ Idle /\ ticking /\ (readq = <<>> \/ ~Allowed)
    /\ ticking' = FALSE
    /\ UNCHANGED <<stream, got, in, dispatched, counted, alive, ev, readq, limit, budget, who, iov,
                   misread>>

\* A write error, a timeout or a stopped torrent ends the connection.
killed(p) ==
    /\ Idle /\ ~ticking /\ alive[p]
    /\ peer_kill(p) /\ readq' = SelectSeq(readq, LAMBDA q : q # p)
    /\ UNCHANGED <<stream, got, in, dispatched, counted, ev, limit, ticking, budget, who, iov, misread>>

\* btcli rate.
cmd_rate ==
    /\ Idle /\ ~ticking
    /\ limit' = (IF limit = 0 THEN LimitIn ELSE 0)
    /\ UNCHANGED <<stream, got, in, dispatched, counted, alive, ev, readq, ticking, budget, who, iov,
                   misread>>

------------------------------------------------------------------------------
Reading(p) == net_read_field(p) \/ net_read_end(p)
Tick == net_bw_tick \/ tick_next \/ tick_end

Next ==
    \/ \E p \in Peers : net_read_cb(p) \/ Reading(p) \/ killed(p)
    \/ Tick \/ cmd_rate

Fairness ==
    /\ \A p \in Peers :
         /\ SF_vars(net_read_cb(p)) /\ WF_vars(Reading(p))
         /\ SF_vars(tick_next /\ got'[p] # got[p])
    /\ SF_vars(net_bw_tick) /\ WF_vars(tick_next \/ tick_end)

Spec == Init /\ [][Next]_vars /\ Fairness

------------------------------------------------------------------------------
(* Properties *)

\* Messages that reached the code by their last byte, in the first n bytes.
Whole(p, n) ==
    {i \in 1..Len(stream[p]) :
       /\ stream[p][i].kind # "keepalive"
       /\ Len(Wire(SubSeq(stream[p], 1, i))) <= n}

BlockBytes(p, n) ==
    {k \in 1..n : LET b == Wire(stream[p])[k] IN
                  b[1] > 0 /\ b[2] = "body" /\ stream[p][b[1]].kind = "piece"}

Ascending(q) == \A j, k \in 1..Len(q) : j < k => q[j] < q[k]

\* Types; what is kept is less than the field it belongs to.
TypeOK ==
    /\ \A p \in Peers :
         /\ got[p] \in 0..Len(Wire(stream[p]))
         /\ who # p => Len(in[p].buf) < in[p].st_bytes
    /\ ev \in [Peers -> BOOLEAN] /\ alive \in [Peers -> BOOLEAN]
    /\ budget \in 0..LimitIn /\ limit \in {0, LimitIn} /\ {ticking, misread} \subseteq BOOLEAN
    /\ who \in Peers \union {Nobody}

\* However the bytes are cut up by the network and the bandwidth limit, each
\* field is read from its own bytes; whenever net_read returns exactly the
\* messages whose last byte has come are dispatched, in order, and exactly the
\* bytes of blocks are counted.
InStep ==
    /\ TypeOK /\ ~misread
    /\ \A p \in Peers : alive[p] /\ who # p =>
         /\ Ascending(dispatched[p])
         /\ {dispatched[p][k] : k \in 1..Len(dispatched[p])} = Whole(p, got[p])
         /\ counted[p] = Cardinality(BlockBytes(p, got[p]))

\* Everything a peer sends is read in the end unless the connection ends, with
\* and without a limit and while others read too: a peer out of bandwidth is
\* in net_bw_readq, and its read event is enabled again when its turn comes.
AllRead == \A p \in Peers : <>(~alive[p] \/ ~More(p))

=============================================================================
