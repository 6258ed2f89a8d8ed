------------------------------ MODULE OutQueue ------------------------------
(***************************************************************************)
(* What btpd sends to one peer: the queue of messages (peer.c), writing it *)
(* to the socket piecemeal and under a bandwidth limit (net.c), and taking *)
(* messages back before they are written.                                  *)
(*                                                                         *)
(* Messages are kinds; a block sent to the peer is two of them, "piece"    *)
(* with the block's name and "data", which gets its bytes when the "piece" *)
(* is about to be written.  Of the bytes it matters whether the first      *)
(* message is partly written.  A message of one kind stands for all others *)
(* that are queued and forgotten.                                          *)
(***************************************************************************)
EXTENDS Integers, Sequences, FiniteSets, SequencesExt

CONSTANTS
    Blocks,         \* blocks the peer asks for
    MAXPIECEMSGS,   \* blocks in the queue at which requests are refused
    MaxQueue        \* bound: messages in the queue

ASSUME OutQueueAssumption == MAXPIECEMSGS \in Nat \ {0} /\ MaxQueue \in Nat

VARIABLES
    outq,       \* p->outq
    off,        \* p->outq_off > 0
    npiece,     \* p->npiece_msgs
    ichoke,     \* PF_I_CHOKE
    norequests, \* PF_NO_REQUESTS
    want,       \* PF_P_WANT
    myreq,      \* a request of ours in p->my_reqs
    ev,         \* EV_WRITE is enabled
    onwriteq,   \* PF_ON_WRITEQ: in net_bw_writeq
    limited,    \* net_bw_limit_out > 0
    budget,     \* m_bw_bytes_out > 0
    seen,       \* what the peer has been told: "choke" or "unchoke"
    wire,       \* kind of the last message written
    alive,      \* the peer is connected
    aborted     \* an assertion failed or memory was misused

flags == <<ichoke, norequests, want, myreq>>
vars == <<outq, off, npiece, flags, ev, onwriteq, limited, budget, seen, wire,
          alive, aborted>>

Msg(k) == [kind |-> k, blk |-> "none", full |-> FALSE]
Piece(b) == [kind |-> "piece", blk |-> b, full |-> FALSE]
Kinds == {"choke", "unchoke", "request", "cancel", "other", "piece", "data"}

Init ==
    /\ outq = <<>> /\ off = FALSE /\ npiece = 0
    /\ ichoke = TRUE /\ norequests = FALSE /\ want = FALSE /\ myreq = FALSE
    /\ ev = FALSE /\ onwriteq = FALSE
    /\ limited \in BOOLEAN /\ budget = limited
    /\ seen = "choke" /\ wire = "other" /\ alive = TRUE /\ aborted = FALSE

Up == alive /\ ~aborted

------------------------------------------------------------------------------
(* The queue.  An output state is a record of what peer_send and peer_unsend *)
(* change.                                                                   *)

Out == [q |-> outq, n |-> npiece, ev |-> ev, wq |-> onwriteq, ok |-> TRUE]

peer_send(o, m) ==
    [o EXCEPT !.q = Append(@, m),
              !.ev = @ \/ o.q = <<>>,
              !.ok = @ /\ (o.q = <<>> => ~off)]

\* peer_unsend of the message at position i: what is partly written stays.
unsendable(o, i) == ~(i = 1 /\ off)

Bug_idle(o) == [o EXCEPT !.ev = FALSE]
idle(o) == IF o.wq THEN [o EXCEPT !.wq = FALSE] ELSE [o EXCEPT !.ev = FALSE]

data_back(o, i) ==
    [o EXCEPT !.q = RemoveAt(@, i),
              !.n = IF o.q[i].kind = "data" THEN @ - 1 ELSE @,
              !.ok = @ /\ (o.q[i].kind = "data" => o.n > 0)]

peer_unsend(o, i) ==
    LET o2 == data_back(o, i) IN IF o2.q = <<>> THEN idle(o2) ELSE o2

\* A "piece" is taken back together with its "data", or neither is.
unsend_block(o, i) ==
    IF unsendable(o, i) THEN peer_unsend(peer_unsend(o, i), i) ELSE o

Positions(o, k) == {i \in 1..Len(o.q) : o.q[i].kind = k}

\* peer_choke takes back all blocks that can be.
unsend_all(o) ==
    LET keep == {i \in 1..Len(o.q) :
                   \/ o.q[i].kind \notin {"piece", "data"}
                   \/ o.q[i].kind = "piece" /\ ~unsendable(o, i)
                   \/ o.q[i].kind = "data" /\ (i = 1 \/ ~unsendable(o, i - 1))}
        gone == (1..Len(o.q)) \ keep
        o2 == [o EXCEPT
                 !.q = [j \in 1..Cardinality(keep) |-> o.q[
                          CHOOSE i \in keep :
                            Cardinality({x \in keep : x <= i}) = j]],
                 !.n = @ - Cardinality(gone \intersect Positions(o, "data"))]
    IN IF gone # {} /\ o2.q = <<>> THEN idle(o2) ELSE o2

Becomes(o) ==
    /\ outq' = o.q /\ npiece' = o.n /\ ev' = o.ev /\ onwriteq' = o.wq
    /\ aborted' = ~o.ok
    /\ Len(o.q) <= MaxQueue
    /\ UNCHANGED <<off, limited, budget, seen, wire, alive>>

------------------------------------------------------------------------------
(* Events *)

\* have, bitfield, keepalive, interest, ...
send_other ==
    /\ Up /\ Becomes(peer_send(Out, Msg("other"))) /\ UNCHANGED flags

peer_request ==
    /\ Up /\ ~myreq
    /\ myreq' = TRUE
    /\ Becomes(peer_send(Out, Msg("request")))
    /\ UNCHANGED <<ichoke, norequests, want>>

\* In the end game a request is taken back, or else cancelled.
peer_cancel ==
    /\ Up /\ myreq
    /\ myreq' = FALSE
    /\ LET is == Positions(Out, "request") IN
       \/ \E i \in is : unsendable(Out, i) /\ Becomes(peer_unsend(Out, i))
       \/ /\ \A i \in is : ~unsendable(Out, i)
          /\ Becomes(peer_send(Out, Msg("cancel")))
    /\ UNCHANGED <<ichoke, norequests, want>>

\* The request is answered.
request_done ==
    /\ Up /\ myreq /\ Positions(Out, "request") = {}
    /\ myreq' = FALSE
    /\ UNCHANGED <<outq, off, npiece, ichoke, norequests, want, ev, onwriteq,
                   limited, budget, seen, wire, alive, aborted>>

\* The peer's choke drops the request, which is taken back unless it is partly
\* written.
peer_on_choke ==
    /\ Up /\ myreq
    /\ myreq' = FALSE
    /\ LET is == {i \in Positions(Out, "request") : unsendable(Out, i)} IN
       \/ \E i \in is : Becomes(peer_unsend(Out, i))
       \/ /\ is = {}
          /\ UNCHANGED <<outq, off, npiece, ev, onwriteq, limited, budget,
                         seen, wire, alive, aborted>>
    /\ UNCHANGED <<ichoke, norequests, want>>

\* Instead of interest being sent, a last message is taken back, which may be
\* the one that we are not interested.
peer_want ==
    /\ Up /\ ~myreq
    /\ \E i \in Positions(Out, "other") :
         i = Len(outq) /\ unsendable(Out, i) /\ Becomes(peer_unsend(Out, i))
    /\ UNCHANGED flags

peer_on_interest ==
    /\ Up /\ want' = ~want
    /\ UNCHANGED <<outq, off, npiece, ichoke, norequests, myreq, ev, onwriteq,
                   limited, budget, seen, wire, alive, aborted>>

\* Called by choke_do of upload.c.
peer_unchoke ==
    /\ Up /\ ichoke
    /\ ichoke' = FALSE
    /\ Becomes(peer_send(Out, Msg("unchoke")))
    /\ UNCHANGED <<norequests, want, myreq>>

peer_choke ==
    /\ Up /\ ~ichoke
    /\ ichoke' = TRUE
    /\ Becomes(peer_send(unsend_all(Out), Msg("choke")))
    /\ UNCHANGED <<norequests, want, myreq>>

\* MSG_REQUEST in net_dispatch_msg and peer_on_request.  At the limit the peer
\* is choked and unchoked, and its requests are ignored until it is told so.
answered(o, b) ==
    [peer_send(peer_send(o, Piece(b)), Msg("data")) EXCEPT !.n = @ + 1]
full_up(o) == o.n >= MAXPIECEMSGS

Bug_refuse_order(o) == peer_send(peer_send(o, Msg("unchoke")), Msg("choke"))
refuse(o) == peer_send(peer_send(o, Msg("choke")), Msg("unchoke"))

peer_on_request(b) ==
    /\ Up /\ want /\ ~ichoke /\ ~norequests
    /\ LET o == answered(Out, b) IN
       /\ Becomes(IF full_up(o) THEN refuse(o) ELSE o)
       /\ norequests' = full_up(o)
    /\ UNCHANGED <<ichoke, want, myreq>>

peer_on_cancel(b) ==
    /\ Up
    /\ LET is == {i \in Positions(Out, "piece") : outq[i].blk = b} IN
       /\ is # {}
       /\ Becomes(unsend_block(Out, CHOOSE i \in is : \A j \in is : i <= j))
    /\ UNCHANGED flags

------------------------------------------------------------------------------
(* Writing *)

peer_kill == alive' = FALSE /\ UNCHANGED <<outq, off, npiece, flags, seen, wire>>

\* The messages one call of writev gets: up to a second block.
BLOCK_MEM_COUNT == 1
Blocking(i) ==
    /\ outq[i].kind = "piece"
    /\ Cardinality({j \in Positions(Out, "piece") : j < i})
         + (IF outq[1].kind = "data" THEN 1 ELSE 0) >= BLOCK_MEM_COUNT
iov == {i \in 1..Len(outq) : \A j \in 1..i : ~Blocking(j)}

\* nb_torrentdata_fill for each "piece" in the vector.
filled(i) == outq[i].full \/ (i > 1 /\ i - 1 \in iov /\ outq[i - 1].kind = "piece")
Filled == [i \in 1..Len(outq) |->
             [outq[i] EXCEPT !.full = outq[i].kind = "data" /\ filled(i)]]

Told(n) == LET is == {i \in 1..n : outq[i].kind \in {"choke", "unchoke"}} IN
    IF is = {} THEN seen ELSE outq[CHOOSE i \in is : \A j \in is : j <= i].kind

\* peer_sent for the first n messages.
cleared(n) == norequests /\ \A i \in 1..n : outq[i].kind # "unchoke"

\* net_write: n messages are written, and with `part' some of the next one.
net_write(n, part) ==
    /\ n \in iov \union {0} /\ (part => n + 1 \in iov) /\ (n = 0 => part)
    /\ outq' = SubSeq(Filled, n + 1, Len(outq))
    /\ off' = part
    /\ npiece' = npiece - Cardinality({i \in 1..n : outq[i].kind = "data"})
    /\ norequests' = cleared(n)
    /\ seen' = Told(n)
    /\ wire' = IF n = 0 THEN wire ELSE outq[n].kind
    /\ alive' = TRUE
    /\ UNCHANGED <<ichoke, want, myreq>>

\* Data that goes out has its bytes, and comes after its "piece".
MisWritten(n, part) ==
    LET m == IF part THEN n + 1 ELSE n IN
    \E i \in 1..m : /\ Filled[i].kind = "data"
                    /\ \/ ~Filled[i].full
                       \/ (IF i = 1 THEN wire ELSE outq[i - 1].kind) # "piece"

\* A write event, or the turn of a peer in net_bw_writeq (net_bw_tick, which
\* takes the peer off the queue and enables the event).  The event is disabled
\* when everything is written.
Written ==
    /\ IF outq = <<>>
       THEN aborted' = TRUE /\ UNCHANGED <<outq, off, npiece, flags, ev, seen, wire, alive>>
       ELSE \/ \E n \in 0..Len(outq), part \in BOOLEAN :
                 /\ net_write(n, part)
                 /\ ev' = (n < Len(outq))
                 /\ aborted' = MisWritten(n, part)
            \/ /\ ev' = TRUE /\ UNCHANGED aborted          \* EAGAIN
               /\ outq' = Filled
               /\ UNCHANGED <<off, npiece, flags, seen, wire, alive>>
            \/ ev' = FALSE /\ UNCHANGED aborted /\ peer_kill

\* What is left of the bandwidth after a write of this peer.
Left == budget' \in (IF limited THEN BOOLEAN ELSE {FALSE})

net_write_cb ==
    /\ Up /\ ev
    /\ \/ /\ ~limited
          /\ Written
          /\ UNCHANGED <<onwriteq, budget>>
       \/ /\ limited /\ budget
          /\ Written
          /\ Left /\ UNCHANGED onwriteq
       \/ /\ limited /\ ~budget
          /\ ev' = FALSE /\ onwriteq' = TRUE
          /\ UNCHANGED <<outq, off, npiece, flags, budget, seen, wire, alive, aborted>>
    /\ UNCHANGED limited

\* net_bw_tick, once a second: the peer's turn comes, or those before it in
\* the queue use up the new allowance.
net_bw_tick ==
    /\ Up
    /\ \/ /\ onwriteq
          /\ Written
          /\ onwriteq' = FALSE
          /\ Left
       \/ /\ onwriteq => limited
          /\ Left
          /\ UNCHANGED <<outq, off, npiece, flags, ev, onwriteq, seen, wire,
                         alive, aborted>>
    /\ UNCHANGED limited

\* btcli rate.
cmd_rate ==
    /\ Up /\ limited' = ~limited
    /\ UNCHANGED <<outq, off, npiece, flags, ev, onwriteq, budget, seen, wire,
                   alive, aborted>>

------------------------------------------------------------------------------
Next ==
    \/ send_other \/ peer_want \/ peer_request \/ peer_cancel \/ request_done
    \/ peer_on_choke \/ peer_on_interest \/ peer_unchoke \/ peer_choke
    \/ \E b \in Blocks : peer_on_request(b) \/ peer_on_cancel(b)
    \/ net_write_cb \/ net_bw_tick \/ cmd_rate

Spec == Init /\ [][Next]_vars

------------------------------------------------------------------------------
(* Properties *)

\* Types; npiece_msgs counts the blocks in the queue.
TypeOK ==
    /\ outq \in Seq([kind : Kinds, blk : Blocks \union {"none"}, full : BOOLEAN])
    /\ Len(outq) <= MaxQueue /\ npiece \in Nat
    /\ alive => npiece = Cardinality(Positions(Out, "data"))
    /\ {off, ichoke, norequests, want, myreq, ev, onwriteq, limited, budget,
        alive, aborted} \subseteq BOOLEAN
    /\ seen \in {"choke", "unchoke"} /\ wire \in Kinds

\* A queue that is not empty is going to be written: the write event is on, or
\* the peer waits for bandwidth, not both; an empty one is not.  The assertions
\* of peer_send, peer_unsend, peer_sent and net_write hold, and the bytes of a
\* block are in memory and follow its header on the wire.
WriteArmed == TypeOK /\ ~aborted /\
    (alive => /\ outq = <<>> <=> ~ev /\ ~onwriteq
              /\ ~(ev /\ onwriteq))

\* When the queue has been written the peer believes itself choked exactly if
\* PF_I_CHOKE is set; and requests that are refused will be accepted again,
\* since an unchoke is queued.
ChokeTold == alive =>
    /\ Told(Len(outq)) = (IF ichoke THEN "choke" ELSE "unchoke")
    /\ norequests => Positions(Out, "unchoke") # {}

=============================================================================
