-------------------------------- MODULE Peers -------------------------------
(***************************************************************************)
(* The life of connections to peers (net.c, peer.c): accepted or made,     *)
(* through the handshake, attached to a torrent under the peer's id, and   *)
(* ended by errors, timeouts, bans and the stopping of torrents.  The meta *)
(* peer, which outlives the connection when it is banned or when blocks it *)
(* sent are still under suspicion, is in the table of the torrent's net    *)
(* from the handshake on; it is counted by references.                     *)
(*                                                                         *)
(* Seconds are counted up to the limits at which something happens.        *)
(***************************************************************************)
EXTENDS Integers, FiniteSets

CONSTANTS
    Conns,        \* struct peer
    Torrents,
    Ids,          \* peer ids
    OwnId,        \* btpd_get_peer_id()
    MaxPeers,     \* net_max_peers
    MaxRecords,   \* bound: records of blocks by one peer
    Shake,        \* seconds a handshake may take (60)
    Write,        \* seconds a message may wait for the socket (60)
    Silence,      \* seconds after which something is sent (120)
    Absorbs,      \* writes the system takes for a peer that is gone
    None

VARIABLES
    conn,     \* the connections
    npeers,   \* net_npeers
    net,      \* per torrent: "none", "stopped" or "active"
    tbl,      \* n->mptbl: the meta peers by id
    records,  \* blog_records of each id in the pieces of n->getlst
    fault     \* an assertion failed or memory was used after it was freed

vars == <<conn, npeers, net, tbl, records, fault>>

\* stage is in.state; n, id and incoming as in the code; the clocks count from
\* t_created, t_wantwrite and t_lastwrite; waits: outq is
\* empty ("no"), or holds only what peer_unsend may take back ("soft"), or more;
\* lost: the peer has vanished, and for how long since a message was taken back.
Closed == [stage |-> "none", n |-> None, id |-> None, incoming |-> FALSE, waits |-> "no",
           created |-> 0, wantwrite |-> 0, lastwrite |-> 0, lost |-> FALSE, since |-> 0,
           room |-> 0]
Opened == [Closed EXCEPT !.stage = "pstr", !.room = Absorbs]

Init ==
    /\ conn = [c \in Conns |-> Closed] /\ npeers = 0
    /\ net = [t \in Torrents |-> "none"]
    /\ tbl = [t \in Torrents |-> [i \in Ids |-> None]]
    /\ records = [t \in Torrents |-> [i \in Ids |-> 0]]
    /\ fault = FALSE

Live == {c \in Conns : conn[c].stage # "none"}
Attached(c) == conn[c].stage = "up"

\* peer_send on a queue that may be empty.
sending(k, kind) == [k EXCEPT !.waits = IF @ = "hard" THEN @ ELSE kind,
                              !.wantwrite = IF k.waits = "no" THEN 0 ELSE @]

------------------------------------------------------------------------------
(* Meta peers *)

\* k references of a meta peer are dropped, its connection's among them if it
\* is in `gone'.
mp_drop(mp, k, gone) ==
    IF mp = None \/ mp.refs - k <= 0 THEN None
    ELSE [mp EXCEPT !.refs = @ - k, !.p = IF @ \in gone THEN None ELSE @]

Ends(mp, gone) == IF mp # None /\ mp.p \in gone THEN 1 ELSE 0

\* peer_kill for the connections `gone'.
Killed(gone) == [t \in Torrents |-> [i \in Ids |-> mp_drop(tbl[t][i], Ends(tbl[t][i], gone), gone)]]
peer_kill(gone) ==
    /\ conn' = [c \in Conns |-> IF c \in gone THEN Closed ELSE conn[c]]
    /\ tbl' = Killed(gone)
    /\ npeers' = npeers - Cardinality(gone)

\* piece_log_block: the first block of a piece by this peer; piece_log_free;
\* and a ban, on the evidence of a record.
piece_log_block(c) ==
    LET t == conn[c].n
        i == conn[c].id IN
    /\ ~fault /\ Attached(c) /\ records[t][i] < MaxRecords
    /\ records' = [records EXCEPT ![t][i] = @ + 1]
    /\ tbl' = [tbl EXCEPT ![t][i].refs = @ + 1]
    /\ UNCHANGED <<conn, npeers, net, fault>>

piece_log_free(t, i) ==
    /\ ~fault /\ records[t][i] > 0
    /\ records' = [records EXCEPT ![t][i] = @ - 1]
    /\ tbl' = [tbl EXCEPT ![t][i] = mp_drop(@, 1, {})]
    /\ fault' = (tbl[t][i] = None)
    /\ UNCHANGED <<conn, npeers, net>>

net_ban_peer(t, i) ==
    /\ ~fault /\ records[t][i] > 0 /\ tbl[t][i] # None /\ ~tbl[t][i].banned
    /\ tbl' = [tbl EXCEPT ![t][i].banned = TRUE, ![t][i].refs = @ + 1]
    /\ UNCHANGED <<conn, npeers, net, records, fault>>

------------------------------------------------------------------------------
(* Connections *)

\* net_connection_cb and peer_create_in: at the limit the socket is closed.
peer_create_in(c) ==
    /\ ~fault /\ c \notin Live /\ npeers # MaxPeers
    /\ fault' = (npeers > MaxPeers)
    /\ conn' = [conn EXCEPT ![c] = [Opened EXCEPT !.incoming = TRUE]]
    /\ npeers' = npeers + 1
    /\ UNCHANGED <<net, tbl, records>>

\* parse_reply, maybe_connect_to and peer_create_out.  A tracker's answer with
\* peers only comes while the torrent is active (Tracker.StopIsFinal).
peer_create_out(c, t) ==
    /\ ~fault /\ c \notin Live /\ net[t] = "active" /\ npeers < MaxPeers
    /\ conn' = [conn EXCEPT ![c] = sending([Opened EXCEPT !.n = t], "hard")]
    /\ npeers' = npeers + 1
    /\ UNCHANGED <<net, tbl, records, fault>>

\* The three fields of the handshake (net_state): each may be wrong.
Moves(c, k) == conn' = [conn EXCEPT ![c] = k] /\ UNCHANGED <<npeers, tbl>>
Bad(c) == peer_kill({c})

shake_pstr(c) ==
    /\ ~fault /\ conn[c].stage = "pstr" /\ ~conn[c].lost
    /\ Moves(c, [conn[c] EXCEPT !.stage = "info"]) \/ Bad(c)
    /\ UNCHANGED <<net, records, fault>>

\* The torrent: named by the peer when it connected, else the one we asked for.
serves(t) == net[t] = "active"

shake_info(c) ==
    /\ ~fault /\ conn[c].stage = "info" /\ ~conn[c].lost
    /\ \/ /\ conn[c].incoming
          /\ \E t \in Torrents :
               serves(t) /\ Moves(c, sending([conn[c] EXCEPT !.stage = "id", !.n = t], "hard"))
       \/ ~conn[c].incoming /\ Moves(c, [conn[c] EXCEPT !.stage = "id"])
       \/ Bad(c)
    /\ UNCHANGED <<net, records, fault>>

\* The peer's id, and peer_on_shake.  What we have is announced, if we have any.
taken_id(t, i) == tbl[t][i] # None \/ i = OwnId

shake_id(c, i) ==
    LET t == conn[c].n IN
    /\ ~fault /\ conn[c].stage = "id" /\ ~conn[c].lost
    /\ \/ taken_id(t, i) /\ Bad(c)
       \/ /\ ~taken_id(t, i)
          /\ \E k \in {conn[c], sending(conn[c], "hard")} :
               conn' = [conn EXCEPT ![c] = [k EXCEPT !.stage = "up", !.id = i]]
          /\ tbl' = [tbl EXCEPT ![t][i] = [p |-> c, refs |-> 1, banned |-> FALSE]]
          /\ UNCHANGED npeers
    /\ UNCHANGED <<net, records, fault>>

\* A message for the peer, and one that is taken back (requests, blocks, and a
\* loss of interest that is over), which leaves the queue empty.
peer_send(c) ==
    /\ ~fault /\ Attached(c)
    /\ \E kind \in {"soft", "hard"} : conn' = [conn EXCEPT ![c] = sending(@, kind)]
    /\ UNCHANGED <<npeers, net, tbl, records, fault>>

peer_unsend(c) ==
    /\ ~fault /\ Attached(c) /\ conn[c].waits = "soft"
    /\ conn' = [conn EXCEPT ![c].waits = "no", ![c].since = 0]
    /\ UNCHANGED <<npeers, net, tbl, records, fault>>

\* net_write with success, of all or a part.  For a peer that is gone the
\* system takes a few writes.
net_write(c) ==
    /\ ~fault /\ c \in Live /\ conn[c].waits # "no" /\ (conn[c].lost => conn[c].room > 0)
    /\ \E rest \in {"no", "hard"} :
         conn' = [conn EXCEPT ![c].waits = rest, ![c].wantwrite = 0, ![c].lastwrite = 0,
                              ![c].room = IF conn[c].lost THEN @ - 1 ELSE @]
    /\ UNCHANGED <<npeers, net, tbl, records, fault>>

\* net_write of nothing (EAGAIN), though the socket was ready: the message waits
\* anew.  For a peer that is gone this is one of the writes.
net_write_again(c) ==
    /\ ~fault /\ c \in Live /\ conn[c].waits # "no" /\ (conn[c].lost => conn[c].room > 0)
    /\ conn' = [conn EXCEPT ![c].wantwrite = 0,
                            ![c].room = IF conn[c].lost THEN @ - 1 ELSE @]
    /\ UNCHANGED <<npeers, net, tbl, records, fault>>

\* The peer vanishes without a word.
vanish(c) ==
    /\ ~fault /\ c \in Live /\ ~conn[c].lost
    /\ conn' = [conn EXCEPT ![c].lost = TRUE]
    /\ UNCHANGED <<npeers, net, tbl, records, fault>>

\* Read and write errors, bad messages, ten minutes without interest, and the
\* end of the download, where peers that have everything are dropped.
drop(c) ==
    /\ ~fault /\ c \in Live
    /\ peer_kill({c})
    /\ UNCHANGED <<net, records, fault>>

------------------------------------------------------------------------------
(* Time: run_peer_ticks and peer_on_tick *)

\* How long a peer that takes no more messages can stay.
Patience == (Absorbs + 1) * (Silence + Write)

Up(n, max) == IF n < max THEN n + 1 ELSE n
Older(k) == [k EXCEPT !.created = Up(@, Shake), !.wantwrite = Up(@, Write),
                      !.lastwrite = Up(@, Silence),
                      !.since = IF k.lost THEN Up(@, Patience) ELSE @]

Banned(c) == Attached(c) /\ tbl[conn[c].n][conn[c].id].banned
Timeout(c, k) ==
    IF Attached(c) THEN k.waits # "no" /\ k.wantwrite >= Write ELSE k.created >= Shake

Bug_keepalive(k) == k
keepalive(k) == IF k.waits = "no" /\ k.lastwrite >= Silence THEN sending(k, "hard") ELSE k

aged(c) == Older(conn[c])
spoken(c) == IF Attached(c) THEN keepalive(aged(c)) ELSE aged(c)

tick ==
    /\ ~fault
    /\ LET gone == {c \in Live : Banned(c) \/ Timeout(c, aged(c))} IN
       /\ conn' = [c \in Conns |-> IF c \in gone \/ c \notin Live THEN Closed ELSE spoken(c)]
       /\ tbl' = Killed(gone)
       /\ npeers' = npeers - Cardinality(gone)
    /\ UNCHANGED <<net, records, fault>>

------------------------------------------------------------------------------
(* Torrents *)

net_create(t) ==
    /\ ~fault /\ net[t] = "none"
    /\ net' = [net EXCEPT ![t] = "stopped"]
    /\ UNCHANGED <<conn, npeers, tbl, records, fault>>

net_start(t) ==
    /\ ~fault /\ net[t] = "stopped"
    /\ net' = [net EXCEPT ![t] = "active"]
    /\ UNCHANGED <<conn, npeers, tbl, records, fault>>

\* net_stop: the pieces go, then the connections, attached or not.
Bug_of_net(t) == {c \in Live : Attached(c) /\ conn[c].n = t}
of_net(t) == {c \in Live : conn[c].n = t}

net_stop(t) ==
    LET gone == of_net(t) IN
    /\ ~fault /\ net[t] = "active"
    /\ net' = [net EXCEPT ![t] = "stopped"]
    /\ records' = [records EXCEPT ![t] = [i \in Ids |-> 0]]
    /\ tbl' = [tbl EXCEPT ![t] = [i \in Ids |->
                 mp_drop(@[i], records[t][i] + Ends(@[i], gone), gone)]]
    /\ conn' = [c \in Conns |-> IF c \in gone THEN Closed ELSE conn[c]]
    /\ npeers' = npeers - Cardinality(gone)
    /\ UNCHANGED fault

\* net_kill: the meta peers left in the table are freed, and the net.
net_kill(t) ==
    /\ ~fault /\ net[t] = "stopped"
    /\ net' = [net EXCEPT ![t] = "none"]
    /\ tbl' = [tbl EXCEPT ![t] = [i \in Ids |-> None]]
    /\ fault' = \/ \E c \in Live : conn[c].n = t
                \/ \E i \in Ids : tbl[t][i] # None /\ tbl[t][i].p # None
    /\ UNCHANGED <<conn, npeers, records>>

------------------------------------------------------------------------------
Next ==
    \/ tick
    \/ \E c \in Conns :
         \/ peer_create_in(c) \/ shake_pstr(c) \/ shake_info(c) \/ piece_log_block(c)
         \/ peer_send(c) \/ peer_unsend(c) \/ net_write(c) \/ net_write_again(c)
         \/ vanish(c) \/ drop(c)
         \/ \E i \in Ids : shake_id(c, i)
         \/ \E t \in Torrents : peer_create_out(c, t)
    \/ \E t \in Torrents :
         \/ net_create(t) \/ net_start(t) \/ net_stop(t) \/ net_kill(t)
         \/ \E i \in Ids : piece_log_free(t, i) \/ net_ban_peer(t, i)

Spec == Init /\ [][Next]_vars

------------------------------------------------------------------------------
(* Properties *)

\* Types and the bounds.
TypeOK ==
    /\ \A c \in Conns : /\ conn[c].stage \in {"none", "pstr", "info", "id", "up"}
                        /\ conn[c].n \in Torrents \union {None}
                        /\ conn[c].id \in Ids \union {None}
                        /\ conn[c].waits \in {"no", "soft", "hard"}
                        /\ conn[c].since \in 0..Patience
    /\ npeers \in Nat /\ net \in [Torrents -> {"none", "stopped", "active"}]
    /\ records \in [Torrents -> [Ids -> 0..MaxRecords]]

References(t, i) ==
    records[t][i] + (IF tbl[t][i].p = None THEN 0 ELSE 1) + (IF tbl[t][i].banned THEN 1 ELSE 0)

\* The tables agree however connections, bans, the logs of pieces and the
\* stopping of torrents interleave: an id is held by one peer of a torrent, by
\* no other while the first is blamed or banned; a meta peer is freed exactly
\* when nothing refers to it; connections belong to active torrents only, so
\* nothing refers to a net that net_kill frees; and no assertion fails.
TablesAgree ==
    /\ TypeOK /\ ~fault
    /\ npeers = Cardinality(Live) /\ npeers <= MaxPeers
    /\ \A c \in Live :
         /\ conn[c].n # None => net[conn[c].n] = "active"
         /\ Attached(c) => tbl[conn[c].n][conn[c].id] # None /\ tbl[conn[c].n][conn[c].id].p = c
    /\ \A t \in Torrents, i \in Ids :
         IF tbl[t][i] = None THEN records[t][i] = 0
         ELSE /\ tbl[t][i].refs = References(t, i) /\ tbl[t][i].refs > 0
              /\ tbl[t][i].p # None => /\ conn[tbl[t][i].p].n = t
                                       /\ conn[tbl[t][i].p].id = i

\* A peer that vanishes without closing the connection does not keep its
\* place: it is dropped, during the handshake by its time limit, later because
\* the keep-alive messages sent to it are not taken.  Unless messages for it
\* are taken back and replaced by others: the time limit of a message starts
\* anew when the queue was empty in between.
LostLeave == \A c \in Live : conn[c].since < Patience

=============================================================================
