--------------------------- MODULE MCConnections ----------------------------
(***************************************************************************)
(* What is under the strategies: what a connection has to send (OutQueue), *)
(* the connections and the peers they belong to (Peers), and the event     *)
(* loop that calls back for them, by poll (EvLoop) or by epoll and kqueue  *)
(* (EvBatch).  These modules have no state in common; a behaviour is one   *)
(* of one of them, `part', and the others stay in an initial state.        *)
(***************************************************************************)
EXTENDS OutQueue, TLC

CONSTANTS
    None, b1, c1, c2, i1, own, e1, e2, e3,          \* model values
    Conns, Torrents, Ids, OwnId, MaxPeers, MaxRecords, Shake, Write, Silence,
    Absorbs,                                        \* of Peers
    Events, Clients, Capacity, MaxBatch, MaxOps     \* of EvLoop and EvBatch

VARIABLES
    part,
    conn, npeers, net, tbl, records, fault,
    slot, size, ix, cur, curdel, type, called, ops, bad,
    split, enabled, known, idx, batch, valid, bcur, btype, bcalled, bops, renewed, bbad

peersvars == <<conn, npeers, net, tbl, records, fault>>
loopvars == <<slot, size, ix, cur, curdel, type, called, ops, bad>>
batchvars == <<split, enabled, known, idx, batch, valid, bcur, btype, bcalled, bops, renewed, bbad>>

Peer == INSTANCE Peers
Loop == INSTANCE EvLoop
Batch == INSTANCE EvBatch WITH
    flags <- enabled, cur <- bcur, type <- btype, called <- bcalled, ops <- bops, bad <- bbad

\* There are finitely many file descriptors and None is no value of its own; the
\* periods last a tick or more.  peer_on_tick (peer.c) allows the handshake 60 seconds, not
\* longer than a silence (120) and a message that waits (60).
ASSUME ConnectionsAssumption ==
    /\ IsFiniteSet(Conns) /\ None \notin Conns \union Torrents \union Ids \union Events
    /\ None \notin [p : Conns \union {None}, refs : Nat, banned : BOOLEAN]
    /\ MaxPeers \in Nat /\ MaxRecords \in Nat /\ Absorbs \in Nat
    /\ Shake \in Nat \ {0} /\ Write \in Nat \ {0} /\ Silence \in Nat \ {0}
    /\ Shake <= Silence + Write
    /\ Capacity \in Nat /\ MaxBatch \in Nat /\ MaxOps \in Nat

------------------------------------------------------------------------------
MCInit ==
    /\ part \in {"output", "peers", "poll", "batch"}
    /\ Init /\ Peer!Init /\ Loop!Init /\ Batch!Init
    /\ part # "output" => ~limited
    /\ part # "batch" => ~split

MCNext ==
    \/ part = "output" /\ Next /\ UNCHANGED <<part, peersvars, loopvars, batchvars>>
    \/ part = "peers" /\ Peer!Next /\ UNCHANGED <<part, vars, loopvars, batchvars>>
    \/ part = "poll" /\ Loop!Next /\ UNCHANGED <<part, vars, peersvars, batchvars>>
    \/ part = "batch" /\ Batch!Next /\ UNCHANGED <<part, vars, peersvars, loopvars>>

MCSpec == MCInit /\ [][MCNext]_<<part, vars, peersvars, loopvars, batchvars>>

Symmetry == Permutations(Conns) \union Permutations(Events \ Clients)

\* The properties of Peers (net.c and peer.c).
TablesAgree == Peer!TablesAgree
LostLeave == Peer!LostLeave

\* What the backends of the loop promise alike (poll.c, epoll.c and kqueue.c).
CallsLive == Loop!CallsLive /\ Batch!BatchLive

=============================================================================
