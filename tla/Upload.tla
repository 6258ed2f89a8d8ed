------------------------------- MODULE Upload -------------------------------
(***************************************************************************)
(* Choosing whom to upload to (btpd/upload.c): the peers of all torrents   *)
(* in one queue, the upload slots, and the rotation that gives everyone a  *)
(* turn.  Rates are not modelled: which peers are worthy of a slot, and in *)
(* which order, is chosen anew each time choke_do runs.                    *)
(***************************************************************************)
EXTENDS Integers, Sequences, FiniteSets, SequencesExt

CONSTANTS
    Peers,    \* peers
    Net,      \* the torrent of each peer
    Uploads   \* values of m_max_uploads; less than 0 is no limit

ASSUME UploadAssumption == Uploads \subseteq Int /\ Uploads # {}

VARIABLES
    peerq,      \* m_peerq
    npeers,     \* m_npeers
    max,        \* m_max_uploads
    want,       \* peers with PF_P_WANT
    choke,      \* peers with PF_I_CHOKE
    full,       \* peers that have all pieces (peer_full)
    count,      \* cb_count % 3
    changed     \* m_max_uploads has changed since choke_do ran

vars == <<peerq, npeers, max, want, choke, full, count, changed>>

Init ==
    /\ peerq = <<>> /\ npeers = 0 /\ max \in Uploads
    /\ want = {} /\ choke = {} /\ full = {} /\ count = 0 /\ changed = FALSE

------------------------------------------------------------------------------
(* choke_do, with w the worthy peers, the best first, for the queue q of   *)
(* peers, those who want blocks and the limit m.                           *)

Before(s, i) == {s[j] : j \in 1..(i - 1)}

\* The best get a slot until one slot is left.
best(w, wt, m) ==
    {w[i] : i \in {k \in 1..Len(w) : Cardinality(Before(w, k) \intersect wt) < m - 1}}

\* The others in the order of the queue; who does not want blocks is unchoked
\* but takes no slot.
next_best(q, w, wt, m) ==
    LET first == best(w, wt, m) IN
    {q[i] : i \in {k \in 1..Len(q) :
        /\ q[k] \notin first \union full
        /\ Cardinality(((Before(q, k) \ full) \union first) \intersect wt) < m}}

unchoked(q, w, wt, m) ==
    CASE m < 0 -> Range(q)
      [] m = 0 -> {}
      [] OTHER -> best(w, wt, m) \union next_best(q, w, wt, m)

choke_do(q, wt) ==
    /\ \E s \in SUBSET (Range(q) \ full) : \E w \in SetToSeqs(s) :
         choke' = Range(q) \ unchoked(q, w, wt, max)
    /\ changed' = FALSE

------------------------------------------------------------------------------
(* Events *)

\* A peer completes the hand shake; rand_between chooses its place.
ul_on_new_peer(p) ==
    /\ p \notin Range(peerq)
    /\ \E i \in 1..(Len(peerq) + 1) : peerq' = InsertAt(peerq, i, p)
    /\ npeers' = npeers + 1
    /\ choke_do(peerq', want)
    /\ UNCHANGED <<max, want, full, count>>

\* peer_kill of one peer.
frees_slot(p) == p \in want \ choke

ul_on_lost_peer(p) ==
    /\ p \in Range(peerq)
    /\ peerq' = RemoveFirst(peerq, p)
    /\ npeers' = npeers - 1
    /\ want' = want \ {p} /\ full' = full \ {p}
    /\ IF frees_slot(p) THEN choke_do(peerq', want')
       ELSE choke' = choke \ {p} /\ UNCHANGED changed
    /\ UNCHANGED <<max, count>>

\* net_stop of a torrent.
lost(ps) == Cardinality(ps)

\* x comes before y in the queue s.
Ahead(s, x, y) ==
    \E i, j \in 1..Len(s) : i < j /\ s[i] = x /\ s[j] = y

ul_on_lost_torrent(n) ==
    LET ps == {p \in Range(peerq) : Net[p] = n} IN
    /\ ps # {}
    /\ peerq' \in {q \in SetToSeqs(Range(peerq) \ ps) :
                     \A i, j \in 1..Len(q) : i < j => Ahead(peerq, q[i], q[j])}
    /\ npeers' = npeers - lost(ps)
    /\ want' = want \ ps /\ full' = full \ ps
    /\ choke_do(peerq', want')
    /\ UNCHANGED <<max, count>>

\* Interest matters at once only for a peer that is unchoked.
Bug_interest_matters(p) == FALSE
interest_matters(p) == p \notin choke

peer_on_interest(p) ==
    /\ p \in Range(peerq) \ want
    /\ want' = want \union {p}
    /\ IF interest_matters(p) THEN choke_do(peerq, want')
       ELSE UNCHANGED <<choke, changed>>
    /\ UNCHANGED <<peerq, npeers, max, full, count>>

peer_on_uninterest(p) ==
    /\ p \in want
    /\ want' = want \ {p}
    /\ IF p \notin choke THEN choke_do(peerq, want')
       ELSE UNCHANGED <<choke, changed>>
    /\ UNCHANGED <<peerq, npeers, max, full, count>>

\* The peer has announced its last piece.
peer_full(p) ==
    /\ p \in Range(peerq) \ full
    /\ full' = full \union {p}
    /\ UNCHANGED <<peerq, npeers, max, want, choke, count, changed>>

\* The queue is rotated up to the first peer that waits for a slot; without
\* one it goes all the way round.
Bug_shuffle_optimists(q) == q
shuffle_optimists(q) ==
    LET is == {i \in 1..Len(q) : q[i] \in want \intersect choke} IN
    IF is = {} THEN q
    ELSE LET k == CHOOSE i \in is : \A j \in is : i <= j IN
         SubSeq(q, k, Len(q)) \o SubSeq(q, 1, k - 1)

\* The timer, every ten seconds.
choke_cb ==
    /\ count' = (count + 1) % 3
    /\ peerq' = IF count' = 0 THEN shuffle_optimists(peerq) ELSE peerq
    /\ choke_do(peerq', want)
    /\ UNCHANGED <<npeers, max, want, full>>

\* btcli rate: ul_set_max_uploads.
cmd_rate ==
    /\ max' \in Uploads \ {max}
    /\ changed' = TRUE
    /\ UNCHANGED <<peerq, npeers, want, choke, full, count>>

Next ==
    \/ \E p \in Peers : \/ ul_on_new_peer(p) \/ ul_on_lost_peer(p)
                        \/ peer_on_interest(p) \/ peer_on_uninterest(p)
                        \/ peer_full(p)
    \/ \E n \in Range(Net) : ul_on_lost_torrent(n)
    \/ choke_cb \/ cmd_rate

Spec == Init /\ [][Next]_vars

\* The timer fires.
FairSpec == Spec /\ WF_vars(choke_cb)

------------------------------------------------------------------------------
(* Properties *)

\* Types; the queue has each peer once, and m_npeers is its length.
TypeOK ==
    /\ peerq \in Seq(Peers) /\ IsInjective(peerq)
    /\ npeers = Len(peerq)
    /\ max \in Uploads /\ count \in 0..2 /\ changed \in BOOLEAN
    /\ want \subseteq Range(peerq) /\ choke \subseteq Range(peerq)
    /\ full \subseteq Range(peerq)

Uploading == want \ choke

\* No more peers are served than there are slots, whatever comes between two
\* runs of the timer, and no slot is free while a peer that could use it is
\* choked.
SlotsUsed == TypeOK /\ (~changed =>
    /\ max >= 0 => Cardinality(Uploading) <= max
    /\ max < 0 \/ Cardinality(Uploading) < max => want \intersect choke \subseteq full)

\* Every peer that waits for a slot is served, however bad its rates are, when
\* no more peers join and no peer that has everything claims interest.  (Such
\* a peer is never unchoked, and while it is first in the queue and wants
\* blocks shuffle_optimists does not move the queue.)
Waits(p) == p \in (want \intersect choke) \ full /\ max # 0
EveryoneServed ==
    <>[][\A p \in Peers : ~ul_on_new_peer(p)]_vars /\ <>[](want \intersect full = {})
    => \A p \in Peers : Waits(p) ~> ~Waits(p)

=============================================================================
