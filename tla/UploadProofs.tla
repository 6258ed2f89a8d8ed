---------------------------- MODULE UploadProofs ----------------------------
(***************************************************************************)
(* Proofs about Upload, for any number of peers, torrents and slots: no    *)
(* more peers are served than there are slots, and no slot is free while a *)
(* peer that could use it is choked.                                       *)
(***************************************************************************)
EXTENDS Upload, SeqFacts

\* The queue has each peer once; m_npeers is its length.
QueueOk == /\ peerq \in Seq(Peers) /\ Distinct(peerq) /\ npeers = Len(peerq)

OthersOk ==
    /\ max \in Uploads /\ count \in 0..2 /\ changed \in BOOLEAN
    /\ want \subseteq Range(peerq) /\ choke \subseteq Range(peerq)
    /\ full \subseteq Range(peerq)

\* What choke_do brings about with the limit m for those who want blocks, the
\* choked and the full peers.  While a slot is free only full peers are choked,
\* whether they want blocks or not: a choked peer may become interested without
\* another run of choke_do.
Filled(m, wt, ch, fl) ==
    /\ m >= 0 => Cardinality(wt \ ch) <= m
    /\ m < 0 \/ Cardinality(wt \ ch) < m => ch \subseteq fl

\* The inductive invariant.
IInv == QueueOk /\ OthersOk /\ (~changed => Filled(max, want, choke, full))

------------------------------------------------------------------------------
(* choke_do *)

\* Adding one element to a finite set.
LEMMA OneMore ==
    ASSUME NEW A, NEW B, NEW x, IsFiniteSet(A), B \subseteq A \union {x}
    PROVE  IsFiniteSet(B) /\ Cardinality(B) <= Cardinality(A) + 1
<1>1. /\ IsFiniteSet(A \union {x}) /\ Cardinality(A \union {x}) <= Cardinality(A) + 1
  <2>1. /\ IsFiniteSet(A \union {x})
        /\ Cardinality(A \union {x}) = IF x \in A THEN Cardinality(A) ELSE Cardinality(A) + 1
    BY FS_AddElement
  <2>2. Cardinality(A) \in Nat
    BY FS_CardinalityType
  <2> QED BY <2>1, <2>2
<1>2. IsFiniteSet(B) /\ Cardinality(B) <= Cardinality(A \union {x})
  BY <1>1, FS_Subset
<1>3. Cardinality(A) \in Nat /\ Cardinality(B) \in Nat /\ Cardinality(A \union {x}) \in Nat
  BY <1>1, <1>2, FS_CardinalityType
<1> QED BY <1>1, <1>2, <1>3

\* The best leave one slot free.
LEMMA BestFit ==
    ASSUME NEW R, IsFiniteSet(R), NEW w \in Seq(R), NEW wt, NEW m \in Nat \ {0}
    PROVE  best(w, wt, m) \subseteq R /\ Cardinality(best(w, wt, m) \intersect wt) <= m - 1
<1> DEFINE n == Len(w)
           K == {k \in 1..n : Cardinality(Before(w, k) \intersect wt) < m - 1}
           J == {k \in K : w[k] \in wt}
           B == best(w, wt, m) \intersect wt
<1>1. n \in Nat /\ \A k \in 1..n : w[k] \in R
  OBVIOUS
<1>2. best(w, wt, m) = {w[i] : i \in K}
  BY DEF best
<1>3. best(w, wt, m) \subseteq R
  BY <1>1, <1>2
<1>4. B = {w[i] : i \in J}
  BY <1>2
<1>5. CASE J = {}
  <2>1. B = {} /\ Cardinality(B) = 0
    BY <1>4, <1>5, FS_EmptySet
  <2> HIDE DEF B
  <2>2. Cardinality(B) <= m - 1
    BY <2>1
  <2> QED BY <1>3, <2>2 DEF B
<1>6. CASE J # {}
  <2>1. J \in SUBSET (0..n)
    BY <1>1
  <2>2. PICK g \in J : \A k \in J : k <= g
    <3> HIDE DEF J
    <3> QED BY <1>1, <1>6, <2>1, GreatestElement
  <2> DEFINE A == Before(w, g) \intersect wt
  <2>3. IsFiniteSet(A) /\ Cardinality(A) < m - 1
    <3>1. A \subseteq R
      BY <1>1 DEF Before
    <3> QED BY <3>1, FS_Subset
  <2>4. B \subseteq A \union {w[g]}
    <3> SUFFICES ASSUME NEW k \in J, k # g PROVE w[k] \in A
      BY <1>4
    <3>1. k \in 1..(g - 1) /\ w[k] \in wt
      BY <1>1, <2>2
    <3> QED BY <3>1 DEF Before
  <2> HIDE DEF A, B
  <2>5. Cardinality(B) <= Cardinality(A) + 1
    BY <2>3, <2>4, OneMore
  <2>6. IsFiniteSet(B) /\ Cardinality(B) \in Nat /\ Cardinality(A) \in Nat
    BY <2>3, <2>4, OneMore, FS_CardinalityType
  <2>7. Cardinality(B) <= m - 1
    BY <2>3, <2>5, <2>6
  <2> QED BY <1>3, <2>7 DEF B
<1> QED BY <1>5, <1>6

\* With slots to give, they are filled and not more than that.
LEMMA GiveSlots ==
    ASSUME NEW q \in Seq(Peers), Distinct(q), NEW w \in Seq(Range(q) \ full),
           NEW wt \in SUBSET Range(q), NEW m \in Nat \ {0}
    PROVE  LET u == best(w, wt, m) \union next_best(q, w, wt, m) IN
           /\ Cardinality(wt \intersect u) <= m
           /\ Cardinality(wt \intersect u) < m => Range(q) \ u \subseteq full
<1> DEFINE first == best(w, wt, m)
           Taken(k) == ((Before(q, k) \ full) \union first) \intersect wt
           K == {k \in 1..Len(q) : q[k] \notin first \union full /\ Cardinality(Taken(k)) < m}
           u == first \union next_best(q, w, wt, m)
           U == wt \intersect u
           J == {k \in K : q[k] \in wt}
<1>1. Len(q) \in Nat /\ IsFiniteSet(Range(q)) /\ Range(q) = {q[k] : k \in 1..Len(q)}
  BY RangeSeq, LenIsCardinality
<1>2. first \subseteq Range(q) \ full /\ Cardinality(first \intersect wt) <= m - 1
  <2>1. IsFiniteSet(Range(q) \ full)
    BY <1>1, FS_Subset
  <2> QED BY <2>1, BestFit
<1> HIDE DEF first
<1>3. next_best(q, w, wt, m) = {q[k] : k \in K}
  BY DEF next_best, first
<1>4. U \subseteq Range(q) /\ IsFiniteSet(U) /\ Cardinality(U) \in Nat
  <2>1. U \subseteq Range(q)
    OBVIOUS
  <2> QED BY <1>1, <2>1, FS_Subset, FS_CardinalityType
<1>5. \A k \in 1..Len(q) : IsFiniteSet(Taken(k)) /\ Cardinality(Taken(k)) \in Nat
  <2>1. \A k \in 1..Len(q) : Taken(k) \subseteq Range(q)
    OBVIOUS
  <2> QED BY <1>1, <2>1, FS_Subset, FS_CardinalityType
<1>6. U = (first \intersect wt) \union {q[k] : k \in J}
  BY <1>3
<1>7. Cardinality(U) <= m
  <2>1. CASE J = {}
    <3>1. U = first \intersect wt
      BY <1>6, <2>1
    <3> HIDE DEF U
    <3> QED BY <1>2, <1>4, <3>1
  <2>2. CASE J # {}
    <3>1. J \in SUBSET (0..Len(q))
      BY <1>1
    <3>2. PICK g \in J : \A k \in J : k <= g
      <4> HIDE DEF J
      <4> QED BY <1>1, <2>2, <3>1, GreatestElement
    <3>3. Cardinality(Taken(g)) < m /\ g \in 1..Len(q)
      BY <3>2
    <3>4. U \subseteq Taken(g) \union {q[g]}
      <4>1. ASSUME NEW k \in J, k # g PROVE q[k] \in Taken(g)
        <5>1. k \in 1..Len(q) /\ q[k] \in wt /\ q[k] \notin full
          OBVIOUS
        <5>2. k \in 1..(g - 1)
          BY <3>2, <3>3, <4>1, <5>1
        <5> QED BY <5>1, <5>2 DEF Before
      <4>2. first \intersect wt \subseteq Taken(g)
        OBVIOUS
      <4> QED BY <1>6, <4>1, <4>2
    <3> HIDE DEF U, Taken
    <3>5. Cardinality(U) <= Cardinality(Taken(g)) + 1
      BY <1>5, <3>3, <3>4, OneMore
    <3> QED BY <1>4, <1>5, <3>3, <3>5
  <2> QED BY <2>1, <2>2
<1>8. ASSUME Cardinality(U) < m PROVE Range(q) \ u \subseteq full
  <2> DEFINE C == {k \in 1..Len(q) : q[k] \notin u /\ q[k] \notin full}
  <2>1. SUFFICES ASSUME C # {} PROVE FALSE
    BY <1>1
  <2>2. C \in SUBSET Nat
    BY <1>1
  <2>3. PICK g \in C : \A k \in C : g <= k
    <3> HIDE DEF C
    <3> QED BY <2>1, <2>2, LeastElement
  <2>4. g \in 1..Len(q) /\ ~(Cardinality(Taken(g)) < m)
    BY <1>3, <2>3
  <2>5. Taken(g) \subseteq U
    <3> SUFFICES ASSUME NEW k \in 1..(g - 1), q[k] \notin full, q[k] \in wt
                 PROVE  q[k] \in u
      BY DEF Before
    <3>1. k \in 1..Len(q) /\ ~(g <= k)
      BY <1>1, <2>4
    <3> QED BY <2>3, <3>1
  <2>6. Cardinality(Taken(g)) <= Cardinality(U)
    <3> HIDE DEF U, Taken
    <3> QED BY <1>4, <2>5, FS_Subset
  <2> HIDE DEF U, Taken
  <2> QED BY <1>4, <1>5, <1>8, <2>4, <2>6
<1> QED BY <1>7, <1>8 DEF first

\* What choke_do leaves.
LEMMA ChokeDo ==
    ASSUME NEW q \in Seq(Peers), Distinct(q), NEW wt \in SUBSET Range(q), max \in Int,
           choke_do(q, wt)
    PROVE  /\ choke' \subseteq Range(q) /\ changed' = FALSE
           /\ Filled(max, wt, choke', full)
<1>1. IsFiniteSet(Range(q))
  BY LenIsCardinality
<1>2. PICK s \in SUBSET (Range(q) \ full) : \E w \in SetToSeqs(s) :
         choke' = Range(q) \ unchoked(q, w, wt, max)
  BY DEF choke_do
<1>3. PICK w \in SetToSeqs(s) : choke' = Range(q) \ unchoked(q, w, wt, max)
  BY <1>2
<1>4. w \in Seq(Range(q) \ full)
  <2>1. IsFiniteSet(s)
    BY <1>1, FS_Subset
  <2>2. w \in Seq(s)
    BY <2>1, Enumeration
  <2> QED BY <2>2
<1>5. CASE max < 0
  <2>1. choke' = {}
    BY <1>3, <1>5 DEF unchoked
  <2>2. ~(max >= 0)
    BY <1>5
  <2> QED BY <2>1, <2>2 DEF Filled, choke_do
<1>6. CASE max = 0
  <2>1. choke' = Range(q)
    BY <1>3, <1>6 DEF unchoked
  <2>2. wt \ choke' = {} /\ Cardinality(wt \ choke') = 0
    BY <2>1, FS_EmptySet
  <2> QED BY <1>6, <2>1, <2>2 DEF Filled, choke_do
<1>7. CASE max > 0
  <2> DEFINE u == best(w, wt, max) \union next_best(q, w, wt, max)
  <2>1. choke' = Range(q) \ u
    BY <1>3, <1>7 DEF unchoked
  <2>2. max \in Nat \ {0}
    BY <1>7
  <2>3. /\ Cardinality(wt \intersect u) <= max
        /\ Cardinality(wt \intersect u) < max => Range(q) \ u \subseteq full
    BY <1>4, <2>2, GiveSlots
  <2> HIDE DEF u
  <2>4. wt \ choke' = wt \intersect u
    BY <2>1
  <2>5. ~(max < 0)
    BY <1>7
  <2> QED BY <2>1, <2>3, <2>4, <2>5 DEF Filled, choke_do
<1>8. max < 0 \/ max = 0 \/ max > 0
  OBVIOUS
<1> QED BY <1>5, <1>6, <1>7, <1>8

------------------------------------------------------------------------------
(* The events *)

\* Which of the invariant is left to show after a run of choke_do.
LEMMA AfterChoke ==
    ASSUME IInv, QueueOk', choke_do(peerq', want'), max' = max, count' \in 0..2,
           want' \subseteq Range(peerq'), full' = full \intersect Range(peerq')
    PROVE  IInv'
<1>1. max \in Int /\ max' \in Uploads
  BY UploadAssumption DEF IInv, OthersOk
<1>2. peerq' \in Seq(Peers) /\ Distinct(peerq')
  BY DEF QueueOk, Distinct
<1>3. /\ choke' \subseteq Range(peerq') /\ changed' = FALSE
      /\ Filled(max, want', choke', full)
  BY <1>1, <1>2, ChokeDo
<1>4. Filled(max, want', choke', full')
  BY <1>3 DEF Filled
<1>5. full' \subseteq Range(peerq')
  OBVIOUS
<1>6. (Filled(max, want, choke, full))'
  BY <1>4 DEF Filled
<1> QED BY <1>1, <1>3, <1>5, <1>6 DEF IInv, OthersOk

\* A peer comes.
LEMMA StepNew == ASSUME IInv, NEW p \in Peers, ul_on_new_peer(p) PROVE IInv'
<1>1. /\ p \notin Range(peerq) /\ npeers' = npeers + 1 /\ choke_do(peerq', want)
      /\ UNCHANGED <<max, want, full, count>>
  BY DEF ul_on_new_peer
<1>2. PICK i \in 1..(Len(peerq) + 1) : peerq' = InsertAt(peerq, i, p)
  BY DEF ul_on_new_peer
<1>3. /\ peerq' \in Seq(Peers) /\ Len(peerq') = Len(peerq) + 1
      /\ Range(peerq') = Range(peerq) \union {p} /\ Distinct(peerq')
  BY <1>1, <1>2, InsertAtSeq DEF IInv, QueueOk
<1>4. QueueOk'
  BY <1>1, <1>3 DEF IInv, QueueOk, Distinct
<1>5. /\ want' \subseteq Range(peerq') /\ full' = full \intersect Range(peerq')
      /\ choke_do(peerq', want') /\ count' \in 0..2
  BY <1>1, <1>3 DEF IInv, OthersOk
<1> QED BY <1>1, <1>4, <1>5, AfterChoke

\* A peer is lost.
LEMMA StepLost == ASSUME IInv, NEW p \in Peers, ul_on_lost_peer(p) PROVE IInv'
<1>1. /\ p \in Range(peerq) /\ npeers' = npeers - 1 /\ peerq' = RemoveFirst(peerq, p)
      /\ want' = want \ {p} /\ full' = full \ {p} /\ UNCHANGED <<max, count>>
      /\ IF p \in want \ choke THEN choke_do(peerq', want')
         ELSE choke' = choke \ {p} /\ UNCHANGED changed
  BY DEF ul_on_lost_peer, frees_slot
<1>2. /\ peerq' \in Seq(Peers) /\ Len(peerq') = Len(peerq) - 1
      /\ Range(peerq') = Range(peerq) \ {p} /\ Distinct(peerq')
  BY <1>1, RemoveFirstSeq DEF IInv, QueueOk
<1>3. QueueOk'
  BY <1>1, <1>2 DEF IInv, QueueOk, Distinct
<1>4. /\ want' \subseteq Range(peerq') /\ full' = full \intersect Range(peerq')
      /\ count' \in 0..2
  BY <1>1, <1>2 DEF IInv, OthersOk
<1>5. CASE p \in want \ choke
  BY <1>1, <1>3, <1>4, <1>5, AfterChoke
<1>6. CASE p \notin want \ choke
  <2>1. choke' = choke \ {p} /\ changed' = changed
    BY <1>1, <1>6
  <2>2. want' \ choke' = want \ choke
    BY <1>1, <1>6, <2>1
  <2>3. OthersOk'
    BY <1>1, <1>2, <1>4, <2>1 DEF IInv, OthersOk
  <2>4. ~changed => (Filled(max, want, choke, full))'
    BY <1>1, <2>1, <2>2 DEF IInv, Filled
  <2> QED BY <1>3, <2>1, <2>3, <2>4 DEF IInv
<1> QED BY <1>5, <1>6

\* A torrent is stopped.
LEMMA StepLostTorrent == ASSUME IInv, NEW n, ul_on_lost_torrent(n) PROVE IInv'
<1> DEFINE ps == {p \in Range(peerq) : Net[p] = n}
<1>1. /\ npeers' = npeers - Cardinality(ps) /\ peerq' \in SetToSeqs(Range(peerq) \ ps)
      /\ want' = want \ ps /\ full' = full \ ps /\ UNCHANGED <<max, count>>
      /\ choke_do(peerq', want')
  BY DEF ul_on_lost_torrent, lost
<1>2. ps \subseteq Range(peerq)
  OBVIOUS
<1> HIDE DEF ps
<1>3. IsFiniteSet(Range(peerq)) /\ Cardinality(Range(peerq)) = Len(peerq)
      /\ Range(peerq) \subseteq Peers
  BY LenIsCardinality, RangeSeq DEF IInv, QueueOk
<1> DEFINE R == Range(peerq) \ ps
<1>4. /\ IsFiniteSet(ps) /\ IsFiniteSet(R)
      /\ Cardinality(Range(peerq)) = Cardinality(R) + Cardinality(ps)
  <2>1. IsFiniteSet(ps) /\ IsFiniteSet(R) /\ R \intersect ps = {} /\ R \union ps = Range(peerq)
    BY <1>2, <1>3, FS_Subset
  <2> HIDE DEF R
  <2> QED BY <2>1, DisjointUnion
<1>5. /\ peerq' \in Seq(R) /\ Len(peerq') = Cardinality(R) /\ Range(peerq') = R
      /\ Distinct(peerq')
  BY <1>1, <1>4, Enumeration
<1>6. peerq' \in Seq(Peers)
  BY <1>3, <1>5
<1>7. npeers' = Len(peerq')
  <2>1. Cardinality(R) \in Nat /\ Cardinality(ps) \in Nat
    BY <1>4, FS_CardinalityType
  <2>2. npeers = Cardinality(R) + Cardinality(ps)
    BY <1>3, <1>4 DEF IInv, QueueOk
  <2> QED BY <1>1, <1>5, <2>1, <2>2
<1>8. QueueOk'
  BY <1>5, <1>6, <1>7 DEF QueueOk, Distinct
<1>9. /\ want' \subseteq Range(peerq') /\ full' = full \intersect Range(peerq')
      /\ count' \in 0..2
  BY <1>1, <1>5 DEF IInv, OthersOk
<1> QED BY <1>1, <1>8, <1>9, AfterChoke

\* A peer becomes interested, or not interested any more.
LEMMA StepInterest ==
    ASSUME IInv, NEW p \in Peers, peer_on_interest(p) \/ peer_on_uninterest(p) PROVE IInv'
<1>1. /\ UNCHANGED <<peerq, npeers, max, full, count>>
      /\ want' \subseteq Range(peerq) /\ want' \in {want \union {p}, want \ {p}}
      /\ IF p \notin choke THEN choke_do(peerq, want') ELSE UNCHANGED <<choke, changed>>
  BY DEF peer_on_interest, peer_on_uninterest, interest_matters, IInv, OthersOk
<1>2. QueueOk'
  BY <1>1 DEF IInv, QueueOk, Distinct
<1>3. CASE p \notin choke
  <2>1. /\ want' \subseteq Range(peerq') /\ full' = full \intersect Range(peerq')
        /\ choke_do(peerq', want') /\ count' \in 0..2
    BY <1>1, <1>3 DEF IInv, OthersOk
  <2> QED BY <1>1, <1>2, <2>1, AfterChoke
<1>4. CASE p \in choke
  <2>1. UNCHANGED <<choke, changed>> /\ want' \ choke' = want \ choke
    BY <1>1, <1>4
  <2>2. OthersOk'
    BY <1>1, <2>1 DEF IInv, OthersOk
  <2>3. ~changed => (Filled(max, want, choke, full))'
    BY <1>1, <2>1 DEF IInv, Filled
  <2> QED BY <1>2, <2>1, <2>2, <2>3 DEF IInv
<1> QED BY <1>3, <1>4

\* A peer has everything.
LEMMA StepFull == ASSUME IInv, NEW p \in Peers, peer_full(p) PROVE IInv'
<1>1. /\ p \in Range(peerq) /\ full' = full \union {p}
      /\ UNCHANGED <<peerq, npeers, max, want, choke, count, changed>>
  BY DEF peer_full
<1>2. QueueOk' /\ OthersOk'
  BY <1>1 DEF IInv, QueueOk, Distinct, OthersOk
<1>3. ~changed => (Filled(max, want, choke, full))'
  BY <1>1 DEF IInv, Filled
<1> QED BY <1>1, <1>2, <1>3 DEF IInv

\* The timer.
LEMMA StepTimer == ASSUME IInv, choke_cb PROVE IInv'
<1>1. /\ count' = (count + 1) % 3 /\ choke_do(peerq', want)
      /\ peerq' = IF count' = 0 THEN shuffle_optimists(peerq) ELSE peerq
      /\ UNCHANGED <<npeers, max, want, full>>
  BY DEF choke_cb
<1>2. peerq \in Seq(Peers) /\ Distinct(peerq) /\ npeers = Len(peerq)
  BY DEF IInv, QueueOk
<1> DEFINE is == {i \in 1..Len(peerq) : peerq[i] \in want \intersect choke}
           k == CHOOSE i \in is : \A j \in is : i <= j
<1>3. \/ peerq' = peerq
      \/ is # {} /\ peerq' = SubSeq(peerq, k, Len(peerq)) \o SubSeq(peerq, 1, k - 1)
  BY <1>1 DEF shuffle_optimists
<1>4. /\ peerq' \in Seq(Peers) /\ Len(peerq') = Len(peerq) /\ Range(peerq') = Range(peerq)
      /\ Distinct(peerq')
  <2>1. CASE peerq' = peerq
    BY <1>2, <2>1
  <2>2. CASE is # {} /\ peerq' = SubSeq(peerq, k, Len(peerq)) \o SubSeq(peerq, 1, k - 1)
    <3>1. is \in SUBSET Nat /\ is \subseteq 1..Len(peerq)
      OBVIOUS
    <3> HIDE DEF is
    <3>2. PICK i \in is : \A j \in is : i <= j
      BY <2>2, <3>1, LeastElement
    <3>3. k \in is
      BY <3>2
    <3>4. k \in 1..Len(peerq)
      BY <3>1, <3>3
    <3> HIDE DEF k
    <3> QED BY <1>2, <2>2, <3>4, RotateSeq
  <2> QED BY <1>3, <2>1, <2>2
<1>5. QueueOk'
  BY <1>1, <1>2, <1>4 DEF QueueOk, Distinct
<1>6. count' \in 0..2
  BY <1>1 DEF IInv, OthersOk
<1>7. /\ want' \subseteq Range(peerq') /\ full' = full \intersect Range(peerq')
      /\ choke_do(peerq', want')
  BY <1>1, <1>4 DEF IInv, OthersOk
<1> QED BY <1>1, <1>5, <1>6, <1>7, AfterChoke

\* btcli rate.
LEMMA StepRate == ASSUME IInv, cmd_rate PROVE IInv'
<1>1. /\ max' \in Uploads /\ changed' = TRUE
      /\ UNCHANGED <<peerq, npeers, want, choke, full, count>>
  BY DEF cmd_rate
<1> QED BY <1>1 DEF IInv, QueueOk, Distinct, OthersOk

------------------------------------------------------------------------------
(* The theorem *)

\* The initial state.
LEMMA InitOk == Init => IInv
<1> SUFFICES ASSUME Init PROVE IInv
  OBVIOUS
<1>1. /\ <<>> \in Seq(Peers) /\ Len(<<>>) = 0 /\ Distinct(<<>>) /\ Range(<<>>) = {}
      /\ 0 \in 0..2
  BY DEF Distinct, Range
<1>2. want \ choke = {} /\ Cardinality(want \ choke) = 0
  BY FS_EmptySet DEF Init
<1>3. Filled(max, want, choke, full)
  BY <1>2 DEF Filled, Init
<1> QED BY <1>1, <1>3 DEF Init, IInv, QueueOk, OthersOk

\* Every step.
LEMMA StepOk == ASSUME IInv, [Next]_vars PROVE IInv'
<1>1. CASE Next
  BY <1>1, StepNew, StepLost, StepInterest, StepFull, StepLostTorrent, StepTimer, StepRate
     DEF Next
<1>2. CASE UNCHANGED vars
  BY <1>2 DEF vars, IInv, QueueOk, Distinct, OthersOk, Filled
<1> QED BY <1>1, <1>2

\* At any time no more peers are served than there are slots, and no slot is
\* free while a peer that could use it is choked, though choke_do runs on some
\* events only (upload.c), for any number of peers and slots and whatever the
\* rates are.
THEOREM SlotsCorrect == Spec => []SlotsUsed
<1>1. Init => IInv
  BY InitOk
<1>2. IInv /\ [Next]_vars => IInv'
  BY StepOk
<1>3. IInv => SlotsUsed
  <2> SUFFICES ASSUME IInv PROVE SlotsUsed
    OBVIOUS
  <2>1. IsInjective(peerq)
    BY DEF IInv, QueueOk, Distinct, IsInjective
  <2>2. TypeOK
    BY <2>1 DEF IInv, QueueOk, OthersOk, TypeOK
  <2> QED BY <2>2 DEF SlotsUsed, Uploading, IInv, Filled
<1> QED BY <1>1, <1>2, <1>3, PTL DEF Spec

=============================================================================
