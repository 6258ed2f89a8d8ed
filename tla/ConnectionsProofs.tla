------------------------- MODULE ConnectionsProofs --------------------------
(***************************************************************************)
(* Proofs about what is under the strategies, for any number of peers,     *)
(* torrents, events and messages: what is queued will be written and the   *)
(* peer knows whether it is choked (OutQueue), the tables of connections   *)
(* and of meta peers agree and a peer that vanished is dropped (Peers),    *)
(* and the event loop calls back only for what is registered and enabled,  *)
(* by poll (EvLoop) and by epoll and kqueue (EvBatch).                     *)
(***************************************************************************)
EXTENDS MCConnections, SeqFacts

------------------------------------------------------------------------------
(* What a connection has to send: OutQueue *)

Message == [kind : Kinds, blk : Blocks \union {"none"}, full : BOOLEAN]
Signals == {"choke", "unchoke"}

Data(q) == {i \in 1..Len(q) : q[i].kind = "data"}

\* A "piece" is followed by its "data", which comes nowhere else but first.
Paired(q) ==
    /\ \A i \in 1..Len(q) : q[i].kind = "piece" =>
         i + 1 \in 1..Len(q) /\ q[i + 1].kind = "data"
    /\ \A i \in 1..Len(q) : i # 1 /\ q[i].kind = "data" => q[i - 1].kind = "piece"

\* The first message is "data" only after its "piece" has been written.
FirstOk(q, w) == q # <<>> /\ q[1].kind = "data" => w = "piece" /\ q[1].full

\* Who has been told s and gets the messages of q believes v.
Tells(q, s, v) ==
    \/ s = v /\ \A j \in 1..Len(q) : q[j].kind \notin Signals
    \/ \E m \in 1..Len(q) : /\ q[m].kind = v /\ v \in Signals
                            /\ \A j \in 1..Len(q) : j > m => q[j].kind \notin Signals

Unchokes(q) == \E i \in 1..Len(q) : q[i].kind = "unchoke"

OutRec == [q : Seq(Message), n : Int, ev : BOOLEAN, wq : BOOLEAN, ok : BOOLEAN]

\* An output state in which nothing is wrong.
Fine(o) ==
    /\ o \in OutRec /\ o.ok /\ Paired(o.q) /\ FirstOk(o.q, wire)
    /\ o.n = Cardinality(Data(o.q))
    /\ off => o.q # <<>>
    /\ o.q = <<>> <=> ~o.ev /\ ~o.wq
    /\ ~(o.ev /\ o.wq)

TypesOk ==
    /\ outq \in Seq(Message) /\ Len(outq) <= MaxQueue /\ npiece \in Nat
    /\ off \in BOOLEAN /\ ichoke \in BOOLEAN /\ norequests \in BOOLEAN
    /\ want \in BOOLEAN /\ myreq \in BOOLEAN /\ ev \in BOOLEAN
    /\ onwriteq \in BOOLEAN /\ limited \in BOOLEAN /\ budget \in BOOLEAN
    /\ alive \in BOOLEAN /\ aborted \in BOOLEAN
    /\ seen \in Signals /\ wire \in Kinds

Belief(c) == IF c THEN "choke" ELSE "unchoke"

\* The inductive invariant.
IInv ==
    /\ TypesOk /\ aborted = FALSE
    /\ alive => /\ Fine(Out)
                /\ Tells(outq, seen, Belief(ichoke))
                /\ norequests => Unchokes(outq)

------------------------------------------------------------------------------
(* Queues from which messages are taken *)

\* u has those messages of q that g says, in their order.
Thins(q, u, g) ==
    /\ g \in [1..Len(u) -> 1..Len(q)]
    /\ \A i, j \in 1..Len(u) : i < j => g[i] < g[j]
    /\ \A j \in 1..Len(u) : u[j].kind = q[g[j]].kind

Kept(u, g) == {g[j] : j \in 1..Len(u)}

LEMMA DataFinite ==
    ASSUME NEW q \in Seq(Message)
    PROVE  IsFiniteSet(Data(q)) /\ Cardinality(Data(q)) \in Nat
<1>1. Len(q) \in Nat
  OBVIOUS
<1>2. IsFiniteSet(1..Len(q))
  BY <1>1, FS_Interval
<1>3. Data(q) \subseteq 1..Len(q)
  BY DEF Data
<1> QED BY <1>2, <1>3, FS_Subset, FS_CardinalityType

LEMMA ThinInjective ==
    ASSUME NEW q \in Seq(Message), NEW u \in Seq(Message), NEW g, Thins(q, u, g)
    PROVE  \A i, j \in 1..Len(u) : g[i] = g[j] => i = j
<1> SUFFICES ASSUME NEW i \in 1..Len(u), NEW j \in 1..Len(u), g[i] = g[j] PROVE i = j
  OBVIOUS
<1>1. g[i] \in 1..Len(q) /\ g[j] \in 1..Len(q) /\ Len(q) \in Nat /\ Len(u) \in Nat
  BY DEF Thins
<1>2. ~(i < j) /\ ~(j < i)
  BY <1>1 DEF Thins
<1> QED BY <1>1, <1>2

\* The number of blocks left.
LEMMA ThinCount ==
    ASSUME NEW q \in Seq(Message), NEW u \in Seq(Message), NEW g, Thins(q, u, g)
    PROVE  Cardinality(Data(u)) = Cardinality(Data(q) \intersect Kept(u, g))
<1> DEFINE S == Data(u)
           T == Data(q) \intersect Kept(u, g)
           f == [j \in S |-> g[j]]
<1>1. \A j \in S : j \in 1..Len(u) /\ g[j] \in T
  BY DEF Thins, Data, Kept
<1>2. \A i, j \in S : g[i] = g[j] => i = j
  BY <1>1, ThinInjective
<1>3. \A t \in T : \E j \in S : g[j] = t
  BY DEF Thins, Data, Kept
<1> HIDE DEF S, T
<1>4. f \in Bijection(S, T)
  BY <1>1, <1>2, <1>3 DEF Bijection, Injection, IsInjective, Surjection
<1>5. ExistsBijection(S, T)
  BY <1>4 DEF ExistsBijection
<1>6. IsFiniteSet(S)
  BY DataFinite DEF S
<1>7. Cardinality(T) = Cardinality(S)
  BY <1>5, <1>6, FS_Bijection
<1> QED BY <1>7 DEF S, T

\* What the peer will believe depends on the signals alone.
LEMMA ThinTells ==
    ASSUME NEW q \in Seq(Message), NEW u \in Seq(Message), NEW g, Thins(q, u, g),
           \A i \in 1..Len(q) : q[i].kind \in Signals => i \in Kept(u, g)
    PROVE  /\ \A s, v : Tells(q, s, v) => Tells(u, s, v)
           /\ Unchokes(q) => Unchokes(u)
<1>1. \A j \in 1..Len(u) : g[j] \in 1..Len(q) /\ u[j].kind = q[g[j]].kind
  BY DEF Thins
<1>2. ASSUME NEW s, NEW v, Tells(q, s, v) PROVE Tells(u, s, v)
  <2>1. CASE s = v /\ \A j \in 1..Len(q) : q[j].kind \notin Signals
    BY <1>1, <2>1 DEF Tells
  <2>2. ASSUME NEW m \in 1..Len(q), q[m].kind = v, v \in Signals,
               \A j \in 1..Len(q) : j > m => q[j].kind \notin Signals
        PROVE  Tells(u, s, v)
    <3>1. PICK k \in 1..Len(u) : g[k] = m
      BY <2>2 DEF Kept
    <3>2. ASSUME NEW j \in 1..Len(u), j > k PROVE u[j].kind \notin Signals
      <4>1. k < j
        BY <3>2
      <4>2. g[k] < g[j] /\ g[j] \in 1..Len(q) /\ g[k] \in 1..Len(q)
        BY <1>1, <4>1 DEF Thins
      <4>3. g[j] > m
        BY <3>1, <4>2
      <4> QED BY <1>1, <2>2, <4>2, <4>3
    <3> QED BY <1>1, <2>2, <3>1, <3>2 DEF Tells
  <2> QED BY <1>2, <2>1, <2>2 DEF Tells
<1>3. ASSUME Unchokes(q) PROVE Unchokes(u)
  <2>1. PICK i \in 1..Len(q) : q[i].kind = "unchoke"
    BY <1>3 DEF Unchokes
  <2>2. PICK k \in 1..Len(u) : g[k] = i
    BY <2>1 DEF Kept, Signals
  <2> QED BY <1>1, <2>1, <2>2 DEF Unchokes
<1> QED BY <1>2, <1>3

\* A message more.
LEMMA AppendTells ==
    ASSUME NEW q \in Seq(Message), NEW m \in Message
    PROVE  LET u == Append(q, m) IN
           /\ m.kind \notin Signals => \A s, v : Tells(q, s, v) => Tells(u, s, v)
           /\ m.kind \in Signals => \A s : Tells(u, s, m.kind)
           /\ Unchokes(q) \/ m.kind = "unchoke" => Unchokes(u)
<1> DEFINE u == Append(q, m)
           n == Len(q)
<1>1. /\ u \in Seq(Message) /\ n \in Nat /\ Len(u) = n + 1 /\ u[n + 1] = m
      /\ \A i \in 1..n : u[i] = q[i]
  OBVIOUS
<1>2. \A i \in 1..(n + 1) : i = n + 1 \/ i \in 1..n
  BY <1>1
<1>3. n + 1 \in 1..(n + 1) /\ \A i \in 1..n : i \in 1..(n + 1)
  BY <1>1
<1> HIDE DEF u
<1>4. ASSUME m.kind \notin Signals, NEW s, NEW v, Tells(q, s, v) PROVE Tells(u, s, v)
  <2>1. CASE s = v /\ \A j \in 1..n : q[j].kind \notin Signals
    BY <1>1, <1>2, <1>4, <2>1 DEF Tells
  <2>2. ASSUME NEW k \in 1..n, q[k].kind = v, v \in Signals,
               \A j \in 1..n : j > k => q[j].kind \notin Signals
        PROVE  Tells(u, s, v)
    <3>1. \A j \in 1..(n + 1) : j > k => u[j].kind \notin Signals
      BY <1>1, <1>2, <1>4, <2>2
    <3> QED BY <1>1, <1>3, <2>2, <3>1 DEF Tells
  <2> QED BY <1>4, <2>1, <2>2 DEF Tells
<1>5. ASSUME m.kind \in Signals, NEW s PROVE Tells(u, s, m.kind)
  <2>1. \A j \in 1..(n + 1) : ~(j > n + 1)
    BY <1>1
  <2> QED BY <1>1, <1>3, <1>5, <2>1 DEF Tells
<1>6. Unchokes(q) \/ m.kind = "unchoke" => Unchokes(u)
  BY <1>1, <1>3 DEF Unchokes
<1> QED BY <1>4, <1>5, <1>6 DEF u

------------------------------------------------------------------------------
(* Sending *)

\* The queue after an append.
LEMMA AppendIs ==
    ASSUME NEW q \in Seq(Message), NEW m \in Message
    PROVE  /\ Append(q, m) \in Seq(Message) /\ Len(q) \in Nat
           /\ Len(Append(q, m)) = Len(q) + 1 /\ Append(q, m)[Len(q) + 1] = m
           /\ \A i \in 1..Len(q) : Append(q, m)[i] = q[i]
           /\ Append(q, m) # <<>>
           /\ \A i \in 1..(Len(q) + 1) : i = Len(q) + 1 \/ i \in 1..Len(q)
<1> DEFINE u == Append(q, m)
<1>1. /\ u \in Seq(Message) /\ Len(q) \in Nat /\ Len(u) = Len(q) + 1 /\ u[Len(q) + 1] = m
      /\ \A i \in 1..Len(q) : u[i] = q[i]
  OBVIOUS
<1>2. \A i \in 1..(Len(q) + 1) : i = Len(q) + 1 \/ i \in 1..Len(q)
  BY <1>1
<1>3. u # <<>>
  BY <1>1
<1> QED BY <1>1, <1>2, <1>3

LEMMA MessageIs ==
    /\ \A k \in Kinds : Msg(k) \in Message /\ Msg(k).kind = k
    /\ \A b \in Blocks : Piece(b) \in Message /\ Piece(b).kind = "piece"
BY DEF Msg, Piece, Message, Kinds

\* What peer_send does to a fine output state.
LEMMA SendIs ==
    ASSUME Fine(Out), NEW o \in OutRec, NEW m \in Message, o.ok, off => o.q # <<>>
    PROVE  LET o2 == peer_send(o, m) IN
           /\ o2 \in OutRec /\ o2.q = Append(o.q, m) /\ o2.n = o.n /\ o2.wq = o.wq
           /\ (o2.ev <=> o.ev \/ o.q = <<>>) /\ o2.ok
<1> DEFINE q == Append(o.q, m)
           e == o.ev \/ o.q = <<>>
           k == o.ok /\ (o.q = <<>> => ~off)
           o2 == peer_send(o, m)
<1>1. q \in Seq(Message) /\ e \in BOOLEAN /\ k \in BOOLEAN /\ k
  BY DEF OutRec
<1>2. o2 = [o EXCEPT !.q = q, !.ev = e, !.ok = k]
  BY DEF peer_send, OutRec
<1> HIDE DEF q, e, k, o2
<1>3. o2 \in OutRec
  BY <1>1, <1>2 DEF OutRec
<1>4. o2.q = q /\ o2.n = o.n /\ o2.wq = o.wq /\ o2.ev = e /\ o2.ok = k
  BY <1>2 DEF OutRec
<1> QED BY <1>1, <1>3, <1>4 DEF q, e, o2

\* Any message but those of a block.
LEMMA SendOk ==
    ASSUME Fine(Out), NEW o, Fine(o), NEW m \in Message, m.kind \notin {"piece", "data"}
    PROVE  Fine(peer_send(o, m)) /\ peer_send(o, m).q = Append(o.q, m)
<1> DEFINE o2 == peer_send(o, m)
           q == o.q
           u == Append(q, m)
           n == Len(q)
<1>1. o \in OutRec /\ q \in Seq(Message) /\ o.ok /\ (off => q # <<>>)
  BY DEF Fine, OutRec
<1>2. /\ o2 \in OutRec /\ o2.q = u /\ o2.n = o.n /\ o2.wq = o.wq
      /\ (o2.ev <=> o.ev \/ q = <<>>) /\ o2.ok
  BY <1>1, SendIs
<1>3. /\ u \in Seq(Message) /\ n \in Nat /\ Len(u) = n + 1 /\ u[n + 1] = m
      /\ \A i \in 1..n : u[i] = q[i]
      /\ u # <<>> /\ \A i \in 1..(n + 1) : i = n + 1 \/ i \in 1..n
  BY <1>1, AppendIs
<1> HIDE DEF o2, u
<1>4. Paired(q) /\ FirstOk(q, wire) /\ o.n = Cardinality(Data(q)) /\ (q = <<>> <=> ~o.ev /\ ~o.wq) /\ ~(o.ev /\ o.wq)
  BY DEF Fine
<1>5. Data(u) = Data(q)
  BY <1>3 DEF Data
<1>6. Paired(u)
  <2>1. ASSUME NEW i \in 1..(n + 1), u[i].kind = "piece"
        PROVE  i + 1 \in 1..(n + 1) /\ u[i + 1].kind = "data"
    <3>1. i \in 1..n /\ q[i].kind = "piece"
      BY <1>3, <2>1
    <3>2. i + 1 \in 1..n /\ q[i + 1].kind = "data"
      BY <1>4, <3>1 DEF Paired
    <3> QED BY <1>3, <3>2
  <2>2. ASSUME NEW i \in 1..(n + 1), i # 1, u[i].kind = "data"
        PROVE  u[i - 1].kind = "piece"
    <3>1. i \in 1..n /\ q[i].kind = "data"
      BY <1>3, <2>2
    <3>2. q[i - 1].kind = "piece" /\ i - 1 \in 1..n
      BY <1>3, <1>4, <2>2, <3>1 DEF Paired
    <3> QED BY <1>3, <3>2
  <2> QED BY <1>3, <2>1, <2>2 DEF Paired
<1>7. FirstOk(u, wire)
  <2>1. CASE q = <<>>
    <3>1. n = 0 /\ u[1] = m
      BY <1>1, <1>3, <2>1
    <3> QED BY <3>1 DEF FirstOk
  <2>2. CASE q # <<>>
    <3>1. 1 \in 1..n
      BY <1>1, <1>3, <2>2
    <3> QED BY <1>3, <1>4, <2>2, <3>1 DEF FirstOk
  <2> QED BY <2>1, <2>2
<1> QED BY <1>2, <1>3, <1>4, <1>5, <1>6, <1>7 DEF Fine, o2

\* A block: its two messages.
LEMMA AnsweredOk ==
    ASSUME Fine(Out), NEW b \in Blocks
    PROVE  /\ Fine(answered(Out, b))
           /\ \A s, v : Tells(outq, s, v) => Tells(answered(Out, b).q, s, v)
           /\ Unchokes(outq) => Unchokes(answered(Out, b).q)
<1> DEFINE q == outq
           n == Len(q)
           o1 == peer_send(Out, Piece(b))
           o2 == peer_send(o1, Msg("data"))
           o3 == [o2 EXCEPT !.n = npiece + 1]
           u1 == Append(q, Piece(b))
           u == Append(u1, Msg("data"))
<1>1. /\ Out \in OutRec /\ Out.q = q /\ Out.n = npiece /\ Out.ev = ev /\ Out.wq = onwriteq
      /\ q \in Seq(Message) /\ Out.ok /\ (off => q # <<>>)
      /\ npiece = Cardinality(Data(q)) /\ (q = <<>> <=> ~ev /\ ~onwriteq) /\ ~(ev /\ onwriteq)
      /\ Paired(q) /\ FirstOk(q, wire)
  BY DEF Fine, OutRec, Out
<1>2. /\ Piece(b) \in Message /\ Piece(b).kind = "piece"
      /\ Msg("data") \in Message /\ Msg("data").kind = "data"
  BY MessageIs DEF Kinds
<1>3. /\ o1 \in OutRec /\ o1.q = u1 /\ o1.n = npiece /\ o1.wq = onwriteq
      /\ (o1.ev <=> ev \/ q = <<>>) /\ o1.ok
  BY <1>1, <1>2, SendIs
<1>4. /\ u1 \in Seq(Message) /\ n \in Nat /\ Len(u1) = n + 1 /\ u1[n + 1] = Piece(b)
      /\ \A i \in 1..n : u1[i] = q[i]
      /\ u1 # <<>> /\ \A i \in 1..(n + 1) : i = n + 1 \/ i \in 1..n
  BY <1>1, <1>2, AppendIs
<1>5. /\ u \in Seq(Message) /\ Len(u) = Len(u1) + 1 /\ u[Len(u1) + 1] = Msg("data")
      /\ \A i \in 1..Len(u1) : u[i] = u1[i]
      /\ u # <<>> /\ \A i \in 1..(Len(u1) + 1) : i = Len(u1) + 1 \/ i \in 1..Len(u1)
  BY <1>2, <1>4, AppendIs
<1> HIDE DEF o1, u1
<1>6. /\ o2 \in OutRec /\ o2.q = u /\ o2.n = npiece /\ o2.wq = onwriteq
      /\ (o2.ev <=> o1.ev) /\ o2.ok
  BY <1>2, <1>3, <1>4, SendIs
<1>7. answered(Out, b) = o3
  BY <1>6 DEF answered, o1, OutRec
<1> HIDE DEF o2, u
<1>8. npiece \in Nat /\ npiece + 1 \in Int
  BY <1>1, DataFinite
<1>9. o3 \in OutRec /\ o3.q = u /\ o3.n = npiece + 1 /\ o3.wq = onwriteq /\ o3.ev = o2.ev /\ o3.ok
  <2>1. o3 \in OutRec
    BY <1>6, <1>8 DEF OutRec
  <2> QED BY <1>6, <2>1 DEF OutRec
<1> HIDE DEF o3
<1>10. /\ Len(u) = n + 2 /\ u[n + 2].kind = "data" /\ u[n + 1].kind = "piece"
       /\ \A i \in 1..n : u[i] = q[i]
       /\ \A i \in 1..(n + 2) : i \in 1..n \/ i = n + 1 \/ i = n + 2
  <2>1. \A i \in 1..n : i \in 1..(n + 1)
    BY <1>4
  <2>2. n + 1 \in 1..(n + 1) /\ (n + 1) + 1 = n + 2
    BY <1>4
  <2> QED BY <1>2, <1>4, <1>5, <2>1, <2>2
<1>11. Cardinality(Data(u)) = npiece + 1
  <2>1. Data(u) = Data(q) \union {n + 2} /\ n + 2 \notin Data(q)
    BY <1>4, <1>10 DEF Data
  <2>2. IsFiniteSet(Data(q))
    BY <1>1, DataFinite
  <2> QED BY <1>1, <2>1, <2>2, FS_AddElement
<1>12. Paired(u)
  <2>1. ASSUME NEW i \in 1..(n + 2), u[i].kind = "piece"
        PROVE  i + 1 \in 1..(n + 2) /\ u[i + 1].kind = "data"
    <3>1. CASE i \in 1..n
      <4>1. i + 1 \in 1..n /\ q[i + 1].kind = "data"
        BY <1>1, <1>10, <2>1, <3>1 DEF Paired
      <4> QED BY <1>4, <1>10, <4>1
    <3>2. CASE i = n + 1
      <4>1. i + 1 = n + 2
        BY <1>4, <3>2
      <4> QED BY <1>4, <1>10, <4>1
    <3>3. CASE i = n + 2
      BY <1>10, <2>1, <3>3
    <3> QED BY <1>10, <3>1, <3>2, <3>3
  <2>2. ASSUME NEW i \in 1..(n + 2), i # 1, u[i].kind = "data"
        PROVE  u[i - 1].kind = "piece"
    <3>1. CASE i \in 1..n
      <4>1. q[i - 1].kind = "piece" /\ i - 1 \in 1..n
        BY <1>1, <1>4, <1>10, <2>2, <3>1 DEF Paired
      <4> QED BY <1>10, <4>1
    <3>2. CASE i = n + 1
      BY <1>10, <2>2, <3>2
    <3>3. CASE i = n + 2
      <4>1. i - 1 = n + 1
        BY <1>4, <3>3
      <4> QED BY <1>10, <4>1
    <3> QED BY <1>10, <3>1, <3>2, <3>3
  <2> QED BY <1>10, <2>1, <2>2 DEF Paired
<1>13. FirstOk(u, wire)
  <2>1. CASE q = <<>>
    <3>1. n = 0
      BY <1>1, <2>1
    <3>2. u[1].kind = "piece"
      BY <1>10, <3>1
    <3> QED BY <3>2 DEF FirstOk
  <2>2. CASE q # <<>>
    <3>1. 1 \in 1..n
      BY <1>1, <1>4, <2>2
    <3> QED BY <1>1, <1>10, <2>2, <3>1 DEF FirstOk
  <2> QED BY <2>1, <2>2
<1>14. Fine(o3)
  BY <1>1, <1>3, <1>5, <1>6, <1>9, <1>11, <1>12, <1>13 DEF Fine
<1>15. /\ \A s, v : Tells(q, s, v) => Tells(u, s, v)
       /\ Unchokes(q) => Unchokes(u)
  <2>1. Piece(b).kind \notin Signals /\ Msg("data").kind \notin Signals
    BY <1>2 DEF Signals
  <2>2. (\A s, v : Tells(q, s, v) => Tells(u1, s, v)) /\ (Unchokes(q) => Unchokes(u1))
    BY <1>1, <1>2, <2>1, AppendTells DEF u1
  <2>3. (\A s, v : Tells(u1, s, v) => Tells(u, s, v)) /\ (Unchokes(u1) => Unchokes(u))
    BY <1>2, <1>4, <2>1, AppendTells DEF u
  <2> QED BY <2>2, <2>3
<1> QED BY <1>7, <1>9, <1>14, <1>15

------------------------------------------------------------------------------
(* Taking back *)

\* A "piece" stays exactly if its "data" does.
PairKept(q, R) == \A i \in 1..Len(q) : q[i].kind = "piece" => (i \in R <=> i + 1 \in R)

LEMMA ThinPaired ==
    ASSUME NEW q \in Seq(Message), NEW u \in Seq(Message), NEW g, Thins(q, u, g), NEW w,
           Paired(q), FirstOk(q, w), PairKept(q, Kept(u, g)),
           \A j \in 1..Len(u) : u[j] = q[g[j]]
    PROVE  Paired(u) /\ FirstOk(u, w)
<1>1. Len(q) \in Nat /\ Len(u) \in Nat /\ \A j \in 1..Len(u) : g[j] \in 1..Len(q) /\ u[j] = q[g[j]]
  BY DEF Thins
<1>2. \A i, j \in 1..Len(u) : i < j => g[i] < g[j]
  BY DEF Thins
<1>3. ASSUME NEW j \in 1..Len(u), u[j].kind = "piece"
      PROVE  j + 1 \in 1..Len(u) /\ u[j + 1].kind = "data"
  <2>1. g[j] \in 1..Len(q) /\ q[g[j]].kind = "piece" /\ g[j] \in Kept(u, g)
    BY <1>1, <1>3 DEF Kept
  <2>2. g[j] + 1 \in 1..Len(q) /\ q[g[j] + 1].kind = "data" /\ g[j] + 1 \in Kept(u, g)
    BY <2>1 DEF Paired, PairKept
  <2>3. PICK k \in 1..Len(u) : g[k] = g[j] + 1
    BY <2>2 DEF Kept
  <2>4. k > j
    <3>1. ~(k < j) /\ k # j
      BY <1>1, <1>2, <2>1, <2>3
    <3> QED BY <1>1, <3>1
  <2>5. j + 1 \in 1..Len(u) /\ j < j + 1
    BY <1>1, <2>4
  <2>6. k = j + 1
    <3>1. ~(j + 1 < k)
      <4>1. ASSUME j + 1 < k PROVE FALSE
        <5>1. g[j] < g[j + 1] /\ g[j + 1] < g[k]
          BY <1>2, <2>5, <4>1
        <5>2. g[j] \in Int /\ g[j + 1] \in Int
          BY <1>1, <2>5
        <5> QED BY <2>3, <5>1, <5>2
      <4> QED BY <4>1
    <3> QED BY <1>1, <2>4, <3>1
  <2> QED BY <1>1, <2>2, <2>3, <2>5, <2>6
<1>4. ASSUME NEW j \in 1..Len(u), u[j].kind = "data", g[j] # 1
      PROVE  j # 1 /\ u[j - 1].kind = "piece"
  <2> DEFINE i == g[j] - 1
  <2>1. g[j] \in 1..Len(q) /\ q[g[j]].kind = "data" /\ g[j] \in Kept(u, g)
    BY <1>1, <1>4 DEF Kept
  <2>2. q[i].kind = "piece" /\ i \in 1..Len(q) /\ i + 1 = g[j]
    BY <1>1, <1>4, <2>1 DEF Paired
  <2> HIDE DEF i
  <2>3. i \in Kept(u, g)
    BY <2>1, <2>2 DEF PairKept
  <2>4. PICK k \in 1..Len(u) : g[k] = i
    BY <2>3 DEF Kept
  <2>5. k < j
    <3>1. ~(j < k) /\ k # j
      BY <1>1, <1>2, <2>1, <2>2, <2>4
    <3> QED BY <1>1, <3>1
  <2>6. j - 1 \in 1..Len(u) /\ j - 1 < j /\ j # 1
    BY <1>1, <2>5
  <2>7. k = j - 1
    <3>1. ~(k < j - 1)
      <4>1. ASSUME k < j - 1 PROVE FALSE
        <5>1. g[k] < g[j - 1] /\ g[j - 1] < g[j]
          BY <1>2, <2>6, <4>1
        <5>2. g[j] \in Int /\ g[j - 1] \in Int /\ i \in Int
          BY <1>1, <2>2, <2>6
        <5> QED BY <2>2, <2>4, <5>1, <5>2
      <4> QED BY <4>1
    <3> QED BY <1>1, <2>5, <3>1
  <2> QED BY <1>1, <2>2, <2>4, <2>6, <2>7
<1>5. ASSUME NEW j \in 1..Len(u), j # 1 PROVE g[j] # 1
  <2>1. 1 \in 1..Len(u) /\ 1 < j
    BY <1>1, <1>5
  <2>2. g[1] < g[j] /\ g[1] \in 1..Len(q) /\ g[j] \in 1..Len(q)
    BY <1>1, <1>2, <2>1
  <2> QED BY <1>1, <2>2
<1>6. Paired(u)
  BY <1>3, <1>4, <1>5 DEF Paired
<1>7. ASSUME u # <<>>, u[1].kind = "data" PROVE w = "piece" /\ u[1].full
  <2>1. 1 \in 1..Len(u)
    BY <1>1, <1>7
  <2>2. g[1] = 1
    BY <1>4, <1>7, <2>1
  <2>3. u[1] = q[1] /\ q # <<>>
    <3>1. u[1] = q[1] /\ 1 \in 1..Len(q)
      BY <1>1, <2>1, <2>2
    <3> QED BY <3>1
  <2> QED BY <1>7, <2>3 DEF FirstOk
<1> QED BY <1>6, <1>7 DEF FirstOk

\* Nothing is left to write.
LEMMA IdleIs ==
    ASSUME NEW d \in OutRec, d.ev <=> ~d.wq
    PROVE  /\ idle(d) \in OutRec /\ idle(d).q = d.q /\ idle(d).n = d.n
           /\ idle(d).ok = d.ok /\ ~idle(d).ev /\ ~idle(d).wq
<1>1. CASE d.wq
  <2>1. idle(d) = [d EXCEPT !.wq = FALSE] /\ ~d.ev
    BY <1>1 DEF idle
  <2>2. idle(d) \in OutRec
    BY <2>1 DEF OutRec
  <2> QED BY <2>1, <2>2 DEF OutRec
<1>2. CASE ~d.wq
  <2>1. idle(d) = [d EXCEPT !.ev = FALSE]
    BY <1>2 DEF idle
  <2>2. idle(d) \in OutRec
    BY <2>1 DEF OutRec
  <2> QED BY <1>2, <2>1, <2>2 DEF OutRec
<1> QED BY <1>1, <1>2

\* One peer_unsend.
LEMMA UnsendIs ==
    ASSUME NEW o \in OutRec, o.ok, NEW i \in 1..Len(o.q), o.q[i].kind = "data" => o.n > 0,
           o.ev <=> ~o.wq
    PROVE  LET o2 == peer_unsend(o, i)
               u == RemoveAt(o.q, i) IN
           /\ o2 \in OutRec /\ o2.q = u /\ o2.ok
           /\ o2.n = IF o.q[i].kind = "data" THEN o.n - 1 ELSE o.n
           /\ u # <<>> => (o2.ev <=> o.ev) /\ (o2.wq <=> o.wq)
           /\ u = <<>> => ~o2.ev /\ ~o2.wq
<1> DEFINE u == RemoveAt(o.q, i)
           n == IF o.q[i].kind = "data" THEN o.n - 1 ELSE o.n
           k == o.ok /\ (o.q[i].kind = "data" => o.n > 0)
           d == data_back(o, i)
           o2 == peer_unsend(o, i)
<1>1. o.q \in Seq(Message) /\ o.n \in Int
  BY DEF OutRec
<1>2. u \in Seq(Message) /\ n \in Int /\ k \in BOOLEAN /\ k
  BY <1>1, RemoveAtSeq
<1>3. d = [o EXCEPT !.q = u, !.n = n, !.ok = k]
  BY DEF data_back, OutRec
<1>4. o2 = IF d.q = <<>> THEN idle(d) ELSE d
  BY DEF peer_unsend
<1> HIDE DEF u, n, k, d, o2
<1>5. d \in OutRec
  BY <1>2, <1>3 DEF OutRec
<1>6. d.q = u /\ d.n = n /\ d.ok = k /\ d.ev = o.ev /\ d.wq = o.wq
  BY <1>3 DEF OutRec
<1>7. CASE u # <<>>
  BY <1>2, <1>4, <1>5, <1>6, <1>7 DEF u, n, o2
<1>8. CASE u = <<>>
  <2>1. o2 = idle(d)
    BY <1>4, <1>6, <1>8
  <2>2. /\ idle(d) \in OutRec /\ idle(d).q = u /\ idle(d).n = n /\ idle(d).ok = k
        /\ ~idle(d).ev /\ ~idle(d).wq
    BY <1>5, <1>6, IdleIs
  <2> QED BY <1>2, <1>8, <2>1, <2>2 DEF u, n, o2
<1> QED BY <1>7, <1>8

\* A state whose queue is a thinned one.
LEMMA ThinFine ==
    ASSUME NEW o, Fine(o), NEW o2 \in OutRec, NEW g, Thins(o.q, o2.q, g),
           \A j \in 1..Len(o2.q) : o2.q[j] = o.q[g[j]],
           PairKept(o.q, Kept(o2.q, g)),
           \A i \in 1..Len(o.q) : o.q[i].kind \in Signals => i \in Kept(o2.q, g),
           o2.ok, o2.n = Cardinality(Data(o.q) \intersect Kept(o2.q, g)),
           off => o2.q # <<>>,
           o2.q # <<>> => (o2.ev <=> o.ev) /\ (o2.wq <=> o.wq),
           o2.q = <<>> => ~o2.ev /\ ~o2.wq
    PROVE  /\ Fine(o2) /\ \A s, v : Tells(o.q, s, v) => Tells(o2.q, s, v)
           /\ Unchokes(o.q) => Unchokes(o2.q)
<1>1. o \in OutRec /\ o.q \in Seq(Message) /\ o2.q \in Seq(Message)
  BY DEF Fine, OutRec
<1>2. Paired(o2.q) /\ FirstOk(o2.q, wire)
  BY <1>1, ThinPaired DEF Fine
<1>3. o2.n = Cardinality(Data(o2.q))
  BY <1>1, ThinCount
<1>4. o2.q # <<>> => o.q # <<>>
  <2>1. ASSUME o2.q # <<>> PROVE o.q # <<>>
    <3>1. 1 \in 1..Len(o2.q)
      BY <1>1, <2>1
    <3>2. g[1] \in 1..Len(o.q)
      BY <3>1 DEF Thins
    <3> QED BY <1>1, <3>2
  <2> QED BY <2>1
<1>5. (o.q = <<>> <=> ~o.ev /\ ~o.wq) /\ ~(o.ev /\ o.wq)
  BY DEF Fine
<1>6. Fine(o2)
  BY <1>2, <1>3, <1>4, <1>5 DEF Fine
<1> QED BY <1>1, <1>6, ThinTells

\* A message that is not of a block is taken back.
LEMMA UnsendOk ==
    ASSUME NEW o, Fine(o), NEW i \in 1..Len(o.q), unsendable(o, i),
           o.q[i].kind \notin {"piece", "data"} \union Signals
    PROVE  /\ Fine(peer_unsend(o, i))
           /\ \A s, v : Tells(o.q, s, v) => Tells(peer_unsend(o, i).q, s, v)
           /\ Unchokes(o.q) => Unchokes(peer_unsend(o, i).q)
<1> DEFINE q == o.q
           n == Len(q)
           u == RemoveAt(q, i)
           o2 == peer_unsend(o, i)
           g == [j \in 1..Len(u) |-> IF j < i THEN j ELSE j + 1]
<1>1. o \in OutRec /\ q \in Seq(Message) /\ n \in Nat /\ o.ok /\ Paired(q) /\ q # <<>>
  <2>1. o \in OutRec /\ q \in Seq(Message) /\ o.ok /\ Paired(q)
    BY DEF Fine, OutRec
  <2> QED BY <2>1
<1>2. o.ev <=> ~o.wq
  BY <1>1 DEF Fine
<1>3. /\ o2 \in OutRec /\ o2.q = u /\ o2.ok /\ o2.n = o.n
      /\ u # <<>> => (o2.ev <=> o.ev) /\ (o2.wq <=> o.wq)
      /\ u = <<>> => ~o2.ev /\ ~o2.wq
  BY <1>1, <1>2, UnsendIs
<1>4. /\ u \in Seq(Message) /\ Len(u) = n - 1
      /\ \A j \in 1..(n - 1) : u[j] = IF j < i THEN q[j] ELSE q[j + 1]
  BY <1>1, RemoveAtSeq
<1> HIDE DEF u, o2
<1>5. \A j \in 1..Len(u) : g[j] \in 1..n /\ g[j] # i /\ u[j] = q[g[j]]
  BY <1>1, <1>4
<1>6. \A j, k \in 1..Len(u) : j < k => g[j] < g[k]
  BY <1>1, <1>4
<1>7. Thins(q, u, g)
  <2>1. g \in [1..Len(u) -> 1..n]
    BY <1>5
  <2> HIDE DEF g
  <2> QED BY <1>5, <1>6, <2>1 DEF Thins
<1>8. Kept(u, g) = (1..n) \ {i}
  <2>1. ASSUME NEW x \in 1..n, x # i PROVE \E j \in 1..Len(u) : g[j] = x
    <3>1. CASE x < i
      <4>1. x \in 1..Len(u) /\ g[x] = x
        BY <1>1, <1>4, <3>1
      <4> QED BY <4>1
    <3>2. CASE x > i
      <4>1. x - 1 \in 1..Len(u) /\ g[x - 1] = x
        BY <1>1, <1>4, <3>2
      <4> QED BY <4>1
    <3> QED BY <1>1, <2>1, <3>1, <3>2
  <2> HIDE DEF g
  <2> QED BY <1>5, <2>1 DEF Kept
<1> HIDE DEF g
<1>9. PairKept(q, Kept(u, g))
  <2> SUFFICES ASSUME NEW x \in 1..n, q[x].kind = "piece"
               PROVE  x \in (1..n) \ {i} <=> x + 1 \in (1..n) \ {i}
    BY <1>8 DEF PairKept
  <2>1. x + 1 \in 1..n /\ q[x + 1].kind = "data"
    BY <1>1 DEF Paired
  <2> QED BY <2>1
<1>10. Data(q) \intersect Kept(u, g) = Data(q)
  BY <1>8 DEF Data
<1>11. o2.n = Cardinality(Data(q) \intersect Kept(u, g))
  BY <1>3, <1>10 DEF Fine
<1>12. off => u # <<>>
  <2>1. ASSUME off PROVE u # <<>>
    <3>1. i # 1
      BY <2>1 DEF unsendable
    <3>2. 1 \in 1..Len(u)
      BY <1>1, <1>4, <3>1
    <3> QED BY <1>4, <3>2
  <2> QED BY <2>1
<1>13. \A x \in 1..n : q[x].kind \in Signals => x \in Kept(u, g)
  BY <1>8
<1>14. \A j \in 1..Len(u) : u[j] = q[g[j]]
  BY <1>5
<1> QED BY <1>3, <1>7, <1>9, <1>11, <1>12, <1>13, <1>14, ThinFine DEF o2

\* A block is taken back, header and data.
LEMMA UnsendBlockOk ==
    ASSUME NEW o, Fine(o), NEW i \in 1..Len(o.q), o.q[i].kind = "piece"
    PROVE  /\ Fine(unsend_block(o, i))
           /\ \A s, v : Tells(o.q, s, v) => Tells(unsend_block(o, i).q, s, v)
           /\ Unchokes(o.q) => Unchokes(unsend_block(o, i).q)
<1>1. CASE ~unsendable(o, i)
  BY <1>1 DEF unsend_block
<1>2. CASE unsendable(o, i)
  <2> DEFINE q == o.q
             n == Len(q)
             t == RemoveAt(q, i)
             u == RemoveAt(t, i)
             o1 == peer_unsend(o, i)
             o2 == peer_unsend(o1, i)
             g == [j \in 1..Len(u) |-> IF j < i THEN j ELSE j + 2]
  <2>1. o \in OutRec /\ q \in Seq(Message) /\ n \in Nat /\ o.ok /\ Paired(q) /\ q # <<>>
        /\ i + 1 \in 1..n /\ q[i + 1].kind = "data"
    <3>1. o \in OutRec /\ q \in Seq(Message) /\ o.ok /\ Paired(q)
      BY DEF Fine, OutRec
    <3>2. i + 1 \in 1..n /\ q[i + 1].kind = "data"
      BY <3>1 DEF Paired
    <3> QED BY <3>1, <3>2
  <2>2. o.ev <=> ~o.wq
    BY <2>1 DEF Fine
  <2>3. o.n = Cardinality(Data(q)) /\ o.n \in Nat /\ o.n > 0 /\ IsFiniteSet(Data(q))
    <3>1. o.n = Cardinality(Data(q)) /\ IsFiniteSet(Data(q)) /\ o.n \in Nat
      BY <2>1, DataFinite DEF Fine
    <3>2. i + 1 \in Data(q)
      BY <2>1 DEF Data
    <3>3. Cardinality(Data(q)) # 0
      <4> HIDE DEF n
      <4> QED BY <3>1, <3>2, FS_EmptySet
    <3> QED BY <3>1, <3>3
  <2>4. /\ o1 \in OutRec /\ o1.q = t /\ o1.ok /\ o1.n = o.n
        /\ t # <<>> => (o1.ev <=> o.ev) /\ (o1.wq <=> o.wq)
    BY <2>1, <2>2, UnsendIs
  <2>5. /\ t \in Seq(Message) /\ Len(t) = n - 1
        /\ \A j \in 1..(n - 1) : t[j] = IF j < i THEN q[j] ELSE q[j + 1]
    BY <2>1, RemoveAtSeq
  <2> HIDE DEF t, o1
  <2>6. i \in 1..Len(t) /\ t[i].kind = "data" /\ t # <<>>
    <3>1. i \in 1..(n - 1) /\ ~(i < i) /\ n - 1 # 0
      BY <2>1
    <3>2. t[i] = q[i + 1]
      BY <2>5, <3>1
    <3>3. t # <<>>
      BY <2>5, <3>1
    <3> QED BY <2>1, <2>5, <3>1, <3>2, <3>3
  <2>7. /\ o2 \in OutRec /\ o2.q = u /\ o2.ok /\ o2.n = o.n - 1
        /\ u # <<>> => (o2.ev <=> o.ev) /\ (o2.wq <=> o.wq)
        /\ u = <<>> => ~o2.ev /\ ~o2.wq
    BY <2>2, <2>3, <2>4, <2>6, UnsendIs
  <2>8. /\ u \in Seq(Message) /\ Len(u) = n - 2
        /\ \A j \in 1..(n - 2) : u[j] = IF j < i THEN q[j] ELSE q[j + 2]
    <3>1. /\ u \in Seq(Message) /\ Len(u) = Len(t) - 1
          /\ \A j \in 1..(Len(t) - 1) : u[j] = IF j < i THEN t[j] ELSE t[j + 1]
      BY <2>5, <2>6, RemoveAtSeq
    <3> HIDE DEF u
    <3>2. ASSUME NEW j \in 1..(n - 2) PROVE u[j] = IF j < i THEN q[j] ELSE q[j + 2]
      <4>1. j \in 1..(Len(t) - 1) /\ j \in 1..(n - 1) /\ j + 1 \in 1..(n - 1) /\ (j + 1) + 1 = j + 2
        BY <2>1, <2>5
      <4>2. CASE j < i
        BY <2>5, <3>1, <4>1, <4>2
      <4>3. CASE ~(j < i)
        <5>1. ~(j + 1 < i)
          BY <2>1, <4>3
        <5> QED BY <2>5, <3>1, <4>1, <4>3, <5>1
      <4> QED BY <4>2, <4>3
    <3> QED BY <2>1, <2>5, <3>1, <3>2
  <2> HIDE DEF u, o2
  <2>9. \A j \in 1..Len(u) : g[j] \in 1..n /\ g[j] # i /\ g[j] # i + 1 /\ u[j] = q[g[j]]
    BY <2>1, <2>8
  <2>10. \A j, k \in 1..Len(u) : j < k => g[j] < g[k]
    BY <2>1, <2>8
  <2>11. Thins(q, u, g)
    <3>1. g \in [1..Len(u) -> 1..n]
      BY <2>9
    <3> HIDE DEF g
    <3> QED BY <2>9, <2>10, <3>1 DEF Thins
  <2>12. Kept(u, g) = (1..n) \ {i, i + 1}
    <3>1. ASSUME NEW x \in 1..n, x # i, x # i + 1 PROVE \E j \in 1..Len(u) : g[j] = x
      <4>1. CASE x < i
        <5>1. x \in 1..Len(u) /\ g[x] = x
          BY <2>1, <2>8, <4>1
        <5> QED BY <5>1
      <4>2. CASE x > i + 1
        <5>1. x - 2 \in 1..Len(u) /\ g[x - 2] = x
          BY <2>1, <2>8, <4>2
        <5> QED BY <5>1
      <4> QED BY <2>1, <3>1, <4>1, <4>2
    <3> HIDE DEF g
    <3> QED BY <2>9, <3>1 DEF Kept
  <2> HIDE DEF g
  <2>13. PairKept(q, Kept(u, g))
    <3> SUFFICES ASSUME NEW x \in 1..n, q[x].kind = "piece"
                 PROVE  x \in (1..n) \ {i, i + 1} <=> x + 1 \in (1..n) \ {i, i + 1}
      BY <2>12 DEF PairKept
    <3>1. x + 1 \in 1..n /\ q[x + 1].kind = "data"
      BY <2>1 DEF Paired
    <3>2. x # i + 1 /\ x + 1 # i
      BY <2>1, <3>1
    <3>3. x = i <=> x + 1 = i + 1
      OBVIOUS
    <3> QED BY <3>1, <3>2, <3>3
  <2>14. o2.n = Cardinality(Data(q) \intersect Kept(u, g))
    <3>1. Data(q) \intersect Kept(u, g) = Data(q) \ {i + 1} /\ i + 1 \in Data(q)
      BY <2>1, <2>12 DEF Data
    <3>2. Cardinality(Data(q) \ {i + 1}) = Cardinality(Data(q)) - 1
      BY <2>3, <3>1, FS_RemoveElement
    <3> QED BY <2>3, <2>7, <3>1, <3>2
  <2>15. off => u # <<>>
    <3>1. ASSUME off PROVE u # <<>>
      <4>1. i # 1
        BY <1>2, <3>1 DEF unsendable
      <4>2. 1 \in 1..Len(u)
        BY <2>1, <2>8, <4>1
      <4> QED BY <2>8, <4>2
    <3> QED BY <3>1
  <2>16. \A x \in 1..n : q[x].kind \in Signals => x \in Kept(u, g)
    BY <2>1, <2>12 DEF Signals
  <2>17. \A j \in 1..Len(u) : u[j] = q[g[j]]
    BY <2>9
  <2>18. /\ Fine(o2) /\ \A s, v : Tells(q, s, v) => Tells(o2.q, s, v)
         /\ Unchokes(q) => Unchokes(o2.q)
    BY <2>7, <2>11, <2>13, <2>14, <2>15, <2>16, <2>17, ThinFine
  <2>19. unsend_block(o, i) = o2
    BY <1>2 DEF unsend_block, o1, o2
  <2> QED BY <2>18, <2>19
<1> QED BY <1>1, <1>2

\* The elements of a set of positions in their order.
LEMMA InOrder ==
    ASSUME NEW n \in Nat, NEW K \in SUBSET (1..n)
    PROVE  LET N == Cardinality(K)
               e == [j \in 1..N |-> CHOOSE i \in K : Cardinality({x \in K : x <= i}) = j] IN
           /\ N \in Nat /\ e \in [1..N -> K]
           /\ \A i, j \in 1..N : i < j => e[i] < e[j]
           /\ \A x \in K : \E j \in 1..N : e[j] = x
<1> DEFINE N == Cardinality(K)
           B(i) == {x \in K : x <= i}
           rk == [i \in K |-> Cardinality(B(i))]
           e == [j \in 1..N |-> CHOOSE i \in K : Cardinality({x \in K : x <= i}) = j]
<1>0. \A x \in K : x \in Nat /\ x \in 0..n
  OBVIOUS
<1>1. IsFiniteSet(K) /\ N \in Nat
  <2>1. IsFiniteSet(1..n)
    BY FS_Interval
  <2> QED BY <2>1, FS_Subset, FS_CardinalityType
<1>2. ASSUME NEW S \in SUBSET K
      PROVE  IsFiniteSet(S) /\ Cardinality(S) \in Nat /\ Cardinality(S) <= N
  BY <1>1, FS_Subset, FS_CardinalityType
<1>3. ASSUME NEW i \in K PROVE rk[i] \in 1..N
  <2>1. i \in B(i) /\ B(i) \in SUBSET K
    OBVIOUS
  <2>2. Cardinality(B(i)) \in Nat /\ Cardinality(B(i)) <= N /\ IsFiniteSet(B(i))
    BY <1>2, <2>1
  <2>3. Cardinality(B(i)) # 0
    BY <2>1, <2>2, FS_EmptySet
  <2> HIDE DEF N, B
  <2> QED BY <1>1, <2>2, <2>3
<1>4. ASSUME NEW i \in K, NEW k \in K, i < k PROVE rk[i] < rk[k]
  <2>1. B(i) \in SUBSET B(k) /\ k \in B(k) /\ k \notin B(i) /\ B(k) \in SUBSET K /\ B(i) \in SUBSET K
    <3>1. k \in Nat /\ i \in Nat /\ ~(k <= i) /\ k <= k
      BY <1>0, <1>4
    <3>2. \A x \in B(i) : x \in K /\ x <= k
      BY <1>0, <1>4, <3>1
    <3> QED BY <3>1, <3>2
  <2> HIDE DEF B
  <2>2. IsFiniteSet(B(k)) /\ Cardinality(B(i)) \in Nat /\ Cardinality(B(k)) \in Nat
    BY <1>2, <2>1
  <2>3. Cardinality(B(i)) <= Cardinality(B(k)) /\ Cardinality(B(k)) # Cardinality(B(i))
    BY <2>1, <2>2, FS_Subset
  <2> QED BY <2>2, <2>3
<1>5. ASSUME NEW j \in 1..N PROVE \E i \in K : rk[i] = j
  <2> DEFINE T == {i \in K : rk[i] >= j}
  <2>1. T # {}
    <3>1. K # {}
      BY <1>1, <1>5, FS_EmptySet
    <3>2. K \in SUBSET (0..n)
      OBVIOUS
    <3>3. PICK m \in K : \A k \in K : k <= m
      BY <3>1, <3>2, GreatestElement
    <3>4. B(m) = K
      BY <3>3
    <3>5. rk[m] = N
      BY <3>4
    <3> HIDE DEF rk, N
    <3> QED BY <1>1, <3>5
  <2>2. T \in SUBSET Nat
    <3> HIDE DEF rk
    <3> QED BY <1>0
  <2> HIDE DEF T
  <2>3. PICK i \in T : \A k \in T : i <= k
    BY <2>1, <2>2, LeastElement
  <2>4. i \in K /\ rk[i] >= j /\ rk[i] \in Nat
    BY <1>3, <2>3 DEF T
  <2>5. ASSUME rk[i] > j PROVE FALSE
    <3> DEFINE S == B(i) \ {i}
    <3>1. S \in SUBSET K /\ S \in SUBSET (0..n) /\ IsFiniteSet(B(i))
      <4>1. B(i) \in SUBSET K
        OBVIOUS
      <4>2. IsFiniteSet(B(i))
        BY <1>2, <4>1
      <4> HIDE DEF B
      <4>3. S \in SUBSET K
        BY <4>1
      <4>4. S \in SUBSET (0..n)
        <5> HIDE DEF S
        <5> QED BY <1>0, <4>3
      <4> QED BY <4>2, <4>3, <4>4
    <3>2. Cardinality(S) = rk[i] - 1
      <4>1. i \in B(i)
        BY <2>4
      <4> QED BY <2>4, <3>1, <4>1, FS_RemoveElement
    <3>3. S # {}
      <4>1. Cardinality(S) # 0
        <5> HIDE DEF S, rk, N
        <5> QED BY <1>1, <1>5, <2>4, <2>5, <3>2
      <4> QED BY <4>1, FS_EmptySet
    <3>4. PICK y \in S : \A k \in S : k <= y
      <4> HIDE DEF S
      <4> QED BY <3>1, <3>3, GreatestElement
    <3>5. y \in K /\ y < i /\ i \in Nat /\ y \in Nat
      BY <2>4, <3>4
    <3>6. B(y) = S
      <4>1. ASSUME NEW x \in B(y) PROVE x \in S
        BY <3>5, <4>1
      <4>2. ASSUME NEW x \in S PROVE x \in B(y)
        BY <3>4, <4>2
      <4> QED BY <4>1, <4>2
    <3>7. rk[y] = rk[i] - 1
      BY <3>2, <3>5, <3>6
    <3>8. rk[y] >= j
      <4> HIDE DEF rk, N
      <4> QED BY <1>1, <1>5, <2>4, <2>5, <3>7
    <3>9. y \in T
      BY <3>5, <3>8 DEF T
    <3> QED BY <2>3, <3>5, <3>9
  <2> HIDE DEF rk, N
  <2>6. rk[i] = j
    BY <1>1, <2>4, <2>5
  <2> QED BY <2>4, <2>6
<1>6. ASSUME NEW j \in 1..N PROVE e[j] \in K /\ rk[e[j]] = j
  <2>1. \E i \in K : Cardinality({x \in K : x <= i}) = j
    BY <1>5
  <2> QED BY <2>1
<1> HIDE DEF e, rk
<1>7. ASSUME NEW i \in K, NEW k \in K, rk[i] = rk[k] PROVE i = k
  <2>1. ~(i < k) /\ ~(k < i)
    BY <1>3, <1>4, <1>7
  <2> QED BY <2>1
<1>8. ASSUME NEW i \in 1..N, NEW j \in 1..N, i < j PROVE e[i] < e[j]
  <2>1. e[i] \in K /\ e[j] \in K /\ rk[e[i]] = i /\ rk[e[j]] = j
    BY <1>6
  <2>2. e[i] # e[j] /\ ~(e[j] < e[i])
    <3>1. ~(j < i) /\ i # j
      BY <1>1, <1>8
    <3> QED BY <1>4, <2>1, <3>1
  <2>3. e[i] \in Nat /\ e[j] \in Nat
    BY <1>0, <2>1
  <2> QED BY <2>2, <2>3
<1>9. ASSUME NEW x \in K PROVE \E j \in 1..N : e[j] = x
  <2>1. rk[x] \in 1..N
    BY <1>3
  <2>2. e[rk[x]] = x
    BY <1>6, <1>7, <2>1
  <2> QED BY <2>1, <2>2
<1>10. e \in [1..N -> K]
  BY <1>6 DEF e
<1> QED BY <1>1, <1>8, <1>9, <1>10 DEF e

\* peer_choke takes back what it can.
LEMMA UnsendAllOk ==
    ASSUME NEW o, Fine(o)
    PROVE  /\ Fine(unsend_all(o))
           /\ \A s, v : Tells(o.q, s, v) => Tells(unsend_all(o).q, s, v)
           /\ Unchokes(o.q) => Unchokes(unsend_all(o).q)
<1> DEFINE q == o.q
           n == Len(q)
           K == {i \in 1..Len(o.q) :
                   \/ o.q[i].kind \notin {"piece", "data"}
                   \/ o.q[i].kind = "piece" /\ ~unsendable(o, i)
                   \/ o.q[i].kind = "data" /\ (i = 1 \/ ~unsendable(o, i - 1))}
           gone == (1..Len(o.q)) \ K
           N == Cardinality(K)
           e == [j \in 1..N |-> CHOOSE i \in K : Cardinality({x \in K : x <= i}) = j]
           u == [j \in 1..N |-> o.q[e[j]]]
           c == o.n - Cardinality(gone \intersect Positions(o, "data"))
           d == [o EXCEPT !.q = u, !.n = c]
           o2 == unsend_all(o)
<1>1. o \in OutRec /\ q \in Seq(Message) /\ n \in Nat /\ o.ok /\ Paired(q) /\ (off => q # <<>>)
      /\ (q = <<>> <=> ~o.ev /\ ~o.wq) /\ ~(o.ev /\ o.wq) /\ o.n = Cardinality(Data(q))
  <2>1. o \in OutRec /\ q \in Seq(Message) /\ o.ok /\ Paired(q) /\ (off => q # <<>>)
        /\ (q = <<>> <=> ~o.ev /\ ~o.wq) /\ ~(o.ev /\ o.wq) /\ o.n = Cardinality(Data(q))
    BY DEF Fine, OutRec
  <2> QED BY <2>1
<1>2. o2 = IF gone # {} /\ d.q = <<>> THEN idle(d) ELSE d
  <2>1. \A j \in 1..N : e[j] = CHOOSE i \in K : Cardinality({x \in K : x <= i}) = j
    OBVIOUS
  <2>2. u = [j \in 1..N |-> o.q[CHOOSE i \in K : Cardinality({x \in K : x <= i}) = j]]
    <3> HIDE DEF K, N
    <3> QED BY <2>1
  <2> HIDE DEF K, N, e, u
  <2>3. d = [o EXCEPT !.q = u, !.n = @ - Cardinality(gone \intersect Positions(o, "data"))]
    BY <1>1 DEF OutRec
  <2> HIDE DEF d, c
  <2> QED BY <2>2, <2>3 DEF unsend_all, K, N
<1>3. K \in SUBSET (1..n)
  OBVIOUS
<1>4. \A x \in 1..n : q[x].kind \in Signals => x \in K
  BY DEF Signals
<1>5. PairKept(q, K)
  <2> SUFFICES ASSUME NEW x \in 1..n, q[x].kind = "piece" PROVE x \in K <=> x + 1 \in K
    BY DEF PairKept
  <2>1. x + 1 \in 1..n /\ q[x + 1].kind = "data"
    BY <1>1 DEF Paired
  <2>2. (x + 1) - 1 = x /\ x + 1 # 1
    BY <1>1
  <2>3. x \in K <=> ~unsendable(o, x)
    OBVIOUS
  <2>4. x + 1 \in K <=> ~unsendable(o, x)
    <3>1. x + 1 \in K <=> ~unsendable(o, (x + 1) - 1)
      BY <2>1, <2>2
    <3> QED BY <2>2, <3>1
  <2> QED BY <2>3, <2>4
<1>6. off => 1 \in K
  <2>1. ASSUME off PROVE 1 \in K
    <3>1. 1 \in 1..n /\ ~unsendable(o, 1)
      BY <1>1, <2>1 DEF unsendable
    <3> QED BY <3>1
  <2> QED BY <2>1
<1> HIDE DEF K
<1>7. /\ N \in Nat /\ e \in [1..N -> K]
      /\ \A i, j \in 1..N : i < j => e[i] < e[j]
      /\ \A x \in K : \E j \in 1..N : e[j] = x
  BY <1>1, <1>3, InOrder
<1> HIDE DEF N, e
<1>8. \A j \in 1..N : e[j] \in 1..n /\ q[e[j]] \in Message
  BY <1>1, <1>3, <1>7
<1>9. u \in Seq(Message) /\ Len(u) = N /\ \A j \in 1..Len(u) : u[j] = q[e[j]]
  <2>1. u \in [1..N -> Message]
    BY <1>8
  <2> QED BY <1>7, <2>1
<1> HIDE DEF u
<1>10. Thins(q, u, e) /\ Kept(u, e) = K
  <2>1. e \in [1..Len(u) -> 1..Len(q)]
    BY <1>7, <1>8, <1>9
  <2>2. Kept(u, e) = K
    BY <1>7, <1>9 DEF Kept
  <2> QED BY <1>7, <1>9, <2>1, <2>2 DEF Thins
<1>11. c = Cardinality(Data(q) \intersect Kept(u, e)) /\ c \in Nat
  <2> DEFINE A == gone \intersect Positions(o, "data")
             B == Data(q) \intersect K
  <2>1. A \union B = Data(q) /\ A \intersect B = {} /\ A \in SUBSET Data(q) /\ B \in SUBSET Data(q)
    BY DEF Positions, Data
  <2>2. IsFiniteSet(Data(q))
    BY <1>1, DataFinite
  <2>3. IsFiniteSet(A) /\ IsFiniteSet(B) /\ Cardinality(A) \in Nat /\ Cardinality(B) \in Nat
    <3> HIDE DEF A, B
    <3> QED BY <2>1, <2>2, FS_Subset, FS_CardinalityType
  <2> HIDE DEF A, B
  <2>4. Cardinality(Data(q)) = Cardinality(A) + Cardinality(B)
    BY <2>1, <2>3, DisjointUnion
  <2>5. c = Cardinality(B)
    <3>1. c = o.n - Cardinality(A)
      BY DEF A
    <3> QED BY <1>1, <2>3, <2>4, <3>1
  <2> QED BY <1>10, <2>3, <2>5 DEF B
<1> HIDE DEF c
<1>12. d \in OutRec /\ d.q = u /\ d.n = c /\ d.ok /\ d.ev = o.ev /\ d.wq = o.wq
  <2>1. c \in Int
    BY <1>11
  <2>2. d \in OutRec
    BY <1>1, <1>9, <2>1 DEF OutRec
  <2> QED BY <1>1, <2>2 DEF OutRec
<1> HIDE DEF d
<1>13. /\ o2 \in OutRec /\ o2.q = u /\ o2.n = c /\ o2.ok
       /\ u # <<>> => (o2.ev <=> o.ev) /\ (o2.wq <=> o.wq)
       /\ u = <<>> => ~o2.ev /\ ~o2.wq
  <2>1. CASE gone # {} /\ u = <<>>
    <3>1. q # <<>>
      BY <1>1, <2>1
    <3>2. d.ev <=> ~d.wq
      BY <1>1, <1>12, <3>1
    <3>3. o2 = idle(d)
      BY <1>2, <1>12, <2>1
    <3> HIDE DEF gone, o2
    <3> QED BY <1>12, <2>1, <3>2, <3>3, IdleIs
  <2>2. CASE u # <<>>
    <3>1. o2 = d
      BY <1>2, <1>12, <2>2
    <3> QED BY <1>12, <2>2, <3>1
  <2>3. CASE gone = {} /\ u = <<>>
    <3>1. o2 = d
      BY <1>2, <1>12, <2>3
    <3>2. N = 0
      BY <1>9, <2>3
    <3>3. \A x \in 1..n : x \in K
      BY <2>3
    <3>4. \A x \in K : FALSE
      BY <1>7, <3>2
    <3>5. q = <<>>
      BY <1>1, <3>3, <3>4
    <3> QED BY <1>1, <1>12, <2>3, <3>1, <3>5
  <2> QED BY <2>1, <2>2, <2>3
<1> HIDE DEF o2
<1>14. off => u # <<>>
  <2>1. ASSUME off PROVE u # <<>>
    <3>1. PICK j \in 1..N : e[j] = 1
      BY <1>6, <1>7, <2>1
    <3>2. N # 0
      BY <1>7
    <3> QED BY <1>9, <3>2
  <2> QED BY <2>1
<1>15. /\ Thins(o.q, o2.q, e) /\ \A j \in 1..Len(o2.q) : o2.q[j] = o.q[e[j]]
       /\ PairKept(o.q, Kept(o2.q, e))
       /\ \A i \in 1..Len(o.q) : o.q[i].kind \in Signals => i \in Kept(o2.q, e)
       /\ o2.n = Cardinality(Data(o.q) \intersect Kept(o2.q, e))
       /\ off => o2.q # <<>>
  BY <1>4, <1>5, <1>9, <1>10, <1>11, <1>13, <1>14
<1> QED BY <1>13, <1>15, ThinFine DEF o2

------------------------------------------------------------------------------
(* The events that change the queue *)

LEMMA OutIs ==
    ASSUME IInv, Up
    PROVE  /\ Fine(Out) /\ Out.q = outq /\ outq \in Seq(Message)
           /\ Tells(outq, seen, Belief(ichoke)) /\ (norequests => Unchokes(outq))
           /\ alive
BY DEF IInv, TypesOk, Up, Out

\* A fine state that tells the truth becomes the state of the queue.
LEMMA BecomesOk ==
    ASSUME IInv, Up, NEW o, Fine(o), Becomes(o),
           ichoke' \in BOOLEAN, norequests' \in BOOLEAN, want' \in BOOLEAN, myreq' \in BOOLEAN,
           Tells(o.q, seen, Belief(ichoke')), norequests' => Unchokes(o.q)
    PROVE  IInv'
<1>1. /\ outq' = o.q /\ npiece' = o.n /\ ev' = o.ev /\ onwriteq' = o.wq
      /\ aborted' = ~o.ok /\ Len(o.q) <= MaxQueue
      /\ UNCHANGED <<off, limited, budget, seen, wire, alive>>
  BY DEF Becomes
<1>2. o \in OutRec /\ o.ok /\ o.n = Cardinality(Data(o.q))
  BY DEF Fine
<1>3. o.q \in Seq(Message) /\ o.ev \in BOOLEAN /\ o.wq \in BOOLEAN /\ o.ok \in BOOLEAN
  BY <1>2 DEF OutRec
<1>4. npiece' \in Nat
  BY <1>1, <1>2, <1>3, DataFinite
<1>5. aborted' = FALSE
  BY <1>1, <1>2, <1>3
<1>6. TypesOk'
  BY <1>1, <1>3, <1>4, <1>5 DEF IInv, TypesOk
<1>7. Out' \in OutRec
  <2>1. npiece' \in Int
    BY <1>4
  <2> QED BY <1>1, <1>3, <2>1 DEF Out, OutRec
<1>8. Out'.q = o.q /\ Out'.n = o.n /\ Out'.ev = o.ev /\ Out'.wq = o.wq /\ Out'.ok
  BY <1>1 DEF Out
<1>9. Fine(Out)'
  BY <1>1, <1>7, <1>8 DEF Fine
<1>10. Tells(outq, seen, Belief(ichoke))' /\ (norequests' => Unchokes(outq)')
  BY <1>1 DEF Tells, Unchokes, Belief
<1> QED BY <1>5, <1>6, <1>9, <1>10 DEF IInv

\* A message that is no signal is queued.
LEMMA SayOk ==
    ASSUME IInv, Up, NEW k \in {"other", "request", "cancel"},
           Becomes(peer_send(Out, Msg(k))), ichoke' = ichoke, norequests' = norequests,
           want' \in BOOLEAN, myreq' \in BOOLEAN
    PROVE  IInv'
<1> DEFINE m == Msg(k)
           o == peer_send(Out, m)
<1>1. m \in Message /\ m.kind = k /\ m.kind \notin {"piece", "data"} /\ m.kind \notin Signals
  <2>1. m \in Message /\ m.kind = k
    BY MessageIs DEF Kinds
  <2> QED BY <2>1 DEF Signals
<1> HIDE DEF m
<1>2. Fine(o) /\ o.q = Append(outq, m)
  BY <1>1, OutIs, SendOk
<1>3. Tells(o.q, seen, Belief(ichoke)) /\ (norequests => Unchokes(o.q))
  BY <1>1, <1>2, OutIs, AppendTells
<1>4. Becomes(o) /\ ichoke \in BOOLEAN /\ norequests \in BOOLEAN
  BY DEF IInv, TypesOk, m
<1> HIDE DEF o
<1> QED BY <1>2, <1>3, <1>4, BecomesOk

LEMMA SendOtherOk == IInv /\ send_other => IInv'
<1> SUFFICES ASSUME IInv, send_other PROVE IInv'
  OBVIOUS
<1>1. Up /\ Becomes(peer_send(Out, Msg("other"))) /\ UNCHANGED flags
  BY DEF send_other
<1>2. want' \in BOOLEAN /\ myreq' \in BOOLEAN /\ ichoke' = ichoke /\ norequests' = norequests
  BY <1>1 DEF flags, IInv, TypesOk
<1> QED BY <1>1, <1>2, SayOk

LEMMA RequestOk == IInv /\ peer_request => IInv'
<1> SUFFICES ASSUME IInv, peer_request PROVE IInv'
  OBVIOUS
<1>1. Up /\ Becomes(peer_send(Out, Msg("request")))
  BY DEF peer_request
<1>2. want' \in BOOLEAN /\ myreq' \in BOOLEAN /\ ichoke' = ichoke /\ norequests' = norequests
  BY DEF peer_request, IInv, TypesOk
<1> QED BY <1>1, <1>2, SayOk

\* A message that is not of a block nor about chokes is taken back.
LEMMA TakenBackOk ==
    ASSUME IInv, Up, NEW i \in 1..Len(outq), unsendable(Out, i), Becomes(peer_unsend(Out, i)),
           outq[i].kind \notin {"piece", "data"} \union Signals,
           want' \in BOOLEAN, myreq' \in BOOLEAN, ichoke' = ichoke, norequests' = norequests
    PROVE  IInv'
<1> DEFINE o == peer_unsend(Out, i)
<1>1. i \in 1..Len(Out.q) /\ Out.q[i].kind \notin {"piece", "data"} \union Signals
  BY DEF Out
<1>2. /\ Fine(o) /\ \A s, v : Tells(outq, s, v) => Tells(o.q, s, v)
      /\ Unchokes(outq) => Unchokes(o.q)
  BY <1>1, OutIs, UnsendOk
<1>3. Tells(o.q, seen, Belief(ichoke)) /\ (norequests => Unchokes(o.q))
  BY <1>2, OutIs
<1>4. Becomes(o) /\ ichoke \in BOOLEAN /\ norequests \in BOOLEAN
  BY DEF IInv, TypesOk
<1> HIDE DEF o
<1> QED BY <1>2, <1>3, <1>4, BecomesOk

LEMMA CancelOk == IInv /\ peer_cancel => IInv'
<1> SUFFICES ASSUME IInv, peer_cancel PROVE IInv'
  OBVIOUS
<1>1. Up /\ want' \in BOOLEAN /\ myreq' \in BOOLEAN /\ ichoke' = ichoke /\ norequests' = norequests
  BY DEF peer_cancel, IInv, TypesOk
<1>2. CASE Becomes(peer_send(Out, Msg("cancel")))
  BY <1>1, <1>2, SayOk
<1>3. ASSUME NEW i \in Positions(Out, "request"), unsendable(Out, i), Becomes(peer_unsend(Out, i))
      PROVE  IInv'
  <2>1. i \in 1..Len(outq) /\ outq[i].kind \notin {"piece", "data"} \union Signals
    BY DEF Positions, Out, Signals
  <2> QED BY <1>1, <1>3, <2>1, TakenBackOk
<1> QED BY <1>2, <1>3 DEF peer_cancel

LEMMA WantOk == IInv /\ peer_want => IInv'
<1> SUFFICES ASSUME IInv, peer_want PROVE IInv'
  OBVIOUS
<1>1. Up /\ want' \in BOOLEAN /\ myreq' \in BOOLEAN /\ ichoke' = ichoke /\ norequests' = norequests
  BY DEF peer_want, flags, IInv, TypesOk
<1>2. PICK i \in Positions(Out, "other") : unsendable(Out, i) /\ Becomes(peer_unsend(Out, i))
  BY DEF peer_want
<1>3. i \in 1..Len(outq) /\ outq[i].kind \notin {"piece", "data"} \union Signals
  BY DEF Positions, Out, Signals
<1> QED BY <1>1, <1>2, <1>3, TakenBackOk

LEMMA UnchokeOk == IInv /\ peer_unchoke => IInv'
<1> SUFFICES ASSUME IInv, peer_unchoke PROVE IInv'
  OBVIOUS
<1> DEFINE m == Msg("unchoke")
           o == peer_send(Out, m)
<1>1. /\ Up /\ Becomes(o) /\ ichoke' = FALSE /\ norequests' = norequests
      /\ want' \in BOOLEAN /\ myreq' \in BOOLEAN /\ norequests \in BOOLEAN
  BY DEF peer_unchoke, IInv, TypesOk
<1>2. m \in Message /\ m.kind = "unchoke"
  BY MessageIs DEF Kinds
<1> HIDE DEF m
<1>3. Fine(o) /\ o.q = Append(outq, m)
  BY <1>1, <1>2, OutIs, SendOk
<1>4. Tells(o.q, seen, "unchoke") /\ Unchokes(o.q)
  <2>1. m.kind \in Signals
    BY <1>2 DEF Signals
  <2> QED BY <1>1, <1>2, <1>3, <2>1, OutIs, AppendTells
<1>5. Belief(ichoke') = "unchoke"
  BY <1>1 DEF Belief
<1> HIDE DEF o
<1> QED BY <1>1, <1>3, <1>4, <1>5, BecomesOk

LEMMA ChokeOk == IInv /\ peer_choke => IInv'
<1> SUFFICES ASSUME IInv, peer_choke PROVE IInv'
  OBVIOUS
<1> DEFINE m == Msg("choke")
           a == unsend_all(Out)
           o == peer_send(a, m)
<1>1. /\ Up /\ Becomes(o) /\ ichoke' = TRUE /\ norequests' = norequests
      /\ want' \in BOOLEAN /\ myreq' \in BOOLEAN /\ norequests \in BOOLEAN
  BY DEF peer_choke, IInv, TypesOk
<1>2. m \in Message /\ m.kind = "choke" /\ m.kind \in Signals /\ m.kind \notin {"piece", "data"}
  BY MessageIs DEF Kinds, Signals
<1> HIDE DEF m
<1>3. Fine(a) /\ (norequests => Unchokes(a.q)) /\ a.q \in Seq(Message)
  <2>1. Fine(a) /\ (norequests => Unchokes(a.q))
    BY <1>1, OutIs, UnsendAllOk
  <2> HIDE DEF a
  <2> QED BY <2>1 DEF Fine, OutRec
<1> HIDE DEF a
<1>4. Fine(o) /\ o.q = Append(a.q, m)
  BY <1>1, <1>2, <1>3, OutIs, SendOk
<1>5. Tells(o.q, seen, "choke") /\ (norequests => Unchokes(o.q))
  BY <1>2, <1>3, <1>4, AppendTells
<1>6. Belief(ichoke') = "choke"
  BY <1>1 DEF Belief
<1> HIDE DEF o
<1> QED BY <1>1, <1>4, <1>5, <1>6, BecomesOk

\* A request is answered, and at the limit the peer is choked and unchoked.
LEMMA AnswerOk == ASSUME NEW b \in Blocks, IInv, peer_on_request(b) PROVE IInv'
<1> DEFINE o == answered(Out, b)
<1>1. /\ Up /\ ~ichoke /\ norequests' = full_up(o) /\ ichoke' = ichoke
      /\ Becomes(IF full_up(o) THEN refuse(o) ELSE o)
      /\ want' \in BOOLEAN /\ myreq' \in BOOLEAN /\ ichoke \in BOOLEAN
  BY DEF peer_on_request, IInv, TypesOk
<1>2. Fine(o) /\ \A s, v : Tells(outq, s, v) => Tells(o.q, s, v)
  BY <1>1, OutIs, AnsweredOk
<1> HIDE DEF o
<1>3. o.q \in Seq(Message) /\ o.n \in Int
  BY <1>2 DEF Fine, OutRec
<1>4. norequests' \in BOOLEAN
  BY <1>1, <1>3, OutQueueAssumption DEF full_up
<1>5. Belief(ichoke') = "unchoke" /\ Belief(ichoke) = "unchoke"
  BY <1>1 DEF Belief
<1>6. CASE ~full_up(o)
  <2>1. Becomes(o) /\ ~norequests'
    BY <1>1, <1>6
  <2>2. Tells(o.q, seen, Belief(ichoke'))
    BY <1>1, <1>2, OutIs
  <2> QED BY <1>1, <1>2, <1>4, <2>1, <2>2, BecomesOk
<1>7. CASE full_up(o)
  <2> DEFINE c == Msg("choke")
             u == Msg("unchoke")
             o1 == peer_send(o, c)
             o2 == peer_send(o1, u)
  <2>1. Becomes(o2)
    BY <1>1, <1>7 DEF refuse
  <2>2. /\ c \in Message /\ c.kind = "choke" /\ c.kind \notin {"piece", "data"}
        /\ u \in Message /\ u.kind = "unchoke" /\ u.kind \notin {"piece", "data"}
        /\ u.kind \in Signals
    BY MessageIs DEF Kinds, Signals
  <2> HIDE DEF c, u
  <2>3. Fine(o1)
    BY <1>1, <1>2, <2>2, OutIs, SendOk
  <2> HIDE DEF o1
  <2>4. Fine(o2) /\ o2.q = Append(o1.q, u) /\ o1.q \in Seq(Message)
    <3>1. o1.q \in Seq(Message)
      BY <2>3 DEF Fine, OutRec
    <3> QED BY <1>1, <2>2, <2>3, <3>1, OutIs, SendOk
  <2>5. Tells(o2.q, seen, "unchoke") /\ Unchokes(o2.q)
    BY <2>2, <2>4, AppendTells
  <2> HIDE DEF o2
  <2> QED BY <1>1, <1>4, <1>5, <2>1, <2>4, <2>5, BecomesOk
<1> QED BY <1>6, <1>7

LEMMA OnCancelOk == ASSUME NEW b \in Blocks, IInv, peer_on_cancel(b) PROVE IInv'
<1> DEFINE is == {i \in Positions(Out, "piece") : outq[i].blk = b}
           x == CHOOSE i \in is : \A j \in is : i <= j
           o == unsend_block(Out, x)
<1>1. /\ Up /\ is # {} /\ Becomes(o) /\ ichoke' = ichoke /\ norequests' = norequests
      /\ want' \in BOOLEAN /\ myreq' \in BOOLEAN /\ ichoke \in BOOLEAN /\ norequests \in BOOLEAN
  BY DEF peer_on_cancel, IInv, TypesOk, flags
<1>2. is \in SUBSET Nat /\ is \in SUBSET Positions(Out, "piece")
  BY DEF Positions
<1> HIDE DEF is
<1>3. \E i \in is : \A j \in is : i <= j
  BY <1>1, <1>2, LeastElement
<1>4. x \in is
  BY <1>3
<1> HIDE DEF x
<1>5. x \in 1..Len(Out.q) /\ Out.q[x].kind = "piece"
  BY <1>2, <1>4 DEF Positions
<1>6. /\ Fine(o) /\ \A s, v : Tells(outq, s, v) => Tells(o.q, s, v)
      /\ Unchokes(outq) => Unchokes(o.q)
  BY <1>1, <1>5, OutIs, UnsendBlockOk
<1>7. Tells(o.q, seen, Belief(ichoke)) /\ (norequests => Unchokes(o.q))
  BY <1>1, <1>6, OutIs
<1> HIDE DEF o
<1> QED BY <1>1, <1>6, <1>7, BecomesOk

\* The events that leave the queue alone.
LEMMA QuietOk ==
    ASSUME IInv,
           UNCHANGED <<outq, off, npiece, ichoke, norequests, ev, onwriteq, seen, wire, alive, aborted>>,
           want' \in BOOLEAN, myreq' \in BOOLEAN, limited' \in BOOLEAN, budget' \in BOOLEAN
    PROVE  IInv'
<1>1. TypesOk'
  BY DEF IInv, TypesOk
<1>2. Fine(Out)' = Fine(Out)
  BY DEF Fine, Out
<1>3. /\ Tells(outq, seen, Belief(ichoke))' = Tells(outq, seen, Belief(ichoke))
      /\ Unchokes(outq)' = Unchokes(outq)
  BY DEF Tells, Unchokes, Belief
<1> QED BY <1>1, <1>2, <1>3 DEF IInv

LEMMA OnChokeOk == IInv /\ peer_on_choke => IInv'
<1> SUFFICES ASSUME IInv, peer_on_choke PROVE IInv'
  OBVIOUS
<1>1. Up /\ want' \in BOOLEAN /\ myreq' \in BOOLEAN /\ ichoke' = ichoke /\ norequests' = norequests
  BY DEF peer_on_choke, IInv, TypesOk
<1>2. CASE UNCHANGED <<outq, off, npiece, ev, onwriteq, limited, budget, seen, wire, alive, aborted>>
  <2>1. limited' \in BOOLEAN /\ budget' \in BOOLEAN
    BY <1>2 DEF IInv, TypesOk
  <2> QED BY <1>1, <1>2, <2>1, QuietOk
<1>3. ASSUME NEW i \in Positions(Out, "request"), unsendable(Out, i), Becomes(peer_unsend(Out, i))
      PROVE  IInv'
  <2>1. i \in 1..Len(outq) /\ outq[i].kind \notin {"piece", "data"} \union Signals
    BY DEF Positions, Out, Signals
  <2> QED BY <1>1, <1>3, <2>1, TakenBackOk
<1> QED BY <1>2, <1>3 DEF peer_on_choke

LEMMA DoneOk == IInv /\ (request_done \/ peer_on_interest \/ cmd_rate) => IInv'
<1> SUFFICES ASSUME IInv, request_done \/ peer_on_interest \/ cmd_rate PROVE IInv'
  OBVIOUS
<1>1. /\ UNCHANGED <<outq, off, npiece, ichoke, norequests, ev, onwriteq, seen, wire, alive, aborted>>
      /\ want' \in BOOLEAN /\ myreq' \in BOOLEAN /\ limited' \in BOOLEAN /\ budget' \in BOOLEAN
  BY DEF request_done, peer_on_interest, cmd_rate, flags, IInv, TypesOk
<1> QED BY <1>1, QuietOk

------------------------------------------------------------------------------
(* Writing *)

\* What the peer knows after n messages, and what it is still to be told.
LEMMA ToldIs ==
    ASSUME outq \in Seq(Message), NEW v, Tells(outq, seen, v), NEW n \in 0..Len(outq)
    PROVE  \/ /\ Told(n) = v
              /\ \A j \in 1..Len(outq) : j > n => outq[j].kind \notin Signals
           \/ \E m \in 1..Len(outq) :
                 /\ m > n /\ outq[m].kind = v /\ v \in Signals
                 /\ \A j \in 1..Len(outq) : j > m => outq[j].kind \notin Signals
<1> DEFINE L == Len(outq)
           is == {i \in 1..n : outq[i].kind \in {"choke", "unchoke"}}
           x == CHOOSE i \in is : \A j \in is : j <= i
<1>1. L \in Nat /\ n \in Nat /\ n <= L
  OBVIOUS
<1>2. Told(n) = IF is = {} THEN seen ELSE outq[x].kind
  BY DEF Told
<1>3. \A i \in 1..L : i \in is <=> i <= n /\ outq[i].kind \in Signals
  BY <1>1 DEF Signals
<1>4. \A i \in is : i \in 1..L
  BY <1>1
<1> HIDE DEF is, L
<1>5. CASE seen = v /\ \A j \in 1..L : outq[j].kind \notin Signals
  <2>1. is = {}
    BY <1>3, <1>4, <1>5
  <2> QED BY <1>2, <1>5, <2>1 DEF L
<1>6. ASSUME NEW m \in 1..L, outq[m].kind = v, v \in Signals,
             \A j \in 1..L : j > m => outq[j].kind \notin Signals
      PROVE  \/ Told(n) = v /\ \A j \in 1..L : j > n => outq[j].kind \notin Signals
             \/ m > n
  <2>1. SUFFICES ASSUME m <= n
                 PROVE  Told(n) = v /\ \A j \in 1..L : j > n => outq[j].kind \notin Signals
    BY <1>1
  <2>2. m \in is /\ m \in Nat
    BY <1>1, <1>3, <1>6, <2>1
  <2>3. \A i \in is : i <= m
    <3>1. \A i \in is : i \in Nat /\ ~(i > m)
      BY <1>1, <1>3, <1>4, <1>6
    <3> QED BY <2>2, <3>1
  <2>4. x \in is /\ \A j \in is : j <= x
    BY <2>2, <2>3
  <2>5. x = m
    <3> HIDE DEF x
    <3>1. x <= m /\ m <= x
      BY <2>2, <2>3, <2>4
    <3>2. x \in Nat
      BY <1>1, <1>4, <2>4
    <3> QED BY <2>2, <3>1, <3>2
  <2>6. \A j \in 1..L : j > n => j > m
    BY <1>1, <2>1, <2>2
  <2> QED BY <1>2, <1>6, <2>2, <2>5, <2>6
<1>7. \/ seen = v /\ \A j \in 1..L : outq[j].kind \notin Signals
      \/ \E m \in 1..L : /\ outq[m].kind = v /\ v \in Signals
                         /\ \A j \in 1..L : j > m => outq[j].kind \notin Signals
  BY DEF Tells, L
<1> QED BY <1>5, <1>6, <1>7 DEF L

LEMMA ToldSignal ==
    ASSUME outq \in Seq(Message), seen \in Signals, NEW n \in 0..Len(outq)
    PROVE  Told(n) \in Signals
<1> DEFINE is == {i \in 1..n : outq[i].kind \in {"choke", "unchoke"}}
           x == CHOOSE i \in is : \A j \in is : j <= i
<1>1. Told(n) = IF is = {} THEN seen ELSE outq[x].kind
  BY DEF Told
<1>2. is \in SUBSET (0..n) /\ n \in Nat
  OBVIOUS
<1>3. \A i \in is : outq[i].kind \in Signals
  BY DEF Signals
<1> HIDE DEF is
<1>4. ASSUME is # {} PROVE x \in is
  BY <1>2, <1>4, GreatestElement
<1> QED BY <1>1, <1>3, <1>4

\* The blocks of a call of writev get their bytes; nothing else changes.
LEMMA FilledIs ==
    ASSUME outq \in Seq(Message)
    PROVE  /\ Filled \in Seq(Message) /\ Len(Filled) = Len(outq)
           /\ \A i \in 1..Len(outq) : /\ Filled[i].kind = outq[i].kind
                                      /\ Filled[i].full <=> outq[i].kind = "data" /\ filled(i)
<1> DEFINE f(i) == outq[i].kind = "data" /\ filled(i)
<1>1. ASSUME NEW i \in 1..Len(outq)
      PROVE  /\ Filled[i] \in Message /\ Filled[i].kind = outq[i].kind
             /\ Filled[i].full <=> f(i)
  <2>1. outq[i] \in Message
    OBVIOUS
  <2>2. f(i) \in BOOLEAN
    OBVIOUS
  <2>3. Filled[i] = [outq[i] EXCEPT !.full = f(i)]
    BY DEF Filled
  <2> HIDE DEF f
  <2>4. Filled[i] \in Message
    BY <2>1, <2>2, <2>3 DEF Message
  <2>5. Filled[i].kind = outq[i].kind
    BY <2>1, <2>3 DEF Message
  <2>6. Filled[i].full = f(i)
    BY <2>1, <2>3 DEF Message
  <2> QED BY <2>4, <2>5, <2>6
<1>2. DOMAIN Filled = 1..Len(outq) /\ Len(outq) \in Nat
  BY DEF Filled
<1>3. Filled \in [1..Len(outq) -> Message]
  <2>1. Filled = [i \in 1..Len(outq) |-> Filled[i]]
    BY DEF Filled
  <2> HIDE DEF f
  <2> QED BY <1>1, <2>1
<1>4. Filled \in Seq(Message) /\ Len(Filled) = Len(outq)
  BY <1>2, <1>3
<1> QED BY <1>1, <1>4

\* What one writev gets is a prefix of the queue.
LEMMA IovPrefix ==
    ASSUME outq \in Seq(Message), NEW i \in iov, NEW j \in 1..i
    PROVE  i \in 1..Len(outq) /\ j \in iov
<1>1. i \in 1..Len(outq) /\ \A k \in 1..i : ~Blocking(k)
  BY DEF iov
<1>2. j \in 1..Len(outq) /\ \A k \in 1..j : k \in 1..i
  BY <1>1
<1> QED BY <1>1, <1>2 DEF iov

\* A block whose header goes out has its bytes.
LEMMA FullWhenWritten ==
    ASSUME outq \in Seq(Message), Paired(outq), FirstOk(outq, wire),
           NEW i \in 1..Len(outq), outq[i].kind = "data", i = 1 \/ i - 1 \in iov
    PROVE  /\ Filled[i].full
           /\ (IF i = 1 THEN wire ELSE outq[i - 1].kind) = "piece"
<1>1. CASE i = 1
  <2>1. outq # <<>>
    BY <1>1
  <2>2. wire = "piece" /\ outq[1].full
    BY <1>1, <2>1 DEF FirstOk
  <2>3. filled(i)
    BY <1>1, <2>2 DEF filled
  <2> QED BY <1>1, <2>2, <2>3, FilledIs
<1>2. CASE i # 1
  <2>1. outq[i - 1].kind = "piece" /\ i > 1 /\ i - 1 \in iov
    BY <1>2 DEF Paired
  <2>2. filled(i)
    BY <2>1 DEF filled
  <2> QED BY <1>2, <2>1, <2>2, FilledIs
<1> QED BY <1>1, <1>2

\* The queue without its first n messages.
LEMMA RestOk ==
    ASSUME IInv, Up, NEW n \in 0..Len(outq), n = 0 \/ n \in iov, NEW u \in Seq(Message),
           Len(u) = Len(outq) - n, \A j \in 1..Len(u) : u[j] = Filled[n + j]
    PROVE  /\ Paired(u) /\ FirstOk(u, IF n = 0 THEN wire ELSE outq[n].kind)
           /\ npiece - Cardinality({i \in 1..n : outq[i].kind = "data"}) = Cardinality(Data(u))
           /\ Tells(u, Told(n), Belief(ichoke))
           /\ norequests /\ (\A i \in 1..n : outq[i].kind # "unchoke") => Unchokes(u)
<1> DEFINE L == Len(outq)
<1>1. /\ outq \in Seq(Message) /\ L \in Nat /\ n \in Nat /\ n <= L /\ Len(u) = L - n
      /\ Len(u) \in Nat /\ Paired(outq) /\ FirstOk(outq, wire)
      /\ npiece = Cardinality(Data(outq))
      /\ Tells(outq, seen, Belief(ichoke)) /\ (norequests => Unchokes(outq))
  <2>1. Fine(Out) /\ Out.q = outq /\ Out.n = npiece
    BY OutIs DEF Out
  <2>2. outq \in Seq(Message) /\ Tells(outq, seen, Belief(ichoke)) /\ (norequests => Unchokes(outq))
    BY OutIs
  <2> QED BY <2>1, <2>2 DEF Fine
<1>2. \A j \in 1..Len(u) : n + j \in 1..L /\ u[j].kind = outq[n + j].kind
  <2>1. \A j \in 1..Len(u) : n + j \in 1..L
    BY <1>1
  <2> QED BY <1>1, <2>1, FilledIs
<1>3. \A i \in 1..L : i > n => i - n \in 1..Len(u) /\ n + (i - n) = i
  BY <1>1
<1>4. Paired(u)
  <2>1. ASSUME NEW j \in 1..Len(u), u[j].kind = "piece"
        PROVE  j + 1 \in 1..Len(u) /\ u[j + 1].kind = "data"
    <3>1. (n + j) + 1 \in 1..L /\ outq[(n + j) + 1].kind = "data"
      BY <1>1, <1>2, <2>1 DEF Paired
    <3>2. j + 1 \in 1..Len(u) /\ n + (j + 1) = (n + j) + 1
      BY <1>1, <3>1
    <3> QED BY <1>2, <3>1, <3>2
  <2>2. ASSUME NEW j \in 1..Len(u), j # 1, u[j].kind = "data" PROVE u[j - 1].kind = "piece"
    <3>1. n + j # 1 /\ n + (j - 1) = (n + j) - 1 /\ j - 1 \in 1..Len(u)
      <4>1. j \in Nat /\ 1 < j /\ j <= Len(u)
        BY <1>1, <2>2
      <4>2. n + j # 1
        BY <1>1, <4>1
      <4>3. n + (j - 1) = (n + j) - 1
        BY <1>1, <4>1
      <4>4. j - 1 \in 1..Len(u)
        BY <1>1, <4>1
      <4> QED BY <4>2, <4>3, <4>4
    <3>2. outq[(n + j) - 1].kind = "piece"
      BY <1>1, <1>2, <2>2, <3>1 DEF Paired
    <3> QED BY <1>2, <3>1, <3>2
  <2> QED BY <2>1, <2>2 DEF Paired
<1>5. FirstOk(u, IF n = 0 THEN wire ELSE outq[n].kind)
  <2> SUFFICES ASSUME u # <<>>, u[1].kind = "data"
               PROVE  (IF n = 0 THEN wire ELSE outq[n].kind) = "piece" /\ u[1].full
    BY DEF FirstOk
  <2>1. 1 \in 1..Len(u)
    BY <1>1
  <2>2. n + 1 \in 1..L /\ outq[n + 1].kind = "data" /\ u[1] = Filled[n + 1]
    BY <1>2, <2>1
  <2>3. (n + 1) - 1 = n /\ (n + 1 = 1 <=> n = 0)
    BY <1>1
  <2>4. n + 1 = 1 \/ (n + 1) - 1 \in iov
    BY <2>3
  <2>5. /\ Filled[n + 1].full
        /\ (IF n + 1 = 1 THEN wire ELSE outq[(n + 1) - 1].kind) = "piece"
    BY <1>1, <2>2, <2>4, FullWhenWritten
  <2> QED BY <2>2, <2>3, <2>5
<1>6. npiece - Cardinality({i \in 1..n : outq[i].kind = "data"}) = Cardinality(Data(u))
  <2> DEFINE g == [j \in 1..Len(u) |-> n + j]
             A == {i \in 1..n : outq[i].kind = "data"}
             B == Data(outq) \intersect Kept(u, g)
  <2>1. Thins(outq, u, g)
    <3>1. g \in [1..Len(u) -> 1..Len(outq)]
      BY <1>2
    <3>2. \A i, j \in 1..Len(u) : i < j => g[i] < g[j]
      BY <1>1
    <3>3. \A j \in 1..Len(u) : g[j] = n + j
      OBVIOUS
    <3> HIDE DEF g
    <3> QED BY <1>2, <3>1, <3>2, <3>3 DEF Thins
  <2>2. Cardinality(Data(u)) = Cardinality(B)
    BY <1>1, <2>1, ThinCount
  <2>3. \A x : x \in Kept(u, g) <=> x \in 1..L /\ x > n
    <3>1. ASSUME NEW j \in 1..Len(u) PROVE g[j] \in 1..L /\ g[j] > n
      BY <1>1, <1>2
    <3>2. ASSUME NEW x \in 1..L, x > n PROVE \E j \in 1..Len(u) : g[j] = x
      <4>1. x - n \in 1..Len(u) /\ g[x - n] = x
        BY <1>1, <1>3, <3>2
      <4> QED BY <4>1
    <3> HIDE DEF g
    <3> QED BY <3>1, <3>2 DEF Kept
  <2> HIDE DEF g
  <2>4. \A x \in 1..L : x > n <=> x \notin 1..n
    BY <1>1
  <2>5. \A x \in 1..n : x \in 1..L
    BY <1>1
  <2>6. A \union B = Data(outq) /\ A \intersect B = {} /\ A \in SUBSET Data(outq) /\ B \in SUBSET Data(outq)
    BY <2>3, <2>4, <2>5 DEF Data
  <2> HIDE DEF A, B
  <2>7. IsFiniteSet(Data(outq))
    BY <1>1, DataFinite
  <2>8. IsFiniteSet(A) /\ IsFiniteSet(B) /\ Cardinality(A) \in Nat /\ Cardinality(B) \in Nat
    BY <2>6, <2>7, FS_Subset, FS_CardinalityType
  <2>9. Cardinality(Data(outq)) = Cardinality(A) + Cardinality(B)
    BY <2>6, <2>8, DisjointUnion
  <2>10. npiece - Cardinality(A) = Cardinality(Data(u))
    BY <1>1, <2>2, <2>8, <2>9
  <2> QED BY <2>10 DEF A
<1>7. Tells(u, Told(n), Belief(ichoke))
  <2> DEFINE v == Belief(ichoke)
  <2> HIDE DEF v
  <2>1. \/ /\ Told(n) = v
           /\ \A j \in 1..L : j > n => outq[j].kind \notin Signals
        \/ \E m \in 1..L :
              /\ m > n /\ outq[m].kind = v /\ v \in Signals
              /\ \A j \in 1..L : j > m => outq[j].kind \notin Signals
    BY <1>1, ToldIs DEF v
  <2>2. CASE Told(n) = v /\ \A j \in 1..L : j > n => outq[j].kind \notin Signals
    <3>1. \A j \in 1..Len(u) : n + j > n
      BY <1>1
    <3>2. \A j \in 1..Len(u) : u[j].kind \notin Signals
      BY <1>2, <2>2, <3>1
    <3> QED BY <2>2, <3>2 DEF Tells, v
  <2>3. ASSUME NEW m \in 1..L, m > n, outq[m].kind = v, v \in Signals,
               \A j \in 1..L : j > m => outq[j].kind \notin Signals
        PROVE  Tells(u, Told(n), v)
    <3>1. m - n \in 1..Len(u) /\ u[m - n].kind = v
      BY <1>2, <1>3, <2>3
    <3>2. ASSUME NEW j \in 1..Len(u), j > m - n PROVE u[j].kind \notin Signals
      <4>1. n + j > m
        BY <1>1, <3>2
      <4> QED BY <1>2, <2>3, <4>1
    <3> QED BY <2>3, <3>1, <3>2 DEF Tells
  <2> QED BY <2>1, <2>2, <2>3 DEF v
<1>8. ASSUME norequests, \A i \in 1..n : outq[i].kind # "unchoke" PROVE Unchokes(u)
  <2>1. PICK i \in 1..L : outq[i].kind = "unchoke"
    BY <1>1, <1>8 DEF Unchokes
  <2>2. i > n
    BY <1>1, <1>8, <2>1
  <2>3. i - n \in 1..Len(u) /\ u[i - n].kind = "unchoke"
    BY <1>2, <1>3, <2>1, <2>2
  <2> QED BY <2>3 DEF Unchokes
<1> QED BY <1>4, <1>5, <1>6, <1>7, <1>8

\* n messages are written, and perhaps some of the next.
LEMMA WriteOk ==
    ASSUME IInv, Up, NEW n \in 0..Len(outq), NEW some \in BOOLEAN, net_write(n, some),
           ev' = (n < Len(outq)), aborted' = MisWritten(n, some), onwriteq' = FALSE,
           limited' \in BOOLEAN, budget' \in BOOLEAN
    PROVE  IInv'
<1> DEFINE L == Len(outq)
           w == IF n = 0 THEN wire ELSE outq[n].kind
<1>1. /\ outq \in Seq(Message) /\ L \in Nat /\ n \in Nat /\ n <= L
      /\ Paired(outq) /\ FirstOk(outq, wire) /\ L <= MaxQueue
  <2>1. Fine(Out) /\ Out.q = outq /\ outq \in Seq(Message)
    BY OutIs
  <2> QED BY <2>1 DEF Fine, IInv, TypesOk
<1>2. /\ n \in iov \union {0} /\ (some => n + 1 \in iov) /\ (n = 0 => some)
      /\ outq' = SubSeq(Filled, n + 1, L) /\ off' = some
      /\ npiece' = npiece - Cardinality({i \in 1..n : outq[i].kind = "data"})
      /\ norequests' = cleared(n) /\ seen' = Told(n) /\ wire' = w /\ alive' = TRUE
      /\ UNCHANGED <<ichoke, want, myreq>>
  BY DEF net_write
<1>3. n = 0 \/ n \in iov
  BY <1>2
<1>4. some => n + 1 \in 1..L
  <2>1. ASSUME some PROVE n + 1 \in 1..L
    BY <1>2, <2>1 DEF iov
  <2> QED BY <2>1
<1>5. /\ outq' \in Seq(Message) /\ Len(outq') = L - n
      /\ \A j \in 1..Len(outq') : outq'[j] = Filled[n + j]
  <2> DEFINE u == SubSeq(Filled, n + 1, L)
  <2>1. Filled \in Seq(Message) /\ Len(Filled) = L
    BY <1>1, FilledIs
  <2>2. n + 1 \in 1..(Len(Filled) + 1) /\ L \in ((n + 1) - 1)..Len(Filled)
    BY <1>1, <2>1
  <2>3. /\ u \in Seq(Message) /\ Len(u) = L - (n + 1) + 1
        /\ \A j \in 1..(L - (n + 1) + 1) : u[j] = Filled[(n + 1) + j - 1]
    <3> HIDE DEF L
    <3> QED BY <2>1, <2>2, SubSeqSeq
  <2> HIDE DEF u
  <2>4. L - (n + 1) + 1 = L - n /\ \A j \in 1..(L - n) : (n + 1) + j - 1 = n + j
    BY <1>1
  <2>5. outq' = u
    BY <1>2 DEF u
  <2> HIDE DEF L
  <2> QED BY <2>3, <2>4, <2>5
<1> HIDE DEF L
<1>6. /\ Paired(outq') /\ FirstOk(outq', w) /\ npiece' = Cardinality(Data(outq'))
      /\ Tells(outq', Told(n), Belief(ichoke))
      /\ norequests /\ (\A i \in 1..n : outq[i].kind # "unchoke") => Unchokes(outq')
  <2> DEFINE u == outq'
  <2>1. u \in Seq(Message) /\ Len(u) = Len(outq) - n /\ \A j \in 1..Len(u) : u[j] = Filled[n + j]
    BY <1>5 DEF L
  <2> HIDE DEF u
  <2>2. /\ Paired(u) /\ FirstOk(u, w)
        /\ npiece - Cardinality({i \in 1..n : outq[i].kind = "data"}) = Cardinality(Data(u))
        /\ Tells(u, Told(n), Belief(ichoke))
        /\ norequests /\ (\A i \in 1..n : outq[i].kind # "unchoke") => Unchokes(u)
    BY <1>3, <2>1, RestOk
  <2> QED BY <1>2, <2>2 DEF u
<1>7. ~MisWritten(n, some)
  <2> SUFFICES ASSUME NEW i \in 1..(IF some THEN n + 1 ELSE n), Filled[i].kind = "data"
               PROVE  /\ Filled[i].full
                      /\ (IF i = 1 THEN wire ELSE outq[i - 1].kind) = "piece"
    BY DEF MisWritten
  <2>1. i \in 1..L
    BY <1>1, <1>4
  <2>2. i = 1 \/ i - 1 \in iov
    <3> SUFFICES ASSUME i # 1 PROVE i - 1 \in iov
      OBVIOUS
    <3>1. CASE some
      <4>1. i - 1 \in 1..(n + 1) /\ n + 1 \in iov
        BY <1>1, <1>2, <3>1
      <4> QED BY <1>1, <4>1, IovPrefix
    <3>2. CASE ~some
      <4>1. i - 1 \in 1..n /\ n \in iov
        BY <1>1, <1>2, <3>2
      <4> QED BY <1>1, <4>1, IovPrefix
    <3> QED BY <3>1, <3>2
  <2>3. outq[i].kind = "data"
    BY <1>1, <2>1, FilledIs DEF L
  <2> QED BY <1>1, <2>1, <2>2, <2>3, FullWhenWritten DEF L
<1>8. aborted' = FALSE
  <2>1. MisWritten(n, some) \in BOOLEAN
    BY DEF MisWritten
  <2> QED BY <1>7, <2>1
<1>9. (outq' = <<>> <=> ~ev') /\ ev' \in BOOLEAN /\ (off' => outq' # <<>>)
  <2>1. ev' <=> n < L
    BY DEF L
  <2>2. ev' \in BOOLEAN
    BY <1>1 DEF L
  <2>3. outq' = <<>> <=> L - n = 0
    BY <1>1, <1>5
  <2>4. L - n = 0 <=> ~(n < L)
    BY <1>1
  <2>5. n + 1 \in 1..L => n < L
    BY <1>1
  <2>6. off' => n + 1 \in 1..L
    BY <1>2, <1>4
  <2> QED BY <2>1, <2>2, <2>3, <2>4, <2>5, <2>6
<1>10. norequests' \in BOOLEAN /\ (norequests' => Unchokes(outq'))
  BY <1>2, <1>6 DEF cleared, IInv, TypesOk
<1>11. wire' \in Kinds /\ seen' \in Signals /\ npiece' \in Nat /\ Len(outq') <= MaxQueue
  <2>1. w \in Kinds
    <3>1. CASE n = 0
      BY <3>1 DEF IInv, TypesOk
    <3>2. CASE n # 0
      <4>1. n \in 1..Len(outq)
        BY <1>1, <3>2 DEF L
      <4>2. outq[n] \in Message
        BY <1>1, <4>1
      <4> QED BY <3>2, <4>2 DEF Message
    <3> QED BY <3>1, <3>2
  <2>2. Told(n) \in Signals
    BY <1>1, ToldSignal DEF IInv, TypesOk
  <2>3. npiece' \in Nat
    BY <1>5, <1>6, DataFinite
  <2>4. Len(outq') <= MaxQueue
    BY <1>1, <1>5, OutQueueAssumption
  <2> HIDE DEF w
  <2> QED BY <1>2, <2>1, <2>2, <2>3, <2>4
<1>12. TypesOk'
  BY <1>2, <1>5, <1>8, <1>9, <1>10, <1>11 DEF IInv, TypesOk
<1>13. Fine(Out)'
  <2>1. Out' \in OutRec
    <3>1. npiece' \in Int
      BY <1>11
    <3> QED BY <1>5, <1>9, <3>1 DEF Out, OutRec
  <2>2. Out'.q = outq' /\ Out'.n = npiece' /\ Out'.ev = ev' /\ Out'.wq = FALSE /\ Out'.ok
    BY DEF Out
  <2>3. FirstOk(outq', wire') /\ Paired(outq')
    BY <1>2, <1>6
  <2> HIDE DEF w
  <2> QED BY <1>6, <1>9, <2>1, <2>2, <2>3 DEF Fine
<1>14. Tells(outq, seen, Belief(ichoke))' /\ (norequests' => Unchokes(outq)')
  <2>1. Tells(outq', seen', Belief(ichoke'))
    BY <1>2, <1>6
  <2> QED BY <1>10, <2>1 DEF Tells, Unchokes, Belief
<1> QED BY <1>8, <1>12, <1>13, <1>14 DEF IInv

\* The socket takes nothing: blocks are in memory, that is all.
LEMMA AgainOk ==
    ASSUME IInv, Up, outq # <<>>, outq' = Filled, ev' = TRUE, onwriteq' = FALSE,
           UNCHANGED <<off, npiece, flags, seen, wire, alive, aborted>>,
           limited' \in BOOLEAN, budget' \in BOOLEAN
    PROVE  IInv'
<1>1. outq \in Seq(Message) /\ Len(outq) \in Nat /\ Len(outq) <= MaxQueue
  BY DEF IInv, TypesOk
<1>2. Filled \in Seq(Message) /\ Len(Filled) = Len(outq) /\ Filled # <<>>
  <2>1. Filled \in Seq(Message) /\ Len(Filled) = Len(outq)
    BY <1>1, FilledIs
  <2> QED BY <1>1, <2>1
<1>3. /\ Paired(Filled) /\ FirstOk(Filled, wire) /\ npiece = Cardinality(Data(Filled))
      /\ Tells(Filled, seen, Belief(ichoke)) /\ (norequests => Unchokes(Filled))
  <2> DEFINE u == Filled
  <2>1. u \in Seq(Message) /\ Len(u) = Len(outq) - 0 /\ \A j \in 1..Len(u) : u[j] = Filled[0 + j]
    BY <1>1, <1>2
  <2> HIDE DEF u
  <2>2. 0 \in 0..Len(outq)
    BY <1>1
  <2>3. /\ Paired(u) /\ FirstOk(u, IF 0 = 0 THEN wire ELSE outq[0].kind)
        /\ npiece - Cardinality({i \in 1..0 : outq[i].kind = "data"}) = Cardinality(Data(u))
        /\ Tells(u, Told(0), Belief(ichoke))
        /\ norequests /\ (\A i \in 1..0 : outq[i].kind # "unchoke") => Unchokes(u)
    BY <2>1, <2>2, RestOk
  <2>4. {i \in 1..0 : outq[i].kind = "data"} = {} /\ Cardinality({}) = 0
    BY FS_EmptySet
  <2>5. npiece = Cardinality(Data(u))
    <3>1. npiece - 0 = Cardinality(Data(u)) /\ npiece \in Nat
      BY <2>3, <2>4 DEF IInv, TypesOk
    <3> QED BY <3>1
  <2>6. Told(0) = seen
    <3>1. {i \in 1..0 : outq[i].kind \in {"choke", "unchoke"}} = {}
      OBVIOUS
    <3> QED BY <3>1 DEF Told
  <2> QED BY <2>3, <2>5, <2>6 DEF u
<1>4. ichoke' = ichoke /\ norequests' = norequests /\ want' = want /\ myreq' = myreq
  BY DEF flags
<1>5. TypesOk'
  BY <1>1, <1>2, <1>4 DEF IInv, TypesOk
<1>6. Fine(Out)'
  <2>1. Out' \in OutRec
    <3>1. npiece \in Int
      BY DEF IInv, TypesOk
    <3> QED BY <1>2, <3>1 DEF Out, OutRec
  <2>2. Out'.q = Filled /\ Out'.n = npiece /\ Out'.ev /\ ~Out'.wq /\ Out'.ok
    BY DEF Out
  <2> QED BY <1>2, <1>3, <2>1, <2>2 DEF Fine
<1>7. Tells(outq, seen, Belief(ichoke))' /\ (norequests' => Unchokes(outq)')
  <2>1. Tells(outq', seen', Belief(ichoke')) /\ (norequests' => Unchokes(outq'))
    BY <1>3, <1>4
  <2> QED BY <2>1 DEF Tells, Unchokes, Belief
<1> QED BY <1>5, <1>6, <1>7 DEF IInv

\* A call of net_write.
LEMMA WrittenOk ==
    ASSUME IInv, Up, outq # <<>>, Written, onwriteq' = FALSE,
           limited' \in BOOLEAN, budget' \in BOOLEAN
    PROVE  IInv'
<1>1. ASSUME NEW n \in 0..Len(outq), NEW some \in BOOLEAN, net_write(n, some),
             ev' = (n < Len(outq)), aborted' = MisWritten(n, some)
      PROVE  IInv'
  BY <1>1, WriteOk
<1>2. CASE /\ ev' = TRUE /\ UNCHANGED aborted /\ outq' = Filled
           /\ UNCHANGED <<off, npiece, flags, seen, wire, alive>>
  <2>1. UNCHANGED <<off, npiece, flags, seen, wire, alive, aborted>>
    BY <1>2
  <2> QED BY <1>2, <2>1, AgainOk
<1>3. CASE ev' = FALSE /\ UNCHANGED aborted /\ peer_kill
  <2>1. /\ alive' = FALSE /\ aborted' = aborted
        /\ UNCHANGED <<outq, off, npiece, ichoke, norequests, want, myreq, seen, wire>>
    BY <1>3 DEF peer_kill, flags
  <2>2. TypesOk' /\ aborted' = FALSE
    BY <1>3, <2>1 DEF IInv, TypesOk
  <2> QED BY <2>1, <2>2 DEF IInv
<1> QED BY <1>1, <1>2, <1>3 DEF Written

LEMMA WriteCbOk == IInv /\ net_write_cb => IInv'
<1> SUFFICES ASSUME IInv, net_write_cb PROVE IInv'
  OBVIOUS
<1>1. Up /\ ev /\ ~onwriteq /\ outq # <<>> /\ onwriteq = FALSE /\ limited' = limited /\ limited \in BOOLEAN
  <2>1. Up /\ ev /\ limited' = limited
    BY DEF net_write_cb
  <2>2. Fine(Out) /\ Out.q = outq /\ Out.ev = ev /\ Out.wq = onwriteq
    BY <2>1, OutIs DEF Out
  <2> QED BY <2>1, <2>2 DEF Fine, IInv, TypesOk
<1>2. CASE Written /\ onwriteq' = onwriteq /\ (budget' = budget \/ Left)
  <2>1. budget' \in BOOLEAN
    BY <1>2 DEF Left, IInv, TypesOk
  <2> QED BY <1>1, <1>2, <2>1, WrittenOk
<1>3. CASE /\ ev' = FALSE /\ onwriteq' = TRUE
           /\ UNCHANGED <<outq, off, npiece, flags, budget, seen, wire, alive, aborted>>
  <2>1. UNCHANGED <<outq, off, npiece, ichoke, norequests, want, myreq, budget, seen, wire, alive, aborted>>
    BY <1>3 DEF flags
  <2>2. TypesOk'
    BY <1>1, <1>3, <2>1 DEF IInv, TypesOk
  <2>3. Fine(Out)'
    <3>1. Fine(Out) /\ Out.q = outq /\ Out.n = npiece
      BY <1>1, OutIs DEF Out
    <3>2. Out' \in OutRec
      <4>1. npiece \in Int /\ outq \in Seq(Message)
        BY DEF IInv, TypesOk
      <4> QED BY <1>3, <2>1, <4>1 DEF Out, OutRec
    <3>3. Out'.q = outq /\ Out'.n = npiece /\ ~Out'.ev /\ Out'.wq /\ Out'.ok
      BY <1>3, <2>1 DEF Out
    <3> QED BY <1>1, <2>1, <3>1, <3>2, <3>3 DEF Fine
  <2>4. /\ Tells(outq, seen, Belief(ichoke))' = Tells(outq, seen, Belief(ichoke))
        /\ Unchokes(outq)' = Unchokes(outq)
    BY <2>1 DEF Tells, Unchokes, Belief
  <2> QED BY <2>1, <2>2, <2>3, <2>4 DEF IInv
<1> QED BY <1>2, <1>3 DEF net_write_cb

LEMMA TickOk == IInv /\ net_bw_tick => IInv'
<1> SUFFICES ASSUME IInv, net_bw_tick PROVE IInv'
  OBVIOUS
<1>1. Up /\ limited' = limited /\ limited' \in BOOLEAN /\ budget' \in BOOLEAN
  BY DEF net_bw_tick, Left, IInv, TypesOk
<1>2. CASE onwriteq /\ Written /\ onwriteq' = FALSE
  <2>1. Fine(Out) /\ Out.q = outq /\ Out.ev = ev /\ Out.wq = onwriteq
    BY <1>1, OutIs DEF Out
  <2>2. outq # <<>>
    BY <1>2, <2>1 DEF Fine
  <2> QED BY <1>1, <1>2, <2>2, WrittenOk
<1>3. CASE UNCHANGED <<outq, off, npiece, flags, ev, onwriteq, seen, wire, alive, aborted>>
  <2>1. /\ UNCHANGED <<outq, off, npiece, ichoke, norequests, ev, onwriteq, seen, wire, alive, aborted>>
        /\ want' \in BOOLEAN /\ myreq' \in BOOLEAN
    BY <1>3 DEF flags, IInv, TypesOk
  <2> QED BY <1>1, <2>1, QuietOk
<1> QED BY <1>2, <1>3 DEF net_bw_tick

------------------------------------------------------------------------------
(* The theorems *)

LEMMA InitOk == Init => IInv
<1> SUFFICES ASSUME Init PROVE IInv
  OBVIOUS
<1>1. /\ outq = <<>> /\ off = FALSE /\ npiece = 0 /\ ichoke = TRUE /\ norequests = FALSE
      /\ want = FALSE /\ myreq = FALSE /\ ev = FALSE /\ onwriteq = FALSE
      /\ limited \in BOOLEAN /\ budget = limited /\ seen = "choke" /\ wire = "other"
      /\ alive = TRUE /\ aborted = FALSE
  BY DEF Init
<1>2. outq \in Seq(Message) /\ Len(outq) = 0 /\ 1..0 = {}
  BY <1>1
<1>3. TypesOk
  <2>1. outq \in Seq(Message) /\ Len(outq) <= MaxQueue /\ npiece \in Nat
    <3>1. Len(outq) <= MaxQueue
      BY <1>2, OutQueueAssumption
    <3> QED BY <1>1, <1>2, <3>1
  <2>2. /\ off \in BOOLEAN /\ ichoke \in BOOLEAN /\ norequests \in BOOLEAN
        /\ want \in BOOLEAN /\ myreq \in BOOLEAN /\ ev \in BOOLEAN
        /\ onwriteq \in BOOLEAN /\ limited \in BOOLEAN /\ budget \in BOOLEAN
        /\ alive \in BOOLEAN /\ aborted \in BOOLEAN
    BY <1>1
  <2>3. seen \in Signals /\ wire \in Kinds
    BY <1>1 DEF Signals, Kinds
  <2> QED BY <2>1, <2>2, <2>3 DEF TypesOk
<1>4. Data(outq) = {} /\ Cardinality(Data(outq)) = 0
  BY <1>2, FS_EmptySet DEF Data
<1>5. Fine(Out)
  <2>1. Out \in OutRec
    <3>1. npiece \in Int /\ ev \in BOOLEAN /\ onwriteq \in BOOLEAN
      BY <1>3 DEF TypesOk
    <3> QED BY <1>2, <3>1 DEF Out, OutRec
  <2>2. Out.q = outq /\ Out.n = 0 /\ ~Out.ev /\ ~Out.wq /\ Out.ok
    BY <1>1 DEF Out
  <2>3. Paired(outq) /\ FirstOk(outq, wire)
    BY <1>1, <1>2 DEF Paired, FirstOk
  <2> QED BY <1>1, <1>4, <2>1, <2>2, <2>3 DEF Fine
<1>6. Tells(outq, seen, Belief(ichoke))
  BY <1>1, <1>2 DEF Tells, Belief
<1> QED BY <1>1, <1>3, <1>5, <1>6 DEF IInv

LEMMA NextOk == IInv /\ [Next]_vars => IInv'
<1> SUFFICES ASSUME IInv, [Next]_vars PROVE IInv'
  OBVIOUS
<1>1. CASE send_other \/ peer_want \/ peer_request \/ peer_cancel \/ peer_unchoke \/ peer_choke
  BY <1>1, SendOtherOk, WantOk, RequestOk, CancelOk, UnchokeOk, ChokeOk
<1>2. CASE request_done \/ peer_on_choke \/ peer_on_interest \/ cmd_rate
  BY <1>2, DoneOk, OnChokeOk
<1>3. ASSUME NEW b \in Blocks, peer_on_request(b) \/ peer_on_cancel(b) PROVE IInv'
  BY <1>3, AnswerOk, OnCancelOk
<1>4. CASE net_write_cb \/ net_bw_tick
  BY <1>4, WriteCbOk, TickOk
<1>5. CASE UNCHANGED vars
  <2>1. /\ UNCHANGED <<outq, off, npiece, ichoke, norequests, ev, onwriteq, seen, wire, alive, aborted>>
        /\ want' \in BOOLEAN /\ myreq' \in BOOLEAN /\ limited' \in BOOLEAN /\ budget' \in BOOLEAN
    BY <1>5 DEF vars, flags, IInv, TypesOk
  <2> QED BY <2>1, QuietOk
<1> QED BY <1>1, <1>2, <1>3, <1>4, <1>5 DEF Next

LEMMA Invariance == Spec => []IInv
BY InitOk, NextOk, PTL DEF Spec

\* Whatever is queued, taken back, partly written or delayed by the bandwidth
\* limit, and however the socket takes it: a peer with something to write has
\* its write event on or waits in net_bw_writeq and never both, one with
\* nothing to write does neither, npiece_msgs is the number of blocks queued,
\* and no assertion of peer_send, peer_unsend, peer_sent or net_write fails.
THEOREM WriteCorrect == Spec => []WriteArmed
<1>1. ASSUME IInv PROVE WriteArmed
  <2>1. TypesOk /\ aborted = FALSE
    BY <1>1 DEF IInv
  <2>2. ASSUME alive
        PROVE  /\ npiece = Cardinality(Positions(Out, "data"))
               /\ outq = <<>> <=> ~ev /\ ~onwriteq
               /\ ~(ev /\ onwriteq)
    <3>1. Fine(Out) /\ Out.q = outq /\ Out.n = npiece /\ Out.ev = ev /\ Out.wq = onwriteq
      BY <1>1, <2>2 DEF IInv, Out
    <3>2. Positions(Out, "data") = Data(outq)
      BY <3>1 DEF Positions, Data
    <3> QED BY <3>1, <3>2 DEF Fine
  <2>3. TypeOK
    BY <2>1, <2>2 DEF TypesOk, TypeOK, Message, Signals
  <2> QED BY <2>1, <2>2, <2>3 DEF WriteArmed
<1> QED BY <1>1, Invariance, PTL

\* Once all that is queued is written, a peer knows whether it is choked, even
\* where peer_on_request refuses requests by a choke and an unchoke and
\* peer_choke takes blocks back from between them; and a peer whose requests
\* are ignored (PF_NO_REQUESTS) still has the unchoke in its queue that ends it.
THEOREM ToldCorrect == Spec => []ChokeTold
<1>1. ASSUME IInv PROVE ChokeTold
  <2> SUFFICES ASSUME alive
               PROVE  /\ Told(Len(outq)) = Belief(ichoke)
                      /\ norequests => Positions(Out, "unchoke") # {}
    BY DEF ChokeTold, Belief
  <2>1. outq \in Seq(Message) /\ Tells(outq, seen, Belief(ichoke)) /\ (norequests => Unchokes(outq))
    BY <1>1 DEF IInv, TypesOk
  <2>2. Len(outq) \in 0..Len(outq) /\ \A m \in 1..Len(outq) : ~(m > Len(outq))
    BY <2>1
  <2>3. Told(Len(outq)) = Belief(ichoke)
    BY <2>1, <2>2, ToldIs
  <2>4. Out.q = outq
    BY DEF Out
  <2> QED BY <2>1, <2>3, <2>4 DEF Unchokes, Positions
<1> QED BY <1>1, Invariance, PTL

------------------------------------------------------------------------------
(* The loop over a batch of events: EvBatch *)

\* Callbacks are only due to events that are asked for something; the entries
\* still ahead in the batch are of events that were there when it was handed out.
BInv ==
    /\ Batch!BatchLive /\ bbad = FALSE
    /\ valid \in [1..Len(batch) -> BOOLEAN] /\ Len(batch) <= MaxBatch
    /\ bcur = 0 => batch = <<>>
    /\ \A e \in Events : enabled[e] # {} => e \in known
    /\ \A i \in Batch!Ahead : batch[i].ev \in known \ renewed

\* The facts of BInv in a form the steps can use.
LEMMA BatchFacts ==
    ASSUME BInv
    PROVE  /\ enabled \in [Events -> SUBSET {"read", "write"}] /\ known \subseteq Events
           /\ idx \in [Events -> SUBSET (1..MaxBatch)]
           /\ Len(batch) \in 0..MaxBatch /\ DOMAIN batch = 1..Len(batch)
           /\ \A i \in 1..Len(batch) : batch[i].ev \in Events
           /\ valid \in [1..Len(batch) -> BOOLEAN]
           /\ bcur \in 0..Len(batch)
           /\ Batch!Ahead = {i \in 1..Len(batch) : i >= bcur /\ valid[i]}
<1>1. /\ enabled \in [Events -> SUBSET {"read", "write"}] /\ known \subseteq Events
      /\ idx \in [Events -> SUBSET (1..MaxBatch)] /\ bcur \in 0..Len(batch)
      /\ valid \in [1..Len(batch) -> BOOLEAN] /\ batch \in Seq(Batch!Entry)
      /\ Len(batch) <= MaxBatch
  BY DEF BInv, Batch!BatchLive, Batch!TypeOK, Batch!Types
<1>2. Len(batch) \in Nat /\ DOMAIN batch = 1..Len(batch) /\ \A i \in 1..Len(batch) : batch[i] \in Batch!Entry
  BY <1>1
<1>3. \A i \in 1..Len(batch) : batch[i].ev \in Events
  BY <1>2 DEF Batch!Entry
<1>4. Batch!Ahead = {i \in 1..Len(batch) : i >= bcur /\ valid[i]}
  BY <1>2 DEF Batch!Ahead
<1> QED BY <1>1, <1>2, <1>3, <1>4, ConnectionsAssumption

\* fdev_new: a new event is not among the entries still ahead.
LEMMA BatchNew ==
    ASSUME BInv, NEW e \in Events, NEW ts \in Batch!Asked(e), Batch!fdev_new(e, ts)
    PROVE  BInv'
<1> USE ConnectionsAssumption DEF Batch!fdev_new
<1>0. ts \in SUBSET {"read", "write"}
  BY DEF Batch!Asked, Batch!Types
<1>1. Batch!Ahead' = Batch!Ahead
  BY DEF Batch!Ahead
<1>2. Batch!TypeOK'
  BY <1>0, BatchFacts DEF BInv, Batch!BatchLive, Batch!TypeOK, Batch!Types, Batch!MayOperate, Batch!Operated, Batch!Entry
<1>3. \A i \in Batch!Ahead : batch[i].ev \in known /\ batch[i].ev # e /\ batch[i].ev \notin renewed
  BY DEF BInv
<1>4. bcur = 0 => Batch!Ahead = {}
  <2>1. bcur = 0 => Len(batch) = 0
    BY DEF BInv
  <2> QED BY <2>1, BatchFacts
<1>5. \A i \in Batch!Ahead' : batch'[i].ev \in known' \ renewed'
  BY <1>1, <1>3
<1>6. \A f \in known' : idx'[f] = {i \in Batch!Ahead' : batch'[i].ev = f}
  BY <1>1, <1>3, BatchFacts DEF BInv, Batch!BatchLive
<1>7. \A f \in Events : enabled'[f] # {} => f \in known'
  BY BatchFacts DEF BInv
<1> QED BY <1>2, <1>5, <1>6, <1>7 DEF BInv, Batch!BatchLive

\* fdev_enable and fdev_disable.
LEMMA BatchChange ==
    ASSUME BInv, NEW e \in Events, NEW ts \in Batch!Asked(e), Batch!fdev_change(e, ts)
    PROVE  BInv'
<1> USE ConnectionsAssumption DEF Batch!fdev_change
<1>0. ts \in SUBSET {"read", "write"}
  BY DEF Batch!Asked, Batch!Types
<1>1. Batch!Ahead' = Batch!Ahead
  BY DEF Batch!Ahead
<1>2. Batch!TypeOK'
  BY <1>0, BatchFacts DEF BInv, Batch!BatchLive, Batch!TypeOK, Batch!Types, Batch!MayOperate, Batch!Operated, Batch!Entry
<1>3. \A f \in Events : enabled'[f] # {} => f \in known'
  BY BatchFacts DEF BInv
<1> QED BY <1>1, <1>2, <1>3 DEF BInv, Batch!BatchLive

\* fdev_del: its entries are struck from the batch.
LEMMA BatchDel ==
    ASSUME BInv, NEW e \in Events, Batch!fdev_del(e)
    PROVE  BInv'
<1> USE ConnectionsAssumption DEF Batch!fdev_del
<1>0. DOMAIN valid = 1..Len(batch)
  BY BatchFacts
<1>1. valid' \in [1..Len(batch) -> BOOLEAN]
  BY <1>0, BatchFacts
<1>2. idx[e] = {i \in Batch!Ahead : batch[i].ev = e}
  BY DEF BInv, Batch!BatchLive
<1>3. Batch!Ahead' = {i \in Batch!Ahead : batch[i].ev # e}
  <2>1. Batch!Ahead' = {i \in 1..Len(batch) : i >= bcur /\ valid'[i]}
    BY BatchFacts DEF Batch!Ahead
  <2>2. \A i \in 1..Len(batch) : valid'[i] <=> valid[i] /\ i \notin idx[e]
    BY <1>0 DEF Batch!positions
  <2> QED BY <2>1, <2>2, <1>2, BatchFacts
<1>4. Batch!TypeOK'
  BY <1>1, BatchFacts DEF BInv, Batch!BatchLive, Batch!TypeOK, Batch!Types, Batch!MayOperate, Batch!Operated, Batch!Entry
<1>5. \A i \in Batch!Ahead' : batch'[i].ev \in known' \ renewed'
  BY <1>3 DEF BInv
<1>6. \A f \in known' : idx'[f] = {i \in Batch!Ahead' : batch'[i].ev = f}
  BY <1>3 DEF BInv, Batch!BatchLive
<1>7. \A f \in Events : enabled'[f] # {} => f \in known'
  BY BatchFacts DEF BInv
<1> QED BY <1>1, <1>4, <1>5, <1>6, <1>7 DEF BInv, Batch!BatchLive

\* A batch is of events that are known and asked for something.
LEMMA BatchWait ==
    ASSUME BInv, Batch!epoll_wait
    PROVE  BInv'
<1> USE ConnectionsAssumption
<1>1. PICK n \in 1..MaxBatch : \E b \in [1..n -> Batch!Reports] :
         /\ batch' = b
         /\ idx' = [e \in Events |-> IF \E i \in 1..n : b[i].ev = e
                                     THEN {i \in 1..n : b[i].ev = e} ELSE idx[e]]
         /\ valid' = [i \in 1..n |-> TRUE]
  BY DEF Batch!epoll_wait
<1>2. PICK b \in [1..n -> Batch!Reports] :
         /\ batch' = b
         /\ idx' = [e \in Events |-> IF \E i \in 1..n : b[i].ev = e
                                     THEN {i \in 1..n : b[i].ev = e} ELSE idx[e]]
         /\ valid' = [i \in 1..n |-> TRUE]
  BY <1>1
<1>3. /\ bcur = 0 /\ bcur' = 1 /\ btype' = "read" /\ renewed' = {}
      /\ UNCHANGED <<split, enabled, known, bcalled, bops, bbad>>
  BY DEF Batch!epoll_wait
<1>4. \A x \in Batch!Reports : x \in Batch!Entry /\ x.ev \in Events /\ x.ev \in known
  BY BatchFacts DEF Batch!Reports, Batch!Entry, BInv
<1>5. /\ batch' \in Seq(Batch!Entry) /\ Len(batch') = n /\ DOMAIN batch' = 1..n
      /\ \A i \in 1..n : batch'[i] \in Batch!Reports
  BY <1>2, <1>4
<1>6. Batch!Ahead' = 1..n
  BY <1>2, <1>3, <1>5 DEF Batch!Ahead
<1>7. \A e \in known : idx[e] = {}
  <2>1. Len(batch) = 0
    BY <1>3 DEF BInv
  <2>2. Batch!Ahead = {}
    BY <2>1, BatchFacts
  <2> QED BY <2>2 DEF BInv, Batch!BatchLive
<1>8. \A e \in known : idx'[e] = {i \in 1..n : batch'[i].ev = e}
  BY <1>2, <1>7, BatchFacts
<1>9. Batch!TypeOK'
  BY <1>2, <1>3, <1>5, BatchFacts DEF BInv, Batch!BatchLive, Batch!TypeOK, Batch!Types
<1> QED BY <1>2, <1>3, <1>4, <1>5, <1>6, <1>8, <1>9 DEF BInv, Batch!BatchLive

\* A callback begins, returns or is not due.
LEMMA BatchCallback ==
    ASSUME BInv, NEW t \in {"read", "write"},
           Batch!callback(t) \/ Batch!return(t) \/ Batch!skip(t)
    PROVE  BInv'
<1> USE ConnectionsAssumption
<1>1. /\ UNCHANGED <<split, enabled, known, idx, renewed, batch, valid, bcur>>
      /\ btype' \in {"read", "write", "next"}
      /\ bcalled' \in Events \union {None} /\ bops' \in 0..MaxOps
  <2>1. /\ bops \in 0..MaxOps /\ MaxOps \in 0..MaxOps /\ 0 \in 0..MaxOps
        /\ bcalled \in Events \union {None}
    BY DEF BInv, Batch!BatchLive, Batch!TypeOK
  <2>2. CASE Batch!callback(t)
    <3>1. batch[bcur].ev \in Events
      BY <2>2, BatchFacts DEF Batch!callback
    <3> QED BY <2>1, <2>2, <3>1 DEF Batch!callback, Batch!regs
  <2>3. CASE Batch!return(t)
    BY <2>1, <2>3 DEF Batch!return, Batch!regs, Batch!Later
  <2>4. CASE Batch!skip(t)
    BY <2>1, <2>4 DEF Batch!skip, Batch!regs, Batch!Later
  <2> QED BY <2>2, <2>3, <2>4
<1>2. bbad' = FALSE
  <2>1. CASE Batch!callback(t)
    <3>1. bcur \in Batch!Ahead /\ t \in enabled[batch[bcur].ev]
      BY <2>1, BatchFacts DEF Batch!callback, Batch!calls
    <3> QED BY <2>1, <3>1 DEF Batch!callback, BInv
  <2> QED BY <2>1 DEF Batch!return, Batch!skip, BInv
<1>3. Batch!Ahead' = Batch!Ahead
  BY <1>1 DEF Batch!Ahead
<1>4. Batch!TypeOK'
  BY <1>1 DEF BInv, Batch!BatchLive, Batch!TypeOK, Batch!Types, Batch!Entry
<1> QED BY <1>1, <1>2, <1>3, <1>4 DEF BInv, Batch!BatchLive

\* The loop goes to the next valid entry, or out of the batch.
LEMMA BatchNext ==
    ASSUME BInv, Batch!next
    PROVE  BInv'
<1> USE ConnectionsAssumption
<1> DEFINE e == batch[bcur].ev
<1>1. bcur \in 1..Len(batch) /\ e \in Events
  BY BatchFacts DEF Batch!next
<1>2. /\ idx' = IF valid[bcur] THEN [idx EXCEPT ![e] = @ \ {bcur}] ELSE idx
      /\ bbad' = (valid[bcur] /\ (e \notin known \/ e \in renewed))
      /\ UNCHANGED <<split, enabled, known, renewed, bcalled, bops>>
  BY DEF Batch!next
<1>3. bbad' = FALSE
  <2>1. valid[bcur] => bcur \in Batch!Ahead
    BY <1>1, BatchFacts
  <2> QED BY <1>2, <2>1 DEF BInv
<1>4. /\ Batch!Ahead' = Batch!Ahead \ {bcur} /\ batch' \in Seq(Batch!Entry)
      /\ bcur' \in 0..Len(batch') /\ DOMAIN batch' = 1..Len(batch')
      /\ \A i \in Batch!Ahead' : batch'[i] = batch[i]
      /\ valid' \in [1..Len(batch') -> BOOLEAN] /\ Len(batch') <= MaxBatch
      /\ (bcur' = 0 => batch' = <<>>)
      /\ btype' \in {"read", "write", "next"}
  <2>1. CASE bcur < Len(batch)
    <3>1. bcur' = bcur + 1 /\ btype' = "read" /\ UNCHANGED <<batch, valid>>
      BY <2>1 DEF Batch!next
    <3>2. Batch!Ahead' = Batch!Ahead \ {bcur}
      BY <3>1, BatchFacts DEF Batch!Ahead
    <3> QED BY <2>1, <3>1, <3>2, <1>1, BatchFacts DEF BInv, Batch!BatchLive, Batch!TypeOK, Batch!Entry
  <2>2. CASE ~(bcur < Len(batch))
    <3>1. bcur' = 0 /\ btype' = "next" /\ batch' = <<>> /\ valid' = <<>>
      BY <2>2 DEF Batch!next
    <3>2. Batch!Ahead' = {}
      BY <3>1 DEF Batch!Ahead
    <3>3. Batch!Ahead \subseteq {bcur}
      BY <2>2, <1>1, BatchFacts
    <3>4. valid' \in [1..0 -> BOOLEAN]
      BY <3>1
    <3> QED BY <3>1, <3>2, <3>3, <3>4
  <2> QED BY <2>1, <2>2
<1>5. Batch!TypeOK'
  <2>1. idx' \in [Events -> SUBSET (1..MaxBatch)]
    BY <1>2, BatchFacts
  <2>2. DOMAIN valid' = DOMAIN batch'
    BY <1>4
  <2>3. Batch!Entry' = Batch!Entry
    BY DEF Batch!Entry
  <2> QED BY <1>2, <1>4, <2>1, <2>2, <2>3 DEF BInv, Batch!BatchLive, Batch!TypeOK, Batch!Types
<1>6. \A f \in known' : idx'[f] = {i \in Batch!Ahead' : batch'[i].ev = f}
  <2> SUFFICES ASSUME NEW f \in known PROVE idx'[f] = {i \in Batch!Ahead' : batch'[i].ev = f}
    BY <1>2
  <2>1. idx[f] = {i \in Batch!Ahead : batch[i].ev = f}
    BY DEF BInv, Batch!BatchLive
  <2>2. {i \in Batch!Ahead' : batch'[i].ev = f} = {i \in Batch!Ahead \ {bcur} : batch[i].ev = f}
    BY <1>4
  <2>3. CASE valid[bcur]
    <3>1. idx'[f] = IF f = e THEN idx[f] \ {bcur} ELSE idx[f]
      BY <1>2, <2>3, BatchFacts, <1>1
    <3> QED BY <3>1, <2>1, <2>2
  <2>4. CASE ~valid[bcur]
    <3>1. bcur \notin Batch!Ahead
      BY <2>4, BatchFacts
    <3> QED BY <3>1, <2>1, <2>2, <2>4, <1>2
  <2> QED BY <2>3, <2>4
<1>7. \A i \in Batch!Ahead' : batch'[i].ev \in known' \ renewed'
  BY <1>2, <1>4 DEF BInv
<1>8. \A f \in Events : enabled'[f] # {} => f \in known'
  BY <1>2 DEF BInv
<1> QED BY <1>3, <1>4, <1>5, <1>6, <1>7, <1>8 DEF BInv, Batch!BatchLive

\* The loops over epoll and kqueue make no callback for an event that is gone,
\* set up anew or not enabled, whatever callbacks do to the batch (BatchLive).
THEOREM BatchCorrect == Batch!Spec => []Batch!BatchLive
<1>1. Batch!Init => BInv
  BY ConnectionsAssumption DEF Batch!Init, BInv, Batch!BatchLive, Batch!TypeOK, Batch!Types, Batch!Ahead, Batch!Entry
<1>2. BInv /\ [Batch!Next]_Batch!vars => BInv'
  <2> SUFFICES ASSUME BInv, [Batch!Next]_Batch!vars PROVE BInv'
    OBVIOUS
  <2>1. CASE UNCHANGED Batch!vars
    BY <2>1 DEF Batch!vars, Batch!regs, BInv, Batch!BatchLive, Batch!TypeOK, Batch!Types, Batch!Ahead, Batch!Entry
  <2>2. CASE Batch!Next
    BY <2>2, BatchNew, BatchChange, BatchDel, BatchWait, BatchCallback, BatchNext
       DEF Batch!Next, Batch!Types
  <2> QED BY <2>1, <2>2
<1>3. BInv => Batch!BatchLive
  BY DEF BInv
<1> QED BY <1>1, <1>2, <1>3, PTL DEF Batch!Spec
------------------------------------------------------------------------------
(* The loop over poll: EvLoop *)

\* The instance has the library's Cardinality under another name.
LEMMA LoopCardinality == \A S : Loop!Cardinality(S) = Cardinality(S)
BY DEF Cardinality, Loop!Cardinality

Slot == [ev : Events \union {None}, events : SUBSET {"read", "write"},
         revents : SUBSET {"read", "write"}]

\* Events and the entries in use are in bijection, and no entry of a btcli
\* connection asks for "write".
Entries ==
    /\ slot \in [0..(Capacity - 1) -> Slot]
    /\ size \in 0..Capacity /\ ix \in [Events -> Int]
    /\ \A e \in Events : ix[e] # -1 => ix[e] \in 0..(size - 1) /\ slot[ix[e]].ev = e
    /\ \A i \in 0..(size - 1) :
         /\ slot[i].ev \in Events /\ ix[slot[i].ev] = i
         /\ slot[i].ev \in Clients => slot[i].events \subseteq {"read"}

Counted == IsFiniteSet(Loop!Known) /\ size = Cardinality(Loop!Known)

\* While a callback runs: another event's than a btcli connection's is where it
\* was or noted as removed; a btcli connection's may have been moved, and what
\* is left in its place never asks for "write".
Calling ==
    IF called \notin Clients
    THEN IF curdel THEN ix[called] = -1
         ELSE cur < size /\ slot[cur].ev = called
    ELSE type = "read" /\ (~curdel => slot[cur].ev = called /\ slot[cur].events \subseteq {"read"})

\* Where the loop is.
Place ==
    /\ type \in {"poll", "read", "write", "next"}
    /\ curdel \in BOOLEAN /\ bad = FALSE /\ ops \in 0..MaxOps /\ called \in Events \union {None}
    /\ IF type = "poll" THEN cur = -1 /\ ~curdel ELSE cur \in 0..(Capacity - 1)
    /\ type \in {"poll", "next"} => called = None
    /\ type = "read" /\ called = None => ~curdel /\ cur < size
    /\ type = "write" /\ called = None /\ ~curdel => cur < size \/ "write" \notin slot[cur].events
    /\ called # None => Calling

\* The inductive invariant.
LInv == Entries /\ Counted /\ Place

\* What LInv says in the words of the property.
LEMMA LoopFollows == LInv => Loop!CallsLive
<1> SUFFICES ASSUME LInv PROVE Loop!CallsLive
  OBVIOUS
<1>1. Entries /\ Counted /\ Place
  BY DEF LInv
<1>2. cur \in -1..(Capacity - 1)
  BY <1>1, ConnectionsAssumption DEF Place
<1>3. slot \in [Loop!Slots -> [ev : Events \union {None}, events : SUBSET Loop!Types,
                              revents : SUBSET Loop!Types]]
  BY <1>1 DEF Entries, Slot, Loop!Slots, Loop!Types
<1>4. \A e \in Loop!Known : ix[e] \in 0..(size - 1) /\ slot[ix[e]].ev = e
  BY <1>1 DEF Entries, Loop!Known
<1>5. size = Cardinality(Loop!Known) /\ size <= Capacity
  BY <1>1, ConnectionsAssumption DEF Entries, Counted
<1>6. /\ {curdel, bad} \subseteq BOOLEAN /\ ~bad
      /\ type \in Loop!Types \union {"poll", "next"}
      /\ called \in Events \union {None} /\ ops \in 0..MaxOps
  BY <1>1 DEF Place, Loop!Types
<1> QED BY <1>2, <1>3, <1>4, <1>5, <1>6, LoopCardinality DEF Loop!CallsLive, Loop!TypeOK

\* fdev_new: the entry is added at the end; no callback of a btcli connection does it.
LEMMA LoopNew ==
    ASSUME LInv, NEW e \in Events, NEW ts \in Loop!Asked(e), Loop!fdev_new(e, ts)
    PROVE  LInv'
<1> USE ConnectionsAssumption
<1>0. Entries /\ Counted /\ Place
  BY DEF LInv
<1>1. /\ ts \in SUBSET {"read", "write"} /\ (e \in Clients => ts \subseteq {"read"})
  BY DEF Loop!Asked, Loop!Types
<1>2. /\ ix[e] = -1 /\ size \in 0..(Capacity - 1) /\ e # called /\ called \notin Clients
      /\ slot' = [slot EXCEPT ![size] = [slot[size] EXCEPT !.ev = e, !.events = ts]]
      /\ ix' = [ix EXCEPT ![e] = size] /\ size' = size + 1
      /\ UNCHANGED <<cur, curdel, type, called, bad>>
  <2>1. /\ ix[e] = -1 /\ size \in 0..(Capacity - 1) /\ e # called /\ called \notin Clients
    BY <1>0 DEF Loop!fdev_new, Loop!Known, Entries
  <2>2. slot' = [slot EXCEPT ![size] = [slot[size] EXCEPT !.ev = e, !.events = ts]]
    BY <1>0, <2>1 DEF Loop!fdev_new, Entries
  <2> QED BY <2>1, <2>2 DEF Loop!fdev_new
<1>3. ops' \in 0..MaxOps
  BY <1>0 DEF Loop!fdev_new, Loop!MayOperate, Loop!Operated, Place
<1>4. Entries'
  <2> DEFINE x0 == [slot[size] EXCEPT !.ev = e, !.events = ts]
  <2>8. x0 \in Slot /\ x0.ev = e /\ x0.events = ts
    <3>1. slot[size] \in Slot
      BY <1>0, <1>2 DEF Entries
    <3> QED BY <3>1, <1>1 DEF Slot
  <2>9. slot' = [slot EXCEPT ![size] = x0]
    BY <1>2
  <2> HIDE DEF x0
  <2>1. \A j \in 0..(Capacity - 1) : j # size => slot'[j] = slot[j]
    BY <1>0, <1>2, <2>9 DEF Entries
  <2>2. slot'[size].ev = e /\ slot'[size].events = ts
    BY <1>0, <1>2, <2>8, <2>9 DEF Entries
  <2>3. \A x \in Events : ix'[x] = IF x = e THEN size ELSE ix[x]
    BY <1>0, <1>2 DEF Entries
  <2>4. slot' \in [0..(Capacity - 1) -> Slot]
    BY <1>0, <1>2, <2>8, <2>9 DEF Entries
  <2>5. size' \in 0..Capacity /\ ix' \in [Events -> Int]
    BY <1>0, <1>2 DEF Entries
  <2>6. \A x \in Events : ix'[x] # -1 => ix'[x] \in 0..(size' - 1) /\ slot'[ix'[x]].ev = x
    BY <1>0, <1>2, <2>1, <2>2, <2>3 DEF Entries
  <2>7. ASSUME NEW j \in 0..(size' - 1)
        PROVE  /\ slot'[j].ev \in Events /\ ix'[slot'[j].ev] = j
               /\ slot'[j].ev \in Clients => slot'[j].events \subseteq {"read"}
    <3>1. CASE j = size
      BY <3>1, <2>2, <2>3, <1>1
    <3>2. CASE j # size
      <4>1. j \in 0..(size - 1) /\ j \in 0..(Capacity - 1)
        BY <3>2, <1>2
      <4>2. slot'[j] = slot[j] /\ slot[j].ev # e
        BY <4>1, <3>2, <2>1, <1>0, <1>2 DEF Entries
      <4> QED BY <4>1, <4>2, <2>3, <1>0 DEF Entries
    <3> QED BY <3>1, <3>2
  <2> QED BY <2>4, <2>5, <2>6, <2>7 DEF Entries
<1>5. Counted'
  <2>1. Loop!Known' = Loop!Known \union {e} /\ e \notin Loop!Known
    BY <1>0, <1>2 DEF Loop!Known, Entries
  <2> QED BY <2>1, <1>0, <1>2, FS_AddElement DEF Counted
<1>6. Place'
  <2>1. type = "poll" \/ called # None
    BY DEF Loop!fdev_new, Loop!MayOperate
  <2>2. called # None => Calling'
    <3> SUFFICES ASSUME called # None PROVE Calling'
      OBVIOUS
    <3>1. called \in Events /\ cur \in 0..(Capacity - 1) /\ Calling
      BY <1>0 DEF Place
    <3>2. CASE curdel
      BY <3>1, <3>2, <1>0, <1>2 DEF Calling, Entries
    <3>3. CASE ~curdel
      <4>1. cur < size /\ slot[cur].ev = called
        BY <3>1, <3>3, <1>2 DEF Calling
      <4>2. slot'[cur] = slot[cur]
        BY <4>1, <3>1, <1>0, <1>2 DEF Entries
      <4> QED BY <4>1, <4>2, <3>1, <3>3, <1>2 DEF Calling
    <3> QED BY <3>2, <3>3
  <2> QED BY <2>1, <2>2, <1>0, <1>2, <1>3 DEF Place
<1> QED BY <1>4, <1>5, <1>6 DEF LInv

\* fdev_enable and fdev_disable.
LEMMA LoopChange ==
    ASSUME LInv, NEW e \in Events, NEW ts \in Loop!Asked(e), Loop!fdev_change(e, ts)
    PROVE  LInv'
<1> USE ConnectionsAssumption
<1>0. Entries /\ Counted /\ Place
  BY DEF LInv
<1>1. /\ ts \in SUBSET {"read", "write"} /\ (e \in Clients => ts \subseteq {"read"})
  BY DEF Loop!Asked, Loop!Types
<1>2. /\ ix[e] \in 0..(size - 1) /\ slot[ix[e]].ev = e
      /\ slot' = [slot EXCEPT ![ix[e]] = [slot[ix[e]] EXCEPT !.events = ts]]
      /\ UNCHANGED <<size, ix, cur, curdel, type, called, bad>>
  BY <1>0 DEF Loop!fdev_change, Loop!Known, Entries
<1>3. ops' \in 0..MaxOps
  BY <1>0 DEF Loop!fdev_change, Loop!MayOperate, Loop!Operated, Place
<1> DEFINE i == ix[e]
           x0 == [slot[i] EXCEPT !.events = ts]
<1>7. x0 \in Slot /\ x0.ev = e /\ x0.events = ts
  <2>1. slot[i] \in Slot
    BY <1>0, <1>2 DEF Entries
  <2> QED BY <2>1, <1>1, <1>2 DEF Slot
<1>8. slot' = [slot EXCEPT ![i] = x0] /\ i \in 0..(Capacity - 1)
  BY <1>0, <1>2 DEF Entries
<1> HIDE DEF x0
<1>9. /\ \A j \in 0..(Capacity - 1) : j # i => slot'[j] = slot[j]
      /\ slot'[i] = x0
  BY <1>0, <1>8 DEF Entries
<1>4. Entries'
  <2>1. \A j \in 0..(Capacity - 1) : j # ix[e] => slot'[j] = slot[j]
    BY <1>9
  <2>2. slot'[ix[e]].ev = e /\ slot'[ix[e]].events = ts
    BY <1>7, <1>9
  <2>3. slot' \in [0..(Capacity - 1) -> Slot]
    BY <1>0, <1>7, <1>8 DEF Entries
  <2>4. \A x \in Events : ix'[x] # -1 => ix'[x] \in 0..(size' - 1) /\ slot'[ix'[x]].ev = x
    BY <1>0, <1>2, <2>1, <2>2 DEF Entries
  <2>5. \A j \in 0..(size' - 1) :
           /\ slot'[j].ev \in Events /\ ix'[slot'[j].ev] = j
           /\ slot'[j].ev \in Clients => slot'[j].events \subseteq {"read"}
    BY <1>0, <1>1, <1>2, <2>1, <2>2 DEF Entries
  <2> QED BY <1>0, <1>2, <2>3, <2>4, <2>5 DEF Entries
<1>5. Counted'
  BY <1>0, <1>2 DEF Counted, Loop!Known
<1>6. Place'
  <2>1. type = "poll" \/ called # None
    BY DEF Loop!fdev_change, Loop!MayOperate
  <2>2. called # None => Calling'
    <3> SUFFICES ASSUME called # None PROVE Calling'
      OBVIOUS
    <3>1. called \in Events /\ cur \in 0..(Capacity - 1) /\ Calling
      BY <1>0 DEF Place
    <3>2. slot'[cur].ev = slot[cur].ev
      BY <3>1, <1>2, <1>7, <1>9
    <3>3. slot[cur].ev \in Clients /\ slot[cur].events \subseteq {"read"}
             => slot'[cur].events \subseteq {"read"}
      BY <3>1, <1>1, <1>2, <1>7, <1>9
    <3> QED BY <3>1, <3>2, <3>3, <1>2 DEF Calling
  <2> QED BY <2>1, <2>2, <1>0, <1>2, <1>3 DEF Place
<1> QED BY <1>4, <1>5, <1>6 DEF LInv

\* fdev_del: the last entry takes the place of the one removed.
LEMMA LoopDel ==
    ASSUME LInv, NEW e \in Events, Loop!fdev_del(e)
    PROVE  LInv'
<1> USE ConnectionsAssumption
<1>0. Entries /\ Counted /\ Place
  BY DEF LInv
<1> DEFINE i == ix[e]
           l == size - 1
           f == slot[l].ev
<1>1. /\ i \in 0..l /\ slot[i].ev = e /\ l \in 0..(Capacity - 1) /\ l \in 0..(size - 1)
      /\ f \in Events /\ ix[f] = l /\ (f = e <=> i = l)
  BY <1>0 DEF Loop!fdev_del, Loop!Known, Entries
<1>2. /\ slot' = [slot EXCEPT ![i] = slot[l]]
      /\ ix' = [ix EXCEPT ![f] = i, ![e] = -1] /\ size' = l
      /\ curdel' = (curdel \/ i = cur)
      /\ UNCHANGED <<cur, type, called, bad>>
  BY DEF Loop!fdev_del, Loop!moved, Loop!notes
<1>3. ops' \in 0..MaxOps
  BY <1>0 DEF Loop!fdev_del, Loop!MayOperate, Loop!Operated, Place
<1>4. Entries'
  <2>1. \A x \in Events : ix'[x] = IF x = e THEN -1 ELSE IF x = f THEN i ELSE ix[x]
    BY <1>0, <1>1, <1>2 DEF Entries
  <2>2. \A j \in 0..(Capacity - 1) : slot'[j] = IF j = i THEN slot[l] ELSE slot[j]
    BY <1>0, <1>1, <1>2 DEF Entries
  <2>3. slot' \in [0..(Capacity - 1) -> Slot]
    BY <1>0, <1>1, <1>2 DEF Entries
  <2>4. size' \in 0..Capacity /\ ix' \in [Events -> Int]
    BY <1>0, <1>1, <1>2 DEF Entries
  <2>5. \A x \in Events : ix'[x] # -1 => ix'[x] \in 0..(size' - 1) /\ slot'[ix'[x]].ev = x
    <3> SUFFICES ASSUME NEW x \in Events, x # e
                 PROVE  ix'[x] # -1 => ix'[x] \in 0..(size' - 1) /\ slot'[ix'[x]].ev = x
      BY <2>1
    <3>1. CASE x = f
      <4>1. ix'[x] = i /\ i # l
        BY <3>1, <2>1, <1>1
      <4>2. i \in 0..(size' - 1) /\ i \in 0..(Capacity - 1)
        BY <4>1, <1>1, <1>2
      <4>3. slot'[i] = slot[l]
        BY <4>2, <2>2
      <4> QED BY <3>1, <4>1, <4>2, <4>3
    <3>2. CASE x # f
      <4>1. ix'[x] = ix[x]
        BY <3>2, <2>1
      <4>2. ix[x] # -1 => ix[x] \in 0..l /\ slot[ix[x]].ev = x /\ ix[x] # l /\ ix[x] # i
        BY <3>2, <1>0, <1>1 DEF Entries
      <4> QED BY <4>1, <4>2, <2>2, <1>1, <1>2
    <3> QED BY <3>1, <3>2
  <2>6. ASSUME NEW j \in 0..(size' - 1)
        PROVE  /\ slot'[j].ev \in Events /\ ix'[slot'[j].ev] = j
               /\ slot'[j].ev \in Clients => slot'[j].events \subseteq {"read"}
    <3>1. j \in 0..(size - 1) /\ j # l /\ j \in 0..(Capacity - 1)
      <4>1. size \in Int /\ l \in 0..(Capacity - 1) /\ size' = l
        BY <1>0, <1>1, <1>2 DEF Entries
      <4> QED BY <4>1
    <3>2. CASE j = i
      <4>1. f # e
        BY <3>1, <3>2, <1>1
      <4> QED BY <4>1, <3>1, <3>2, <2>1, <2>2, <1>0, <1>1 DEF Entries
    <3>3. CASE j # i
      <4>1. slot[j].ev # e /\ slot[j].ev # f
        BY <3>1, <3>3, <1>0, <1>1 DEF Entries
      <4> QED BY <4>1, <3>1, <3>3, <2>1, <2>2, <1>0 DEF Entries
    <3> QED BY <3>2, <3>3
  <2> QED BY <2>3, <2>4, <2>5, <2>6 DEF Entries
<1>5. Counted'
  <2>1. Loop!Known' = Loop!Known \ {e} /\ e \in Loop!Known
    <3>1. i # -1 /\ l # -1
      BY <1>1
    <3> QED BY <3>1, <1>0, <1>1, <1>2 DEF Loop!Known, Entries
  <2> QED BY <2>1, <1>0, <1>2, FS_RemoveElement DEF Counted
<1>6. Place'
  <2>1. /\ Loop!Removes(e) /\ (type = "poll" \/ called # None)
    BY DEF Loop!fdev_del, Loop!MayOperate
  <2>2. CASE type = "poll"
    BY <2>2, <1>0, <1>1, <1>2, <1>3 DEF Place
  <2>3. CASE type # "poll" /\ called \notin Clients
    <3>1. e = called /\ called # None /\ ~curdel /\ i = cur
      <4>1. e = called /\ called # None
        BY <2>1, <2>3 DEF Loop!Removes
      <4>2. cur \in 0..(Capacity - 1) /\ size \in 0..Capacity /\ curdel \in BOOLEAN
            /\ (IF curdel THEN ix[e] = -1 ELSE cur < size /\ slot[cur].ev = e)
        BY <2>3, <4>1, <1>0 DEF Place, Calling, Entries
      <4>3. ~curdel /\ cur \in 0..(size - 1) /\ slot[cur].ev = e
        BY <4>2, <1>1
      <4>4. ix[slot[cur].ev] = cur
        BY <4>3, <1>0 DEF Entries
      <4> QED BY <4>1, <4>3, <4>4
    <3>2. curdel' /\ ix'[called'] = -1
      BY <3>1, <1>0, <1>2 DEF Entries
    <3> QED BY <2>3, <3>1, <3>2, <1>0, <1>2, <1>3 DEF Place, Calling
  <2>4. CASE type # "poll" /\ called \in Clients
    <3>1. called # None /\ type = "read"
      BY <2>1, <2>4, <1>0 DEF Place, Calling
    <3>2. ~curdel' => slot'[cur].ev = called /\ slot'[cur].events \subseteq {"read"}
      BY <2>4, <3>1, <1>0, <1>1, <1>2 DEF Place, Calling, Entries
    <3> QED BY <2>4, <3>1, <3>2, <1>0, <1>2, <1>3 DEF Place, Calling
  <2> QED BY <2>2, <2>3, <2>4
<1> QED BY <1>4, <1>5, <1>6 DEF LInv

\* poll reports and the loop begins at the first entry.
LEMMA LoopPoll ==
    ASSUME LInv, Loop!poll
    PROVE  LInv'
<1> USE ConnectionsAssumption
<1>0. Entries /\ Counted /\ Place
  BY DEF LInv
<1>1. PICK r \in [0..(size - 1) -> SUBSET {"read", "write"}] :
        slot' = [i \in 0..(Capacity - 1) |->
                   IF i < size THEN [slot[i] EXCEPT !.revents = r[i]] ELSE slot[i]]
  BY DEF Loop!poll, Loop!Slots, Loop!Types
<1>2. /\ type = "poll" /\ size > 0 /\ cur' = 0 /\ type' = "read"
      /\ UNCHANGED <<size, ix, curdel, called, ops, bad>>
  BY DEF Loop!poll
<1>3. Entries'
  <2>1. \A i \in 0..(Capacity - 1) : slot'[i].ev = slot[i].ev /\ slot'[i].events = slot[i].events
    BY <1>0, <1>1 DEF Entries, Slot
  <2>2. slot' \in [0..(Capacity - 1) -> Slot]
    <3>1. \A i \in 0..(Capacity - 1) :
            IF i < size THEN [slot[i] EXCEPT !.revents = r[i]] \in
                 Slot
            ELSE slot[i] \in Slot
      <4> TAKE i \in 0..(Capacity - 1)
      <4>1. i < size => i \in 0..(size - 1) /\ r[i] \in SUBSET {"read", "write"}
        BY <1>0 DEF Entries
      <4>2. slot[i] \in Slot
        BY <1>0 DEF Entries
      <4>3. i < size => [slot[i] EXCEPT !.revents = r[i]] \in Slot
        BY <4>1, <4>2 DEF Slot
      <4> QED BY <4>2, <4>3
    <3> QED BY <3>1, <1>1
  <2>3. \A i \in 0..(size - 1) : i \in 0..(Capacity - 1)
    BY <1>0 DEF Entries
  <2>4. \A e \in Events : ix[e] # -1 => ix[e] \in 0..(size - 1) /\ slot'[ix[e]].ev = e
    BY <1>0, <2>1, <2>3 DEF Entries
  <2>5. \A i \in 0..(size - 1) :
           /\ slot'[i].ev \in Events /\ ix[slot'[i].ev] = i
           /\ slot'[i].ev \in Clients => slot'[i].events \subseteq {"read"}
    BY <1>0, <2>1, <2>3 DEF Entries
  <2> QED BY <2>2, <2>4, <2>5, <1>0, <1>2 DEF Entries
<1>4. Counted'
  BY <1>0, <1>2 DEF Counted, Loop!Known
<1>5. Place'
  BY <1>0, <1>2 DEF Place, Entries
<1> QED BY <1>3, <1>4, <1>5 DEF LInv

\* A callback begins, returns or is not due.
LEMMA LoopCallback ==
    ASSUME LInv, NEW t \in {"read", "write"},
           Loop!callback(t) \/ Loop!return(t) \/ Loop!skip(t)
    PROVE  LInv'
<1> USE ConnectionsAssumption
<1>0. Entries /\ Counted /\ Place
  BY DEF LInv
<1>1. type = t /\ UNCHANGED <<slot, size, ix, cur, curdel>>
  BY DEF Loop!callback, Loop!return, Loop!skip
<1>2. Entries' /\ Counted'
  BY <1>0, <1>1 DEF Entries, Counted, Loop!Known
<1>3. cur \in 0..(Capacity - 1)
  BY <1>0, <1>1 DEF Place
<1>4. CASE Loop!callback(t)
  <2>1. /\ called = None /\ t \in slot[cur].events /\ (t = "read" \/ ~curdel)
        /\ called' = slot[cur].ev /\ ops' = MaxOps /\ type' = type
        /\ bad' = (slot[cur].ev \notin Loop!Known \/ t \notin slot[ix[slot[cur].ev]].events)
    BY <1>4 DEF Loop!callback, Loop!calls, Loop!Ready
  <2>2. cur < size /\ ~curdel
    BY <2>1, <1>0, <1>1 DEF Place
  <2>3. /\ slot[cur].ev \in Events /\ ix[slot[cur].ev] = cur
        /\ slot[cur].ev \in Clients => slot[cur].events \subseteq {"read"}
    BY <2>2, <1>0, <1>3 DEF Entries
  <2>4. bad' = FALSE /\ called' # None /\ (called' \in Clients => type = "read")
    <3>1. slot[cur].ev \in Loop!Known
      BY <2>3, <1>3 DEF Loop!Known
    <3>2. t = "write" => slot[cur].ev \notin Clients
      BY <2>1, <2>3
    <3> QED BY <3>1, <3>2, <2>1, <2>3, <1>1
  <2>5. Place'
    BY <2>1, <2>2, <2>3, <2>4, <1>0, <1>1, <1>3 DEF Place, Calling
  <2> QED BY <2>5, <1>2 DEF LInv
<1>5. CASE Loop!return(t)
  <2>1. /\ called # None /\ called' = None /\ ops' = 0 /\ bad' = bad
        /\ type' = IF t = "read" THEN "write" ELSE "next"
    BY <1>5 DEF Loop!return, Loop!Later
  <2>2. Place'
    BY <2>1, <1>0, <1>1, <1>3 DEF Place, Calling
  <2> QED BY <2>2, <1>2 DEF LInv
<1>6. CASE Loop!skip(t)
  <2>1. /\ called = None /\ UNCHANGED <<called, ops, bad>>
        /\ type' = IF t = "read" THEN "write" ELSE "next"
    BY <1>6 DEF Loop!skip, Loop!Later
  <2>2. Place'
    BY <2>1, <1>0, <1>1, <1>3 DEF Place, Calling
  <2> QED BY <2>2, <1>2 DEF LInv
<1> QED BY <1>4, <1>5, <1>6

\* The loop goes to the next entry, which a removal may have put where it is.
LEMMA LoopNext ==
    ASSUME LInv, Loop!next
    PROVE  LInv'
<1> USE ConnectionsAssumption
<1>0. Entries /\ Counted /\ Place
  BY DEF LInv
<1>1. /\ type = "next" /\ curdel' = FALSE /\ UNCHANGED <<slot, size, ix, called, ops, bad>>
      /\ LET c == IF curdel THEN cur ELSE cur + 1 IN
         IF c < size THEN cur' = c /\ type' = "read" ELSE cur' = -1 /\ type' = "poll"
  BY DEF Loop!next
<1>2. Entries' /\ Counted'
  BY <1>0, <1>1 DEF Entries, Counted, Loop!Known
<1>3. cur \in 0..(Capacity - 1) /\ called = None /\ size \in 0..Capacity
  BY <1>0, <1>1 DEF Place, Entries
<1> DEFINE c == IF curdel THEN cur ELSE cur + 1
<1>4. CASE c < size
  <2>1. cur' = c /\ type' = "read" /\ c \in 0..(Capacity - 1)
    BY <1>1, <1>3, <1>4
  <2>2. Place'
    BY <2>1, <1>0, <1>1, <1>3, <1>4 DEF Place
  <2> QED BY <2>2, <1>2 DEF LInv
<1>5. CASE ~(c < size)
  <2>1. cur' = -1 /\ type' = "poll"
    BY <1>1, <1>5
  <2>2. Place'
    BY <2>1, <1>0, <1>1, <1>3 DEF Place
  <2> QED BY <2>2, <1>2 DEF LInv
<1> QED BY <1>4, <1>5

\* The loop over poll makes callbacks only for events that are registered and
\* enabled, however callbacks add, change and remove entries (CallsLive).
THEOREM LoopCorrect == Loop!Spec => []Loop!CallsLive
<1>1. Loop!Init => LInv
  <2> SUFFICES ASSUME Loop!Init PROVE LInv
    OBVIOUS
  <2> USE ConnectionsAssumption DEF Loop!Init
  <2>1. Loop!Known = {}
    BY DEF Loop!Known
  <2>2. Counted
    BY <2>1, FS_EmptySet DEF Counted
  <2>3. Entries
    BY DEF Entries, Slot, Loop!Slots, Loop!Empty
  <2>4. Place
    <3>1. 0 \in 0..MaxOps
      OBVIOUS
    <3> QED BY <3>1 DEF Place
  <2> QED BY <2>2, <2>3, <2>4 DEF LInv
<1>2. LInv /\ [Loop!Next]_Loop!vars => LInv'
  <2> SUFFICES ASSUME LInv, [Loop!Next]_Loop!vars PROVE LInv'
    OBVIOUS
  <2>1. CASE UNCHANGED Loop!vars
    BY <2>1 DEF Loop!vars, LInv, Entries, Counted, Place, Calling, Loop!Known
  <2>2. CASE Loop!Next
    BY <2>2, LoopNew, LoopChange, LoopDel, LoopPoll, LoopCallback, LoopNext
       DEF Loop!Next, Loop!Types
  <2> QED BY <2>1, <2>2
<1> QED BY <1>1, <1>2, LoopFollows, PTL DEF Loop!Spec
------------------------------------------------------------------------------
(* Connections and meta peers: Peers *)

\* The instance has the library's Cardinality under another name.
LEMMA PeerCardinality == \A S : Peer!Cardinality(S) = Cardinality(S)
BY DEF Cardinality, Peer!Cardinality

Stages == {"none", "pstr", "info", "id", "up"}
Link == [stage : Stages, n : Torrents \union {None}, id : Ids \union {None},
         incoming : BOOLEAN, waits : {"no", "soft", "hard"}, created : Nat, wantwrite : Nat,
         lastwrite : Nat, lost : BOOLEAN, since : Nat, room : 0..Absorbs]
MetaPeer == [p : Conns \union {None}, refs : Nat, banned : BOOLEAN]

\* What the stage of a connection says about the rest of it.
Shape(k) ==
    /\ k.stage = "none" => k = Peer!Closed
    /\ k.stage # "none" /\ ~k.incoming => k.n # None
    /\ k.stage \in {"id", "up"} => k.n # None
    /\ k.stage = "up" <=> k.id # None

\* How long a peer that takes no more messages has been kept, in the writes the
\* system took for it.
Taken(k) == (Absorbs - k.room) * (Silence + Write)

\* How long a vanished peer has been there: in the handshake it has the time of
\* the handshake; later a message is due or waits after each that was taken.
Waiting(k) ==
    /\ ~k.lost => k.since = 0
    /\ k.stage \notin {"none", "up"} => k.since <= k.created /\ k.created < Shake
    /\ k.stage = "up" /\ k.waits = "no" =>
         k.since = 0 \/ (k.lastwrite < Silence /\ k.since <= Taken(k) + k.lastwrite)
    /\ k.stage = "up" /\ k.waits # "no" =>
         k.since = 0 \/ (k.wantwrite < Write /\ k.since <= Taken(k) + Silence + k.wantwrite)

LinkOk(k) == k \in Link /\ Shape(k) /\ Waiting(k)

\* A meta peer and what refers to it.
MetaOk(t, i) ==
    IF tbl[t][i] = None THEN records[t][i] = 0
    ELSE /\ tbl[t][i].refs = Peer!References(t, i) /\ tbl[t][i].refs > 0
         /\ tbl[t][i].p # None => /\ conn[tbl[t][i].p].stage = "up"
                                  /\ conn[tbl[t][i].p].n = t /\ conn[tbl[t][i].p].id = i

TypesFit ==
    /\ conn \in [Conns -> Link] /\ npeers \in Nat
    /\ net \in [Torrents -> {"none", "stopped", "active"}]
    /\ tbl \in [Torrents -> [Ids -> MetaPeer \union {None}]]
    /\ records \in [Torrents -> [Ids -> 0..MaxRecords]] /\ fault = FALSE

LinksOk ==
    \A c \in Conns :
       /\ LinkOk(conn[c])
       /\ conn[c].n # None => net[conn[c].n] = "active"
       /\ conn[c].stage = "up" => /\ tbl[conn[c].n][conn[c].id] # None
                                  /\ tbl[conn[c].n][conn[c].id].p = c

MetasOk ==
    \A t \in Torrents, i \in Ids :
       MetaOk(t, i) /\ (net[t] # "active" => records[t][i] = 0)

Count == npeers = Cardinality(Peer!Live) /\ npeers <= MaxPeers

\* The inductive invariant.
PInv == TypesFit /\ LinksOk /\ MetasOk /\ Count

\* The time that the writes for a vanished peer allow.
LEMMA Allowance ==
    ASSUME NEW r \in 0..Absorbs
    PROVE  LET b == (Absorbs - r) * (Silence + Write) IN
           /\ b \in Nat /\ b + Silence + Write <= Peer!Patience /\ Peer!Patience \in Nat
           /\ r > 0 => (Absorbs - (r - 1)) * (Silence + Write) = b + Silence + Write
<1> DEFINE D == Silence + Write
           a == Absorbs - r
<1>1. a \in Nat /\ D \in Nat /\ r \in Nat /\ Absorbs \in Nat /\ Absorbs = a + r
  BY ConnectionsAssumption
<1>2. a * D \in Nat /\ (a + 1) * D = a * D + D /\ r * D \in Nat
  BY <1>1
<1>3. Peer!Patience = (a + r + 1) * D
  BY <1>1 DEF Peer!Patience
<1>4. (a + r + 1) * D = a * D + r * D + D
  BY <1>1
<1>5. Absorbs - (r - 1) = a + 1
  BY <1>1
<1>6. D = Silence + Write /\ Silence \in Nat /\ Write \in Nat
  BY ConnectionsAssumption
<1>7. Peer!Patience \in Nat /\ a * D + D <= Peer!Patience
  <2> HIDE DEF D, a
  <2> QED BY <1>1, <1>2, <1>3, <1>4
<1>8. (Absorbs - (r - 1)) * (Silence + Write) = a * D + D
  BY <1>2, <1>5
<1> QED BY <1>2, <1>6, <1>7, <1>8

\* A peer that has vanished leaves in time.
LEMMA WaitingEnds ==
    ASSUME NEW k \in Link, Waiting(k), k.stage # "none"
    PROVE  k.since < Peer!Patience
<1> DEFINE b == (Absorbs - k.room) * (Silence + Write)
<1>1. k.room \in 0..Absorbs /\ k.since \in Nat /\ k.wantwrite \in Nat /\ k.lastwrite \in Nat
      /\ k.created \in Nat
  BY DEF Link
<1>2. b \in Nat /\ b + Silence + Write <= Peer!Patience /\ Peer!Patience \in Nat
  BY <1>1, Allowance
<1>3. Taken(k) = b
  BY DEF Taken
<1> HIDE DEF b
<1> QED BY <1>1, <1>2, <1>3, ConnectionsAssumption DEF Waiting

\* What PInv says in the words of the properties.
LEMMA PeersFollow == PInv => Peer!TablesAgree /\ Peer!LostLeave
<1> SUFFICES ASSUME PInv PROVE Peer!TablesAgree /\ Peer!LostLeave
  OBVIOUS
<1>0. TypesFit /\ LinksOk /\ MetasOk /\ Count
  BY DEF PInv
<1>1. \A c \in Conns : /\ conn[c].stage \in Stages /\ conn[c].n \in Torrents \union {None}
                       /\ conn[c].id \in Ids \union {None} /\ conn[c].waits \in {"no", "soft", "hard"}
                       /\ conn[c].since \in Nat
  BY <1>0 DEF TypesFit, Link
<1>2. \A c \in Conns : conn[c].stage # "none" => conn[c].since < Peer!Patience
  BY <1>0, WaitingEnds DEF TypesFit, LinksOk, LinkOk
<1>3. \A c \in Conns : conn[c].since \in 0..Peer!Patience
  <2> TAKE c \in Conns
  <2>1. conn[c].stage = "none" => conn[c].since = 0
    BY <1>0 DEF LinksOk, LinkOk, Shape, Peer!Closed
  <2>2. Peer!Patience \in Nat
    <3>1. 0 \in 0..Absorbs
      BY ConnectionsAssumption
    <3> QED BY <3>1, Allowance
  <2> QED BY <1>1, <1>2, <2>1, <2>2
<1>4. Peer!LostLeave
  BY <1>2 DEF Peer!LostLeave, Peer!Live
<1>5. Peer!TypeOK
  BY <1>0, <1>1, <1>3 DEF Peer!TypeOK, TypesFit, Stages
<1>6. npeers = Peer!Cardinality(Peer!Live) /\ npeers <= MaxPeers /\ ~fault
  BY <1>0, PeerCardinality DEF Count, TypesFit
<1>7. \A c \in Peer!Live :
         /\ conn[c].n # None => net[conn[c].n] = "active"
         /\ Peer!Attached(c) => tbl[conn[c].n][conn[c].id] # None /\ tbl[conn[c].n][conn[c].id].p = c
  BY <1>0 DEF LinksOk, Peer!Live, Peer!Attached
<1>8. \A t \in Torrents, i \in Ids :
         IF tbl[t][i] = None THEN records[t][i] = 0
         ELSE /\ tbl[t][i].refs = Peer!References(t, i) /\ tbl[t][i].refs > 0
              /\ tbl[t][i].p # None => /\ conn[tbl[t][i].p].n = t
                                       /\ conn[tbl[t][i].p].id = i
  BY <1>0 DEF MetasOk, MetaOk
<1> QED BY <1>4, <1>5, <1>6, <1>7, <1>8 DEF Peer!TablesAgree

------------------------------------------------------------------------------
(* Connections change, meta peers do not *)

\* A change of k to l that leaves alone where the connection belongs.
Same(k, l) == l.stage = k.stage /\ l.n = k.n /\ l.id = k.id

\* Connections move within the handshake, or change otherwise.
LEMMA LinksChange ==
    ASSUME PInv, UNCHANGED <<npeers, net, tbl, records, fault>>,
           conn' \in [Conns -> Link], \A c \in Conns : LinkOk(conn'[c]),
           \A c \in Conns : \/ Same(conn[c], conn'[c])
                            \/ /\ conn[c].stage \in {"pstr", "info"}
                               /\ conn'[c].stage \in {"info", "id"}
                               /\ conn'[c].n # None => net[conn'[c].n] = "active"
    PROVE  PInv'
<1>0. TypesFit /\ LinksOk /\ MetasOk /\ Count
  BY DEF PInv
<1>1. \A c \in Conns : conn'[c].stage = "up" <=> conn[c].stage = "up"
  BY DEF Same
<1>2. \A c \in Conns : conn[c].stage = "up" => conn'[c].n = conn[c].n /\ conn'[c].id = conn[c].id
  BY DEF Same
<1>3. TypesFit'
  BY <1>0 DEF TypesFit
<1>4. LinksOk'
  BY <1>0, <1>1, <1>2 DEF LinksOk, Same
<1>5. MetasOk'
  <2>1. ASSUME NEW t \in Torrents, NEW i \in Ids PROVE MetaOk(t, i)'
    <3>1. MetaOk(t, i)
      BY <1>0 DEF MetasOk
    <3>2. tbl[t][i] # None => tbl[t][i].p \in Conns \union {None}
      BY <1>0 DEF TypesFit, MetaPeer
    <3>3. Peer!References(t, i)' = Peer!References(t, i)
      BY DEF Peer!References
    <3> QED BY <3>1, <3>2, <3>3, <1>1, <1>2 DEF MetaOk
  <2> QED BY <2>1, <1>0 DEF MetasOk
<1>6. Count'
  <2>1. Peer!Live' = Peer!Live
    BY DEF Peer!Live, Same
  <2> QED BY <2>1, <1>0 DEF Count
<1> QED BY <1>3, <1>4, <1>5, <1>6 DEF PInv

\* The same for one connection.
LEMMA LinkChange ==
    ASSUME PInv, NEW c \in Conns, NEW l, LinkOk(l),
           UNCHANGED <<npeers, net, tbl, records, fault>>,
           conn' = [conn EXCEPT ![c] = l],
           \/ Same(conn[c], l)
           \/ /\ conn[c].stage \in {"pstr", "info"} /\ l.stage \in {"info", "id"}
              /\ l.n # None => net[l.n] = "active"
    PROVE  PInv'
<1>1. conn \in [Conns -> Link] /\ \A d \in Conns : LinkOk(conn[d])
  BY DEF PInv, TypesFit, LinksOk
<1>2. l \in Link
  BY DEF LinkOk
<1>3. conn' \in [Conns -> Link]
  BY <1>1, <1>2
<1>4. \A d \in Conns : conn'[d] = IF d = c THEN l ELSE conn[d]
  BY <1>1
<1>5. \A d \in Conns : Same(conn[d], conn[d])
  BY DEF Same
<1>6. \A d \in Conns : LinkOk(conn'[d])
  BY <1>1, <1>4
<1>7. \A d \in Conns : \/ Same(conn[d], conn'[d])
                       \/ /\ conn[d].stage \in {"pstr", "info"}
                          /\ conn'[d].stage \in {"info", "id"}
                          /\ conn'[d].n # None => net[conn'[d].n] = "active"
  BY <1>4, <1>5
<1> QED BY <1>3, <1>6, <1>7, LinksChange

\* A message begins to wait on a connection that had none waiting.
LEMMA Sending ==
    ASSUME NEW k, LinkOk(k), k.stage # "none", NEW kind \in {"soft", "hard"}
    PROVE  LET l == Peer!sending(k, kind) IN
           LinkOk(l) /\ Same(k, l) /\ l.incoming = k.incoming /\ l.lost = k.lost
<1> DEFINE l == Peer!sending(k, kind)
<1>1. k \in Link /\ Shape(k) /\ Waiting(k)
  BY DEF LinkOk
<1> DEFINE w == IF k.waits = "hard" THEN k.waits ELSE kind
           v == IF k.waits = "no" THEN 0 ELSE k.wantwrite
<1>2. l = [k EXCEPT !.waits = w, !.wantwrite = v]
  BY <1>1 DEF Peer!sending, Link
<1>6. w \in {"soft", "hard"} /\ v \in Nat
  BY <1>1 DEF Link
<1>7. v = IF k.waits = "no" THEN 0 ELSE k.wantwrite
  OBVIOUS
<1> HIDE DEF w, v
<1>3. /\ l \in Link /\ l.waits # "no" /\ l.wantwrite = v
      /\ l.stage = k.stage /\ l.n = k.n /\ l.id = k.id /\ l.incoming = k.incoming
      /\ l.lost = k.lost /\ l.since = k.since /\ l.created = k.created /\ l.room = k.room
      /\ l.lastwrite = k.lastwrite
  BY <1>1, <1>2, <1>6 DEF Link
<1> HIDE DEF l
<1>4. Shape(l)
  BY <1>1, <1>3 DEF Shape
<1>5. Waiting(l)
  <2>1. Taken(l) = Taken(k)
    BY <1>3 DEF Taken
  <2>2. Taken(k) \in Nat
    BY <1>1, Allowance DEF Taken, Link
  <2>3. k.since \in Nat /\ k.lastwrite \in Nat /\ k.wantwrite \in Nat
    BY <1>1 DEF Link
  <2> HIDE DEF l
  <2> QED BY <1>1, <1>3, <1>7, <2>1, <2>2, <2>3, ConnectionsAssumption DEF Waiting
<1>8. LinkOk(l) /\ Same(k, l) /\ l.incoming = k.incoming /\ l.lost = k.lost
  BY <1>1, <1>3, <1>4, <1>5 DEF LinkOk, Same
<1> QED BY <1>8 DEF l

\* peer_send.
LEMMA PeerSend ==
    ASSUME PInv, NEW c \in Conns, Peer!peer_send(c)
    PROVE  PInv'
<1>1. LinkOk(conn[c]) /\ conn[c].stage # "none"
  BY DEF PInv, LinksOk, Peer!peer_send, Peer!Attached
<1>2. PICK kind \in {"soft", "hard"} : conn' = [conn EXCEPT ![c] = Peer!sending(conn[c], kind)]
  BY DEF Peer!peer_send, PInv, TypesFit
<1>3. UNCHANGED <<npeers, net, tbl, records, fault>>
  BY DEF Peer!peer_send
<1> QED BY <1>1, <1>2, <1>3, Sending, LinkChange

\* peer_unsend.
LEMMA PeerUnsend ==
    ASSUME PInv, NEW c \in Conns, Peer!peer_unsend(c)
    PROVE  PInv'
<1> DEFINE k == conn[c]
           l == [k EXCEPT !.waits = "no", !.since = 0]
<1>1. LinkOk(k) /\ k \in Link /\ Shape(k) /\ Waiting(k) /\ k.stage = "up"
  BY DEF PInv, LinksOk, LinkOk, Peer!peer_unsend, Peer!Attached
<1>2. conn' = [conn EXCEPT ![c] = l]
  BY <1>1 DEF Peer!peer_unsend, PInv, TypesFit
<1>3. UNCHANGED <<npeers, net, tbl, records, fault>>
  BY DEF Peer!peer_unsend
<1>4. /\ l \in Link /\ l.stage = k.stage /\ l.n = k.n /\ l.id = k.id /\ l.incoming = k.incoming
      /\ l.since = 0
  BY <1>1 DEF Link
<1> HIDE DEF l, k
<1>5. LinkOk(l) /\ Same(k, l)
  BY <1>1, <1>4 DEF LinkOk, Shape, Waiting, Same
<1> QED BY <1>2, <1>3, <1>5, LinkChange DEF k

\* net_write_cb: a write is taken.
LEMMA NetWrite ==
    ASSUME PInv, NEW c \in Conns, Peer!net_write(c)
    PROVE  PInv'
<1> DEFINE k == conn[c]
<1>1. LinkOk(k) /\ k \in Link /\ Shape(k) /\ Waiting(k) /\ k.stage # "none" /\ k.waits # "no"
      /\ (k.lost => k.room > 0)
  BY DEF PInv, LinksOk, LinkOk, Peer!net_write, Peer!Live
<1>2. PICK rest \in {"no", "hard"} :
         conn' = [conn EXCEPT ![c] = [k EXCEPT !.waits = rest, !.wantwrite = 0, !.lastwrite = 0,
                              !.room = IF k.lost THEN k.room - 1 ELSE k.room]]
  <2>1. PICK rest \in {"no", "hard"} :
         conn' = [conn EXCEPT ![c].waits = rest, ![c].wantwrite = 0, ![c].lastwrite = 0,
                              ![c].room = IF conn[c].lost THEN @ - 1 ELSE @]
    BY DEF Peer!net_write
  <2>2. conn \in [Conns -> Link]
    BY DEF PInv, TypesFit
  <2>3. conn' = [conn EXCEPT ![c] = [k EXCEPT !.waits = rest, !.wantwrite = 0, !.lastwrite = 0,
                              !.room = IF k.lost THEN k.room - 1 ELSE k.room]]
    <3>1. CASE k.lost
      BY <2>1, <2>2, <3>1
    <3>2. CASE ~k.lost
      BY <2>1, <2>2, <3>2
    <3> QED BY <3>1, <3>2
  <2> QED BY <2>3
<1>3. UNCHANGED <<npeers, net, tbl, records, fault>>
  BY DEF Peer!net_write
<1> DEFINE l == [k EXCEPT !.waits = rest, !.wantwrite = 0, !.lastwrite = 0,
                          !.room = IF k.lost THEN k.room - 1 ELSE k.room]
<1>4. k.room \in 0..Absorbs /\ k.since \in Nat /\ k.wantwrite \in Nat
  BY <1>1 DEF Link
<1>5. (IF k.lost THEN k.room - 1 ELSE k.room) \in 0..Absorbs
  BY <1>1, <1>4, ConnectionsAssumption
<1>6. /\ l \in Link /\ l.stage = k.stage /\ l.n = k.n /\ l.id = k.id /\ l.incoming = k.incoming
      /\ l.since = k.since /\ l.lost = k.lost /\ l.created = k.created
      /\ l.wantwrite = 0 /\ l.lastwrite = 0 /\ l.room = IF k.lost THEN k.room - 1 ELSE k.room
  BY <1>1, <1>5 DEF Link
<1>7. conn' = [conn EXCEPT ![c] = l]
  BY <1>2
<1> HIDE DEF l, k
<1>8. Taken(k) \in Nat /\ (k.lost => Taken(l) = Taken(k) + Silence + Write)
  BY <1>1, <1>4, <1>6, Allowance DEF Taken
<1>9. Waiting(l)
  <2>1. CASE k.lost
    BY <2>1, <1>1, <1>4, <1>6, <1>8, ConnectionsAssumption DEF Waiting
  <2>2. CASE ~k.lost
    BY <2>2, <1>1, <1>6, ConnectionsAssumption DEF Waiting
  <2> QED BY <2>1, <2>2
<1>10. LinkOk(l) /\ Same(k, l)
  BY <1>1, <1>6, <1>9 DEF LinkOk, Shape, Same
<1> QED BY <1>3, <1>7, <1>10, LinkChange DEF k

\* net_write_cb: a write takes nothing.
LEMMA NetWriteAgain ==
    ASSUME PInv, NEW c \in Conns, Peer!net_write_again(c)
    PROVE  PInv'
<1> DEFINE k == conn[c]
           room == IF k.lost THEN k.room - 1 ELSE k.room
           l == [k EXCEPT !.wantwrite = 0, !.room = room]
<1>1. LinkOk(k) /\ k \in Link /\ Shape(k) /\ Waiting(k) /\ k.stage # "none" /\ k.waits # "no"
      /\ (k.lost => k.room > 0)
  BY DEF PInv, LinksOk, LinkOk, Peer!net_write_again, Peer!Live
<1>2. conn' = [conn EXCEPT ![c] = l]
  <2>1. conn' = [conn EXCEPT ![c].wantwrite = 0,
                             ![c].room = IF conn[c].lost THEN @ - 1 ELSE @]
    BY DEF Peer!net_write_again
  <2>2. conn \in [Conns -> Link]
    BY DEF PInv, TypesFit
  <2>3. CASE k.lost
    BY <2>1, <2>2, <2>3
  <2>4. CASE ~k.lost
    BY <2>1, <2>2, <2>4
  <2> QED BY <2>3, <2>4
<1>3. UNCHANGED <<npeers, net, tbl, records, fault>>
  BY DEF Peer!net_write_again
<1>4. k.room \in 0..Absorbs /\ k.since \in Nat /\ k.wantwrite \in Nat /\ k.lastwrite \in Nat
  BY <1>1 DEF Link
<1>5. room \in 0..Absorbs
  BY <1>1, <1>4, ConnectionsAssumption
<1>6. /\ l \in Link /\ l.stage = k.stage /\ l.n = k.n /\ l.id = k.id /\ l.incoming = k.incoming
      /\ l.since = k.since /\ l.lost = k.lost /\ l.created = k.created /\ l.waits = k.waits
      /\ l.wantwrite = 0 /\ l.room = IF k.lost THEN k.room - 1 ELSE k.room
  BY <1>1, <1>5 DEF Link
<1> HIDE DEF l, k
<1>7. Taken(k) \in Nat /\ (k.lost => Taken(l) = Taken(k) + Silence + Write)
  BY <1>1, <1>4, <1>6, Allowance DEF Taken
<1>8. Waiting(l)
  <2>1. CASE k.lost
    BY <2>1, <1>1, <1>4, <1>6, <1>7, ConnectionsAssumption DEF Waiting
  <2>2. CASE ~k.lost
    BY <2>2, <1>1, <1>6, ConnectionsAssumption DEF Waiting
  <2> QED BY <2>1, <2>2
<1>9. LinkOk(l) /\ Same(k, l)
  BY <1>1, <1>6, <1>8 DEF LinkOk, Shape, Same
<1> QED BY <1>2, <1>3, <1>9, LinkChange DEF k

\* The peer is gone, and the system does not say so.
LEMMA Vanish ==
    ASSUME PInv, NEW c \in Conns, Peer!vanish(c)
    PROVE  PInv'
<1> DEFINE k == conn[c]
           l == [k EXCEPT !.lost = TRUE]
<1>1. LinkOk(k) /\ k \in Link /\ Shape(k) /\ Waiting(k) /\ k.stage # "none" /\ ~k.lost
  BY DEF PInv, LinksOk, LinkOk, Peer!vanish, Peer!Live
<1>2. conn' = [conn EXCEPT ![c] = l] /\ UNCHANGED <<npeers, net, tbl, records, fault>>
  BY DEF Peer!vanish, PInv, TypesFit
<1>3. /\ l \in Link /\ l.stage = k.stage /\ l.n = k.n /\ l.id = k.id /\ l.incoming = k.incoming
      /\ l.since = k.since /\ l.created = k.created
  BY <1>1 DEF Link
<1> HIDE DEF l, k
<1>4. LinkOk(l) /\ Same(k, l)
  BY <1>1, <1>3 DEF LinkOk, Shape, Waiting, Same
<1> QED BY <1>2, <1>4, LinkChange DEF k

------------------------------------------------------------------------------
(* References of meta peers *)

\* What mp_drop leaves.
LEMMA DropIs ==
    ASSUME NEW mp \in MetaPeer, NEW k \in Nat, NEW gone
    PROVE  LET d == Peer!mp_drop(mp, k, gone) IN
           /\ mp.refs <= k => d = None
           /\ mp.refs > k => /\ d \in MetaPeer /\ d # None /\ d.refs = mp.refs - k
                             /\ d.p = IF mp.p \in gone THEN None ELSE mp.p
                             /\ d.banned = mp.banned
<1>1. mp # None /\ mp.refs \in Nat /\ mp.p \in Conns \union {None}
  BY ConnectionsAssumption DEF MetaPeer
<1>2. CASE mp.refs <= k
  BY <1>1, <1>2 DEF Peer!mp_drop
<1>3. CASE mp.refs > k
  <2> DEFINE q == IF mp.p \in gone THEN None ELSE mp.p
             v == mp.refs - k
             d == [mp EXCEPT !.refs = v, !.p = q]
  <2>1. Peer!mp_drop(mp, k, gone) = d
    BY <1>1, <1>3 DEF Peer!mp_drop
  <2>2. q \in Conns \union {None} /\ v \in Nat
    BY <1>1, <1>3
  <2> HIDE DEF q, v
  <2>3. d \in MetaPeer /\ d.refs = v /\ d.p = q /\ d.banned = mp.banned
    BY <2>2 DEF MetaPeer
  <2>4. d # None
    BY <2>3, ConnectionsAssumption DEF MetaPeer
  <2> QED BY <1>1, <1>3, <2>1, <2>3, <2>4 DEF q, v
<1> QED BY <1>1, <1>2, <1>3

\* The parts of a meta peer.
LEMMA MetaIs ==
    ASSUME PInv, NEW t \in Torrents, NEW i \in Ids
    PROVE  /\ tbl[t][i] \in MetaPeer \union {None}
           /\ tbl[t][i] # None => /\ tbl[t][i] \in MetaPeer /\ tbl[t][i].refs \in Nat
                                  /\ tbl[t][i].p \in Conns \union {None}
                                  /\ tbl[t][i].banned \in BOOLEAN
           /\ records[t][i] \in 0..MaxRecords /\ MetaOk(t, i)
BY DEF PInv, TypesFit, MetasOk, MetaPeer

\* d is what is left of mp, and n of the records, when the connections `gone' end.
LeftOver(mp, d, n, gone) ==
    /\ d \in MetaPeer \union {None} /\ n \in 0..MaxRecords
    /\ d = None => n = 0
    /\ d # None => /\ d.refs = n + (IF d.p = None THEN 0 ELSE 1) + (IF d.banned THEN 1 ELSE 0)
                   /\ d.refs > 0
                   /\ mp # None /\ d.p = IF mp.p \in gone THEN None ELSE mp.p
    /\ mp # None /\ mp.p # None /\ mp.p \notin gone => d # None /\ d.p = mp.p

\* A connection that ends takes its reference with it.
LEMMA DropsOwn ==
    ASSUME PInv, NEW gone \in SUBSET Conns, NEW t \in Torrents, NEW i \in Ids,
           NEW k \in 0..MaxRecords, k = 0 \/ k = records[t][i]
    PROVE  LeftOver(tbl[t][i], Peer!mp_drop(tbl[t][i], k + Peer!Ends(tbl[t][i], gone), gone),
                records[t][i] - k, gone)
<1> DEFINE mp == tbl[t][i]
           e == Peer!Ends(mp, gone)
           d == Peer!mp_drop(mp, k + e, gone)
           n == records[t][i] - k
<1>1. /\ mp \in MetaPeer \union {None} /\ MetaOk(t, i) /\ records[t][i] \in 0..MaxRecords
      /\ mp # None => mp \in MetaPeer /\ mp.refs \in Nat /\ mp.p \in Conns \union {None}
                      /\ mp.banned \in BOOLEAN
  BY MetaIs
<1>2. None \notin gone /\ MaxRecords \in Nat
  BY ConnectionsAssumption
<1>3. n \in 0..MaxRecords
  BY <1>1, <1>2
<1>4. CASE mp = None
  <2>1. d = None /\ records[t][i] = 0
    BY <1>1, <1>4 DEF Peer!mp_drop, MetaOk
  <2> HIDE DEF d
  <2> QED BY <2>1, <1>2, <1>3, <1>4 DEF d, LeftOver
<1>5. CASE mp # None
  <2>1. /\ mp.refs = records[t][i] + (IF mp.p = None THEN 0 ELSE 1) + (IF mp.banned THEN 1 ELSE 0)
        /\ mp.refs > 0
    BY <1>1, <1>5 DEF MetaOk, Peer!References
  <2>2. e = (IF mp.p \in gone THEN 1 ELSE 0) /\ k + e \in Nat
    BY <1>2, <1>5 DEF Peer!Ends
  <2>3. /\ mp.refs <= k + e => d = None
        /\ mp.refs > k + e => /\ d \in MetaPeer /\ d # None /\ d.refs = mp.refs - (k + e)
                              /\ d.p = (IF mp.p \in gone THEN None ELSE mp.p)
                              /\ d.banned = mp.banned
    BY <1>1, <1>5, <2>2, DropIs
  <2> HIDE DEF d, e, mp, n
  <2>4. mp.p = None => mp.p \notin gone
    BY <1>2
  <2>5. n = records[t][i] - k /\ n \in Nat /\ k \in Nat /\ records[t][i] \in Nat
    BY <1>1, <1>2, <1>3 DEF n
  <2>6. mp.refs \in Nat
    BY <1>1, <1>5
  <2>7. mp.refs - (k + e) = n + (IF mp.p = None \/ mp.p \in gone THEN 0 ELSE 1) + (IF mp.banned THEN 1 ELSE 0)
    BY <2>1, <2>2, <2>4, <2>5, <2>6
  <2>8. e \in {0, 1}
    BY <2>2
  <2>9. d = None => n = 0
    BY <2>3, <2>5, <2>6, <2>7, <2>8
  <2>10. d # None => /\ d.refs = n + (IF d.p = None THEN 0 ELSE 1) + (IF d.banned THEN 1 ELSE 0)
                     /\ d.refs > 0 /\ d.p = IF mp.p \in gone THEN None ELSE mp.p
    BY <2>3, <2>4, <2>5, <2>6, <2>7, <2>8
  <2>11. mp.p # None /\ mp.p \notin gone => d # None /\ d.p = mp.p
    BY <2>3, <2>5, <2>6, <2>7, <2>8
  <2>12. d \in MetaPeer \union {None}
    BY <2>3, <2>5, <2>6, <2>8
  <2>13. LeftOver(mp, d, n, gone)
    BY <2>9, <2>10, <2>11, <2>12, <1>3, <1>5 DEF LeftOver
  <2> QED BY <2>13 DEF d, e, mp, n
<1> QED BY <1>4, <1>5

\* Connections end.  The others change as time passes, and stay where they belong.
LEMMA Kill ==
    ASSUME PInv, NEW gone \in SUBSET Peer!Live,
           tbl' = Peer!Killed(gone), npeers' = npeers - Cardinality(gone),
           UNCHANGED <<net, records, fault>>,
           conn' \in [Conns -> Link], \A c \in Conns : LinkOk(conn'[c]),
           \A c \in Conns : IF c \in gone THEN conn'[c] = Peer!Closed ELSE Same(conn[c], conn'[c])
    PROVE  PInv'
<1>0. TypesFit /\ LinksOk /\ MetasOk /\ Count
  BY DEF PInv
<1>1. gone \in SUBSET Conns /\ 0 \in 0..MaxRecords
  BY ConnectionsAssumption DEF Peer!Live
<1>2. ASSUME NEW t \in Torrents, NEW i \in Ids
      PROVE  LeftOver(tbl[t][i], tbl'[t][i], records'[t][i], gone)
  <2>1. tbl'[t][i] = Peer!mp_drop(tbl[t][i], Peer!Ends(tbl[t][i], gone), gone)
    BY DEF Peer!Killed
  <2>2. Peer!Ends(tbl[t][i], gone) \in {0, 1}
    BY DEF Peer!Ends
  <2>0. PICK k \in 0..MaxRecords : k = 0
    BY <1>1
  <2>3. k + Peer!Ends(tbl[t][i], gone) = Peer!Ends(tbl[t][i], gone)
    BY <2>0, <2>2
  <2>4. records'[t][i] = records[t][i] - k
    BY <2>0, MetaIs
  <2>5. LeftOver(tbl[t][i], Peer!mp_drop(tbl[t][i], k + Peer!Ends(tbl[t][i], gone), gone),
             records[t][i] - k, gone)
    BY <1>1, <2>0, DropsOwn
  <2> QED BY <2>1, <2>3, <2>4, <2>5
<1>3. TypesFit'
  <2>1. tbl' \in [Torrents -> [Ids -> MetaPeer \union {None}]]
    <3>1. tbl' = [t \in Torrents |-> [i \in Ids |-> tbl'[t][i]]]
      BY DEF Peer!Killed
    <3> QED BY <3>1, <1>2 DEF LeftOver
  <2>2. /\ npeers' \in Nat /\ Peer!Live' = Peer!Live \ gone
        /\ npeers' = Cardinality(Peer!Live \ gone) /\ npeers' <= npeers
    <3>1. Peer!Live' = Peer!Live \ gone
      BY DEF Peer!Live, Peer!Closed, Same
    <3>2. IsFiniteSet(Peer!Live)
      BY ConnectionsAssumption, FS_Subset DEF Peer!Live
    <3>3. IsFiniteSet(gone) /\ IsFiniteSet(Peer!Live \ gone)
      BY <3>2, FS_Subset
    <3>4. gone \union (Peer!Live \ gone) = Peer!Live
      OBVIOUS
    <3>5. Cardinality(Peer!Live) = Cardinality(gone) + Cardinality(Peer!Live \ gone)
      BY <3>3, <3>4, DisjointUnion
    <3>6. Cardinality(gone) \in Nat /\ Cardinality(Peer!Live \ gone) \in Nat
      BY <3>3, FS_CardinalityType
    <3> QED BY <3>1, <3>5, <3>6, <1>0 DEF Count
  <2> QED BY <2>1, <2>2, <1>0 DEF TypesFit
<1>4. Count'
  <2>1. Peer!Live' = Peer!Live \ gone
    BY DEF Peer!Live, Peer!Closed, Same
  <2>2. IsFiniteSet(Peer!Live)
    BY ConnectionsAssumption, FS_Subset DEF Peer!Live
  <2>3. IsFiniteSet(gone) /\ IsFiniteSet(Peer!Live \ gone)
    BY <2>2, FS_Subset
  <2>4. gone \union (Peer!Live \ gone) = Peer!Live
    OBVIOUS
  <2>5. Cardinality(Peer!Live) = Cardinality(gone) + Cardinality(Peer!Live \ gone)
    BY <2>3, <2>4, DisjointUnion
  <2>6. Cardinality(gone) \in Nat /\ Cardinality(Peer!Live \ gone) \in Nat
    BY <2>3, FS_CardinalityType
  <2> QED BY <2>1, <2>5, <2>6, <1>0, ConnectionsAssumption DEF Count
<1>5. LinksOk'
  <2> SUFFICES ASSUME NEW c \in Conns, c \notin gone
               PROVE  /\ conn'[c].n # None => net'[conn'[c].n] = "active"
                      /\ conn'[c].stage = "up" => /\ tbl'[conn'[c].n][conn'[c].id] # None
                                                  /\ tbl'[conn'[c].n][conn'[c].id].p = c
    BY DEF LinksOk, Peer!Closed
  <2>1. conn'[c].stage = conn[c].stage /\ conn'[c].n = conn[c].n /\ conn'[c].id = conn[c].id
    BY DEF Same
  <2>2. conn[c].n # None => net[conn[c].n] = "active"
    BY <1>0 DEF LinksOk
  <2>3. ASSUME conn[c].stage = "up"
        PROVE  tbl'[conn[c].n][conn[c].id] # None /\ tbl'[conn[c].n][conn[c].id].p = c
    <3>1. conn[c].n \in Torrents /\ conn[c].id \in Ids
      BY <2>3, <1>0 DEF LinksOk, LinkOk, Link, Shape
    <3>2. tbl[conn[c].n][conn[c].id] # None /\ tbl[conn[c].n][conn[c].id].p = c /\ c # None
      BY <2>3, <1>0, ConnectionsAssumption DEF LinksOk
    <3> QED BY <3>1, <3>2, <1>2 DEF LeftOver
  <2> QED BY <2>1, <2>2, <2>3
<1>6. MetasOk'
  <2> SUFFICES ASSUME NEW t \in Torrents, NEW i \in Ids
               PROVE  MetaOk(t, i)' /\ (net'[t] # "active" => records'[t][i] = 0)
    BY DEF MetasOk
  <2>1. net[t] # "active" => records[t][i] = 0
    BY <1>0 DEF MetasOk
  <2>2. CASE tbl'[t][i] = None
    BY <2>1, <2>2, <1>2 DEF MetaOk, LeftOver
  <2>3. CASE tbl'[t][i] # None
    <3>1. tbl[t][i] # None /\ tbl'[t][i].p = IF tbl[t][i].p \in gone THEN None ELSE tbl[t][i].p
      BY <2>3, <1>2 DEF LeftOver
    <3>2. tbl'[t][i].refs = Peer!References(t, i)' /\ tbl'[t][i].refs > 0
      BY <2>3, <1>2 DEF LeftOver, Peer!References
    <3>3. tbl'[t][i].p # None => /\ tbl'[t][i].p = tbl[t][i].p /\ tbl[t][i].p \in Conns \ gone
                                 /\ conn[tbl[t][i].p].stage = "up"
                                 /\ conn[tbl[t][i].p].n = t /\ conn[tbl[t][i].p].id = i
      BY <3>1, MetaIs DEF MetaOk
    <3>4. tbl'[t][i].p # None => /\ conn'[tbl'[t][i].p].stage = "up"
                                 /\ conn'[tbl'[t][i].p].n = t /\ conn'[tbl'[t][i].p].id = i
      BY <3>3 DEF Same
    <3> QED BY <2>1, <2>3, <3>2, <3>4 DEF MetaOk
  <2> QED BY <2>2, <2>3
<1> QED BY <1>3, <1>4, <1>5, <1>6 DEF PInv

------------------------------------------------------------------------------
(* Connections begin and end *)

\* A connection that is not there.
LEMMA ClosedOk == LinkOk(Peer!Closed)
<1>1. Peer!Closed \in Link
  BY ConnectionsAssumption DEF Link, Stages, Peer!Closed
<1>2. Shape(Peer!Closed) /\ Waiting(Peer!Closed)
  BY DEF Shape, Waiting, Peer!Closed
<1> QED BY <1>1, <1>2 DEF LinkOk

\* A connection that is just there.
LEMMA OpenedOk ==
    /\ LinkOk([Peer!Opened EXCEPT !.incoming = TRUE])
    /\ [Peer!Opened EXCEPT !.incoming = TRUE].stage = "pstr"
    /\ [Peer!Opened EXCEPT !.incoming = TRUE].n = None
    /\ \A t \in Torrents : LinkOk(Peer!sending([Peer!Opened EXCEPT !.n = t], "hard"))
    /\ \A t \in Torrents : LET l == Peer!sending([Peer!Opened EXCEPT !.n = t], "hard") IN
                           l.stage = "pstr" /\ l.n = t
<1>0. Absorbs \in 0..Absorbs /\ Shake > 0 /\ \A t \in Torrents : t # None
  BY ConnectionsAssumption
<1>1. Peer!Closed \in Link
  BY ClosedOk DEF LinkOk
<1>2. /\ Peer!Closed.n = None /\ Peer!Closed.id = None /\ ~Peer!Closed.incoming
      /\ ~Peer!Closed.lost /\ Peer!Closed.since = 0 /\ Peer!Closed.created = 0
  BY DEF Peer!Closed
<1>3. Peer!Opened \in Link /\ Peer!Opened.stage = "pstr"
  BY <1>0, <1>1 DEF Peer!Opened, Link, Stages
<1>4. /\ Peer!Opened.n = None /\ Peer!Opened.id = None
      /\ ~Peer!Opened.lost /\ Peer!Opened.since = 0 /\ Peer!Opened.created = 0
  BY <1>1, <1>2 DEF Peer!Opened, Link
<1>5. LinkOk([Peer!Opened EXCEPT !.incoming = TRUE])
      /\ [Peer!Opened EXCEPT !.incoming = TRUE].stage = "pstr"
      /\ [Peer!Opened EXCEPT !.incoming = TRUE].n = None
  <2> DEFINE l == [Peer!Opened EXCEPT !.incoming = TRUE]
  <2>1. /\ l \in Link /\ l.incoming /\ l.stage = "pstr" /\ l.n = None /\ l.id = None
        /\ ~l.lost /\ l.since = 0 /\ l.created = 0
    BY <1>3, <1>4 DEF Link
  <2> HIDE DEF l
  <2>2. Shape(l) /\ Waiting(l)
    BY <1>0, <2>1, ConnectionsAssumption DEF Shape, Waiting
  <2>3. LinkOk(l) /\ l.stage = "pstr" /\ l.n = None
    BY <2>1, <2>2 DEF LinkOk
  <2> QED BY <2>3 DEF l
<1>6. ASSUME NEW t \in Torrents
      PROVE  LET l == Peer!sending([Peer!Opened EXCEPT !.n = t], "hard") IN
             LinkOk(l) /\ l.stage = "pstr" /\ l.n = t
  <2> DEFINE k == [Peer!Opened EXCEPT !.n = t]
             l == Peer!sending(k, "hard")
  <2>1. /\ k \in Link /\ k.stage = "pstr" /\ k.n = t /\ k.id = None
        /\ ~k.lost /\ k.since = 0 /\ k.created = 0
    BY <1>3, <1>4 DEF Link
  <2> HIDE DEF k
  <2>2. Shape(k) /\ Waiting(k)
    BY <1>0, <2>1, ConnectionsAssumption DEF Shape, Waiting
  <2>3. LinkOk(k)
    BY <2>1, <2>2 DEF LinkOk
  <2>4. LinkOk(l) /\ Same(k, l)
    BY <2>1, <2>3, Sending
  <2>5. l.stage = "pstr" /\ l.n = t
    BY <2>1, <2>4 DEF Same
  <2> QED BY <2>4, <2>5 DEF k
<1> QED BY <1>5, <1>6

\* A connection is opened.
LEMMA Open ==
    ASSUME PInv, NEW c \in Conns, c \notin Peer!Live, NEW l, LinkOk(l), l.stage = "pstr",
           l.n # None => net[l.n] = "active",
           npeers < MaxPeers, npeers' = npeers + 1, conn' = [conn EXCEPT ![c] = l],
           UNCHANGED <<net, tbl, records, fault>>
    PROVE  PInv'
<1>0. TypesFit /\ LinksOk /\ MetasOk /\ Count
  BY DEF PInv
<1>1. \A d \in Conns : conn'[d] = IF d = c THEN l ELSE conn[d]
  BY <1>0 DEF TypesFit
<1>2. TypesFit'
  BY <1>0 DEF TypesFit, LinkOk
<1>3. LinksOk'
  BY <1>0, <1>1 DEF LinksOk
<1>4. MetasOk'
  <2>1. ASSUME NEW t \in Torrents, NEW i \in Ids PROVE MetaOk(t, i)'
    <3>1. MetaOk(t, i) /\ Peer!References(t, i)' = Peer!References(t, i)
      BY <1>0 DEF MetasOk, Peer!References
    <3>2. tbl[t][i] # None => tbl[t][i].p \in Conns \union {None}
      BY MetaIs
    <3>3. tbl[t][i] # None /\ tbl[t][i].p # None => tbl[t][i].p # c
      BY <3>1 DEF MetaOk, Peer!Live
    <3> QED BY <3>1, <3>2, <3>3, <1>1 DEF MetaOk
  <2> QED BY <2>1, <1>0 DEF MetasOk
<1>5. Count'
  <2>1. Peer!Live' = Peer!Live \union {c}
    BY <1>1 DEF Peer!Live
  <2>2. IsFiniteSet(Peer!Live)
    BY ConnectionsAssumption, FS_Subset DEF Peer!Live
  <2>3. Cardinality(Peer!Live') = Cardinality(Peer!Live) + 1
    BY <2>1, <2>2, FS_AddElement
  <2> QED BY <2>3, <1>0, ConnectionsAssumption DEF Count, TypesFit
<1> QED BY <1>2, <1>3, <1>4, <1>5 DEF PInv

\* peer_create_in and peer_create_out.
LEMMA PeerCreate ==
    ASSUME PInv, NEW c \in Conns,
           Peer!peer_create_in(c) \/ \E t \in Torrents : Peer!peer_create_out(c, t)
    PROVE  PInv'
<1>1. npeers \in Nat /\ npeers <= MaxPeers /\ MaxPeers \in Nat
  BY ConnectionsAssumption DEF PInv, TypesFit, Count
<1>2. CASE Peer!peer_create_in(c)
  <2>1. fault' = FALSE /\ fault = FALSE /\ npeers < MaxPeers
    <3>1. fault = FALSE /\ npeers # MaxPeers /\ fault' = (npeers > MaxPeers)
      BY <1>2 DEF Peer!peer_create_in, PInv, TypesFit
    <3>2. (npeers > MaxPeers) = FALSE /\ npeers < MaxPeers
      BY <1>1, <3>1
    <3> QED BY <3>1, <3>2
  <2> DEFINE l == [Peer!Opened EXCEPT !.incoming = TRUE]
  <2>2. l.n = None /\ l.stage = "pstr"
    BY OpenedOk
  <2>3. LinkOk(l)
    BY OpenedOk
  <2>4. c \notin Peer!Live /\ npeers' = npeers + 1 /\ conn' = [conn EXCEPT ![c] = l]
        /\ UNCHANGED <<net, tbl, records>>
    BY <1>2 DEF Peer!peer_create_in
  <2> HIDE DEF l
  <2> QED BY <2>1, <2>2, <2>3, <2>4, Open
<1>3. ASSUME NEW t \in Torrents, Peer!peer_create_out(c, t) PROVE PInv'
  <2> DEFINE l == Peer!sending([Peer!Opened EXCEPT !.n = t], "hard")
  <2>1. LinkOk(l) /\ l.stage = "pstr" /\ l.n = t
    BY OpenedOk
  <2>2. c \notin Peer!Live /\ npeers' = npeers + 1 /\ conn' = [conn EXCEPT ![c] = l]
        /\ npeers < MaxPeers /\ net[t] = "active" /\ UNCHANGED <<net, tbl, records, fault>>
    BY <1>3 DEF Peer!peer_create_out
  <2> HIDE DEF l
  <2> QED BY <2>1, <2>2, Open
<1> QED BY <1>2, <1>3

\* peer_kill of one connection.
LEMMA PeerKill ==
    ASSUME PInv, NEW gone \in SUBSET Peer!Live, Peer!peer_kill(gone),
           UNCHANGED <<net, records, fault>>
    PROVE  PInv'
<1>1. conn \in [Conns -> Link] /\ \A c \in Conns : LinkOk(conn[c])
  BY DEF PInv, TypesFit, LinksOk
<1>2. tbl' = Peer!Killed(gone) /\ npeers' = npeers - Cardinality(gone)
      /\ conn' = [c \in Conns |-> IF c \in gone THEN Peer!Closed ELSE conn[c]]
  BY PeerCardinality DEF Peer!peer_kill
<1>3. \A c \in Conns : conn'[c] = IF c \in gone THEN Peer!Closed ELSE conn[c]
  BY <1>2
<1>4. Peer!Closed \in Link
  BY ClosedOk DEF LinkOk
<1>5. conn' \in [Conns -> Link]
  BY <1>1, <1>2, <1>4
<1>6. \A c \in Conns : LinkOk(conn'[c])
  BY <1>1, <1>3, ClosedOk
<1>7. \A c \in Conns : IF c \in gone THEN conn'[c] = Peer!Closed ELSE Same(conn[c], conn'[c])
  BY <1>3 DEF Same
<1> QED BY <1>2, <1>5, <1>6, <1>7, Kill

\* The connection fails or the peer closes it.
LEMMA PeerDrop ==
    ASSUME PInv, NEW c \in Conns, Peer!drop(c)
    PROVE  PInv'
<1>1. {c} \in SUBSET Peer!Live /\ Peer!peer_kill({c}) /\ UNCHANGED <<net, records, fault>>
  BY DEF Peer!drop
<1> QED BY <1>1, PeerKill

\* The protocol string arrives.
LEMMA ShakePstr ==
    ASSUME PInv, NEW c \in Conns, Peer!shake_pstr(c)
    PROVE  PInv'
<1> DEFINE k == conn[c]
           l == [k EXCEPT !.stage = "info"]
<1>1. LinkOk(k) /\ k \in Link /\ Shape(k) /\ Waiting(k) /\ k.stage = "pstr"
  BY DEF PInv, LinksOk, LinkOk, Peer!shake_pstr
<1>2. UNCHANGED <<net, records, fault>> /\ {c} \in SUBSET Peer!Live
  BY <1>1 DEF Peer!shake_pstr, Peer!Live
<1>3. CASE Peer!Moves(c, l)
  <2>1. conn' = [conn EXCEPT ![c] = l] /\ UNCHANGED <<npeers, tbl>>
    BY <1>3 DEF Peer!Moves
  <2>2. /\ l \in Link /\ l.stage = "info" /\ l.n = k.n /\ l.id = k.id /\ l.incoming = k.incoming
        /\ l.since = k.since /\ l.created = k.created /\ l.lost = k.lost
    BY <1>1 DEF Link, Stages
  <2>3. k.n # None => net[k.n] = "active"
    BY DEF PInv, LinksOk
  <2> HIDE DEF l, k
  <2>4. LinkOk(l)
    BY <1>1, <2>2 DEF LinkOk, Shape, Waiting
  <2> QED BY <1>1, <1>2, <2>1, <2>2, <2>3, <2>4, LinkChange DEF k
<1>4. CASE Peer!Bad(c)
  BY <1>2, <1>4, PeerKill DEF Peer!Bad
<1> QED BY <1>3, <1>4 DEF Peer!shake_pstr

\* The info hash arrives: an incoming connection finds its net.
LEMMA ShakeInfo ==
    ASSUME PInv, NEW c \in Conns, Peer!shake_info(c)
    PROVE  PInv'
<1> DEFINE k == conn[c]
<1>1. LinkOk(k) /\ k \in Link /\ Shape(k) /\ Waiting(k) /\ k.stage = "info"
  BY DEF PInv, LinksOk, LinkOk, Peer!shake_info
<1>2. UNCHANGED <<net, records, fault>> /\ {c} \in SUBSET Peer!Live
  BY <1>1 DEF Peer!shake_info, Peer!Live
<1>3. ASSUME NEW t \in Torrents, Peer!serves(t),
             Peer!Moves(c, Peer!sending([conn[c] EXCEPT !.stage = "id", !.n = t], "hard"))
      PROVE  PInv'
  <2> DEFINE m == [k EXCEPT !.stage = "id", !.n = t]
             l == Peer!sending(m, "hard")
  <2>1. conn' = [conn EXCEPT ![c] = l] /\ UNCHANGED <<npeers, tbl>> /\ net[t] = "active"
    BY <1>3 DEF Peer!Moves, Peer!serves
  <2>2. /\ m \in Link /\ m.stage = "id" /\ m.n = t /\ m.id = k.id /\ m.incoming = k.incoming
        /\ m.since = k.since /\ m.created = k.created /\ m.lost = k.lost
    BY <1>1 DEF Link, Stages
  <2>3. t # None
    BY ConnectionsAssumption
  <2> HIDE DEF m, k
  <2>4. LinkOk(m)
    BY <1>1, <2>2, <2>3 DEF LinkOk, Shape, Waiting
  <2>5. LinkOk(l) /\ l.stage = "id" /\ l.n = t
    BY <2>2, <2>4, Sending DEF Same
  <2> HIDE DEF l
  <2> QED BY <1>1, <1>2, <2>1, <2>5, LinkChange DEF k
<1>4. CASE ~conn[c].incoming /\ Peer!Moves(c, [conn[c] EXCEPT !.stage = "id"])
  <2> DEFINE l == [k EXCEPT !.stage = "id"]
  <2>1. conn' = [conn EXCEPT ![c] = l] /\ UNCHANGED <<npeers, tbl>>
    BY <1>4 DEF Peer!Moves
  <2>2. /\ l \in Link /\ l.stage = "id" /\ l.n = k.n /\ l.id = k.id /\ l.incoming = k.incoming
        /\ l.since = k.since /\ l.created = k.created /\ l.lost = k.lost
    BY <1>1 DEF Link, Stages
  <2>3. (k.n # None => net[k.n] = "active") /\ ~k.incoming
    BY <1>4 DEF PInv, LinksOk
  <2> HIDE DEF l, k
  <2>4. LinkOk(l)
    BY <1>1, <2>2, <2>3 DEF LinkOk, Shape, Waiting
  <2> QED BY <1>1, <1>2, <2>1, <2>2, <2>3, <2>4, LinkChange DEF k
<1>5. CASE Peer!Bad(c)
  BY <1>2, <1>5, PeerKill DEF Peer!Bad
<1> QED BY <1>3, <1>4, <1>5 DEF Peer!shake_info

\* The peer's id is known: its meta peer is made.
LEMMA ShakeId ==
    ASSUME PInv, NEW c \in Conns, NEW i \in Ids, Peer!shake_id(c, i)
    PROVE  PInv'
<1> DEFINE k == conn[c]
           t == k.n
<1>0. TypesFit /\ LinksOk /\ MetasOk /\ Count
  BY DEF PInv
<1>1. LinkOk(k) /\ k \in Link /\ Shape(k) /\ Waiting(k) /\ k.stage = "id" /\ ~k.lost
  BY DEF PInv, LinksOk, LinkOk, Peer!shake_id
<1>2. UNCHANGED <<net, records, fault>> /\ {c} \in SUBSET Peer!Live
  BY <1>1 DEF Peer!shake_id, Peer!Live
<1>3. CASE Peer!Bad(c)
  BY <1>2, <1>3, PeerKill DEF Peer!Bad
<1>4. ASSUME NEW m \in {conn[c], Peer!sending(conn[c], "hard")}, ~Peer!taken_id(t, i),
             conn' = [conn EXCEPT ![c] = [m EXCEPT !.stage = "up", !.id = i]],
             tbl' = [tbl EXCEPT ![t][i] = [p |-> c, refs |-> 1, banned |-> FALSE]],
             UNCHANGED npeers
      PROVE  PInv'
  <2> DEFINE l == [m EXCEPT !.stage = "up", !.id = i]
             d == [p |-> c, refs |-> 1, banned |-> FALSE]
  <2>1. LinkOk(m) /\ m \in Link /\ Same(k, m) /\ m.incoming = k.incoming /\ m.lost = k.lost
    <3>1. CASE m = k
      BY <1>1, <3>1 DEF Same
    <3>2. CASE m = Peer!sending(k, "hard")
      BY <1>1, <3>2, Sending DEF LinkOk
    <3> QED BY <3>1, <3>2
  <2>2. t \in Torrents /\ t # None /\ net[t] = "active"
    BY <1>0, <1>1, ConnectionsAssumption DEF LinksOk, Link, Shape
  <2>3. c # None /\ i # None
    BY ConnectionsAssumption
  <2>4. /\ l \in Link /\ l.stage = "up" /\ l.id = i /\ l.n = t /\ l.incoming = m.incoming
        /\ l.since = m.since /\ l.lost = m.lost
    BY <2>1 DEF Link, Stages, Same
  <2>5. d \in MetaPeer /\ d # None /\ d.p = c /\ d.refs = 1 /\ ~d.banned
    <3>1. d \in MetaPeer
      BY DEF MetaPeer
    <3>2. d.p = c /\ d.refs = 1 /\ ~d.banned
      OBVIOUS
    <3>3. None \notin MetaPeer
      BY ConnectionsAssumption DEF MetaPeer
    <3> HIDE DEF d
    <3> QED BY <3>1, <3>2, <3>3
  <2> HIDE DEF l, d
  <2>6. LinkOk(l)
    BY <1>1, <2>1, <2>2, <2>3, <2>4 DEF LinkOk, Shape, Waiting, Same
  <2>7. \A e \in Conns : conn'[e] = IF e = c THEN l ELSE conn[e]
    BY <1>0, <1>4 DEF TypesFit, l
  <2>8. \A u \in Torrents, j \in Ids : tbl'[u][j] = IF u = t /\ j = i THEN d ELSE tbl[u][j]
    BY <1>0, <1>4, <2>2 DEF TypesFit, d
  <2>9. tbl[t][i] = None /\ records[t][i] = 0
    BY <1>0, <1>4, <2>2 DEF Peer!taken_id, MetasOk, MetaOk
  <2>10. TypesFit'
    <3>1. conn' \in [Conns -> Link]
      BY <1>0, <1>4, <2>4 DEF TypesFit, l
    <3>2. tbl' \in [Torrents -> [Ids -> MetaPeer \union {None}]]
      BY <1>0, <1>4, <2>5 DEF TypesFit, d
    <3> QED BY <1>0, <1>2, <1>4, <3>1, <3>2 DEF TypesFit
  <2>11. LinksOk'
    <3> SUFFICES ASSUME NEW e \in Conns
                 PROVE  /\ LinkOk(conn'[e])
                        /\ conn'[e].n # None => net'[conn'[e].n] = "active"
                        /\ conn'[e].stage = "up" => /\ tbl'[conn'[e].n][conn'[e].id] # None
                                                    /\ tbl'[conn'[e].n][conn'[e].id].p = e
      BY DEF LinksOk
    <3>1. CASE e = c
      BY <3>1, <1>2, <2>2, <2>4, <2>5, <2>6, <2>7, <2>8
    <3>2. CASE e # c
      <4>1. conn'[e] = conn[e]
        BY <3>2, <2>7
      <4>2. ASSUME conn[e].stage = "up"
            PROVE  tbl'[conn[e].n][conn[e].id] # None /\ tbl'[conn[e].n][conn[e].id].p = e
        <5>1. conn[e].n \in Torrents /\ conn[e].id \in Ids
          BY <4>2, <1>0 DEF LinksOk, LinkOk, Link, Shape
        <5>2. tbl[conn[e].n][conn[e].id] # None /\ tbl[conn[e].n][conn[e].id].p = e
          BY <4>2, <1>0 DEF LinksOk
        <5> QED BY <5>1, <5>2, <2>8, <2>9
      <4> QED BY <4>1, <4>2, <1>0, <1>2 DEF LinksOk
    <3> QED BY <3>1, <3>2
  <2>12. MetasOk'
    <3> SUFFICES ASSUME NEW u \in Torrents, NEW j \in Ids PROVE MetaOk(u, j)'
      BY <1>0, <1>2 DEF MetasOk
    <3>1. CASE u = t /\ j = i
      <4>1. tbl'[u][j] = d /\ records'[u][j] = 0
        BY <3>1, <1>2, <2>8, <2>9
      <4>2. Peer!References(u, j)' = 1
        BY <4>1, <2>3, <2>5 DEF Peer!References
      <4> QED BY <4>1, <4>2, <2>4, <2>5, <2>7, <3>1 DEF MetaOk
    <3>2. CASE ~(u = t /\ j = i)
      <4>1. tbl'[u][j] = tbl[u][j] /\ records'[u][j] = records[u][j]
        BY <3>2, <1>2, <2>8
      <4>2. MetaOk(u, j) /\ Peer!References(u, j)' = Peer!References(u, j)
        BY <4>1, <1>0 DEF MetasOk, Peer!References
      <4>3. tbl[u][j] # None => tbl[u][j].p \in Conns \union {None}
        BY MetaIs
      <4>4. tbl[u][j] # None /\ tbl[u][j].p # None => tbl[u][j].p # c
        BY <4>2, <1>1 DEF MetaOk
      <4> QED BY <4>1, <4>2, <4>3, <4>4, <2>7 DEF MetaOk
    <3> QED BY <3>1, <3>2
  <2>13. Count'
    <3>1. Peer!Live' = Peer!Live
      BY <1>1, <2>4, <2>7 DEF Peer!Live
    <3> QED BY <3>1, <1>0, <1>4 DEF Count
  <2> QED BY <2>10, <2>11, <2>12, <2>13 DEF PInv
<1> QED BY <1>3, <1>4 DEF Peer!shake_id

------------------------------------------------------------------------------
(* Records and bans *)

\* A meta peer and the records of its blocks change.
LEMMA MetaChange ==
    ASSUME PInv, NEW t \in Torrents, NEW i \in Ids, NEW m \in MetaPeer \union {None},
           NEW r \in 0..MaxRecords,
           tbl' = [tbl EXCEPT ![t][i] = m], records' = [records EXCEPT ![t][i] = r],
           fault' = FALSE, UNCHANGED <<conn, npeers, net>>,
           tbl[t][i] # None, net[t] # "active" => r <= records[t][i],
           m = None => r = 0 /\ tbl[t][i].p = None,
           m # None => /\ m.p = tbl[t][i].p /\ m.refs > 0
                       /\ m.refs = r + (IF m.p = None THEN 0 ELSE 1) + (IF m.banned THEN 1 ELSE 0)
    PROVE  PInv'
<1>0. TypesFit /\ LinksOk /\ MetasOk /\ Count
  BY DEF PInv
<1>1. \A u \in Torrents, j \in Ids :
         /\ tbl'[u][j] = IF u = t /\ j = i THEN m ELSE tbl[u][j]
         /\ records'[u][j] = IF u = t /\ j = i THEN r ELSE records[u][j]
  BY <1>0 DEF TypesFit
<1>2. TypesFit'
  BY <1>0 DEF TypesFit
<1>3. LinksOk'
  <2> SUFFICES ASSUME NEW e \in Conns, conn[e].stage = "up"
               PROVE  tbl'[conn[e].n][conn[e].id] # None /\ tbl'[conn[e].n][conn[e].id].p = e
    BY <1>0 DEF LinksOk
  <2>1. conn[e].n \in Torrents /\ conn[e].id \in Ids
    BY <1>0 DEF LinksOk, LinkOk, Link, Shape
  <2>2. tbl[conn[e].n][conn[e].id] # None /\ tbl[conn[e].n][conn[e].id].p = e /\ e # None
    BY <1>0, ConnectionsAssumption DEF LinksOk
  <2> QED BY <2>1, <2>2, <1>1
<1>4. MetasOk'
  <2> SUFFICES ASSUME NEW u \in Torrents, NEW j \in Ids
               PROVE  MetaOk(u, j)' /\ (net[u] # "active" => records'[u][j] = 0)
    BY DEF MetasOk
  <2>1. MetaOk(u, j) /\ (net[u] # "active" => records[u][j] = 0)
    BY <1>0 DEF MetasOk
  <2>2. CASE u = t /\ j = i
    <3>1. tbl'[u][j] = m /\ records'[u][j] = r
      BY <2>2, <1>1
    <3>2. net[u] # "active" => r = 0
      BY <2>1, <2>2
    <3>3. Peer!References(u, j)' = r + (IF m.p = None THEN 0 ELSE 1) + (IF m.banned THEN 1 ELSE 0)
      BY <3>1 DEF Peer!References
    <3> QED BY <2>1, <2>2, <3>1, <3>2, <3>3 DEF MetaOk
  <2>3. CASE ~(u = t /\ j = i)
    <3>1. tbl'[u][j] = tbl[u][j] /\ records'[u][j] = records[u][j]
      BY <2>3, <1>1
    <3> QED BY <3>1, <2>1 DEF MetaOk, Peer!References
  <2> QED BY <2>2, <2>3
<1>5. Count'
  BY <1>0 DEF Count, Peer!Live
<1> QED BY <1>2, <1>3, <1>4, <1>5 DEF PInv

\* A block is noted with the peer it came from.
LEMMA PieceLogBlock ==
    ASSUME PInv, NEW c \in Conns, Peer!piece_log_block(c)
    PROVE  PInv'
<1> DEFINE t == conn[c].n
           i == conn[c].id
           mp == tbl[t][i]
           m == [mp EXCEPT !.refs = mp.refs + 1]
           r == records[t][i] + 1
<1>1. t \in Torrents /\ i \in Ids /\ mp # None /\ t # None /\ net[t] = "active"
  BY ConnectionsAssumption
     DEF PInv, LinksOk, LinkOk, Link, Shape, Peer!piece_log_block, Peer!Attached
<1>2. tbl' = [tbl EXCEPT ![t][i] = m] /\ records' = [records EXCEPT ![t][i] = r]
      /\ fault' = FALSE /\ UNCHANGED <<conn, npeers, net>> /\ records[t][i] < MaxRecords
  BY <1>1 DEF Peer!piece_log_block, PInv, TypesFit
<1>3. /\ mp \in MetaPeer /\ mp.refs \in Nat /\ records[t][i] \in 0..MaxRecords /\ MetaOk(t, i)
      /\ mp.banned \in BOOLEAN
  BY <1>1, MetaIs
<1>4. m \in MetaPeer /\ m.p = mp.p /\ m.banned = mp.banned /\ m.refs = mp.refs + 1
  BY <1>3 DEF MetaPeer
<1>5. m # None
  BY <1>4, ConnectionsAssumption DEF MetaPeer
<1>6. mp.refs = records[t][i] + (IF mp.p = None THEN 0 ELSE 1) + (IF mp.banned THEN 1 ELSE 0)
  BY <1>1, <1>3 DEF MetaOk, Peer!References
<1>7. r \in 0..MaxRecords
  BY <1>2, <1>3, ConnectionsAssumption
<1> HIDE DEF m
<1>8. /\ m.refs > 0
      /\ m.refs = r + (IF m.p = None THEN 0 ELSE 1) + (IF m.banned THEN 1 ELSE 0)
  BY <1>3, <1>4, <1>6
<1> HIDE DEF r
<1> QED BY <1>1, <1>2, <1>4, <1>5, <1>7, <1>8, MetaChange

\* The notes of a piece are given up.
LEMMA PieceLogFree ==
    ASSUME PInv, NEW t \in Torrents, NEW i \in Ids, Peer!piece_log_free(t, i)
    PROVE  PInv'
<1> DEFINE mp == tbl[t][i]
           m == Peer!mp_drop(mp, 1, {})
           r == records[t][i] - 1
<1>1. tbl' = [tbl EXCEPT ![t][i] = m] /\ records' = [records EXCEPT ![t][i] = r]
      /\ fault' = (tbl[t][i] = None) /\ UNCHANGED <<conn, npeers, net>> /\ records[t][i] > 0
  BY DEF Peer!piece_log_free, PInv, TypesFit
<1>2. records[t][i] \in 0..MaxRecords /\ MetaOk(t, i) /\ mp \in MetaPeer \union {None}
  BY MetaIs
<1>3. mp # None
  BY <1>1, <1>2 DEF MetaOk
<1>4. mp \in MetaPeer /\ mp.refs \in Nat /\ mp.banned \in BOOLEAN
  BY <1>3, MetaIs
<1>5. mp.refs = records[t][i] + (IF mp.p = None THEN 0 ELSE 1) + (IF mp.banned THEN 1 ELSE 0)
  BY <1>2, <1>3 DEF MetaOk, Peer!References
<1>6. /\ mp.refs <= 1 => m = None
      /\ mp.refs > 1 => /\ m \in MetaPeer /\ m # None /\ m.refs = mp.refs - 1
                        /\ m.p = (IF mp.p \in {} THEN None ELSE mp.p) /\ m.banned = mp.banned
  BY <1>4, DropIs
<1>7. r \in 0..MaxRecords /\ r <= records[t][i]
  BY <1>1, <1>2, ConnectionsAssumption
<1> HIDE DEF m, r
<1>8. /\ m \in MetaPeer \union {None}
      /\ m = None => r = 0 /\ mp.p = None
      /\ m # None => /\ m.p = mp.p /\ m.refs > 0
                     /\ m.refs = r + (IF m.p = None THEN 0 ELSE 1) + (IF m.banned THEN 1 ELSE 0)
  BY <1>1, <1>2, <1>4, <1>5, <1>6 DEF r
<1>9. fault' = FALSE
  BY <1>1, <1>3
<1> HIDE DEF mp
<1>10. mp = tbl[t][i]
  BY DEF mp
<1> QED BY <1>1, <1>3, <1>7, <1>8, <1>9, <1>10, MetaChange

\* The table after a meta peer is banned.
LEMMA BanEdit ==
    ASSUME NEW mp \in MetaPeer
    PROVE  LET m == [mp EXCEPT !.banned = TRUE, !.refs = @ + 1] IN
           m \in MetaPeer /\ m.p = mp.p /\ m.banned /\ m.refs = mp.refs + 1
<1> DEFINE m == [mp EXCEPT !.banned = TRUE, !.refs = @ + 1]
<1> DEFINE b == TRUE
           v == mp.refs + 1
<1>5. m = [mp EXCEPT !.banned = b, !.refs = v]
  OBVIOUS
<1>6. b \in BOOLEAN /\ v \in Nat
  BY DEF MetaPeer
<1> HIDE DEF b, v
<1>1. m \in MetaPeer
  BY <1>5, <1>6 DEF MetaPeer
<1>2. m.p = mp.p
  BY <1>5, <1>6 DEF MetaPeer
<1>3. m.refs = mp.refs + 1
  BY DEF MetaPeer
<1>4. m.banned
  BY DEF MetaPeer
<1> QED BY <1>1, <1>2, <1>3, <1>4

\* net_ban_peer.
LEMMA NetBanPeer ==
    ASSUME PInv, NEW t \in Torrents, NEW i \in Ids, Peer!net_ban_peer(t, i)
    PROVE  PInv'
<1> DEFINE mp == tbl[t][i]
           m == [mp EXCEPT !.banned = TRUE, !.refs = @ + 1]
           r == records[t][i]
<1>1. mp # None /\ ~mp.banned /\ fault = FALSE /\ UNCHANGED <<conn, npeers, net, records, fault>>
  BY DEF Peer!net_ban_peer, PInv, TypesFit
<1>2. tbl' = [tbl EXCEPT ![t][i] = m]
  BY DEF Peer!net_ban_peer, PInv, TypesFit
<1>3. records' = [records EXCEPT ![t][i] = r]
  BY <1>1 DEF PInv, TypesFit
<1>4. /\ mp \in MetaPeer /\ mp.refs \in Nat /\ r \in 0..MaxRecords /\ MetaOk(t, i)
  BY <1>1, MetaIs
<1>5. mp.refs = r + (IF mp.p = None THEN 0 ELSE 1)
  BY <1>1, <1>4, ConnectionsAssumption DEF MetaOk, Peer!References
<1>6. m \in MetaPeer /\ m.p = mp.p /\ m.banned /\ m.refs = mp.refs + 1
  BY <1>4, BanEdit
<1>7. m # None
  BY <1>6, ConnectionsAssumption DEF MetaPeer
<1> HIDE DEF m
<1>8. /\ m.refs > 0 /\ r <= records[t][i]
      /\ m.refs = r + (IF m.p = None THEN 0 ELSE 1) + (IF m.banned THEN 1 ELSE 0)
  BY <1>4, <1>5, <1>6
<1> QED BY <1>1, <1>2, <1>3, <1>4, <1>6, <1>7, <1>8, MetaChange

------------------------------------------------------------------------------
(* Time *)

\* A second passes for a connection that is not dropped.
LEMMA Older ==
    ASSUME NEW k, LinkOk(k), k.stage # "none"
    PROVE  LET a == Peer!Older(k) IN
           /\ a \in Link /\ Same(k, a) /\ a.incoming = k.incoming /\ a.lost = k.lost
           /\ a.waits = k.waits /\ a.room = k.room
           /\ a.created = Peer!Up(k.created, Shake) /\ a.wantwrite = Peer!Up(k.wantwrite, Write)
           /\ a.lastwrite = Peer!Up(k.lastwrite, Silence)
           /\ a.since = IF k.lost THEN Peer!Up(k.since, Peer!Patience) ELSE k.since
<1> DEFINE a == Peer!Older(k)
           cr == Peer!Up(k.created, Shake)
           ww == Peer!Up(k.wantwrite, Write)
           lw == Peer!Up(k.lastwrite, Silence)
           si == IF k.lost THEN Peer!Up(k.since, Peer!Patience) ELSE k.since
<1>1. k \in Link
  BY DEF LinkOk
<1>2. cr \in Nat /\ ww \in Nat /\ lw \in Nat /\ si \in Nat
  BY <1>1 DEF Link, Peer!Up
<1>3. a = [k EXCEPT !.created = cr, !.wantwrite = ww, !.lastwrite = lw, !.since = si]
  BY DEF Peer!Older
<1> HIDE DEF a, cr, ww, lw, si
<1>4. a \in Link
  BY <1>1, <1>2, <1>3 DEF Link
<1>5. /\ a.stage = k.stage /\ a.n = k.n /\ a.id = k.id /\ a.incoming = k.incoming /\ a.lost = k.lost
      /\ a.waits = k.waits /\ a.room = k.room
  BY <1>1, <1>3 DEF Link
<1>6. a.created = cr /\ a.wantwrite = ww /\ a.lastwrite = lw /\ a.since = si
  BY <1>1, <1>3 DEF Link
<1> QED BY <1>4, <1>5, <1>6 DEF a, cr, ww, lw, si, Same

\* A connection that is neither banned nor too slow is as it should be.
LEMMA Spoken ==
    ASSUME PInv, NEW c \in Peer!Live, ~Peer!Timeout(c, Peer!aged(c))
    PROVE  LinkOk(Peer!spoken(c)) /\ Same(conn[c], Peer!spoken(c))
<1> DEFINE k == conn[c]
           a == Peer!Older(k)
<1>0. LinkOk(k) /\ k \in Link /\ Shape(k) /\ Waiting(k) /\ k.stage # "none"
  BY DEF PInv, LinksOk, LinkOk, Peer!Live
<1>1. /\ a \in Link /\ Same(k, a) /\ a.incoming = k.incoming /\ a.lost = k.lost
      /\ a.waits = k.waits /\ a.room = k.room
      /\ a.created = Peer!Up(k.created, Shake) /\ a.wantwrite = Peer!Up(k.wantwrite, Write)
      /\ a.lastwrite = Peer!Up(k.lastwrite, Silence)
      /\ a.since = IF k.lost THEN Peer!Up(k.since, Peer!Patience) ELSE k.since
  BY <1>0, Older
<1>2. IF k.stage = "up" THEN ~(a.waits # "no" /\ a.wantwrite >= Write) ELSE ~(a.created >= Shake)
  BY DEF Peer!Timeout, Peer!Attached, Peer!aged
<1>3. Peer!spoken(c) = IF k.stage = "up" THEN Peer!keepalive(a) ELSE a
  BY DEF Peer!spoken, Peer!Attached, Peer!aged
<1> HIDE DEF a, k
<1>4. k.since \in Nat /\ k.created \in Nat /\ k.wantwrite \in Nat /\ k.lastwrite \in Nat
      /\ a.since \in Nat /\ a.created \in Nat /\ a.wantwrite \in Nat /\ a.lastwrite \in Nat
      /\ k.lost \in BOOLEAN
  BY <1>0, <1>1 DEF Link
<1>5. a.since <= k.since + 1 /\ (~k.lost => a.since = k.since)
  BY <1>1, <1>4 DEF Peer!Up
<1>6. Shape(a) /\ a.stage = k.stage
  BY <1>0, <1>1 DEF Shape, Same
<1>7. Taken(k) \in Nat /\ Taken(a) = Taken(k)
  BY <1>0, <1>1, Allowance DEF Taken, Link
<1>8. CASE k.stage # "up"
  <2>1. a.created < Shake /\ k.created < Shake /\ k.since <= k.created
    BY <1>0, <1>2, <1>4, <1>8, ConnectionsAssumption DEF Waiting
  <2>2. a.created = k.created + 1
    BY <2>1, <1>1, <1>4, ConnectionsAssumption DEF Peer!Up
  <2>3. Waiting(a)
    BY <2>1, <2>2, <1>0, <1>1, <1>4, <1>5, <1>6, <1>8 DEF Waiting
  <2> QED BY <2>3, <1>1, <1>3, <1>6, <1>8 DEF LinkOk, k
<1>9. CASE k.stage = "up" /\ k.waits # "no"
  <2>1. a.wantwrite < Write /\ a.wantwrite = k.wantwrite + 1
    BY <1>1, <1>2, <1>4, <1>9, ConnectionsAssumption DEF Peer!Up
  <2>2. a.since = 0 \/ a.since <= Taken(a) + Silence + a.wantwrite
    <3>1. k.since = 0 \/ k.since <= Taken(k) + Silence + k.wantwrite
      BY <1>0, <1>9 DEF Waiting
    <3> QED BY <3>1, <2>1, <1>4, <1>5, <1>7, ConnectionsAssumption
  <2>3. Waiting(a)
    BY <2>1, <2>2, <1>0, <1>1, <1>4, <1>5, <1>6, <1>9 DEF Waiting
  <2>4. Peer!keepalive(a) = a
    BY <1>1, <1>9 DEF Peer!keepalive
  <2> QED BY <2>3, <2>4, <1>1, <1>3, <1>6, <1>9 DEF LinkOk, k
<1>10. CASE k.stage = "up" /\ k.waits = "no"
  <2>1. k.since = 0 \/ (k.lastwrite < Silence /\ k.since <= Taken(k) + k.lastwrite)
    BY <1>0, <1>10 DEF Waiting
  <2>2. CASE a.lastwrite < Silence
    <3>1. a.lastwrite = k.lastwrite + 1
      BY <2>2, <1>1, <1>4, ConnectionsAssumption DEF Peer!Up
    <3>2. a.since <= Taken(a) + a.lastwrite
      BY <2>1, <3>1, <1>4, <1>5, <1>7
    <3>3. Waiting(a)
      BY <2>2, <3>2, <1>0, <1>1, <1>5, <1>6, <1>10 DEF Waiting
    <3>4. Peer!keepalive(a) = a
      BY <2>2, <1>4, ConnectionsAssumption DEF Peer!keepalive
    <3> QED BY <3>3, <3>4, <1>1, <1>3, <1>6, <1>10 DEF LinkOk, k
  <2>3. CASE ~(a.lastwrite < Silence)
    <3> DEFINE l == [a EXCEPT !.waits = "hard", !.wantwrite = 0]
    <3>1. Peer!keepalive(a) = l
      <4>1. Peer!keepalive(a) = Peer!sending(a, "hard")
        BY <2>3, <1>1, <1>4, <1>10, ConnectionsAssumption DEF Peer!keepalive
      <4>2. Peer!sending(a, "hard") = l
        BY <1>1, <1>10 DEF Peer!sending, Link
      <4> QED BY <4>1, <4>2
    <3>2. /\ l \in Link /\ l.waits = "hard" /\ l.wantwrite = 0
          /\ l.stage = a.stage /\ l.n = a.n /\ l.id = a.id /\ l.incoming = a.incoming
          /\ l.lost = a.lost /\ l.since = a.since /\ l.room = a.room
      BY <1>1 DEF Link
    <3> HIDE DEF l
    <3>3. a.since <= Taken(a) + Silence
      BY <2>1, <1>4, <1>5, <1>7, ConnectionsAssumption
    <3>4. Taken(l) = Taken(a)
      BY <3>2 DEF Taken
    <3>5. Waiting(l)
      BY <3>2, <3>3, <3>4, <1>0, <1>1, <1>4, <1>5, <1>6, <1>7, <1>10, ConnectionsAssumption DEF Waiting
    <3>6. Shape(l)
      BY <3>2, <1>6, <1>10 DEF Shape
    <3>7. Same(k, l)
      BY <3>2, <1>1 DEF Same
    <3> QED BY <3>1, <3>2, <3>5, <3>6, <3>7, <1>3, <1>10 DEF LinkOk, k
  <2> QED BY <2>2, <2>3
<1> QED BY <1>8, <1>9, <1>10

\* The timer of the net: some peers are killed, the others grow older.
LEMMA Tick ==
    ASSUME PInv, Peer!tick
    PROVE  PInv'
<1> DEFINE gone == {c \in Peer!Live : Peer!Banned(c) \/ Peer!Timeout(c, Peer!aged(c))}
<1>1. /\ conn' = [c \in Conns |-> IF c \in gone \/ c \notin Peer!Live THEN Peer!Closed
                                  ELSE Peer!spoken(c)]
      /\ tbl' = Peer!Killed(gone) /\ npeers' = npeers - Cardinality(gone)
      /\ UNCHANGED <<net, records, fault>>
  BY PeerCardinality DEF Peer!tick
<1>2. gone \in SUBSET Peer!Live
  OBVIOUS
<1>3. \A c \in Peer!Live : c \notin gone => ~Peer!Timeout(c, Peer!aged(c))
  OBVIOUS
<1> HIDE DEF gone
<1>4. \A c \in Conns : LinkOk(conn'[c]) /\ IF c \in gone THEN conn'[c] = Peer!Closed
                                            ELSE Same(conn[c], conn'[c])
  <2> TAKE c \in Conns
  <2>1. CASE c \in gone
    BY <2>1, <1>1, ClosedOk
  <2>2. CASE c \notin gone /\ c \notin Peer!Live
    <3>1. conn[c] = Peer!Closed
      BY <2>2 DEF PInv, LinksOk, LinkOk, Shape, Peer!Live
    <3> QED BY <2>2, <3>1, <1>1, ClosedOk DEF Same
  <2>3. CASE c \notin gone /\ c \in Peer!Live
    BY <2>3, <1>1, <1>3, Spoken
  <2> QED BY <2>1, <2>2, <2>3
<1>5. conn' \in [Conns -> Link]
  <2>1. \A c \in Conns : conn'[c] \in Link
    BY <1>4 DEF LinkOk
  <2>2. conn' = [c \in Conns |-> conn'[c]]
    BY <1>1
  <2> QED BY <2>1, <2>2
<1> QED BY <1>1, <1>2, <1>4, <1>5, Kill

------------------------------------------------------------------------------
(* Torrents *)

\* net_create and net_start.
LEMMA NetStarts ==
    ASSUME PInv, NEW t \in Torrents, Peer!net_create(t) \/ Peer!net_start(t)
    PROVE  PInv'
<1>0. TypesFit /\ LinksOk /\ MetasOk /\ Count
  BY DEF PInv
<1>1. /\ UNCHANGED <<conn, npeers, tbl, records, fault>> /\ net[t] # "active"
      /\ \A u \in Torrents : net'[u] = IF u = t THEN net'[t] ELSE net[u]
      /\ net' \in [Torrents -> {"none", "stopped", "active"}]
  BY <1>0 DEF Peer!net_create, Peer!net_start, TypesFit
<1>2. LinksOk'
  <2>1. \A c \in Conns : conn[c].n # None => conn[c].n \in Torrents /\ net'[conn[c].n] = "active"
    BY <1>0, <1>1 DEF LinksOk, LinkOk, Link
  <2> QED BY <2>1, <1>0, <1>1 DEF LinksOk
<1>3. MetasOk'
  BY <1>0, <1>1 DEF MetasOk, MetaOk, Peer!References
<1> QED BY <1>0, <1>1, <1>2, <1>3 DEF PInv, TypesFit, Count, Peer!Live

\* net_stop kills every peer of the net.
LEMMA NetStop ==
    ASSUME PInv, NEW t \in Torrents, Peer!net_stop(t)
    PROVE  PInv'
<1> DEFINE gone == Peer!of_net(t)
<1>0. TypesFit /\ LinksOk /\ MetasOk /\ Count
  BY DEF PInv
<1>1. /\ net' = [net EXCEPT ![t] = "stopped"]
      /\ records' = [records EXCEPT ![t] = [i \in Ids |-> 0]]
      /\ tbl' = [tbl EXCEPT ![t] = [i \in Ids |->
                   Peer!mp_drop(tbl[t][i], records[t][i] + Peer!Ends(tbl[t][i], gone), gone)]]
      /\ conn' = [c \in Conns |-> IF c \in gone THEN Peer!Closed ELSE conn[c]]
      /\ npeers' = npeers - Cardinality(gone) /\ UNCHANGED fault
  BY <1>0, PeerCardinality DEF Peer!net_stop, TypesFit
<1>2. gone \in SUBSET Peer!Live /\ gone \in SUBSET Conns
      /\ \A c \in Conns : c \in gone <=> conn[c].stage # "none" /\ conn[c].n = t
  BY DEF Peer!of_net, Peer!Live
<1> HIDE DEF gone
<1>3. \A c \in Conns : c \notin gone => conn[c].n # t
  BY <1>0, <1>2, ConnectionsAssumption DEF LinksOk, LinkOk, Shape, Peer!Closed
<1>4. \A c \in Conns : conn'[c] = IF c \in gone THEN Peer!Closed ELSE conn[c]
  BY <1>1
<1>5. \A i \in Ids : LeftOver(tbl[t][i], tbl'[t][i], 0, gone) /\ records'[t][i] = 0
  <2> TAKE i \in Ids
  <2>1. tbl'[t][i] = Peer!mp_drop(tbl[t][i], records[t][i] + Peer!Ends(tbl[t][i], gone), gone)
        /\ records'[t][i] = 0
    BY <1>0, <1>1 DEF TypesFit
  <2>2. records[t][i] \in 0..MaxRecords /\ records[t][i] - records[t][i] = 0
    BY MetaIs, ConnectionsAssumption
  <2>3. PICK k \in 0..MaxRecords : k = records[t][i]
    BY <2>2
  <2>4. LeftOver(tbl[t][i], Peer!mp_drop(tbl[t][i], k + Peer!Ends(tbl[t][i], gone), gone),
             records[t][i] - k, gone)
    BY <1>2, <2>3, DropsOwn
  <2> QED BY <2>1, <2>2, <2>3, <2>4
<1>6. \A u \in Torrents : u # t => /\ tbl'[u] = tbl[u] /\ records'[u] = records[u] /\ net'[u] = net[u]
  BY <1>0, <1>1 DEF TypesFit
<1>7. /\ npeers' \in Nat /\ Peer!Live' = Peer!Live \ gone
      /\ npeers' = Cardinality(Peer!Live \ gone) /\ npeers' <= npeers
  <2>1. Peer!Live' = Peer!Live \ gone
    BY <1>4 DEF Peer!Live, Peer!Closed
  <2>2. IsFiniteSet(Peer!Live)
    BY ConnectionsAssumption, FS_Subset DEF Peer!Live
  <2>3. IsFiniteSet(gone) /\ IsFiniteSet(Peer!Live \ gone)
    BY <1>2, <2>2, FS_Subset
  <2>4. gone \union (Peer!Live \ gone) = Peer!Live
    BY <1>2
  <2>5. Cardinality(Peer!Live) = Cardinality(gone) + Cardinality(Peer!Live \ gone)
    BY <2>3, <2>4, DisjointUnion
  <2>6. Cardinality(gone) \in Nat /\ Cardinality(Peer!Live \ gone) \in Nat
    BY <2>3, FS_CardinalityType
  <2> QED BY <2>1, <2>5, <2>6, <1>0, <1>1 DEF Count
<1>8. TypesFit'
  <2>1. conn' \in [Conns -> Link]
    <3>1. \A c \in Conns : conn'[c] \in Link
      BY <1>0, <1>4, ClosedOk DEF LinkOk, TypesFit
    <3>2. conn' = [c \in Conns |-> conn'[c]]
      BY <1>1
    <3> QED BY <3>1, <3>2
  <2>2. tbl' \in [Torrents -> [Ids -> MetaPeer \union {None}]]
    <3>1. tbl' = [tbl EXCEPT ![t] = tbl'[t]] /\ tbl'[t] = [i \in Ids |-> tbl'[t][i]]
      BY <1>0, <1>1 DEF TypesFit
    <3>2. \A i \in Ids : tbl'[t][i] \in MetaPeer \union {None}
      BY <1>5 DEF LeftOver
    <3>3. tbl'[t] \in [Ids -> MetaPeer \union {None}]
      BY <3>1, <3>2
    <3> QED BY <3>1, <3>3, <1>0 DEF TypesFit
  <2>3. records' \in [Torrents -> [Ids -> 0..MaxRecords]]
    <3>1. 0 \in 0..MaxRecords
      BY ConnectionsAssumption
    <3> QED BY <3>1, <1>0, <1>1 DEF TypesFit
  <2>4. net' \in [Torrents -> {"none", "stopped", "active"}] /\ fault' = FALSE
    BY <1>0, <1>1 DEF TypesFit
  <2> QED BY <2>1, <2>2, <2>3, <2>4, <1>7 DEF TypesFit
<1>9. LinksOk'
  <2> SUFFICES ASSUME NEW c \in Conns
               PROVE  /\ LinkOk(conn'[c])
                      /\ conn'[c].n # None => net'[conn'[c].n] = "active"
                      /\ conn'[c].stage = "up" => /\ tbl'[conn'[c].n][conn'[c].id] # None
                                                  /\ tbl'[conn'[c].n][conn'[c].id].p = c
    BY DEF LinksOk
  <2>1. CASE c \in gone
    <3>1. conn'[c] = Peer!Closed /\ Peer!Closed.n = None /\ Peer!Closed.stage = "none"
      BY <2>1, <1>4 DEF Peer!Closed
    <3> QED BY <3>1, ClosedOk
  <2>2. CASE c \notin gone
    <3>1. conn'[c] = conn[c] /\ conn[c].n # t
      BY <2>2, <1>3, <1>4
    <3>2. conn[c].n \in Torrents \union {None} /\ (conn[c].stage = "up" => conn[c].n # None)
      BY <1>0 DEF LinksOk, LinkOk, Link, Shape
    <3>3. conn[c].n # None => net'[conn[c].n] = net[conn[c].n] /\ tbl'[conn[c].n] = tbl[conn[c].n]
      BY <3>1, <3>2, <1>6
    <3> QED BY <3>1, <3>2, <3>3, <1>0 DEF LinksOk
  <2> QED BY <2>1, <2>2
<1>10. MetasOk'
  <2> SUFFICES ASSUME NEW u \in Torrents, NEW i \in Ids
               PROVE  MetaOk(u, i)' /\ (net'[u] # "active" => records'[u][i] = 0)
    BY DEF MetasOk
  <2>1. MetaOk(u, i) /\ (net[u] # "active" => records[u][i] = 0)
        /\ (tbl[u][i] # None => tbl[u][i].p \in Conns \union {None})
    BY <1>0, MetaIs DEF MetasOk
  <2>2. CASE u = t
    <3>1. LeftOver(tbl[t][i], tbl'[t][i], 0, gone) /\ records'[t][i] = 0
      BY <1>5
    <3>2. tbl'[t][i] # None => tbl'[t][i].refs = Peer!References(t, i)' /\ tbl'[t][i].refs > 0
      BY <3>1 DEF LeftOver, Peer!References
    <3>3. tbl'[t][i] # None => tbl'[t][i].p = None
      <4>1. tbl'[t][i] # None => tbl[t][i] # None /\ tbl'[t][i].p = IF tbl[t][i].p \in gone THEN None ELSE tbl[t][i].p
        BY <3>1 DEF LeftOver
      <4>2. tbl[t][i] # None /\ tbl[t][i].p # None => tbl[t][i].p \in gone
        BY <2>1, <2>2, <1>2 DEF MetaOk
      <4> QED BY <4>1, <4>2
    <3> QED BY <2>2, <3>1, <3>2, <3>3 DEF MetaOk
  <2>3. CASE u # t
    <3>1. tbl'[u][i] = tbl[u][i] /\ records'[u][i] = records[u][i] /\ net'[u] = net[u]
      BY <2>3, <1>6
    <3>2. Peer!References(u, i)' = Peer!References(u, i)
      BY <3>1 DEF Peer!References
    <3>3. tbl[u][i] # None /\ tbl[u][i].p # None => conn'[tbl[u][i].p] = conn[tbl[u][i].p]
      BY <2>1, <2>3, <1>2, <1>4 DEF MetaOk
    <3> QED BY <2>1, <3>1, <3>2, <3>3 DEF MetaOk
  <2> QED BY <2>2, <2>3
<1>11. Count'
  BY <1>0, <1>7, ConnectionsAssumption DEF Count, TypesFit
<1> QED BY <1>8, <1>9, <1>10, <1>11 DEF PInv

\* Nothing refers to the net that is freed.
LEMMA NetKill ==
    ASSUME PInv, NEW t \in Torrents, Peer!net_kill(t)
    PROVE  PInv'
<1>0. TypesFit /\ LinksOk /\ MetasOk /\ Count
  BY DEF PInv
<1>1. /\ net[t] = "stopped" /\ net' = [net EXCEPT ![t] = "none"]
      /\ tbl' = [tbl EXCEPT ![t] = [i \in Ids |-> None]]
      /\ UNCHANGED <<conn, npeers, records>>
      /\ fault' = (\/ \E c \in Peer!Live : conn[c].n = t
                   \/ \E i \in Ids : tbl[t][i] # None /\ tbl[t][i].p # None)
  BY DEF Peer!net_kill
<1>2. \A c \in Conns : conn[c].n # t
  BY <1>0, <1>1, ConnectionsAssumption DEF LinksOk
<1>3. \A i \in Ids : tbl[t][i] # None => tbl[t][i].p = None
  <2> SUFFICES ASSUME NEW i \in Ids, tbl[t][i] # None, tbl[t][i].p # None PROVE FALSE
    OBVIOUS
  <2>1. tbl[t][i].p \in Conns /\ conn[tbl[t][i].p].n = t
    BY MetaIs DEF MetaOk
  <2> QED BY <2>1, <1>2
<1>4. fault' = FALSE
  <2>1. ~(\E c \in Peer!Live : conn[c].n = t)
    BY <1>2 DEF Peer!Live
  <2>2. ~(\E i \in Ids : tbl[t][i] # None /\ tbl[t][i].p # None)
    BY <1>3
  <2> QED BY <2>1, <2>2, <1>1
<1>5. /\ \A u \in Torrents : u # t => tbl'[u] = tbl[u] /\ net'[u] = net[u]
      /\ \A i \in Ids : tbl'[t][i] = None /\ records[t][i] = 0
      /\ net'[t] = "none"
  BY <1>0, <1>1 DEF TypesFit, MetasOk
<1>6. TypesFit'
  BY <1>0, <1>1, <1>4 DEF TypesFit
<1>7. LinksOk'
  <2>1. \A c \in Conns : /\ conn[c].n # None => conn[c].n \in Torrents /\ conn[c].n # t
                         /\ conn[c].stage = "up" => conn[c].n # None
    BY <1>0, <1>2 DEF LinksOk, LinkOk, Link, Shape
  <2> QED BY <2>1, <1>0, <1>1, <1>5 DEF LinksOk
<1>8. MetasOk'
  <2> SUFFICES ASSUME NEW u \in Torrents, NEW i \in Ids
               PROVE  MetaOk(u, i)' /\ (net'[u] # "active" => records'[u][i] = 0)
    BY DEF MetasOk
  <2>1. CASE u = t
    BY <2>1, <1>1, <1>5 DEF MetaOk
  <2>2. CASE u # t
    <3>1. tbl'[u][i] = tbl[u][i] /\ records'[u][i] = records[u][i] /\ net'[u] = net[u]
      BY <2>2, <1>1, <1>5
    <3>2. MetaOk(u, i) /\ (net[u] # "active" => records[u][i] = 0)
      BY <1>0 DEF MetasOk
    <3> QED BY <3>1, <3>2, <1>1 DEF MetaOk, Peer!References
  <2> QED BY <2>1, <2>2
<1> QED BY <1>0, <1>1, <1>6, <1>7, <1>8 DEF PInv, Count, Peer!Live

------------------------------------------------------------------------------
\* At the start there is nothing.
LEMMA PeersInit == Peer!Init => PInv
<1> SUFFICES ASSUME Peer!Init PROVE PInv
  OBVIOUS
<1> USE ConnectionsAssumption
<1>1. \A c \in Conns : conn[c] = Peer!Closed /\ Peer!Closed.n = None /\ Peer!Closed.stage = "none"
  BY DEF Peer!Init, Peer!Closed
<1>2. TypesFit
  <2>1. conn \in [Conns -> Link]
    BY ClosedOk DEF Peer!Init, LinkOk
  <2>2. 0 \in 0..MaxRecords
    OBVIOUS
  <2> QED BY <2>1, <2>2 DEF Peer!Init, TypesFit
<1>3. LinksOk
  BY <1>1, ClosedOk DEF LinksOk
<1>4. MetasOk
  BY DEF Peer!Init, MetasOk, MetaOk
<1>5. Count
  <2>1. Peer!Live = {}
    BY <1>1 DEF Peer!Live
  <2> QED BY <2>1, FS_EmptySet DEF Count, Peer!Init
<1> QED BY <1>2, <1>3, <1>4, <1>5 DEF PInv

\* Every step keeps the invariant.
LEMMA PeersStep == PInv /\ [Peer!Next]_Peer!vars => PInv'
<1> SUFFICES ASSUME PInv, [Peer!Next]_Peer!vars PROVE PInv'
  OBVIOUS
<1>1. CASE UNCHANGED Peer!vars
  <2>1. UNCHANGED <<conn, npeers, net, tbl, records, fault>>
    BY <1>1 DEF Peer!vars
  <2>2. TypesFit' /\ LinksOk' /\ MetasOk' /\ Count'
    <3>1. TypesFit /\ LinksOk /\ MetasOk /\ Count
      BY DEF PInv
    <3>2. TypesFit' /\ LinksOk'
      BY <2>1, <3>1 DEF TypesFit, LinksOk
    <3>3. MetasOk' /\ Count'
      BY <2>1, <3>1 DEF MetasOk, MetaOk, Peer!References, Count, Peer!Live
    <3> QED BY <3>2, <3>3
  <2> QED BY <2>2 DEF PInv
<1>2. CASE Peer!tick
  BY <1>2, Tick
<1>3. ASSUME NEW c \in Conns,
             \/ Peer!peer_create_in(c) \/ Peer!shake_pstr(c) \/ Peer!shake_info(c)
             \/ Peer!piece_log_block(c) \/ Peer!peer_send(c) \/ Peer!peer_unsend(c)
             \/ Peer!net_write(c) \/ Peer!net_write_again(c) \/ Peer!vanish(c) \/ Peer!drop(c)
             \/ \E i \in Ids : Peer!shake_id(c, i)
             \/ \E t \in Torrents : Peer!peer_create_out(c, t)
      PROVE  PInv'
  BY <1>3, PeerCreate, ShakePstr, ShakeInfo, ShakeId, PieceLogBlock, PeerSend, PeerUnsend,
     NetWrite, NetWriteAgain, Vanish, PeerDrop
<1>4. ASSUME NEW t \in Torrents,
             \/ Peer!net_create(t) \/ Peer!net_start(t) \/ Peer!net_stop(t) \/ Peer!net_kill(t)
             \/ \E i \in Ids : Peer!piece_log_free(t, i) \/ Peer!net_ban_peer(t, i)
      PROVE  PInv'
  BY <1>4, NetStarts, NetStop, NetKill, PieceLogFree, NetBanPeer
<1> QED BY <1>1, <1>2, <1>3, <1>4 DEF Peer!Next

\* The tables of connections and of meta peers agree, meta peers are freed
\* exactly when nothing refers to them, and no net is freed under a connection
\* (TablesAgree).
THEOREM TablesCorrect == Peer!Spec => []Peer!TablesAgree
<1>1. PInv => Peer!TablesAgree
  BY PeersFollow
<1> QED BY <1>1, PeersInit, PeersStep, PTL DEF Peer!Spec

\* A peer that vanishes is dropped in time, whatever is sent to it meanwhile
\* (LostLeave).
THEOREM LostCorrect == Peer!Spec => []Peer!LostLeave
<1>1. PInv => Peer!LostLeave
  BY PeersFollow
<1> QED BY <1>1, PeersInit, PeersStep, PTL DEF Peer!Spec


------------------------------------------------------------------------------
(* The four together *)

\* A behaviour of the composition is one of each part.
LEMMA Parts == MCSpec => Peer!Spec /\ Loop!Spec /\ Batch!Spec
<1>1. MCInit => Peer!Init /\ Loop!Init /\ Batch!Init
  BY DEF MCInit
<1>2. [MCNext]_<<part, vars, peersvars, loopvars, batchvars>> =>
        [Peer!Next]_Peer!vars /\ [Loop!Next]_Loop!vars /\ [Batch!Next]_Batch!vars
  <2>1. UNCHANGED batchvars => UNCHANGED Batch!vars
    BY DEF batchvars, Batch!vars, Batch!regs
  <2>2. [MCNext]_<<part, vars, peersvars, loopvars, batchvars>> =>
          /\ Peer!Next \/ UNCHANGED peersvars
          /\ Loop!Next \/ UNCHANGED loopvars
          /\ Batch!Next \/ UNCHANGED batchvars
    BY DEF MCNext
  <2>3. /\ UNCHANGED peersvars => UNCHANGED Peer!vars
        /\ UNCHANGED loopvars => UNCHANGED Loop!vars
    BY DEF peersvars, loopvars, Peer!vars, Loop!vars
  <2> QED BY <2>1, <2>2, <2>3
<1> QED
  BY <1>1, <1>2, PTL DEF MCSpec, Peer!Spec, Loop!Spec, Batch!Spec

\* In every behaviour of the composition the tables of connections and meta
\* peers agree.
THEOREM TablesHold == MCSpec => []TablesAgree
BY Parts, TablesCorrect, PTL DEF TablesAgree

\* In every behaviour of the composition a peer that vanished is dropped in time.
THEOREM LostHold == MCSpec => []LostLeave
BY Parts, LostCorrect, PTL DEF LostLeave

\* Whatever the backend, the event loop calls back only for events that are
\* registered and enabled.
THEOREM CallsHold == MCSpec => []CallsLive
<1>1. Loop!CallsLive /\ Batch!BatchLive => CallsLive
  BY DEF CallsLive
<1> QED
  BY <1>1, Parts, LoopCorrect, BatchCorrect, PTL

=============================================================================
