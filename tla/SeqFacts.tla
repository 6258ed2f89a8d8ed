------------------------------ MODULE SeqFacts ------------------------------
(***************************************************************************)
(* Facts about sequences without repetitions and about finite sets that    *)
(* the proofs need: what a BTPDQ list is after an insertion or a removal,  *)
(* and least and greatest positions.                                       *)
(***************************************************************************)
EXTENDS Integers, Sequences, FiniteSets, SequencesExt, FiniteSetTheorems, TLAPS

Distinct(s) == \A i, j \in 1..Len(s) : s[i] = s[j] => i = j

\* The range of a sequence, by its indices.
LEMMA RangeSeq ==
    ASSUME NEW S, NEW s \in Seq(S)
    PROVE  Range(s) = {s[i] : i \in 1..Len(s)} /\ Range(s) \subseteq S
BY DEF Range

\* Disjoint finite sets.
LEMMA DisjointUnion ==
    ASSUME NEW S, NEW T, IsFiniteSet(S), IsFiniteSet(T), S \intersect T = {}
    PROVE  /\ IsFiniteSet(S \union T)
           /\ Cardinality(S \union T) = Cardinality(S) + Cardinality(T)
<1>1. /\ IsFiniteSet(S \union T)
      /\ Cardinality(S \union T)
           = Cardinality(S) + Cardinality(T) - Cardinality(S \intersect T)
  BY FS_Union
<1>2. Cardinality(S \intersect T) = 0
  BY FS_EmptySet
<1>3. Cardinality(S) \in Nat /\ Cardinality(T) \in Nat
  BY FS_CardinalityType
<1> QED BY <1>1, <1>2, <1>3

\* Appending a new element.
LEMMA AppendQueue ==
    ASSUME NEW S, NEW s \in Seq(S), NEW e \in S, Distinct(s), e \notin Range(s)
    PROVE  /\ Append(s, e) \in Seq(S) /\ Append(s, e) # <<>>
           /\ Range(Append(s, e)) = Range(s) \union {e}
           /\ Distinct(Append(s, e))
<1> DEFINE t == Append(s, e)
<1>1. /\ t \in Seq(S) /\ Len(t) = Len(s) + 1 /\ t # <<>> /\ Len(s) \in Nat
      /\ \A i \in 1..Len(s) : t[i] = s[i]
      /\ t[Len(s) + 1] = e
  OBVIOUS
<1>2. Range(s) = {s[i] : i \in 1..Len(s)} /\ Range(t) = {t[i] : i \in 1..Len(t)}
  BY <1>1, RangeSeq
<1> HIDE DEF t
<1>3. Range(t) = Range(s) \union {e}
  <2>1. ASSUME NEW x \in Range(t) PROVE x \in Range(s) \union {e}
    BY <1>1, <1>2
  <2>2. ASSUME NEW x \in Range(s) \union {e} PROVE x \in Range(t)
    BY <1>1, <1>2
  <2> QED BY <2>1, <2>2
<1>4. Distinct(t)
  BY <1>1, <1>2 DEF Distinct
<1> QED BY <1>1, <1>3, <1>4 DEF t

\* Taking the first element.
LEMMA TailQueue ==
    ASSUME NEW S, NEW s \in Seq(S), s # <<>>, Distinct(s)
    PROVE  /\ Head(s) \in S /\ Tail(s) \in Seq(S)
           /\ Range(s) = Range(Tail(s)) \union {Head(s)}
           /\ Head(s) \notin Range(Tail(s))
           /\ Distinct(Tail(s))
<1> DEFINE t == Tail(s)
<1>1. /\ t \in Seq(S) /\ Len(t) = Len(s) - 1 /\ Len(s) \in Nat \ {0}
      /\ \A i \in 1..Len(t) : t[i] = s[i + 1]
      /\ Head(s) = s[1] /\ Head(s) \in S
  OBVIOUS
<1>2. Range(s) = {s[i] : i \in 1..Len(s)} /\ Range(t) = {t[i] : i \in 1..Len(t)}
  BY <1>1, RangeSeq
<1> HIDE DEF t
<1>3. ASSUME NEW x \in Range(s) PROVE x \in Range(t) \union {Head(s)}
  <2>1. PICK i \in 1..Len(s) : x = s[i]
    BY <1>2, <1>3
  <2>2. CASE i = 1
    BY <2>1, <2>2, <1>1
  <2>3. CASE i # 1
    <3>1. i - 1 \in 1..Len(t) /\ t[i - 1] = s[i]
      BY <1>1, <2>3
    <3> QED BY <3>1, <2>1, <1>2
  <2> QED BY <2>2, <2>3
<1>4. ASSUME NEW x \in Range(t) \union {Head(s)} PROVE x \in Range(s)
  BY <1>1, <1>2
<1>5. Head(s) \notin Range(t)
  BY <1>1, <1>2 DEF Distinct
<1>6. Distinct(t)
  BY <1>1 DEF Distinct
<1> QED BY <1>1, <1>3, <1>4, <1>5, <1>6 DEF t

\* A queue of different elements is as long as the set of its elements.
LEMMA LenIsCardinality ==
    ASSUME NEW S, NEW s \in Seq(S), Distinct(s)
    PROVE  IsFiniteSet(Range(s)) /\ Cardinality(Range(s)) = Len(s)
<1>1. Len(s) \in Nat /\ s \in [1..Len(s) -> Range(s)] /\ DOMAIN s = 1..Len(s)
  BY DEF Range
<1>2. s \in Bijection(1..Len(s), Range(s))
  BY <1>1 DEF Bijection, Injection, IsInjective, Surjection, Range, Distinct
<1>3. ExistsBijection(1..Len(s), Range(s))
  BY <1>2 DEF ExistsBijection
<1>4. IsFiniteSet(1..Len(s)) /\ Cardinality(1..Len(s)) = Len(s)
  BY <1>1, FS_Interval
<1> QED BY <1>3, <1>4, FS_Bijection

------------------------------------------------------------------------------
(* Least and greatest elements *)

\* A set of natural numbers has a least element.
LEMMA LeastElement ==
    ASSUME NEW T \in SUBSET Nat, T # {}
    PROVE  \E m \in T : \A k \in T : m <= k
<1> DEFINE F == {0..n : n \in T}
           R == StrictSubsetOrdering(Nat)
           G == FiniteSubsetsOf(Nat)
<1>1. IsWellFoundedOn(R, G)
  BY FS_StrictSubsetOrderingWellFounded
<1>2. F \subseteq G /\ F # {}
  <2>1. \A n \in T : IsFiniteSet(0..n) /\ 0..n \in SUBSET Nat
    BY FS_Interval
  <2> QED BY <2>1 DEF FiniteSubsetsOf
<1>3. \E x \in F : \A y \in F : ~(<<y, x>> \in R)
  <2> HIDE DEF F, R, G
  <2> QED BY <1>1, <1>2, WFMin
<1>4. PICK m \in T : \A y \in F : ~(<<y, 0..m>> \in R)
  BY <1>3
<1>5. ASSUME NEW k \in T, k < m PROVE FALSE
  <2>1. 0..k \in F /\ 0..k \in SUBSET Nat /\ 0..m \in SUBSET Nat
    OBVIOUS
  <2>2. 0..k \subseteq 0..m /\ 0..k # 0..m
    BY <1>5
  <2> QED BY <1>4, <2>1, <2>2 DEF StrictSubsetOrdering
<1> QED BY <1>5

\* What the steps keep holds of all values of a function on 0..n.
LEMMA Inductively ==
    ASSUME NEW n \in Nat, NEW f, NEW S, f[0] \in S[0],
           \A i \in 1..n : f[i - 1] \in S[i - 1] => f[i] \in S[i]
    PROVE  \A i \in 0..n : f[i] \in S[i]
<1> DEFINE T == {i \in 0..n : f[i] \notin S[i]}
<1> SUFFICES ASSUME T # {} PROVE FALSE
  OBVIOUS
<1>1. T \in SUBSET Nat
  OBVIOUS
<1>2. PICK m \in T : \A i \in T : m <= i
  <2> HIDE DEF T
  <2> QED BY <1>1, LeastElement
<1>3. m \in 0..n /\ f[m] \notin S[m] /\ m # 0
  OBVIOUS
<1>4. m - 1 \in 0..n /\ m \in 1..n /\ m - 1 \notin T
  BY <1>2, <1>3
<1> QED BY <1>3, <1>4

\* A bounded one has a greatest element.
LEMMA GreatestElement ==
    ASSUME NEW n \in Nat, NEW T \in SUBSET (0..n), T # {}
    PROVE  \E m \in T : \A k \in T : k <= m
<1> DEFINE U == {n - k : k \in T}
<1>1. U \in SUBSET Nat /\ U # {}
  <2>1. \A k \in T : k \in Nat /\ k <= n /\ n - k \in Nat
    OBVIOUS
  <2> QED BY <2>1
<1>2. PICK u \in U : \A k \in U : u <= k
  <2> HIDE DEF U
  <2> QED BY <1>1, LeastElement
<1>3. PICK m \in T : u = n - m
  OBVIOUS
<1>4. ASSUME NEW k \in T PROVE k <= m
  <2>1. n - m <= n - k
    BY <1>2, <1>3
  <2>2. k \in Int /\ m \in Int
    OBVIOUS
  <2> QED BY <2>1, <2>2
<1> QED BY <1>4

\* The first position of an element.
LEMMA FirstPosition ==
    ASSUME NEW S, NEW s \in Seq(S), NEW e, Contains(s, e)
    PROVE  LET i == SelectInSeq(s, LAMBDA x : x = e) IN i \in 1..Len(s) /\ s[i] = e
<1> DEFINE I == {i \in 1..Len(s) : s[i] = e}
<1>1. SelectInSeq(s, LAMBDA x : x = e) = Min(I)
  BY DEF SelectInSeq, Contains
<1>2. I # {} /\ I \in SUBSET Nat
  BY DEF Contains
<1> HIDE DEF I
<1>3. PICK m \in I : \A k \in I : m <= k
  BY <1>2, LeastElement
<1>4. Min(I) \in I
  BY <1>3 DEF Min
<1> QED BY <1>1, <1>4 DEF I

------------------------------------------------------------------------------
(* Removing and moving an element *)

\* Removing the element at a position.
LEMMA RemoveAtSeq ==
    ASSUME NEW S, NEW s \in Seq(S), NEW i \in 1..Len(s)
    PROVE  /\ RemoveAt(s, i) \in Seq(S) /\ Len(RemoveAt(s, i)) = Len(s) - 1
           /\ \A j \in 1..(Len(s) - 1) : RemoveAt(s, i)[j] = IF j < i THEN s[j] ELSE s[j + 1]
<1> DEFINE a == SubSeq(s, 1, i - 1)
           b == SubSeq(s, i + 1, Len(s))
<1>1. Len(s) \in Nat /\ i \in Nat /\ 1 <= i /\ i <= Len(s)
  OBVIOUS
<1>2. /\ a \in Seq(S) /\ Len(a) = i - 1
      /\ \A j \in 1..(i - 1) : a[j] = s[j]
  <2>1. \A j \in 1..(i - 1) : s[j] \in S
    BY <1>1
  <2>2. a = [j \in 1..(i - 1) |-> s[j]]
    BY <1>1
  <2> QED BY <1>1, <2>1, <2>2
<1>3. /\ b \in Seq(S) /\ Len(b) = Len(s) - i
      /\ \A j \in 1..(Len(s) - i) : b[j] = s[i + j]
  BY <1>1
<1>4. RemoveAt(s, i) = a \o b
  BY DEF RemoveAt
<1> HIDE DEF a, b
<1>5. RemoveAt(s, i) \in Seq(S) /\ Len(RemoveAt(s, i)) = Len(s) - 1
  <2>0. a \in Seq(S) /\ b \in Seq(S)
    BY <1>2, <1>3
  <2>1. a \o b \in Seq(S) /\ Len(a \o b) = Len(a) + Len(b)
    BY ONLY <2>0
  <2>2. Len(a) + Len(b) = Len(s) - 1
    BY <1>1, <1>2, <1>3
  <2> QED BY <1>4, <2>1, <2>2
<1>6. ASSUME NEW j \in 1..(Len(s) - 1)
      PROVE  RemoveAt(s, i)[j] = IF j < i THEN s[j] ELSE s[j + 1]
  <2>1. CASE j < i
    BY <1>1, <1>2, <1>3, <1>4, <2>1
  <2>2. CASE ~(j < i)
    <3>1. j - (i - 1) \in 1..(Len(s) - i) /\ i + (j - (i - 1)) = j + 1
      BY <1>1, <2>2
    <3>2. RemoveAt(s, i)[j] = b[j - (i - 1)]
      BY <1>1, <1>2, <1>3, <1>4, <2>2, <3>1
    <3> QED BY <1>3, <2>2, <3>1, <3>2
  <2> QED BY <2>1, <2>2
<1> QED BY <1>5, <1>6

\* RemoveFirst takes one occurrence of an element away.
LEMMA RemoveFirstSeq ==
    ASSUME NEW S, NEW s \in Seq(S), NEW e \in Range(s)
    PROVE  LET u == RemoveFirst(s, e) IN
           /\ u \in Seq(S) /\ Len(u) = Len(s) - 1
           /\ Range(s) = Range(u) \union {e}
           /\ Distinct(s) => Distinct(u) /\ e \notin Range(u)
<1> DEFINE i == SelectInSeq(s, LAMBDA x : x = e)
           u == RemoveFirst(s, e)
<1>1. Contains(s, e) /\ \E k \in 1..Len(s) : s[k] = e
  BY RangeSeq DEF Contains
<1>2. i \in 1..Len(s) /\ s[i] = e
  BY <1>1, FirstPosition
<1>3. u = RemoveAt(s, i)
  BY <1>1 DEF RemoveFirst
<1> HIDE DEF i, u
<1>4. /\ u \in Seq(S) /\ Len(u) = Len(s) - 1 /\ Len(s) \in Nat \ {0}
      /\ \A j \in 1..(Len(s) - 1) : u[j] = IF j < i THEN s[j] ELSE s[j + 1]
  <2>1. /\ RemoveAt(s, i) \in Seq(S) /\ Len(RemoveAt(s, i)) = Len(s) - 1
        /\ \A j \in 1..(Len(s) - 1) : RemoveAt(s, i)[j] = IF j < i THEN s[j] ELSE s[j + 1]
    BY <1>2, RemoveAtSeq
  <2>2. Len(s) \in Nat \ {0}
    BY <1>2
  <2> QED BY <1>3, <2>1, <2>2
<1>5. Range(s) = {s[k] : k \in 1..Len(s)} /\ Range(u) = {u[k] : k \in 1..Len(u)}
  BY <1>4, RangeSeq
<1>6. ASSUME NEW x \in Range(u) PROVE x \in Range(s)
  <2>1. PICK k \in 1..Len(u) : x = u[k]
    BY <1>5
  <2>2. k \in 1..Len(s) /\ k + 1 \in 1..Len(s) /\ k \in 1..(Len(s) - 1)
    BY <1>4
  <2> QED BY <1>4, <1>5, <2>1, <2>2
<1>7. ASSUME NEW x \in Range(s), x # e PROVE x \in Range(u)
  <2>1. PICK k \in 1..Len(s) : x = s[k]
    BY <1>5
  <2>2. CASE k < i
    <3>1. k \in 1..Len(u) /\ u[k] = s[k]
      BY <1>2, <1>4, <2>2
    <3> QED BY <1>5, <2>1, <3>1
  <2>3. CASE k > i
    <3>1. k - 1 \in 1..Len(u) /\ ~(k - 1 < i) /\ k - 1 + 1 = k
      BY <1>2, <1>4, <2>3
    <3>2. u[k - 1] = s[k]
      BY <1>4, <3>1
    <3> QED BY <1>5, <2>1, <3>1, <3>2
  <2> QED BY <1>2, <1>7, <2>1, <2>2, <2>3
<1>8. ASSUME Distinct(s) PROVE Distinct(u) /\ e \notin Range(u)
  <2>1. \A j, k \in 1..Len(s) : s[j] = s[k] => j = k
    BY <1>8 DEF Distinct
  <2> DEFINE g(j) == IF j < i THEN j ELSE j + 1
  <2>2. \A j \in 1..Len(u) : g(j) \in 1..Len(s) /\ g(j) # i /\ u[j] = s[g(j)]
    BY <1>2, <1>4
  <2>3. \A j, k \in 1..Len(u) : g(j) = g(k) => j = k
    BY <1>2, <1>4
  <2> HIDE DEF g
  <2>4. Distinct(u)
    BY <2>1, <2>2, <2>3 DEF Distinct
  <2>5. e \notin Range(u)
    BY <1>2, <1>5, <2>1, <2>2
  <2> QED BY <2>4, <2>5
<1>9. e \in Range(s) /\ Range(s) = Range(u) \union {e}
  BY <1>6, <1>7
<1> QED BY <1>4, <1>8, <1>9 DEF u

\* Moving an element to the front keeps the elements and their number.
LEMMA MoveFirst ==
    ASSUME NEW S, NEW s \in Seq(S), NEW e \in Range(s)
    PROVE  LET u == <<e>> \o RemoveFirst(s, e) IN
           u \in Seq(S) /\ Len(u) = Len(s) /\ Range(u) = Range(s)
<1> DEFINE v == RemoveFirst(s, e)
           u == <<e>> \o v
<1>1. v \in Seq(S) /\ Len(v) = Len(s) - 1 /\ Range(s) = Range(v) \union {e}
  BY RemoveFirstSeq
<1>2. e \in S /\ Len(s) \in Nat
  BY RangeSeq
<1> HIDE DEF v
<1>3. /\ u \in Seq(S) /\ Len(u) = Len(s) /\ u[1] = e
      /\ \A j \in 1..Len(v) : u[j + 1] = v[j]
      /\ \A j \in 2..Len(u) : j - 1 \in 1..Len(v) /\ u[j] = v[j - 1]
  BY <1>1, <1>2
<1> HIDE DEF u
<1>4. Range(u) = {u[k] : k \in 1..Len(u)} /\ Range(v) = {v[k] : k \in 1..Len(v)}
  BY <1>1, <1>3, RangeSeq
<1>5. Range(u) \subseteq Range(v) \union {e}
  <2> SUFFICES ASSUME NEW j \in 1..Len(u), j # 1 PROVE u[j] \in Range(v)
    BY <1>3, <1>4
  <2>1. j \in 2..Len(u)
    BY <1>2, <1>3
  <2>2. j - 1 \in 1..Len(v) /\ u[j] = v[j - 1]
    BY <1>3, <2>1
  <2> QED BY <1>4, <2>2
<1>6. Range(v) \union {e} \subseteq Range(u)
  <2>1. 1 \in 1..Len(u) /\ \A j \in 1..Len(v) : j + 1 \in 1..Len(u)
    BY <1>1, <1>2, <1>3
  <2> QED BY <1>3, <1>4, <2>1
<1> QED BY <1>1, <1>3, <1>5, <1>6 DEF u, v

\* Part of a sequence.
LEMMA SubSeqSeq ==
    ASSUME NEW S, NEW s \in Seq(S), NEW m \in 1..(Len(s) + 1), NEW n \in (m - 1)..Len(s)
    PROVE  /\ SubSeq(s, m, n) \in Seq(S) /\ Len(SubSeq(s, m, n)) = n - m + 1
           /\ \A j \in 1..(n - m + 1) : SubSeq(s, m, n)[j] = s[m + j - 1]
<1>1. Len(s) \in Nat /\ m \in Nat /\ 1 <= m /\ n \in Nat /\ m - 1 <= n /\ n <= Len(s)
  OBVIOUS
<1>2. \A j \in 1..(n - m + 1) : m + j - 1 \in 1..Len(s)
  BY <1>1
<1>3. SubSeq(s, m, n) = [j \in 1..(n - m + 1) |-> s[m + j - 1]]
  <2>1. 1 + n - m = n - m + 1
    BY <1>1
  <2>2. \A j \in 1..(n - m + 1) : m + j - 1 = j + m - 1
    BY <1>1
  <2> QED BY <1>1, <2>1, <2>2
<1>4. n - m + 1 \in Nat
  BY <1>1
<1>5. SubSeq(s, m, n) \in [1..(n - m + 1) -> S]
  BY <1>2, <1>3
<1> QED BY <1>3, <1>4, <1>5

\* One sequence after another.
LEMMA ConcatSeq ==
    ASSUME NEW S, NEW s \in Seq(S), NEW t \in Seq(S)
    PROVE  /\ s \o t \in Seq(S) /\ Len(s \o t) = Len(s) + Len(t)
           /\ \A j \in 1..(Len(s) + Len(t)) :
                 (s \o t)[j] = IF j <= Len(s) THEN s[j] ELSE t[j - Len(s)]
OBVIOUS

\* Inserting a new element.
LEMMA InsertAtSeq ==
    ASSUME NEW S, NEW s \in Seq(S), NEW i \in 1..(Len(s) + 1), NEW e \in S,
           Distinct(s), e \notin Range(s)
    PROVE  LET u == InsertAt(s, i, e) IN
           /\ u \in Seq(S) /\ Len(u) = Len(s) + 1
           /\ Range(u) = Range(s) \union {e} /\ Distinct(u)
<1> DEFINE a == SubSeq(s, 1, i - 1)
           b == SubSeq(s, i, Len(s))
           c == a \o <<e>>
           u == InsertAt(s, i, e)
<1>1. Len(s) \in Nat /\ i \in Nat /\ 1 <= i /\ i <= Len(s) + 1
  OBVIOUS
<1>2. /\ a \in Seq(S) /\ Len(a) = i - 1
      /\ \A j \in 1..(i - 1) : a[j] = s[j]
  <2>1. 1 \in 1..(Len(s) + 1) /\ i - 1 \in (1 - 1)..Len(s) /\ (i - 1) - 1 + 1 = i - 1
    BY <1>1
  <2>2. /\ a \in Seq(S) /\ Len(a) = (i - 1) - 1 + 1
        /\ \A j \in 1..((i - 1) - 1 + 1) : a[j] = s[1 + j - 1]
    BY <2>1, SubSeqSeq
  <2> HIDE DEF a
  <2> QED BY <2>1, <2>2
<1>3. /\ b \in Seq(S) /\ Len(b) = Len(s) - i + 1
      /\ \A j \in 1..(Len(s) - i + 1) : b[j] = s[i + j - 1]
  <2>1. i \in 1..(Len(s) + 1) /\ Len(s) \in (i - 1)..Len(s)
    BY <1>1
  <2> QED BY <2>1, SubSeqSeq
<1>4. u = c \o b
  BY DEF InsertAt
<1> HIDE DEF a, b, u
<1>5. /\ c \in Seq(S) /\ Len(c) = i
      /\ \A j \in 1..i : c[j] = IF j < i THEN s[j] ELSE e
  <2>1. /\ c \in Seq(S) /\ Len(c) = Len(a) + Len(<<e>>)
        /\ \A j \in 1..(Len(a) + Len(<<e>>)) :
              c[j] = IF j <= Len(a) THEN a[j] ELSE <<e>>[j - Len(a)]
    <3>1. <<e>> \in Seq(S)
      OBVIOUS
    <3> QED BY <1>2, <3>1, ConcatSeq
  <2>2. Len(<<e>>) = 1 /\ <<e>>[1] = e
    OBVIOUS
  <2> HIDE DEF c
  <2>3. Len(a) + Len(<<e>>) = i
    BY <1>1, <1>2, <2>2
  <2>4. ASSUME NEW j \in 1..i PROVE c[j] = IF j < i THEN s[j] ELSE e
    <3>1. CASE j < i
      BY <1>1, <1>2, <2>1, <2>3, <3>1
    <3>2. CASE ~(j < i)
      <4>1. j = i /\ ~(j <= Len(a)) /\ j - Len(a) = 1
        BY <1>1, <1>2, <3>2
      <4> QED BY <2>1, <2>2, <2>3, <4>1
    <3> QED BY <3>1, <3>2
  <2> QED BY <2>1, <2>3, <2>4
<1> HIDE DEF c
<1>6. /\ u \in Seq(S) /\ Len(u) = Len(s) + 1
      /\ \A j \in 1..(Len(s) + 1) : u[j] = IF j < i THEN s[j] ELSE IF j = i THEN e ELSE s[j - 1]
  <2>1. /\ u \in Seq(S) /\ Len(u) = Len(c) + Len(b)
        /\ \A j \in 1..(Len(c) + Len(b)) : u[j] = IF j <= Len(c) THEN c[j] ELSE b[j - Len(c)]
    BY <1>3, <1>4, <1>5, ConcatSeq
  <2>2. Len(c) + Len(b) = Len(s) + 1
    BY <1>1, <1>3, <1>5
  <2>3. ASSUME NEW j \in 1..(Len(s) + 1)
        PROVE  u[j] = IF j < i THEN s[j] ELSE IF j = i THEN e ELSE s[j - 1]
    <3>1. CASE j <= i
      BY <1>1, <1>5, <2>1, <2>2, <3>1
    <3>2. CASE ~(j <= i)
      <4>1. j - i \in 1..(Len(s) - i + 1) /\ i + (j - i) - 1 = j - 1
        BY <1>1, <3>2
      <4>2. u[j] = b[j - i]
        BY <1>1, <1>5, <2>1, <2>2, <3>2
      <4>3. ~(j < i) /\ j # i
        BY <1>1, <3>2
      <4> QED BY <1>3, <4>1, <4>2, <4>3
    <3> QED BY <3>1, <3>2
  <2> QED BY <2>1, <2>2, <2>3
<1>7. Range(s) = {s[k] : k \in 1..Len(s)} /\ Range(u) = {u[k] : k \in 1..Len(u)}
  BY <1>6, RangeSeq
<1>8. ASSUME NEW j \in 1..Len(u) PROVE u[j] \in Range(s) \union {e}
  <2>1. CASE j < i
    <3>1. j \in 1..Len(s) /\ u[j] = s[j]
      BY <1>1, <1>6, <2>1
    <3> QED BY <1>7, <3>1
  <2>2. CASE j = i
    BY <1>1, <1>6, <2>2
  <2>3. CASE j > i
    <3>1. j - 1 \in 1..Len(s) /\ u[j] = s[j - 1]
      BY <1>1, <1>6, <2>3
    <3> QED BY <1>7, <3>1
  <2> QED BY <1>1, <1>6, <2>1, <2>2, <2>3
<1>9. ASSUME NEW j \in 1..Len(s) PROVE s[j] \in Range(u)
  <2>1. CASE j < i
    <3>1. j \in 1..Len(u) /\ u[j] = s[j]
      BY <1>1, <1>6, <2>1
    <3> QED BY <1>7, <3>1
  <2>2. CASE ~(j < i)
    <3>1. j + 1 \in 1..Len(u) /\ ~(j + 1 < i) /\ j + 1 # i /\ (j + 1) - 1 = j
      BY <1>1, <1>6, <2>2
    <3>2. u[j + 1] = s[j]
      BY <1>6, <3>1
    <3> QED BY <1>7, <3>1, <3>2
  <2> QED BY <2>1, <2>2
<1>10. e \in Range(u)
  <2>1. i \in 1..Len(u) /\ u[i] = e
    BY <1>1, <1>6
  <2> QED BY <1>7, <2>1
<1>11. Range(u) = Range(s) \union {e}
  BY <1>7, <1>8, <1>9, <1>10
<1>12. Distinct(u)
  <2> DEFINE g(j) == IF j < i THEN j ELSE j - 1
  <2>1. \A j \in 1..Len(u) : j # i => g(j) \in 1..Len(s) /\ u[j] = s[g(j)]
    BY <1>1, <1>6
  <2>2. \A j, k \in 1..Len(u) : j # i /\ k # i /\ g(j) = g(k) => j = k
    BY <1>1, <1>6
  <2> HIDE DEF g
  <2>3. \A j \in 1..Len(u) : j # i => u[j] # e
    BY <1>7, <2>1
  <2>4. \A j \in 1..Len(u) : j = i => u[j] = e
    BY <1>1, <1>6
  <2> QED BY <2>1, <2>2, <2>3, <2>4 DEF Distinct
<1> QED BY <1>6, <1>11, <1>12 DEF u

\* Rotating a sequence.
LEMMA RotateSeq ==
    ASSUME NEW S, NEW s \in Seq(S), NEW k \in 1..Len(s), Distinct(s)
    PROVE  LET u == SubSeq(s, k, Len(s)) \o SubSeq(s, 1, k - 1) IN
           u \in Seq(S) /\ Len(u) = Len(s) /\ Range(u) = Range(s) /\ Distinct(u)
<1> DEFINE a == SubSeq(s, k, Len(s))
           b == SubSeq(s, 1, k - 1)
           u == a \o b
           l == Len(s) - k + 1
           g(j) == IF j <= l THEN k + j - 1 ELSE j - l
<1>1. Len(s) \in Nat /\ k \in Nat /\ 1 <= k /\ k <= Len(s) /\ l \in Nat
  OBVIOUS
<1>2. /\ a \in Seq(S) /\ Len(a) = l
      /\ \A j \in 1..l : a[j] = s[k + j - 1]
  <2>1. k \in 1..(Len(s) + 1) /\ Len(s) \in (k - 1)..Len(s)
    BY <1>1
  <2> QED BY <2>1, SubSeqSeq
<1>3. /\ b \in Seq(S) /\ Len(b) = k - 1
      /\ \A j \in 1..(k - 1) : b[j] = s[j]
  <2>1. 1 \in 1..(Len(s) + 1) /\ k - 1 \in (1 - 1)..Len(s) /\ (k - 1) - 1 + 1 = k - 1
    BY <1>1
  <2>2. /\ b \in Seq(S) /\ Len(b) = (k - 1) - 1 + 1
        /\ \A j \in 1..((k - 1) - 1 + 1) : b[j] = s[1 + j - 1]
    BY <2>1, SubSeqSeq
  <2> HIDE DEF b
  <2> QED BY <2>1, <2>2
<1> HIDE DEF a, b
<1>4. /\ u \in Seq(S) /\ Len(u) = Len(a) + Len(b)
      /\ \A j \in 1..(Len(a) + Len(b)) : u[j] = IF j <= Len(a) THEN a[j] ELSE b[j - Len(a)]
  BY <1>2, <1>3, ConcatSeq
<1> HIDE DEF u
<1>5. Len(u) = Len(s) /\ Len(a) + Len(b) = Len(s)
  BY <1>1, <1>2, <1>3, <1>4
<1>6. ASSUME NEW j \in 1..Len(s) PROVE g(j) \in 1..Len(s) /\ u[j] = s[g(j)]
  <2>1. CASE j <= l
    <3>1. j \in 1..l /\ k + j - 1 \in 1..Len(s)
      BY <1>1, <2>1
    <3>2. u[j] = a[j] /\ g(j) = k + j - 1
      BY <1>2, <1>4, <1>5, <2>1
    <3> QED BY <1>2, <3>1, <3>2
  <2>2. CASE ~(j <= l)
    <3>1. j - l \in 1..(k - 1) /\ j - l \in 1..Len(s)
      BY <1>1, <2>2
    <3>2. u[j] = b[j - l]
      BY <1>2, <1>4, <1>5, <2>2
    <3> QED BY <1>3, <2>2, <3>1, <3>2
  <2> QED BY <2>1, <2>2
<1>7. \A i, j \in 1..Len(s) : g(i) = g(j) => i = j
  BY <1>1
<1>8. \A i \in 1..Len(s) : \E j \in 1..Len(s) : g(j) = i
  <2> SUFFICES ASSUME NEW i \in 1..Len(s) PROVE \E j \in 1..Len(s) : g(j) = i
    OBVIOUS
  <2>1. CASE i >= k
    <3>1. i - k + 1 \in 1..Len(s) /\ g(i - k + 1) = i
      BY <1>1, <2>1
    <3> QED BY <3>1
  <2>2. CASE ~(i >= k)
    <3>1. i + l \in 1..Len(s) /\ g(i + l) = i
      BY <1>1, <2>2
    <3> QED BY <3>1
  <2> QED BY <2>1, <2>2
<1> HIDE DEF g
<1>9. Range(s) = {s[i] : i \in 1..Len(s)} /\ Range(u) = {u[i] : i \in 1..Len(s)}
  BY <1>4, <1>5, RangeSeq
<1>10. Range(u) = Range(s)
  <2>1. ASSUME NEW x \in Range(u) PROVE x \in Range(s)
    BY <1>6, <1>9
  <2>2. ASSUME NEW x \in Range(s) PROVE x \in Range(u)
    BY <1>6, <1>8, <1>9
  <2> QED BY <2>1, <2>2
<1>11. Distinct(u)
  BY <1>5, <1>6, <1>7 DEF Distinct
<1> QED BY <1>4, <1>5, <1>10, <1>11 DEF u, a, b

------------------------------------------------------------------------------
(* Enumerations of a finite set *)

\* A sequence out of SetToSeqs has every element of the set once.
LEMMA Enumeration ==
    ASSUME NEW S, IsFiniteSet(S), NEW s \in SetToSeqs(S)
    PROVE  s \in Seq(S) /\ Len(s) = Cardinality(S) /\ Range(s) = S /\ Distinct(s)
<1> DEFINE n == Cardinality(S)
<1>1. n \in Nat
  BY FS_CardinalityType
<1>2. s \in [1..n -> S] /\ \A i, j \in 1..n : i # j => s[i] # s[j]
  BY DEF SetToSeqs
<1> HIDE DEF n
<1>3. s \in Seq(S) /\ Len(s) = n
  BY <1>1, <1>2
<1>4. s \in Injection(1..n, S)
  BY <1>2 DEF Injection, IsInjective
<1>5. IsFiniteSet(1..n) /\ Cardinality(1..n) = n
  BY <1>1, FS_Interval
<1>6. s \in Surjection(1..n, S)
  BY <1>4, <1>5, FS_Injection DEF n
<1>7. Range(s) = S
  BY <1>2, <1>6 DEF Surjection, Range
<1> QED BY <1>2, <1>3, <1>7 DEF Distinct, n

=============================================================================
