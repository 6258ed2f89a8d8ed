----------------------------- MODULE HashTable ------------------------------
(***************************************************************************)
(* The hash table of misc/hashtable.c, which holds the torrents of the     *)
(* library (tlib.c) and the meta peers of a torrent (net.c, peer.c), and   *)
(* its iterator, which can delete what it is at.  Chains are sequences; a  *)
(* pointer into a chain is a position.                                     *)
(***************************************************************************)
EXTENDS Integers, Sequences, FiniteSets, SequencesExt

CONSTANTS
    Keys,       \* what may be in the table
    Hash,       \* tbl->hash, a function on Keys
    Ratios,     \* the values of tbl->ratio in use (1 and 3)
    MaxBuckets  \* bound: buckets

VARIABLES
    ratio,      \* tbl->ratio
    buckets,    \* tbl->buckets, numbered from 0
    size,       \* tbl->size
    it,         \* the iterator: cnt, bi, and obj as a position, 0 without one
    present,    \* the keys that should be in the table
    todo,       \* the keys the iterator has still to come to
    bad         \* a bucket beyond the last was read, or a key came up twice or never

vars == <<ratio, buckets, size, it, present, todo, bad>>

NoIter == [cnt |-> 0, bi |-> 0, obj |-> 0]
Iterating == it # NoIter

Buckcnt(b) == Cardinality(DOMAIN b)

\* _htbl_create
Init ==
    /\ ratio \in Ratios
    /\ buckets = [i \in {0} |-> <<>>] /\ size = 0 /\ it = NoIter
    /\ present = {} /\ todo = {} /\ bad = FALSE

------------------------------------------------------------------------------
bi(b, k) == Hash[k] % Buckcnt(b)

bucket_insert(b, k) == [b EXCEPT ![bi(b, k)] = <<k>> \o @]

\* The chains are reversed and inserted anew, those of the first bucket first.
ncnt(b) == 2 * Buckcnt(b) + 1
_htbl_grow(b) ==
    FoldLeft(bucket_insert, [i \in 0..(ncnt(b) - 1) |-> <<>>],
             FlattenSeq([i \in 1..Buckcnt(b) |-> Reverse(b[i - 1])]))

\* A table that cannot grow for want of memory stays as it is.
_htbl_insert(k) ==
    /\ ~bad /\ ~Iterating /\ k \notin present
    /\ LET b == bucket_insert(buckets, k) IN
       \/ buckets' = b
       \/ size + 1 > ratio * Buckcnt(b) /\ ncnt(b) <= MaxBuckets /\ buckets' = _htbl_grow(b)
    /\ size' = size + 1
    /\ present' = present \union {k}
    /\ UNCHANGED <<ratio, it, todo, bad>>

_htbl_find(k) == Contains(buckets[bi(buckets, k)], k)

\* The first match of the chain is unlinked.
_htbl_remove(k) ==
    /\ ~bad /\ ~Iterating
    /\ LET b == bi(buckets, k) IN
       IF Contains(buckets[b], k)
       THEN /\ buckets' = [buckets EXCEPT ![b] = RemoveFirst(@, k)]
            /\ size' = size - 1
       ELSE UNCHANGED <<buckets, size>>
    /\ present' = present \ {k}
    /\ UNCHANGED <<ratio, it, todo, bad>>

------------------------------------------------------------------------------
(* The iterator *)

Full(b, from) == {i \in DOMAIN b : i >= from /\ b[i] # <<>>}
First(S) == CHOOSE i \in S : \A j \in S : i <= j

\* The iterator comes to the element at position j of bucket i.
Comes(b, cnt, i, j, left) ==
    /\ it' = [cnt |-> cnt, bi |-> i, obj |-> j]
    /\ bad' = (b[i][j] \notin left)
    /\ todo' = left \ {b[i][j]}

\* iter_next_bucket, from bucket `from' on.
iter_next_bucket(b, cnt, from, left) ==
    IF Full(b, from) = {} THEN bad' = TRUE /\ UNCHANGED <<it, todo>>
    ELSE Comes(b, cnt, First(Full(b, from)), 1, left)

\* NULL is returned.
Ends(left) == it' = NoIter /\ bad' = (left # {}) /\ todo' = {}

_htbl_iter_first ==
    /\ ~bad /\ ~Iterating /\ size > 0
    /\ iter_next_bucket(buckets, 1, 0, present)
    /\ UNCHANGED <<ratio, buckets, size, present>>

Successor == it.obj < Len(buckets[it.bi])

_htbl_iter_next ==
    /\ ~bad /\ Iterating
    /\ \/ it.cnt = size /\ Ends(todo)
       \/ /\ it.cnt # size /\ Successor
          /\ Comes(buckets, it.cnt + 1, it.bi, it.obj + 1, todo)
       \/ /\ it.cnt # size /\ ~Successor
          /\ iter_next_bucket(buckets, it.cnt + 1, it.bi + 1, todo)
    /\ UNCHANGED <<ratio, buckets, size, present>>

\* Everything from obj on is cut off, or obj is unlinked.
Bug_last(cnt) == cnt >= size - 1
last(cnt) == cnt > size - 1
cut == [buckets EXCEPT ![it.bi] = SubSeq(@, 1, it.obj - 1)]
unlinked == [buckets EXCEPT ![it.bi] = RemoveAt(@, it.obj)]

_htbl_iter_del ==
    /\ ~bad /\ Iterating
    /\ size' = size - 1
    /\ present' = present \ {buckets[it.bi][it.obj]}
    /\ \/ last(it.cnt) /\ buckets' = cut /\ Ends(todo)
       \/ /\ ~last(it.cnt) /\ Successor
          /\ buckets' = unlinked /\ Comes(unlinked, it.cnt, it.bi, it.obj, todo)
       \/ /\ ~last(it.cnt) /\ ~Successor
          /\ buckets' = cut /\ iter_next_bucket(cut, it.cnt, it.bi + 1, todo)
    /\ UNCHANGED ratio

Next ==
    \/ \E k \in Keys : _htbl_insert(k) \/ _htbl_remove(k)
    \/ _htbl_iter_first \/ _htbl_iter_next \/ _htbl_iter_del

Spec == Init /\ [][Next]_vars

------------------------------------------------------------------------------
(* Properties *)

\* Types.
TypeOK ==
    /\ Buckcnt(buckets) \in 1..MaxBuckets /\ buckets \in [DOMAIN buckets -> Seq(Keys)]
    /\ size \in 0..Cardinality(Keys) /\ present \subseteq Keys /\ todo \subseteq present

\* The table is the set of what was inserted and not removed, whether or not it
\* could grow; a walk over it comes to every element once and reads no bucket
\* beyond the last, also when it deletes elements on its way.
IsTheSet ==
    /\ TypeOK /\ ~bad /\ size = Cardinality(present)
    /\ \A k \in Keys : _htbl_find(k) <=> k \in present

=============================================================================
