--------------------------- MODULE ContentProofs ---------------------------
(***************************************************************************)
(* Proofs about Content, for any torrents, sizes of pieces and files, and  *)
(* any operations that fail: what is shown to others is on disk, the       *)
(* counters are right, and a clean stop needs no test at the next start.   *)
(***************************************************************************)
EXTENDS Content, SeqFacts

Resume == [pc : SUBSET Pieces, bits : SUBSET Blocks, fts : SUBSET Files]

\* Block b is before the end of its file, of the sizes z.
Within(z, b) == b - Off(FileOf(b)) < z[FileOf(b)]

\* Piece p is good on the disk d.
GoodOn(d, p) == \A b \in BlocksOf(p) : d[b] = "good"

\* Resume data that may be shown to others.
Sound(r, d) ==
    /\ \A p \in r.pc : GoodOn(d, p)
    /\ \A b \in r.bits : d[b] # "zero"

\* The files: what was written is before the end.
FilesOk(d, z) ==
    /\ d \in [Blocks -> {"zero", "good", "bad"}] /\ z \in [Files -> Nat]
    /\ \A i \in Files : z[i] <= Length(i)
    /\ \A b \in Blocks : d[b] # "zero" => Within(z, b)

\* The resume data in any state: a block it counts was stored, or lost at the
\* end of a file.  When its times and sizes are those of the files it is sound.
ResOk(r, d, z) ==
    /\ r \in Resume
    /\ \A b \in r.bits : d[b] # "zero" \/ ~Within(z, b)
    /\ r.fts = Files => Sound(r, d)

\* While the files are tested: pos are the pieces to test, which can be read.
StartingOk(c, r, d, z) ==
    /\ c.rds = "open" /\ c.wrs = "null" /\ ~c.net
    /\ c.got = 0 /\ c.bytes = 0 /\ c.lost = {}
    /\ r.fts # Files /\ r.pc \subseteq c.pos
    /\ \A b \in r.bits : d[b] # "zero"
    /\ \A p \in c.pos : \A b \in BlocksOf(p) : Within(z, b)

\* After the test: what is counted is in pieces that will not be filled with
\* zeros, and the counters agree with the fields.
ActiveOk(c, r, d) ==
    /\ c.rds = "open" /\ c.lost = {}
    /\ r.pc \subseteq c.pos /\ r.bits \subseteq BlocksIn(c.pos)
    /\ c.got = Cardinality(r.pc)
    /\ c.bytes = Cardinality(BlocksIn(r.pc) \union r.bits)
    /\ Sound(r, d)

Harmless == {"stat", "startup", "close_full"}

\* The content object, with the errors e possible.  After a harmless error no
\* block is waited for.
CmOk(c, r, d, z, e) ==
    /\ c \in Content
    /\ c.st = "starting" => StartingOk(c, r, d, z)
    /\ c.st = "active" => ActiveOk(c, r, d)
    /\ c.st = "active" /\ c.wrs = "null" /\ "stat" \notin e => r.fts = Files
    /\ c.error <=> c.st = "inactive"
    /\ c.error => c.rds # "open"
    /\ c.net => c.st \in {"active", "inactive"}
    /\ c.wrs # "null" => c.st = "active"
    /\ e \subseteq Harmless /\ c.error /\ c.net => r.pc = Pieces
    /\ e = {} => ~c.error

TorrentOk(tp) ==
    /\ FilesOk(disk[tp], size[tp])
    /\ ResOk(res[tp], disk[tp], size[tp])
    /\ CmOk(cm[tp], res[tp], disk[tp], size[tp], errors)

\* An entry of the queue, with the content objects cs, the resume data rs and
\* the disks ds: the pieces before `start' have been tested.
Entry == [tp : Torrents, start : Pieces]
EntryOk(std, cs, rs, ds) ==
    /\ cs[std.tp].st = "starting" /\ std.start \in cs[std.tp].pos
    /\ \A p \in rs[std.tp].pc : p < std.start => GoodOn(ds[std.tp], p)

QueueOk ==
    /\ startq \in Seq(Entry)
    /\ \A i, j \in 1..Len(startq) : startq[i].tp = startq[j].tp => i = j
    /\ \A i \in 1..Len(startq) : EntryOk(startq[i], cm, res, disk)
    /\ \A tp \in Torrents : cm[tp].st = "starting" =>
         \E i \in 1..Len(startq) : startq[i].tp = tp

Shapes ==
    /\ cm \in [Torrents -> Content] /\ res \in [Torrents -> Resume]
    /\ disk \in [Torrents -> [Blocks -> {"zero", "good", "bad"}]]
    /\ size \in [Torrents -> [Files -> Nat]]

OthersOk ==
    /\ workev \in BOOLEAN /\ fault \in {"none", "freed", "assert"}
    /\ errors \in Scenarios
    /\ errors \subseteq Harmless => fault = "none"

\* The inductive invariant.
IInv == Shapes /\ OthersOk /\ QueueOk /\ \A tp \in Torrents : TorrentOk(tp)

------------------------------------------------------------------------------
(* Blocks, pieces and files *)

\* What division does.
LEMMA Division ==
    ASSUME NEW a \in Int, NEW k \in Nat \ {0}
    PROVE  a \div k \in Int /\ k * (a \div k) <= a /\ a < k * (a \div k) + k
BY SMT

LEMMA DivisionMonotone ==
    ASSUME NEW a \in Int, NEW c \in Int, NEW k \in Nat \ {0}, a <= c
    PROVE  a \div k <= c \div k
BY SMT

LEMMA LastPiece ==
    ASSUME NEW a \in Int, NEW k \in Nat \ {0}
    PROVE  (a + k - 1) \div k - 1 = (a - 1) \div k
BY SMT

\* There is a piece, each block is in one, and all sets are finite.
LEMMA Shape ==
    /\ NPieces \in Nat \ {0} /\ Blocks \subseteq Nat
    /\ \A b \in Blocks : PieceOf(b) \in Pieces
    /\ IsFiniteSet(Blocks) /\ IsFiniteSet(Pieces) /\ Cardinality(Pieces) = NPieces
    /\ Cardinality(Blocks) = NBlocks
<1> USE ContentAssumption
<1>1. NBlocks \in Nat \ {0} /\ PieceBlocks \in Nat \ {0}
  OBVIOUS
<1>2. NPieces \in Int /\ NPieces - 1 = (NBlocks - 1) \div PieceBlocks
  <2>1. (NBlocks + PieceBlocks - 1) \in Int
    BY <1>1
  <2> QED BY <1>1, <2>1, LastPiece, Division DEF NPieces
<1>3. \A b \in Blocks : b \in Nat /\ b <= NBlocks - 1
  BY <1>1 DEF Blocks
<1>4. \A b \in Nat : b \div PieceBlocks \in Nat
  BY <1>1, SMT
<1>5. \A b \in Blocks : PieceOf(b) <= NPieces - 1
  <2> SUFFICES ASSUME NEW b \in Blocks PROVE b \div PieceBlocks <= (NBlocks - 1) \div PieceBlocks
    BY <1>2 DEF PieceOf
  <2>1. b \in Int /\ NBlocks - 1 \in Int /\ b <= NBlocks - 1
    BY <1>1, <1>3
  <2> QED BY <1>1, <2>1, DivisionMonotone
<1>6. \A b \in Blocks : PieceOf(b) \in Pieces
  <2>1. \A b \in Blocks : PieceOf(b) \in Nat
    BY <1>3, <1>4 DEF PieceOf
  <2> QED BY <1>2, <1>5, <2>1 DEF Pieces
<1>7. NPieces \in Nat \ {0}
  <2>1. 0 \in Blocks
    BY <1>1 DEF Blocks
  <2>2. PieceOf(0) \in Nat /\ PieceOf(0) <= NPieces - 1
    BY <1>4, <1>5, <2>1 DEF PieceOf
  <2> QED BY <1>2, <2>2
<1>8. IsFiniteSet(Blocks) /\ Cardinality(Blocks) = NBlocks
  <2>1. 0 \in Int /\ NBlocks - 1 \in Int
    BY <1>1
  <2>2. IsFiniteSet(0..(NBlocks - 1)) /\ Cardinality(0..(NBlocks - 1)) = IF 0 > NBlocks - 1 THEN 0 ELSE (NBlocks - 1) - 0 + 1
    BY <2>1, FS_Interval
  <2> QED BY <1>1, <2>2 DEF Blocks
<1>9. IsFiniteSet(Pieces) /\ Cardinality(Pieces) = NPieces
  <2>1. 0 \in Int /\ NPieces - 1 \in Int
    BY <1>7
  <2>2. IsFiniteSet(0..(NPieces - 1)) /\ Cardinality(0..(NPieces - 1)) = IF 0 > NPieces - 1 THEN 0 ELSE (NPieces - 1) - 0 + 1
    BY <2>1, FS_Interval
  <2> QED BY <1>7, <2>2 DEF Pieces
<1> QED BY <1>3, <1>6, <1>7, <1>8, <1>9

\* The files follow each other, and each block is in one.
LEMMA FilesShape ==
    /\ \A i \in Files : Off(i) \in Nat /\ FileEnd[i] \in Nat /\ Length(i) \in Nat
    /\ \A i \in Files : FileEnd[i] = Off(i) + Length(i)
    /\ \A b \in Blocks : FileOf(b) \in Files /\ Off(FileOf(b)) <= b /\ b < FileEnd[FileOf(b)]
<1> USE ContentAssumption
<1>1. Files = 1..Len(FileEnd) /\ Len(FileEnd) \in Nat \ {0} /\ \A i \in Files : FileEnd[i] \in Nat
  BY DEF Files
<1>2. \A i \in Files : Off(i) \in Nat /\ Off(i) <= FileEnd[i]
  BY <1>1 DEF Off
<1>3. \A i \in Files : Length(i) \in Nat /\ FileEnd[i] = Off(i) + Length(i)
  BY <1>1, <1>2 DEF Length
<1>4. ASSUME NEW b \in Blocks
      PROVE  FileOf(b) \in Files /\ Off(FileOf(b)) <= b /\ b < FileEnd[FileOf(b)]
  <2> DEFINE T == {i \in Files : b < FileEnd[i]}
  <2>1. T \in SUBSET Nat
    BY <1>1
  <2>2. Len(FileEnd) \in T
    <3>1. b \in Nat /\ b < NBlocks
      BY DEF Blocks
    <3>2. FileEnd[Len(FileEnd)] = NBlocks
      BY DEF Last
    <3> QED BY <1>1, <3>1, <3>2
  <2> HIDE DEF T
  <2>3. PICK m \in T : \A k \in T : m <= k
    BY <2>1, <2>2, LeastElement
  <2>4. m \in Files /\ b < FileEnd[m] /\ b \in Nat
    BY <2>3 DEF T, Blocks
  <2>5. Off(m) <= b
    <3>1. CASE m = 1
      BY <2>4, <3>1 DEF Off
    <3>2. CASE m # 1
      <4>1. m - 1 \in Files /\ ~(m <= m - 1)
        BY <1>1, <2>4, <3>2
      <4>2. m - 1 \notin T
        BY <2>3, <4>1
      <4> QED BY <1>1, <2>4, <3>2, <4>1, <4>2 DEF T, Off
    <3> QED BY <3>1, <3>2
  <2> QED BY <2>4, <2>5 DEF FileOf
<1> QED BY <1>1, <1>2, <1>3, <1>4

\* A block beyond the end of its file is in a piece that is not tested.
LEMMA BeyondIsCut ==
    ASSUME NEW tp \in Torrents, size[tp] \in [Files -> Nat],
           \A i \in Files : size[tp][i] <= Length(i),
           NEW b \in Blocks, ~Within(size[tp], b)
    PROVE  PieceOf(b) \in cut(tp)
<1> DEFINE f == FileOf(b)
           z == size[tp][f]
           lo == Off(f) + z
           hi == Off(f) + Length(f) - 1
<1>1. /\ f \in Files /\ Off(f) <= b /\ b < Off(f) + Length(f)
      /\ Off(f) \in Nat /\ Length(f) \in Nat /\ b \in Nat
  BY FilesShape, Shape
<1>2. z \in Nat /\ b - Off(f) >= z
  <2>1. z \in Nat
    BY <1>1
  <2> QED BY <1>1, <2>1 DEF Within
<1>3. z # Length(f)
  BY <1>1, <1>2
<1>4. lo \in Int /\ hi \in Int /\ lo <= b /\ b <= hi
  BY <1>1, <1>2
<1>5. PieceBlocks \in Nat \ {0}
  BY ContentAssumption
<1> HIDE DEF lo, hi, z
<1>6. b \in Int
  BY <1>1
<1>7. lo \div PieceBlocks \in Int /\ hi \div PieceBlocks \in Int /\ b \div PieceBlocks \in Int
  BY <1>4, <1>5, <1>6, Division
<1>8. lo \div PieceBlocks <= b \div PieceBlocks /\ b \div PieceBlocks <= hi \div PieceBlocks
  BY <1>4, <1>5, <1>6, DivisionMonotone
<1>9. b \div PieceBlocks \in (lo \div PieceBlocks)..(hi \div PieceBlocks)
  BY <1>7, <1>8
<1> QED BY <1>1, <1>3, <1>9 DEF cut, PieceOf, lo, hi, z

\* Sets of blocks are finite.
LEMMA FiniteSets ==
    /\ \A S \in SUBSET Blocks : IsFiniteSet(S) /\ Cardinality(S) \in Nat /\ Cardinality(S) <= NBlocks
    /\ \A S \in SUBSET Pieces : IsFiniteSet(S) /\ Cardinality(S) \in Nat /\ Cardinality(S) <= NPieces
<1>1. ASSUME NEW T, IsFiniteSet(T), NEW S \in SUBSET T
      PROVE  IsFiniteSet(S) /\ Cardinality(S) \in Nat /\ Cardinality(S) <= Cardinality(T)
  BY <1>1, FS_Subset, FS_CardinalityType
<1> QED BY <1>1, Shape

\* All pieces when there are as many.
LEMMA AllPieces ==
    ASSUME NEW S \in SUBSET Pieces, Cardinality(S) = NPieces
    PROVE  S = Pieces
BY Shape, FS_Subset

------------------------------------------------------------------------------
(* The end of the test *)

\* The resume data after startup_test_end, and the blocks that are counted.
LEMMA EndedCounts ==
    ASSUME NEW r \in Resume, NEW u \in BOOLEAN
    PROVE  LET r2 == ended_res(r, u)
               S == r.bits \intersect BlocksIn(Partial(r)) IN
           /\ r2 \in Resume /\ r2.pc = r.pc /\ r2.bits \subseteq r.bits
           /\ r2.fts = IF u THEN Files ELSE r.fts
           /\ positioned(r) \subseteq Pieces /\ r.pc \subseteq positioned(r)
           /\ r2.bits \subseteq BlocksIn(positioned(r))
           /\ Cardinality(BlocksIn(r.pc)) + Cardinality(S)
                = Cardinality(BlocksIn(r2.pc) \union r2.bits)
<1> DEFINE r2 == ended_res(r, u)
           A == BlocksIn(r.pc)
           S == r.bits \intersect BlocksIn(Partial(r))
           B == r.bits \ BlocksIn(Complete(r))
           f == IF u THEN Files ELSE r.fts
<1>1. r.pc \in SUBSET Pieces /\ r.bits \in SUBSET Blocks /\ r.fts \in SUBSET Files
  BY DEF Resume
<1>2. r2.pc = r.pc /\ r2.bits = B /\ r2.fts = f
  BY DEF ended_res, Resume
<1>3. B \in SUBSET Blocks /\ f \in SUBSET Files
  BY <1>1
<1>4. r2 \in Resume
  <2> HIDE DEF B, f
  <2> SUFFICES [r EXCEPT !.bits = B, !.fts = f] \in Resume
    BY DEF ended_res, B, f
  <2> QED BY <1>3 DEF Resume
<1>5. positioned(r) \subseteq Pieces /\ r.pc \subseteq positioned(r)
  BY <1>1 DEF positioned, Partial
<1>6. \A b \in B : b \in A \/ b \in S
  <2> SUFFICES ASSUME NEW b \in B, PieceOf(b) \notin r.pc PROVE b \in S
    BY <1>1 DEF BlocksIn
  <2>1. b \in Blocks /\ b \in r.bits /\ PieceOf(b) \notin Complete(r) /\ PieceOf(b) \in Pieces
    BY <1>1, Shape DEF BlocksIn
  <2>2. b \in BlocksOf(PieceOf(b)) \intersect r.bits
    BY <2>1 DEF BlocksOf
  <2>3. PieceOf(b) \in Partial(r)
    BY <2>1, <2>2 DEF Partial
  <2> QED BY <2>1, <2>3 DEF BlocksIn
<1>7. B \subseteq BlocksIn(positioned(r))
  BY <1>6 DEF BlocksIn, positioned
<1>8. A \intersect S = {} /\ A \union S = A \union B
  <2>1. A \intersect S = {}
    BY DEF BlocksIn, Partial
  <2>2. S \subseteq B
    BY <1>1 DEF BlocksIn, Partial
  <2> HIDE DEF A, S, B
  <2> QED BY <1>6, <2>1, <2>2
<1>9. IsFiniteSet(A) /\ IsFiniteSet(S)
  <2>1. A \in SUBSET Blocks /\ S \in SUBSET Blocks
    BY <1>1 DEF BlocksIn
  <2> QED BY <2>1, FiniteSets
<1>10. Cardinality(A) + Cardinality(S) = Cardinality(A \union B)
  <2> HIDE DEF A, S, B
  <2> QED BY <1>8, <1>9, DisjointUnion
<1> QED BY <1>1, <1>2, <1>4, <1>5, <1>7, <1>10

\* The torrent is active and right after startup_test_end, when what is left
\* of the resume data is sound.
LEMMA EndedOk ==
    ASSUME NEW c \in Content, NEW r \in Resume, NEW d, NEW z, NEW e, NEW u \in BOOLEAN,
           c.st = "starting", c.rds = "open", c.wrs = "null", ~c.net, ~c.error,
           c.got = 0, c.bytes = 0, c.lost = {}, Sound(r, d),
           u \/ r.fts = Files \/ r.pc = {}
    PROVE  /\ ended_res(r, u) \in Resume /\ Sound(ended_res(r, u), d)
           /\ CmOk(ended(c, r), ended_res(r, u), d, z, e)
<1> DEFINE r2 == ended_res(r, u)
           c2 == ended(c, r)
           n == Cardinality(r.pc)
           m == Cardinality(BlocksIn(r.pc))
                  + Cardinality(r.bits \intersect BlocksIn(Partial(r)))
           w == IF n = NPieces THEN "null" ELSE "open"
           ps == positioned(r)
<1>1. /\ r2 \in Resume /\ r2.pc = r.pc /\ r2.bits \subseteq r.bits
      /\ r2.fts = IF u THEN Files ELSE r.fts
      /\ ps \subseteq Pieces /\ r.pc \subseteq ps /\ r2.bits \subseteq BlocksIn(ps)
      /\ m = Cardinality(BlocksIn(r2.pc) \union r2.bits)
  BY EndedCounts
<1>2. r.pc \in SUBSET Pieces /\ r2.bits \in SUBSET Blocks
  <2> HIDE DEF r2
  <2> QED BY <1>1 DEF Resume
<1>3. n \in 0..NPieces /\ m \in 0..NBlocks
  <2>1. BlocksIn(r2.pc) \union r2.bits \in SUBSET Blocks
    BY <1>2 DEF BlocksIn
  <2>2. n \in Nat /\ n <= NPieces /\ m \in Nat /\ m <= NBlocks
    BY <1>1, <1>2, <2>1, FiniteSets
  <2> HIDE DEF m, n
  <2> QED BY <2>2, Shape, ContentAssumption
<1>4. Sound(r2, d)
  <2> HIDE DEF r2
  <2> QED BY <1>1 DEF Sound
<1>5. c2 = [c EXCEPT !.pos = ps, !.got = n, !.bytes = m, !.wrs = w, !.st = "active"]
  <2>1. 0 + n = n /\ 0 + Cardinality(BlocksIn(r.pc)) + Cardinality(r.bits \intersect BlocksIn(Partial(r))) = m
    <3>1. BlocksIn(r.pc) \in SUBSET Blocks /\ r.bits \intersect BlocksIn(Partial(r)) \in SUBSET Blocks
      BY DEF BlocksIn
    <3>2. Cardinality(BlocksIn(r.pc)) \in Nat
      BY <3>1, FiniteSets
    <3> QED BY <1>3, <3>2
  <2> QED BY <2>1 DEF ended
<1>6. w \in {"null", "open"} /\ ps \in SUBSET Pieces
  BY <1>1
<1> HIDE DEF r2, n, m, w, ps, c2
<1>7. c2 \in Content
  BY <1>3, <1>5, <1>6 DEF Content
<1>8. /\ c2.st = "active" /\ c2.rds = "open" /\ c2.lost = {} /\ c2.pos = ps /\ c2.got = n
      /\ c2.bytes = m /\ c2.wrs = w /\ ~c2.error /\ ~c2.net
  BY <1>5 DEF Content
<1>9. w = "null" => r2.fts = Files
  <2>1. r.pc = {} => n # NPieces
    BY Shape, FS_EmptySet DEF n
  <2> QED BY <1>1, <2>1 DEF w
<1>10. ActiveOk(c2, r2, d)
  BY <1>1, <1>4, <1>8 DEF ActiveOk, n
<1> QED BY <1>1, <1>4, <1>7, <1>8, <1>9, <1>10 DEF CmOk, r2, c2

\* What cm_on_error leaves.
LEMMA FailedIs ==
    ASSUME NEW c \in Content
    PROVE  /\ failed(c) \in Content /\ failed(c).st = "inactive" /\ failed(c).error
           /\ failed(c).wrs = "null" /\ failed(c).rds # "open"
           /\ failed(c).net = c.net
<1> DEFINE w == IF c.rds = "null" THEN "null" ELSE "freed"
<1>1. w \in {"null", "freed"}
  OBVIOUS
<1>2. failed(c) = [c EXCEPT !.st = "inactive", !.error = TRUE, !.wrs = "null", !.rds = w]
  BY DEF failed, Content
<1> HIDE DEF w
<1>3. failed(c) \in Content
  BY <1>1, <1>2 DEF Content
<1> QED BY <1>1, <1>2, <1>3 DEF Content

LEMMA FailedOk ==
    ASSUME NEW c \in Content, NEW r, NEW d, NEW z, NEW e,
           e # {}, e \subseteq Harmless /\ c.net => r.pc = Pieces
    PROVE  CmOk(failed(c), r, d, z, e)
BY FailedIs DEF CmOk

LEMMA GoneOk ==
    ASSUME NEW r, NEW d, NEW z, NEW e
    PROVE  Gone \in Content /\ CmOk(Gone, r, d, z, e)
<1>1. Gone \in Content
  BY Shape, ContentAssumption DEF Gone, Content
<1> QED BY <1>1 DEF CmOk, Gone

------------------------------------------------------------------------------
(* One torrent changes *)

LEMMA OneTorrent ==
    ASSUME IInv, errors' = errors, NEW tp \in Torrents, NEW c, NEW r, NEW d, NEW z,
           cm' = [cm EXCEPT ![tp] = c], res' = [res EXCEPT ![tp] = r],
           disk' = [disk EXCEPT ![tp] = d], size' = [size EXCEPT ![tp] = z],
           FilesOk(d, z), ResOk(r, d, z), CmOk(c, r, d, z, errors)
    PROVE  Shapes' /\ \A q \in Torrents : TorrentOk(q)'
<1>1. Shapes'
  BY DEF IInv, Shapes, FilesOk, ResOk, CmOk
<1>2. ASSUME NEW q \in Torrents PROVE TorrentOk(q)'
  <2>1. CASE q = tp
    <3>1. cm'[q] = c /\ res'[q] = r /\ disk'[q] = d /\ size'[q] = z
      BY <2>1 DEF IInv, Shapes
    <3> QED BY <3>1 DEF TorrentOk
  <2>2. CASE q # tp
    <3>1. cm'[q] = cm[q] /\ res'[q] = res[q] /\ disk'[q] = disk[q] /\ size'[q] = size[q]
      BY <2>2 DEF IInv, Shapes
    <3>2. TorrentOk(q)
      BY DEF IInv
    <3> QED BY <3>1, <3>2 DEF TorrentOk
  <2> QED BY <2>1, <2>2
<1> QED BY <1>1, <1>2

\* What EntryOk says of an entry of another torrent stays true.
LEMMA OtherEntry ==
    ASSUME IInv, NEW tp \in Torrents, NEW c, NEW r, NEW d,
           cm' = [cm EXCEPT ![tp] = c], res' = [res EXCEPT ![tp] = r],
           disk' = [disk EXCEPT ![tp] = d],
           NEW std, std \in Entry, std.tp # tp, EntryOk(std, cm, res, disk)
    PROVE  EntryOk(std, cm', res', disk')
<1>1. std.tp \in Torrents
  BY DEF Entry
<1>2. cm'[std.tp] = cm[std.tp] /\ res'[std.tp] = res[std.tp] /\ disk'[std.tp] = disk[std.tp]
  BY <1>1 DEF IInv, Shapes
<1> QED BY <1>2 DEF EntryOk

\* A torrent that is neither before nor after being tested.
LEMMA QueueKept ==
    ASSUME IInv, NEW tp \in Torrents, NEW c, NEW r, NEW d,
           cm' = [cm EXCEPT ![tp] = c], res' = [res EXCEPT ![tp] = r],
           disk' = [disk EXCEPT ![tp] = d], startq' = startq,
           cm[tp].st # "starting", c.st # "starting"
    PROVE  QueueOk'
<1>1. QueueOk
  BY DEF IInv
<1>2. ASSUME NEW i \in 1..Len(startq) PROVE EntryOk(startq[i], cm', res', disk')
  <2>1. startq[i] \in Entry
    BY <1>1 DEF QueueOk
  <2>2. EntryOk(startq[i], cm, res, disk)
    BY <1>1 DEF QueueOk
  <2>3. startq[i].tp # tp
    BY <2>2 DEF EntryOk
  <2> QED BY <2>1, <2>2, <2>3, OtherEntry
<1>3. ASSUME NEW q \in Torrents, cm'[q].st = "starting"
      PROVE  \E i \in 1..Len(startq) : startq[i].tp = q
  <2>1. q # tp /\ cm'[q] = cm[q]
    BY <1>3 DEF IInv, Shapes
  <2> QED BY <1>1, <1>3, <2>1 DEF QueueOk
<1> QED BY <1>1, <1>2, <1>3 DEF QueueOk

\* A torrent leaves the queue.
LEMMA UnqueuedIs ==
    ASSUME QueueOk, NEW tp \in Torrents
    PROVE  /\ Unqueued(tp) \in Seq(Entry)
           /\ \A i, j \in 1..Len(Unqueued(tp)) : Unqueued(tp)[i].tp = Unqueued(tp)[j].tp => i = j
           /\ \A i \in 1..Len(Unqueued(tp)) : Unqueued(tp)[i].tp # tp
                /\ \E j \in 1..Len(startq) : Unqueued(tp)[i] = startq[j]
           /\ \A j \in 1..Len(startq) : startq[j].tp # tp =>
                \E i \in 1..Len(Unqueued(tp)) : Unqueued(tp)[i] = startq[j]
<1> DEFINE I == {i \in 1..Len(startq) : startq[i].tp = tp}
<1>1. /\ startq \in Seq(Entry) /\ Len(startq) \in Nat
      /\ \A i, j \in 1..Len(startq) : startq[i].tp = startq[j].tp => i = j
  BY DEF QueueOk
<1>2. CASE I = {}
  <2>1. Unqueued(tp) = startq
    BY <1>2 DEF Unqueued, RemoveFirstMatch
  <2> QED BY <1>1, <1>2, <2>1
<1>3. CASE I # {}
  <2>1. Unqueued(tp) = RemoveAt(startq, Min(I))
    BY <1>3 DEF Unqueued, RemoveFirstMatch, SelectInSeq
  <2>2. I \in SUBSET Nat
    OBVIOUS
  <2>3. Min(I) \in I
    <3> HIDE DEF I
    <3>1. PICK m \in I : \A k \in I : m <= k
      BY <1>3, <2>2, LeastElement
    <3> QED BY <3>1 DEF Min
  <2> DEFINE k == Min(I)
             u == Unqueued(tp)
  <2>4. k \in 1..Len(startq) /\ startq[k].tp = tp
    BY <2>3
  <2> DEFINE g(j) == IF j < k THEN j ELSE j + 1
  <2> HIDE DEF I, k, u
  <2>5. /\ u \in Seq(Entry) /\ Len(u) = Len(startq) - 1
        /\ \A j \in 1..(Len(startq) - 1) : u[j] = IF j < k THEN startq[j] ELSE startq[j + 1]
    <3>1. u = RemoveAt(startq, k)
      BY <2>1 DEF u, k
    <3> QED BY <1>1, <2>4, <3>1, RemoveAtSeq
  <2>6. \A j \in 1..Len(u) : g(j) \in 1..Len(startq) /\ u[j] = startq[g(j)] /\ g(j) # k
    BY <1>1, <2>4, <2>5
  <2>7. \A i, j \in 1..Len(u) : g(i) = g(j) => i = j
    BY <2>4, <2>5
  <2>8. ASSUME NEW j \in 1..Len(startq), j # k PROVE \E i \in 1..Len(u) : u[i] = startq[j]
    <3>1. CASE j < k
      <4>1. j \in 1..Len(u) /\ u[j] = startq[j]
        BY <1>1, <2>4, <2>5, <3>1
      <4> QED BY <4>1
    <3>2. CASE j > k
      <4>1. j - 1 \in 1..Len(u) /\ u[j - 1] = startq[j]
        <5>1. j - 1 \in 1..(Len(startq) - 1) /\ ~(j - 1 < k) /\ (j - 1) + 1 = j
          BY <1>1, <2>4, <3>2
        <5> QED BY <2>5, <5>1
      <4> QED BY <4>1
    <3> QED BY <2>4, <2>8, <3>1, <3>2
  <2> HIDE DEF g
  <2>9. \A i \in 1..Len(u) : u[i].tp # tp
    BY <1>1, <2>4, <2>6
  <2>10. \A i, j \in 1..Len(u) : u[i].tp = u[j].tp => i = j
    BY <1>1, <2>6, <2>7
  <2> QED BY <2>4, <2>5, <2>6, <2>8, <2>9, <2>10 DEF u
<1> QED BY <1>2, <1>3

LEMMA QueueLess ==
    ASSUME IInv, NEW tp \in Torrents, NEW c, NEW r, NEW d,
           cm' = [cm EXCEPT ![tp] = c], res' = [res EXCEPT ![tp] = r],
           disk' = [disk EXCEPT ![tp] = d], startq' = Unqueued(tp), c.st # "starting"
    PROVE  QueueOk'
<1> DEFINE u == Unqueued(tp)
<1>1. QueueOk
  BY DEF IInv
<1>2. /\ u \in Seq(Entry) /\ \A i, j \in 1..Len(u) : u[i].tp = u[j].tp => i = j
      /\ \A i \in 1..Len(u) : u[i].tp # tp /\ \E j \in 1..Len(startq) : u[i] = startq[j]
      /\ \A j \in 1..Len(startq) : startq[j].tp # tp => \E i \in 1..Len(u) : u[i] = startq[j]
  BY <1>1, UnqueuedIs
<1>3. startq' = u
  OBVIOUS
<1> HIDE DEF u
<1>4. ASSUME NEW i \in 1..Len(u) PROVE EntryOk(u[i], cm', res', disk')
  <2>1. u[i] \in Entry
    BY <1>2
  <2>2. u[i].tp # tp
    BY <1>2
  <2>3. EntryOk(u[i], cm, res, disk)
    BY <1>1, <1>2 DEF QueueOk
  <2> QED BY <2>1, <2>2, <2>3, OtherEntry
<1>5. ASSUME NEW q \in Torrents, cm'[q].st = "starting"
      PROVE  \E i \in 1..Len(u) : u[i].tp = q
  <2>1. q # tp /\ cm'[q] = cm[q]
    BY <1>5 DEF IInv, Shapes
  <2>2. PICK j \in 1..Len(startq) : startq[j].tp = q
    BY <1>1, <1>5, <2>1 DEF QueueOk
  <2> QED BY <1>2, <2>1, <2>2
<1> QED BY <1>2, <1>3, <1>4, <1>5 DEF QueueOk

------------------------------------------------------------------------------
(* The actions *)

LEMMA InitOk == Init => IInv
<1> SUFFICES ASSUME Init PROVE IInv
  OBVIOUS
<1> USE DEF Init
<1> DEFINE r == [pc |-> {}, bits |-> {}, fts |-> {}]
           d == [b \in Blocks |-> "zero"]
           z == [i \in Files |-> 0]
<1>1. r \in Resume /\ Gone \in Content
  BY GoneOk DEF Resume
<1>2. Shapes
  BY <1>1 DEF Shapes
<1>3. OthersOk
  BY DEF OthersOk
<1>4. QueueOk
  <2>1. startq = <<>> /\ Len(startq) = 0 /\ \A tp \in Torrents : cm[tp].st = "none"
    BY DEF Gone
  <2>2. startq \in Seq(Entry)
    BY <2>1
  <2> QED BY <2>1, <2>2 DEF QueueOk
<1>5. FilesOk(d, z)
  BY FilesShape DEF FilesOk
<1>6. ResOk(r, d, z)
  BY <1>1 DEF ResOk, Sound
<1>7. ASSUME NEW tp \in Torrents PROVE TorrentOk(tp)
  <2>1. cm[tp] = Gone /\ res[tp] = r /\ disk[tp] = d /\ size[tp] = z
    OBVIOUS
  <2> HIDE DEF r, d, z, Init
  <2> QED BY <1>5, <1>6, <2>1, GoneOk DEF TorrentOk
<1> QED BY <1>2, <1>3, <1>4, <1>7 DEF IInv

\* What is known of the torrent of an action.
LEMMA Known ==
    ASSUME IInv, NEW tp \in Torrents
    PROVE  /\ FilesOk(disk[tp], size[tp]) /\ ResOk(res[tp], disk[tp], size[tp])
           /\ CmOk(cm[tp], res[tp], disk[tp], size[tp], errors)
           /\ cm[tp] \in Content /\ res[tp] \in Resume
           /\ cm = [cm EXCEPT ![tp] = cm[tp]] /\ res = [res EXCEPT ![tp] = res[tp]]
           /\ disk = [disk EXCEPT ![tp] = disk[tp]] /\ size = [size EXCEPT ![tp] = size[tp]]
BY DEF IInv, TorrentOk, Shapes

\* cm_save changes nothing but the recorded times and sizes.
LEMMA SavedIs ==
    ASSUME NEW r \in Resume
    PROVE  \A r1 \in saved(r) : /\ r1 \in Resume /\ r1.pc = r.pc /\ r1.bits = r.bits
                                /\ "stat" \notin errors => r1.fts = Files
<1>1. ASSUME NEW fs \in SUBSET Files, NEW r1, r1 = [r EXCEPT !.fts = fs]
      PROVE  r1 \in Resume /\ r1.pc = r.pc /\ r1.bits = r.bits /\ r1.fts = fs
  BY <1>1 DEF Resume
<1>2. TAKE r1 \in saved(r)
<1>3. PICK fs \in SUBSET Files : r1 = [r EXCEPT !.fts = fs] /\ ("stat" \notin errors => fs = Files)
  BY <1>2 DEF saved
<1> QED BY <1>1, <1>3

LEMMA StopOk ==
    ASSUME IInv, NEW tp \in Torrents, cm_stop(tp), errors' = errors
    PROVE  IInv'
<1> DEFINE c == cm[tp]
           r == res[tp]
           d == disk[tp]
           z == size[tp]
<1>1. FilesOk(d, z) /\ ResOk(r, d, z) /\ CmOk(c, r, d, z, errors) /\ r \in Resume
  BY Known
<1>2. PICK err \in MayFail("close_stop") :
         IF ~cm_active(tp)
         THEN ~err /\ UNCHANGED <<res, fault>>
         ELSE /\ err => cm[tp].wrs = "fd"
              /\ IF saves_on_stop(cm[tp]) /\ ~err
                 THEN \E r1 \in saved(res[tp]) : res' = [res EXCEPT ![tp] = r1]
                 ELSE UNCHANGED res
              /\ fault' = IF err THEN "freed" ELSE "none"
  BY DEF cm_stop
<1>3. /\ cm' = [cm EXCEPT ![tp] = Gone] /\ startq' = Unqueued(tp) /\ fault = "none"
      /\ disk' = [disk EXCEPT ![tp] = d] /\ size' = [size EXCEPT ![tp] = z]
      /\ workev' = workev
  BY Known DEF cm_stop
<1>4. PICK r2 \in Resume : res' = [res EXCEPT ![tp] = r2] /\ ResOk(r2, d, z)
  <2>1. CASE res' = res
    BY <1>1, <2>1, Known
  <2>2. CASE res' # res
    <3>1. (\E r1 \in saved(r) : res' = [res EXCEPT ![tp] = r1]) /\ c.wrs # "null"
      BY <1>2, <2>2 DEF saves_on_stop
    <3>2. c.st = "active" /\ Sound(r, d)
      BY <1>1, <3>1 DEF CmOk, ActiveOk
    <3>3. PICK r1 \in saved(r) : res' = [res EXCEPT ![tp] = r1]
      BY <3>1
    <3>4. r1 \in Resume /\ r1.pc = r.pc /\ r1.bits = r.bits
      BY <1>1, <3>3, SavedIs
    <3>5. ResOk(r1, d, z)
      BY <1>1, <3>2, <3>4 DEF ResOk, Sound
    <3> QED BY <3>3, <3>4, <3>5
  <2> QED BY <2>1, <2>2
<1>5. Gone.st # "starting" /\ CmOk(Gone, r2, d, z, errors)
  BY GoneOk DEF Gone
<1> HIDE DEF c, r, d, z
<1>6. Shapes' /\ \A q \in Torrents : TorrentOk(q)'
  BY <1>1, <1>3, <1>4, <1>5, OneTorrent
<1>7. QueueOk'
  BY <1>3, <1>4, <1>5, QueueLess
<1>8. OthersOk'
  <2>1. errors \subseteq Harmless => "close_stop" \notin errors
    BY DEF Harmless
  <2>2. fault' \in {"none", "freed"} /\ (errors \subseteq Harmless => fault' = "none")
    BY <1>2, <1>3, <2>1 DEF MayFail
  <2> QED BY <1>3, <2>2 DEF IInv, OthersOk
<1> QED BY <1>6, <1>7, <1>8 DEF IInv

LEMMA TickOk ==
    ASSUME IInv, NEW tp \in Torrents, torrent_on_tick(tp), errors' = errors
    PROVE  IInv'
<1> DEFINE c == cm[tp]
           r == res[tp]
           d == disk[tp]
           z == size[tp]
<1>1. FilesOk(d, z) /\ ResOk(r, d, z) /\ CmOk(c, r, d, z, errors) /\ c \in Content
  BY Known
<1>2. /\ res' = [res EXCEPT ![tp] = r] /\ disk' = [disk EXCEPT ![tp] = d]
      /\ size' = [size EXCEPT ![tp] = z]
      /\ startq' = startq /\ fault' = fault /\ workev' = workev
  BY Known DEF torrent_on_tick
<1>3. PICK c2 : cm' = [cm EXCEPT ![tp] = c2] /\ CmOk(c2, r, d, z, errors) /\ c2.st # "starting"
  <2>1. CASE c.st = "active" /\ ~c.net /\ cm' = [cm EXCEPT ![tp].net = TRUE]
    <3> DEFINE c2 == [c EXCEPT !.net = TRUE]
    <3>1. cm' = [cm EXCEPT ![tp] = c2]
      BY <2>1
    <3>2. c2 \in Content
      BY <1>1 DEF Content
    <3>3. /\ c2.st = "active" /\ c2.rds = c.rds /\ c2.lost = c.lost /\ c2.pos = c.pos
          /\ c2.got = c.got /\ c2.bytes = c.bytes /\ c2.wrs = c.wrs /\ c2.error = c.error
      BY <1>1, <2>1 DEF Content
    <3>4. ActiveOk(c, r, d) /\ ~c.error
      BY <1>1, <2>1 DEF CmOk
    <3> HIDE DEF c2
    <3>5. ActiveOk(c2, r, d)
      BY <3>3, <3>4 DEF ActiveOk
    <3>6. CmOk(c2, r, d, z, errors)
      <4>1. c.wrs = "null" /\ "stat" \notin errors => r.fts = Files
        BY <1>1, <2>1 DEF CmOk
      <4> QED BY <3>2, <3>3, <3>4, <3>5, <4>1 DEF CmOk
    <3> QED BY <3>1, <3>3, <3>6
  <2>2. CASE cm' = [cm EXCEPT ![tp] = Gone]
    <3>1. CmOk(Gone, r, d, z, errors)
      BY GoneOk
    <3>2. Gone.st # "starting"
      BY DEF Gone
    <3> QED BY <2>2, <3>1, <3>2
  <2> QED BY <2>1, <2>2 DEF torrent_on_tick
<1>4. c.st # "starting"
  BY <1>1 DEF torrent_on_tick, CmOk
<1> HIDE DEF r, d, z
<1>5. Shapes' /\ \A q \in Torrents : TorrentOk(q)'
  BY <1>1, <1>2, <1>3, OneTorrent
<1>6. QueueOk'
  BY <1>2, <1>3, <1>4, QueueKept
<1>7. OthersOk'
  BY <1>2 DEF IInv, OthersOk
<1> QED BY <1>5, <1>6, <1>7 DEF IInv

LEMMA GetOk ==
    ASSUME IInv, NEW tp \in Torrents, NEW p \in Pieces, cm_get_bytes(tp, p), errors' = errors
    PROVE  IInv'
<1> DEFINE c == cm[tp]
           r == res[tp]
           d == disk[tp]
           z == size[tp]
<1>1. FilesOk(d, z) /\ ResOk(r, d, z) /\ CmOk(c, r, d, z, errors) /\ c \in Content
  BY Known
<1>2. /\ res' = [res EXCEPT ![tp] = r] /\ disk' = [disk EXCEPT ![tp] = d]
      /\ size' = [size EXCEPT ![tp] = z] /\ cm' = [cm EXCEPT ![tp] = failed(c)]
      /\ startq' = startq /\ fault' = fault /\ workev' = workev
  BY Known DEF cm_get_bytes
<1>3. c.st = "active" /\ p \in r.pc
  BY <1>1 DEF cm_get_bytes, CmOk
<1>4. Reads(tp, BlocksOf(p))
  <2> SUFFICES ASSUME NEW b \in BlocksOf(p) PROVE Within(z, b)
    BY DEF Reads, Within
  <2>1. b \in Blocks /\ d[b] = "good"
    BY <1>1, <1>3 DEF BlocksOf, CmOk, ActiveOk, Sound, GoodOn
  <2> QED BY <1>1, <2>1 DEF FilesOk
<1>5. "get" \in errors /\ ~(errors \subseteq Harmless)
  BY <1>4 DEF cm_get_bytes, MayFail, Harmless
<1>6. CmOk(failed(c), r, d, z, errors) /\ failed(c).st # "starting"
  BY <1>1, <1>5, FailedOk, FailedIs
<1>7. c.st # "starting"
  BY <1>3
<1> HIDE DEF r, d, z
<1>8. Shapes' /\ \A q \in Torrents : TorrentOk(q)'
  BY <1>1, <1>2, <1>6, OneTorrent
<1>9. QueueOk'
  BY <1>2, <1>6, <1>7, QueueKept
<1>10. OthersOk'
  BY <1>2 DEF IInv, OthersOk
<1> QED BY <1>8, <1>9, <1>10 DEF IInv

LEMMA CrashOk ==
    ASSUME IInv, crash, errors' = errors
    PROVE  IInv'
<1>1. /\ cm' = [tp \in Torrents |-> Gone] /\ startq' = <<>> /\ workev' = FALSE
      /\ res' = res /\ disk' = disk /\ size' = size /\ fault' = fault
  BY DEF crash
<1>2. Gone \in Content /\ Gone.st = "none"
  BY GoneOk DEF Gone
<1>3. Shapes'
  BY <1>1, <1>2 DEF IInv, Shapes
<1>4. ASSUME NEW tp \in Torrents PROVE TorrentOk(tp)'
  BY <1>1, GoneOk DEF IInv, TorrentOk
<1>5. QueueOk'
  <2>1. startq' \in Seq(Entry) /\ Len(startq') = 0
    BY <1>1
  <2>2. \A tp \in Torrents : cm'[tp].st = "none"
    BY <1>1, <1>2
  <2> QED BY <2>1, <2>2 DEF QueueOk
<1>6. OthersOk'
  BY <1>1 DEF IInv, OthersOk
<1> QED BY <1>3, <1>4, <1>5, <1>6 DEF IInv

\* The files of a stopped torrent change: a block is lost only with the end of
\* its file, and the file's recorded time is no longer right.
LEMMA EditOk ==
    ASSUME IInv, NEW tp \in Torrents, edit(tp), errors' = errors
    PROVE  IInv'
<1> DEFINE c == cm[tp]
           r == res[tp]
           d == disk[tp]
           z == size[tp]
<1>1. FilesOk(d, z) /\ ResOk(r, d, z) /\ CmOk(c, r, d, z, errors) /\ r \in Resume
  BY Known
<1>2. PICK i \in Files :
         /\ \/ \E n \in 0..(z[i] - 1) :
                 /\ size' = [size EXCEPT ![tp][i] = n]
                 /\ disk' = [disk EXCEPT ![tp] = [b \in Blocks |->
                        IF FileOf(b) = i /\ b - Off(i) >= n THEN "zero" ELSE @[b]]]
            \/ \E b \in Blocks :
                 /\ FileOf(b) = i /\ b - Off(i) < z[i]
                 /\ disk' = [disk EXCEPT ![tp][b] = "bad"]
                 /\ UNCHANGED size
         /\ res' = [res EXCEPT ![tp].fts = @ \ {i}]
  BY DEF edit
<1>3. c.st = "none" /\ cm' = cm /\ startq' = startq /\ fault' = fault /\ workev' = workev
  BY DEF edit
<1> DEFINE fts == r.fts \ {i}
           r2 == [r EXCEPT !.fts = fts]
<1>4. /\ r2 \in Resume /\ r2.bits = r.bits /\ r2.fts # Files
      /\ res' = [res EXCEPT ![tp] = r2]
  <2>1. fts \in SUBSET Files /\ fts # Files
    BY <1>1, <1>2 DEF Resume
  <2>2. res' = [res EXCEPT ![tp] = r2]
    BY <1>2
  <2> HIDE DEF fts
  <2>3. r2 \in Resume /\ r2.bits = r.bits /\ r2.fts = fts
    BY <1>1, <2>1 DEF Resume
  <2> QED BY <2>1, <2>2, <2>3
<1> HIDE DEF r2
<1>5. d \in [Blocks -> {"zero", "good", "bad"}] /\ z \in [Files -> Nat]
  BY <1>1 DEF FilesOk
<1>6. PICK d2, z2 : /\ disk' = [disk EXCEPT ![tp] = d2] /\ size' = [size EXCEPT ![tp] = z2]
                    /\ FilesOk(d2, z2) /\ ResOk(r2, d2, z2)
  <2>1. ASSUME NEW n \in 0..(z[i] - 1), size' = [size EXCEPT ![tp][i] = n],
               disk' = [disk EXCEPT ![tp] = [b \in Blocks |->
                        IF FileOf(b) = i /\ b - Off(i) >= n THEN "zero" ELSE @[b]]]
        PROVE  \E d2, z2 : /\ disk' = [disk EXCEPT ![tp] = d2] /\ size' = [size EXCEPT ![tp] = z2]
                           /\ FilesOk(d2, z2) /\ ResOk(r2, d2, z2)
    <3> DEFINE d2 == [b \in Blocks |-> IF FileOf(b) = i /\ b - Off(i) >= n THEN "zero" ELSE d[b]]
               z2 == [z EXCEPT ![i] = n]
    <3>1. disk' = [disk EXCEPT ![tp] = d2] /\ size' = [size EXCEPT ![tp] = z2]
      BY <2>1
    <3>2. n \in Nat /\ n < z[i] /\ z[i] \in Nat
      BY <1>5
    <3>3. z2 \in [Files -> Nat] /\ z2[i] = n /\ \A j \in Files : j # i => z2[j] = z[j]
      BY <1>5, <3>2
    <3>4. \A j \in Files : z2[j] <= Length(j)
      BY <1>1, <3>2, <3>3, FilesShape DEF FilesOk
    <3>5. d2 \in [Blocks -> {"zero", "good", "bad"}]
      BY <1>5
    <3> HIDE DEF z2
    <3>6. ASSUME NEW b \in Blocks
          PROVE  (d2[b] # "zero" => Within(z2, b) /\ d[b] # "zero") /\ (d[b] # "zero" /\ Within(z2, b) => d2[b] # "zero")
                 /\ (Within(z2, b) => Within(z, b))
      <4> DEFINE f == FileOf(b)
                 o == b - Off(f)
      <4>1. f \in Files /\ Off(f) \in Nat /\ b \in Nat /\ o \in Int
        <5>1. f \in Files /\ Off(f) \in Nat /\ b \in Nat
          BY FilesShape, Shape
        <5> QED BY <5>1
      <4>2. d[b] # "zero" => o < z[f]
        BY <1>1 DEF FilesOk, Within
      <4>3. d2[b] = IF f = i /\ o >= n THEN "zero" ELSE d[b]
        OBVIOUS
      <4> HIDE DEF f, o, d2
      <4>4. CASE f = i
        <5>1. Within(z2, b) <=> o < n
          BY <3>3, <4>4 DEF Within, f, o
        <5>2. Within(z, b) <=> o < z[i]
          BY <4>4 DEF Within, f, o
        <5> QED BY <3>2, <4>1, <4>3, <4>4, <5>1, <5>2
      <4>5. CASE f # i
        <5>1. (Within(z2, b) <=> o < z[f]) /\ (Within(z, b) <=> o < z[f])
          BY <3>3, <4>1, <4>5 DEF Within, f, o
        <5> QED BY <4>2, <4>3, <4>5, <5>1
      <4> QED BY <4>4, <4>5
    <3> HIDE DEF d2
    <3>7. FilesOk(d2, z2)
      BY <3>3, <3>4, <3>5, <3>6 DEF FilesOk
    <3>8. ResOk(r2, d2, z2)
      <4>1. \A b \in r.bits : b \in Blocks /\ (d[b] # "zero" \/ ~Within(z, b))
        BY <1>1 DEF ResOk, Resume
      <4> QED BY <1>4, <3>6, <4>1 DEF ResOk
    <3> QED BY <3>1, <3>7, <3>8
  <2>2. ASSUME NEW b \in Blocks, FileOf(b) = i, b - Off(i) < z[i],
               disk' = [disk EXCEPT ![tp][b] = "bad"], size' = size
        PROVE  \E d2, z2 : /\ disk' = [disk EXCEPT ![tp] = d2] /\ size' = [size EXCEPT ![tp] = z2]
                           /\ FilesOk(d2, z2) /\ ResOk(r2, d2, z2)
    <3> DEFINE d2 == [d EXCEPT ![b] = "bad"]
    <3>1. disk' = [disk EXCEPT ![tp] = d2] /\ size' = [size EXCEPT ![tp] = z]
      BY <2>2, Known
    <3>2. /\ d2 \in [Blocks -> {"zero", "good", "bad"}] /\ d2[b] = "bad"
          /\ \A x \in Blocks : x # b => d2[x] = d[x]
      BY <1>5
    <3>3. Within(z, b)
      BY <2>2 DEF Within
    <3> HIDE DEF d2
    <3>4. FilesOk(d2, z)
      BY <1>1, <3>2, <3>3 DEF FilesOk
    <3>5. ResOk(r2, d2, z)
      <4>1. \A x \in r.bits : x \in Blocks /\ (d[x] # "zero" \/ ~Within(z, x))
        BY <1>1 DEF ResOk, Resume
      <4> QED BY <1>4, <3>2, <4>1 DEF ResOk
    <3> QED BY <3>1, <3>4, <3>5
  <2> QED BY <1>2, <2>1, <2>2
<1>7. cm' = [cm EXCEPT ![tp] = c] /\ CmOk(c, r2, d2, z2, errors) /\ c.st # "starting"
  <2>1. cm' = [cm EXCEPT ![tp] = c]
    BY <1>3, Known
  <2> QED BY <1>1, <1>3, <2>1 DEF CmOk
<1>8. Shapes' /\ \A q \in Torrents : TorrentOk(q)'
  <2> HIDE DEF c
  <2> QED BY <1>4, <1>6, <1>7, OneTorrent
<1>9. QueueOk'
  BY <1>3, <1>4, <1>6, <1>7, QueueKept
<1>10. OthersOk'
  BY <1>3 DEF IInv, OthersOk
<1> QED BY <1>8, <1>9, <1>10 DEF IInv

\* A torrent enters the queue.
LEMMA QueueMore ==
    ASSUME IInv, NEW tp \in Torrents, NEW c, NEW r, NEW d, NEW m \in Pieces,
           cm' = [cm EXCEPT ![tp] = c], res' = [res EXCEPT ![tp] = r],
           disk' = [disk EXCEPT ![tp] = d], cm[tp].st # "starting",
           startq' = Append(startq, [tp |-> tp, start |-> m]),
           EntryOk([tp |-> tp, start |-> m], cm', res', disk')
    PROVE  QueueOk'
<1> DEFINE e == [tp |-> tp, start |-> m]
           q == startq
           n == Len(startq)
<1>1. QueueOk
  BY DEF IInv
<1>2. /\ q \in Seq(Entry) /\ n \in Nat /\ \A i, j \in 1..n : q[i].tp = q[j].tp => i = j
      /\ \A i \in 1..n : EntryOk(q[i], cm, res, disk)
      /\ \A t \in Torrents : cm[t].st = "starting" => \E i \in 1..n : q[i].tp = t
  BY <1>1 DEF QueueOk
<1>3. \A i \in 1..n : q[i].tp # tp
  BY <1>2 DEF EntryOk
<1>4. e \in Entry /\ e.tp = tp
  BY DEF Entry
<1> HIDE DEF e
<1>5. /\ startq' \in Seq(Entry) /\ Len(startq') = n + 1 /\ startq'[n + 1] = e
      /\ \A i \in 1..n : startq'[i] = q[i]
  BY <1>2, <1>4 DEF e
<1>6. ASSUME NEW i \in 1..(n + 1) PROVE EntryOk(startq'[i], cm', res', disk')
  <2>1. CASE i = n + 1
    BY <1>5, <2>1 DEF e
  <2>2. CASE i \in 1..n
    <3>1. q[i] \in Entry
      BY <1>2, <2>2
    <3>2. EntryOk(q[i], cm', res', disk')
      BY <1>2, <1>3, <2>2, <3>1, OtherEntry
    <3> QED BY <1>5, <2>2, <3>2
  <2> QED BY <1>2, <2>1, <2>2
<1>7. \A i, j \in 1..(n + 1) : startq'[i].tp = startq'[j].tp => i = j
  <2>1. \A i \in 1..(n + 1) : i = n + 1 \/ i \in 1..n
    BY <1>2
  <2>2. \A i \in 1..n : startq'[i].tp # tp
    BY <1>3, <1>5
  <2>3. startq'[n + 1].tp = tp
    BY <1>4, <1>5
  <2>4. \A i, j \in 1..n : startq'[i].tp = startq'[j].tp => i = j
    BY <1>2, <1>5
  <2> QED BY <2>1, <2>2, <2>3, <2>4
<1>8. ASSUME NEW t \in Torrents, cm'[t].st = "starting"
      PROVE  \E i \in 1..(n + 1) : startq'[i].tp = t
  <2>1. n + 1 \in 1..(n + 1) /\ \A i \in 1..n : i \in 1..(n + 1)
    BY <1>2
  <2>2. CASE t = tp
    BY <1>4, <1>5, <2>1, <2>2
  <2>3. CASE t # tp
    <3>1. cm'[t] = cm[t]
      BY <2>3 DEF IInv, Shapes
    <3>2. PICK i \in 1..n : q[i].tp = t
      BY <1>2, <1>8, <3>1
    <3> QED BY <1>5, <2>1, <3>2
  <2> QED BY <2>2, <2>3
<1> QED BY <1>5, <1>6, <1>7, <1>8 DEF QueueOk

\* cm_start: pieces that reach beyond the end of a file are forgotten, so the
\* blocks still counted are there and the others can be read.
LEMMA StartOk ==
    ASSUME IInv, NEW tp \in Torrents, cm_start(tp), errors' = errors
    PROVE  IInv'
<1> DEFINE d == disk[tp]
           z == size[tp]
           c == [Gone EXCEPT !.st = "starting", !.rds = "open"]
           gone == IF run_test(tp) THEN cut(tp) ELSE {}
           pos == IF run_test(tp) THEN Pieces \ gone ELSE {}
           npc == res[tp].pc \ gone
           nbits == res[tp].bits \ BlocksIn(gone)
           r == [res[tp] EXCEPT !.pc = npc, !.bits = nbits]
           m == CHOOSE p \in pos : \A q \in pos : p <= q
<1>1. /\ FilesOk(d, z) /\ ResOk(res[tp], d, z) /\ CmOk(cm[tp], res[tp], d, z, errors)
      /\ res[tp] \in Resume
  BY Known
<1>2. fault = "none" /\ cm[tp].st = "none"
  BY DEF cm_start
<1>3. PICK err \in MayFail("stat") :
         CASE err -> /\ cm' = [cm EXCEPT ![tp] = failed(c)]
                     /\ UNCHANGED <<res, startq, workev>>
           [] ~err /\ pos = {} ->
                /\ cm' = [cm EXCEPT ![tp] = ended(c, r)]
                /\ res' = [res EXCEPT ![tp] = ended_res(r, FALSE)]
                /\ UNCHANGED <<startq, workev>>
           [] OTHER ->
                /\ cm' = [cm EXCEPT ![tp] = [c EXCEPT !.pos = pos]]
                /\ res' = [res EXCEPT ![tp] = r]
                /\ startq' = Append(startq, [tp |-> tp, start |-> m])
                /\ workev' = (workev \/ startq = <<>>)
  BY DEF cm_start
<1>4. /\ disk' = [disk EXCEPT ![tp] = d] /\ size' = [size EXCEPT ![tp] = z] /\ fault' = fault
  BY Known DEF cm_start
<1>5. /\ c.st = "starting" /\ c.rds = "open" /\ c.wrs = "null" /\ c.net = FALSE /\ c.error = FALSE
      /\ c.got = 0 /\ c.bytes = 0 /\ c.lost = {}
  BY DEF Gone
<1>6. c \in Content
  BY GoneOk DEF Content
<1>7. npc \in SUBSET Pieces /\ nbits \in SUBSET Blocks
  BY <1>1 DEF Resume
<1>8. /\ r \in Resume /\ r.pc = npc /\ r.bits = nbits /\ r.fts = res[tp].fts
  <2> HIDE DEF npc, nbits
  <2> QED BY <1>1, <1>7 DEF Resume
<1> HIDE DEF c, r
<1>9. ASSUME NEW b \in Blocks, ~Within(z, b) PROVE PieceOf(b) \in cut(tp)
  BY <1>1, <1>9, BeyondIsCut DEF FilesOk
<1>10. CASE err
  <2>1. cm' = [cm EXCEPT ![tp] = failed(c)] /\ UNCHANGED <<res, startq, workev>>
    BY <1>3, <1>10
  <2>2. errors # {}
    BY <1>10 DEF MayFail
  <2>3. CmOk(failed(c), res[tp], d, z, errors) /\ failed(c).st # "starting"
    BY <1>5, <1>6, <2>2, FailedOk, FailedIs
  <2>4. res' = [res EXCEPT ![tp] = res[tp]]
    BY <2>1, Known
  <2> HIDE DEF d, z
  <2>5. Shapes' /\ \A q \in Torrents : TorrentOk(q)'
    BY <1>1, <1>4, <2>1, <2>3, <2>4, OneTorrent
  <2>6. QueueOk'
    BY <1>2, <1>4, <2>1, <2>3, <2>4, QueueKept
  <2>7. OthersOk'
    BY <1>4, <2>1 DEF IInv, OthersOk
  <2> QED BY <2>5, <2>6, <2>7 DEF IInv
<1>11. CASE ~err /\ pos = {}
  <2> DEFINE r2 == ended_res(r, FALSE)
             c2 == ended(c, r)
  <2>1. cm' = [cm EXCEPT ![tp] = c2] /\ res' = [res EXCEPT ![tp] = r2] /\ UNCHANGED <<startq, workev>>
    BY <1>3, <1>11
  <2>2. Sound(r, d) /\ (r.fts = Files \/ r.pc = {})
    <3>1. CASE run_test(tp)
      <4>1. Pieces \subseteq gone
        BY <1>11, <3>1
      <4>2. npc = {} /\ nbits = {}
        BY <1>7, <4>1, Shape DEF BlocksIn
      <4> QED BY <1>8, <4>2 DEF Sound
    <3>2. CASE ~run_test(tp)
      <4>1. r.fts = Files /\ Sound(res[tp], d)
        BY <1>1, <1>8, <3>2 DEF run_test, ResOk
      <4> QED BY <1>8, <4>1 DEF Sound
    <3> QED BY <3>1, <3>2
  <2>3. r2 \in Resume /\ Sound(r2, d) /\ CmOk(c2, r2, d, z, errors) /\ c2.st = "active"
    <3>1. c2.st = "active"
      BY <1>6 DEF ended, Content
    <3> QED BY <1>5, <1>6, <1>8, <2>2, <3>1, EndedOk
  <2> HIDE DEF r2, c2
  <2>4. ResOk(r2, d, z)
    BY <2>3 DEF ResOk, Sound
  <2> HIDE DEF d, z
  <2>5. Shapes' /\ \A q \in Torrents : TorrentOk(q)'
    BY <1>1, <1>4, <2>1, <2>3, <2>4, OneTorrent
  <2>6. QueueOk'
    BY <1>2, <1>4, <2>1, <2>3, QueueKept
  <2>7. OthersOk'
    BY <1>4, <2>1 DEF IInv, OthersOk
  <2> QED BY <2>5, <2>6, <2>7 DEF IInv
<1>12. CASE ~err /\ pos # {}
  <2> DEFINE c2 == [c EXCEPT !.pos = pos]
  <2>1. /\ cm' = [cm EXCEPT ![tp] = c2] /\ res' = [res EXCEPT ![tp] = r]
        /\ startq' = Append(startq, [tp |-> tp, start |-> m])
        /\ workev' = (workev \/ startq = <<>>)
    BY <1>3, <1>12
  <2>2. run_test(tp) /\ pos = Pieces \ cut(tp) /\ gone = cut(tp)
    BY <1>12
  <2>3. pos \in SUBSET Pieces /\ pos \in SUBSET Nat
    BY <2>2 DEF Pieces
  <2>4. m \in pos /\ \A q \in pos : m <= q
    <3> HIDE DEF pos
    <3>1. PICK k \in pos : \A q \in pos : k <= q
      BY <1>12, <2>3, LeastElement
    <3> QED BY <3>1
  <2> HIDE DEF pos, gone, m
  <2>5. c2 \in Content
    BY <1>6, <2>3 DEF Content
  <2>6. /\ c2.st = "starting" /\ c2.rds = "open" /\ c2.wrs = "null" /\ c2.net = FALSE
        /\ c2.error = FALSE /\ c2.got = 0 /\ c2.bytes = 0 /\ c2.lost = {} /\ c2.pos = pos
    BY <1>5, <1>6 DEF Content
  <2> HIDE DEF c2
  <2>7. r.fts # Files
    BY <1>8, <2>2 DEF run_test
  <2>8. ASSUME NEW b \in r.bits PROVE d[b] # "zero"
    <3>1. b \in Blocks /\ PieceOf(b) \notin cut(tp) /\ b \in res[tp].bits
      BY <1>7, <1>8, <2>2 DEF BlocksIn
    <3>2. Within(z, b)
      BY <1>9, <3>1
    <3> QED BY <1>1, <3>1, <3>2 DEF ResOk
  <2>9. ASSUME NEW p \in pos, NEW b \in BlocksOf(p) PROVE Within(z, b)
    <3>1. b \in Blocks /\ PieceOf(b) = p /\ p \notin cut(tp)
      BY <2>2 DEF BlocksOf
    <3> QED BY <1>9, <3>1
  <2>10. r.pc \subseteq pos
    BY <1>7, <1>8, <2>2
  <2>11. StartingOk(c2, r, d, z)
    BY <2>6, <2>7, <2>8, <2>9, <2>10 DEF StartingOk
  <2>12. CmOk(c2, r, d, z, errors)
    BY <2>5, <2>6, <2>11 DEF CmOk
  <2>13. ResOk(r, d, z)
    BY <1>8, <2>7, <2>8 DEF ResOk
  <2>14. EntryOk([tp |-> tp, start |-> m], cm', res', disk') /\ m \in Pieces
    <3>1. cm'[tp] = c2 /\ res'[tp] = r
      BY <2>1 DEF IInv, Shapes
    <3>2. ASSUME NEW p \in r.pc PROVE ~(p < m)
      <4>1. p \in Nat /\ m \in Nat /\ m <= p
        BY <2>3, <2>4, <2>10
      <4> QED BY <4>1
    <3> QED BY <2>3, <2>4, <2>6, <3>1, <3>2 DEF EntryOk
  <2> HIDE DEF d, z
  <2>15. Shapes' /\ \A q \in Torrents : TorrentOk(q)'
    BY <1>1, <1>4, <2>1, <2>12, <2>13, OneTorrent
  <2>16. QueueOk'
    BY <1>2, <1>4, <2>1, <2>14, QueueMore
  <2>17. OthersOk'
    BY <1>4, <2>1 DEF IInv, OthersOk
  <2> QED BY <2>15, <2>16, <2>17 DEF IInv
<1> QED BY <1>10, <1>11, <1>12

\* One turn of the worker: a failed test ends in an error, and after the last
\* piece all that is still in the field has been found good.
LEMMA WorkerOk ==
    ASSUME IInv, worker_cb, errors' = errors
    PROVE  IInv'
<1>1. /\ fault = "none" /\ disk' = disk /\ size' = size /\ fault' = fault
  BY DEF worker_cb
<1>2. CASE startq = <<>>
  <2>1. workev' = FALSE /\ UNCHANGED <<cm, res, startq>>
    BY <1>2 DEF worker_cb
  <2>2. Shapes' /\ QueueOk' /\ OthersOk'
    BY <1>1, <2>1 DEF IInv, Shapes, QueueOk, OthersOk
  <2>3. \A tp \in Torrents : TorrentOk(tp)'
    BY <1>1, <2>1 DEF IInv, TorrentOk
  <2> QED BY <2>2, <2>3 DEF IInv
<1>3. CASE startq # <<>>
  <2> DEFINE tp == Head(startq).tp
             p == Head(startq).start
             c == cm[tp]
             d == disk[tp]
             z == size[tp]
             npc == IF Hashes(tp, p) THEN res[tp].pc \union {p} ELSE res[tp].pc \ {p}
             r == [res[tp] EXCEPT !.pc = npc]
             todo == next_start(c, p)
             m == CHOOSE q \in todo : \A s \in todo : q <= s
  <2>1. PICK err \in MayFail("startup") :
           CASE err \/ ~Reads(tp, BlocksOf(p)) ->
                     /\ cm' = [cm EXCEPT ![tp] = failed(c)]
                     /\ startq' = Unqueued(tp)
                     /\ workev' = FALSE
                     /\ UNCHANGED res
                [] ~err /\ Reads(tp, BlocksOf(p)) /\ todo # {} ->
                     /\ res' = [res EXCEPT ![tp] = r]
                     /\ startq' = [startq EXCEPT ![1].start = m]
                     /\ workev' = rearm(startq')
                     /\ UNCHANGED cm
                [] OTHER ->
                     /\ cm' = [cm EXCEPT ![tp] = ended(c, r)]
                     /\ res' = [res EXCEPT ![tp] = ended_res(r, TRUE)]
                     /\ startq' = Tail(startq)
                     /\ workev' = rearm(startq')
    BY <1>3 DEF worker_cb
  <2>2. QueueOk /\ Len(startq) \in Nat \ {0} /\ Head(startq) = startq[1] /\ startq \in Seq(Entry)
    BY <1>3 DEF IInv, QueueOk
  <2>3. startq[1] \in Entry
    BY <2>2
  <2>4. tp \in Torrents /\ p \in Pieces /\ startq[1] = [tp |-> tp, start |-> p]
    BY <2>2, <2>3 DEF Entry
  <2>5. EntryOk(startq[1], cm, res, disk)
    BY <2>2 DEF QueueOk
  <2>6. c.st = "starting" /\ p \in c.pos /\ \A q \in res[tp].pc : q < p => GoodOn(d, q)
    BY <2>2, <2>5 DEF EntryOk
  <2>7. /\ FilesOk(d, z) /\ ResOk(res[tp], d, z) /\ CmOk(c, res[tp], d, z, errors)
        /\ res[tp] \in Resume /\ c \in Content
        /\ disk' = [disk EXCEPT ![tp] = d] /\ size' = [size EXCEPT ![tp] = z]
    BY <1>1, <2>4, Known
  <2> HIDE DEF tp, p
  <2>8. StartingOk(c, res[tp], d, z) /\ ~c.error
    BY <2>6, <2>7 DEF CmOk
  <2>9. Reads(tp, BlocksOf(p))
    BY <2>6, <2>8 DEF StartingOk, Reads, Within
  <2>10. npc \in SUBSET Pieces
    BY <2>4, <2>7 DEF Resume
  <2>11. r \in Resume /\ r.pc = npc /\ r.bits = res[tp].bits /\ r.fts = res[tp].fts
    <3> HIDE DEF npc
    <3> QED BY <2>7, <2>10 DEF Resume
  <2>12. c.pos \in SUBSET Pieces /\ todo \subseteq c.pos /\ todo \in SUBSET Nat
    <3>1. c.pos \in SUBSET Pieces
      BY <2>7 DEF Content
    <3> QED BY <3>1 DEF next_start, Pieces
  <2>13. npc \subseteq c.pos /\ \A q \in npc : (q < p \/ q = p) => GoodOn(d, q)
    <3>1. npc \subseteq c.pos
      BY <2>6, <2>8 DEF StartingOk
    <3>2. p \in npc => GoodOn(d, p)
      BY DEF Hashes, GoodOn
    <3> QED BY <2>6, <3>1, <3>2
  <2> HIDE DEF r
  <2>14. ResOk(r, d, z) /\ \A b \in r.bits : d[b] # "zero"
    BY <2>7, <2>8, <2>11 DEF ResOk, StartingOk
  <2>15. CASE err
    <3>1. /\ cm' = [cm EXCEPT ![tp] = failed(c)] /\ startq' = Unqueued(tp) /\ workev' = FALSE
          /\ res' = res
      BY <2>1, <2>15
    <3>2. res' = [res EXCEPT ![tp] = res[tp]]
      BY <2>4, <3>1, Known
    <3>3. errors # {}
      BY <2>15 DEF MayFail
    <3>4. CmOk(failed(c), res[tp], d, z, errors) /\ failed(c).st # "starting"
      BY <2>7, <2>8, <3>3, FailedOk, FailedIs DEF StartingOk
    <3> HIDE DEF d, z
    <3>5. Shapes' /\ \A q \in Torrents : TorrentOk(q)'
      BY <2>4, <2>7, <3>1, <3>2, <3>4, OneTorrent
    <3>6. QueueOk'
      BY <2>4, <2>7, <3>1, <3>2, <3>4, QueueLess
    <3>7. OthersOk'
      BY <1>1, <3>1 DEF IInv, OthersOk
    <3> QED BY <3>5, <3>6, <3>7 DEF IInv
  <2>16. CASE ~err /\ todo # {}
    <3>1. /\ res' = [res EXCEPT ![tp] = r] /\ startq' = [startq EXCEPT ![1].start = m]
          /\ workev' = rearm(startq') /\ cm' = cm
      BY <2>1, <2>9, <2>16
    <3>2. m \in todo /\ \A q \in todo : m <= q
      <4> HIDE DEF todo
      <4>1. PICK k \in todo : \A q \in todo : k <= q
        BY <2>12, <2>16, LeastElement
      <4> QED BY <4>1
    <3>3. cm' = [cm EXCEPT ![tp] = c]
      BY <2>4, <3>1, Known
    <3>4. m \in c.pos /\ m \in Pieces /\ \A q \in c.pos : q < m => (q < p \/ q = p)
      <4>1. m \in c.pos /\ m \in Pieces
        BY <2>12, <3>2
      <4>2. ASSUME NEW q \in c.pos, q < m PROVE q < p \/ q = p
        <5>1. q \in Nat /\ p \in Nat /\ m \in Nat
          BY <2>4, <2>12, <4>1 DEF Pieces
        <5>2. q > p => q \in todo
          BY DEF next_start
        <5> QED BY <3>2, <4>2, <5>1, <5>2
      <4> QED BY <4>1, <4>2
    <3> HIDE DEF m, todo
    <3>5. StartingOk(c, r, d, z)
      BY <2>8, <2>11, <2>13, <2>14 DEF StartingOk
    <3>6. CmOk(c, r, d, z, errors)
      BY <2>6, <2>7, <2>8, <3>5 DEF CmOk
    <3>7. Shapes' /\ \A q \in Torrents : TorrentOk(q)'
      <4> HIDE DEF c, d, z
      <4> QED BY <2>4, <2>7, <2>14, <3>1, <3>3, <3>6, OneTorrent
    <3>8. QueueOk'
      <4> DEFINE e == [tp |-> tp, start |-> m]
      <4>1. e \in Entry /\ e.tp = tp /\ e.start = m
        BY <2>4, <3>4 DEF Entry
      <4>2. startq' = [startq EXCEPT ![1] = e]
        <5>1. [startq[1] EXCEPT !.start = m] = e
          BY <2>4
        <5>2. startq' = [startq EXCEPT ![1] = [startq[1] EXCEPT !.start = m]]
          BY <3>1, Zenon
        <5> QED BY <5>1, <5>2
      <4> HIDE DEF e
      <4>3. /\ startq' \in Seq(Entry) /\ Len(startq') = Len(startq) /\ startq'[1] = e
            /\ \A i \in 1..Len(startq) : i # 1 => startq'[i] = startq[i]
        BY <2>2, <4>1, <4>2
      <4>4. \A i \in 1..Len(startq) : startq'[i].tp = startq[i].tp
        BY <2>4, <4>1, <4>3
      <4>5. ASSUME NEW i \in 1..Len(startq) PROVE EntryOk(startq'[i], cm', res', disk')
        <5>1. CASE i = 1
          <6>1. res'[tp] = r /\ cm'[tp] = c /\ disk'[tp] = d
            BY <1>1, <2>4, <3>1 DEF IInv, Shapes
          <6>2. \A q \in r.pc : q < m => GoodOn(d, q)
            BY <2>11, <2>13, <3>4
          <6> QED BY <2>6, <3>4, <4>1, <4>3, <5>1, <6>1, <6>2 DEF EntryOk
        <5>2. CASE i # 1
          <6>1. startq[i] \in Entry /\ startq[i].tp # tp
            BY <2>2, <2>4, <5>2 DEF QueueOk
          <6>2. EntryOk(startq[i], cm, res, disk)
            BY <2>2 DEF QueueOk
          <6>3. EntryOk(startq[i], cm', res', disk')
            BY <2>4, <2>7, <3>1, <3>3, <6>1, <6>2, OtherEntry
          <6> QED BY <4>3, <5>2, <6>3
        <5> QED BY <5>1, <5>2
      <4>6. \A q \in Torrents : cm'[q].st = "starting" => \E i \in 1..Len(startq) : startq'[i].tp = q
        BY <2>2, <3>1, <4>4 DEF QueueOk
      <4>7. \A i, j \in 1..Len(startq) : startq'[i].tp = startq'[j].tp => i = j
        BY <2>2, <4>4 DEF QueueOk
      <4> QED BY <4>3, <4>5, <4>6, <4>7 DEF QueueOk
    <3>9. OthersOk'
      BY <1>1, <3>1 DEF IInv, OthersOk, rearm
    <3> QED BY <3>7, <3>8, <3>9 DEF IInv
  <2>17. CASE ~err /\ todo = {}
    <3> DEFINE r2 == ended_res(r, TRUE)
               c2 == ended(c, r)
    <3>1. /\ cm' = [cm EXCEPT ![tp] = c2] /\ res' = [res EXCEPT ![tp] = r2]
          /\ startq' = Tail(startq) /\ workev' = rearm(startq')
      BY <2>1, <2>9, <2>17
    <3>2. Sound(r, d)
      <4>1. ASSUME NEW q \in npc PROVE GoodOn(d, q)
        <5>1. q \in c.pos /\ q \in Nat /\ p \in Nat
          BY <2>4, <2>12, <2>13 DEF Pieces
        <5>2. ~(q > p)
          BY <2>17, <5>1 DEF next_start
        <5>3. q < p \/ q = p
          BY <5>1, <5>2
        <5> QED BY <2>13, <5>3
      <4> QED BY <2>11, <2>14, <4>1 DEF Sound
    <3>3. c2.st = "active"
      BY <2>7 DEF ended, Content
    <3>4. r2 \in Resume /\ Sound(r2, d) /\ CmOk(c2, r2, d, z, errors)
      BY <2>6, <2>7, <2>8, <2>11, <3>2, EndedOk DEF StartingOk
    <3> HIDE DEF r2, c2
    <3>5. ResOk(r2, d, z)
      BY <3>4 DEF ResOk, Sound
    <3>6. Shapes' /\ \A q \in Torrents : TorrentOk(q)'
      <4> HIDE DEF d, z
      <4> QED BY <2>4, <2>7, <3>1, <3>4, <3>5, OneTorrent
    <3>7. QueueOk'
      <4> DEFINE u == Tail(startq)
      <4>1. /\ u \in Seq(Entry) /\ Len(u) = Len(startq) - 1
            /\ \A i \in 1..Len(u) : u[i] = startq[i + 1] /\ i + 1 \in 1..Len(startq)
        BY <2>2
      <4> HIDE DEF u
      <4>2. ASSUME NEW i \in 1..Len(u) PROVE u[i].tp # tp
        <5>1. i + 1 \in 1..Len(startq) /\ i + 1 # 1 /\ 1 \in 1..Len(startq)
          BY <2>2, <4>1
        <5> QED BY <2>2, <2>4, <4>1, <5>1 DEF QueueOk
      <4>3. ASSUME NEW i \in 1..Len(u) PROVE EntryOk(u[i], cm', res', disk')
        <5>1. u[i] \in Entry
          BY <4>1
        <5>2. EntryOk(u[i], cm, res, disk)
          BY <2>2, <4>1 DEF QueueOk
        <5> QED BY <2>4, <2>7, <3>1, <4>2, <5>1, <5>2, OtherEntry
      <4>4. ASSUME NEW i \in 1..Len(u), NEW j \in 1..Len(u), u[i].tp = u[j].tp PROVE i = j
        <5>1. i + 1 = j + 1
          BY <2>2, <4>1, <4>4 DEF QueueOk
        <5> QED BY <5>1
      <4>5. ASSUME NEW q \in Torrents, cm'[q].st = "starting" PROVE \E i \in 1..Len(u) : u[i].tp = q
        <5>1. cm'[tp].st = "active"
          BY <2>4, <3>1, <3>3 DEF IInv, Shapes, c2
        <5>2. q # tp /\ cm'[q] = cm[q]
          BY <2>4, <3>1, <4>5, <5>1 DEF IInv, Shapes
        <5>3. PICK j \in 1..Len(startq) : startq[j].tp = q
          BY <2>2, <4>5, <5>2 DEF QueueOk
        <5>4. j # 1
          BY <2>4, <5>2, <5>3
        <5>5. j - 1 \in 1..Len(u) /\ (j - 1) + 1 = j
          BY <2>2, <4>1, <5>3, <5>4
        <5>6. u[j - 1] = startq[j]
          BY <4>1, <5>5
        <5> QED BY <5>3, <5>5, <5>6
      <4>6. startq' = u
        BY <3>1 DEF u
      <4> QED BY <4>1, <4>3, <4>4, <4>5, <4>6 DEF QueueOk
    <3>8. OthersOk'
      BY <1>1, <3>1 DEF IInv, OthersOk, rearm
    <3> QED BY <3>6, <3>7, <3>8 DEF IInv
  <2> QED BY <2>15, <2>16, <2>17
<1> QED BY <1>2, <1>3

------------------------------------------------------------------------------
(* Storing and testing blocks *)

\* What a step of dl_on_block must leave of torrent tp, with the disk d and the
\* sizes z.
Left(tp, d, z) ==
    /\ \E c2, r2 : /\ cm' = [cm EXCEPT ![tp] = c2] /\ res' = [res EXCEPT ![tp] = r2]
                   /\ ResOk(r2, d, z) /\ CmOk(c2, r2, d, z, errors)
                   /\ c2.st # "starting"
    /\ fault' \in {"none", "freed"} /\ (errors \subseteq Harmless => fault' = "none")

\* One more piece or block is counted.
LEMMA OneMoreCounted ==
    ASSUME NEW T, IsFiniteSet(T), NEW S \in SUBSET T, NEW x \in T, x \notin S
    PROVE  /\ Cardinality(S \union {x}) = Cardinality(S) + 1
           /\ Cardinality(S) \in Nat /\ Cardinality(S) + 1 <= Cardinality(T)
<1>1. IsFiniteSet(S) /\ S \union {x} \in SUBSET T
  BY FS_Subset
<1>2. Cardinality(S \union {x}) = Cardinality(S) + 1 /\ Cardinality(S) \in Nat
  BY <1>1, FS_AddElement, FS_CardinalityType
<1>3. Cardinality(S \union {x}) <= Cardinality(T)
  BY <1>1, FS_Subset
<1> QED BY <1>2, <1>3

\* The blocks of a bad piece are no longer counted.
LEMMA PieceUncounted ==
    ASSUME NEW S \in SUBSET Blocks, NEW P \in SUBSET S
    PROVE  /\ Cardinality(S) - Cardinality(P) = Cardinality(S \ P)
           /\ Cardinality(S \ P) \in 0..NBlocks
<1> DEFINE R == S \ P
<1>1. /\ IsFiniteSet(P) /\ IsFiniteSet(R) /\ Cardinality(P) \in Nat /\ Cardinality(R) \in Nat
      /\ Cardinality(R) <= NBlocks
  BY FiniteSets
<1>2. P \intersect R = {} /\ P \union R = S
  OBVIOUS
<1> HIDE DEF R
<1>3. Cardinality(S) = Cardinality(P) + Cardinality(R)
  BY <1>1, <1>2, DisjointUnion
<1>4. Cardinality(S) - Cardinality(P) = Cardinality(R) /\ Cardinality(R) \in 0..NBlocks
  BY <1>1, <1>3, ContentAssumption
<1> QED BY <1>4 DEF R

\* The last piece is good: it is counted, and when it completes the torrent the
\* files are closed.
LEMMA GoodPiece ==
    ASSUME NEW b \in Blocks, NEW c \in Content, NEW r \in Resume, NEW d, NEW z,
           ResOk(r, d, z), CmOk(c, r, d, z, errors), c.st = "active",
           PieceOf(b) \notin r.pc, BlocksOf(PieceOf(b)) \subseteq r.bits, GoodOn(d, PieceOf(b))
    PROVE  LET c2 == [c EXCEPT !.got = @ + 1]
               c3 == [c2 EXCEPT !.wrs = "null"]
               r2 == [r EXCEPT !.pc = @ \union {PieceOf(b)}] IN
           /\ c.got < NPieces /\ c2 \in Content /\ c2.net = c.net
           /\ r2 \in Resume
           /\ ResOk(r2, d, z) /\ CmOk(c2, r2, d, z, errors) /\ c2.st = "active"
           /\ cm_full(c2) => r2.pc = Pieces
           /\ c3.st = "active"
           /\ \A r3 \in filled(r2) : ResOk(r3, d, z) /\ CmOk(c3, r3, d, z, errors)
<1> DEFINE p == PieceOf(b)
           n == c.got + 1
           pc == r.pc \union {p}
           c2 == [c EXCEPT !.got = n]
           c3 == [c2 EXCEPT !.wrs = "null"]
           r2 == [r EXCEPT !.pc = pc]
<1>1. ActiveOk(c, r, d) /\ ~c.error /\ r.pc \in SUBSET Pieces /\ r.bits \in SUBSET Blocks /\ p \in Pieces
  BY Shape DEF CmOk, Resume
<1>2. c.got = Cardinality(r.pc) /\ Cardinality(pc) = n /\ n <= NPieces /\ n \in Nat /\ pc \in SUBSET Pieces
  <2>1. c.got = Cardinality(r.pc)
    BY <1>1 DEF ActiveOk
  <2>2. /\ Cardinality(pc) = Cardinality(r.pc) + 1 /\ Cardinality(r.pc) \in Nat
        /\ Cardinality(r.pc) + 1 <= NPieces
    BY <1>1, Shape, OneMoreCounted
  <2> QED BY <1>1, <2>1, <2>2
<1>3. c.got \in Nat /\ c.got < NPieces /\ n \in 0..NPieces
  BY <1>2, Shape DEF Content
<1>4. b \in BlocksOf(p) /\ b \in r.bits /\ p \in c.pos
  <2>1. b \in BlocksOf(p)
    BY DEF BlocksOf
  <2> QED BY <1>1, <2>1 DEF ActiveOk, BlocksIn
<1>5. BlocksIn(pc) \union r.bits = BlocksIn(r.pc) \union r.bits
  BY DEF BlocksIn, BlocksOf
<1> HIDE DEF n, pc
<1>6. r2 \in Resume /\ r2.pc = pc /\ r2.bits = r.bits /\ r2.fts = r.fts
  BY <1>2 DEF Resume
<1>7. /\ c2 \in Content /\ c2.st = "active" /\ c2.error = FALSE /\ c2.rds = "open" /\ c2.lost = {}
      /\ c2.pos = c.pos /\ c2.got = n /\ c2.bytes = c.bytes /\ c2.wrs = c.wrs /\ c2.net = c.net
  <2>1. c2 \in Content
    BY <1>3 DEF Content
  <2> QED BY <1>1, <2>1 DEF Content, ActiveOk
<1>8. /\ c3 \in Content /\ c3.st = "active" /\ c3.error = FALSE /\ c3.rds = "open" /\ c3.lost = {}
      /\ c3.pos = c.pos /\ c3.got = n /\ c3.bytes = c.bytes /\ c3.wrs = "null" /\ c3.net = c.net
  <2> HIDE DEF c2
  <2>1. c3 \in Content
    BY <1>7 DEF Content
  <2> QED BY <1>7, <2>1 DEF Content
<1> HIDE DEF c2, c3, r2
<1>9. ASSUME NEW r3 \in Resume, r3.pc = pc, r3.bits = r.bits
      PROVE  ActiveOk(c2, r3, d) /\ ActiveOk(c3, r3, d) /\ Sound(r3, d)
  <2>0. Sound(r3, d)
    BY <1>1, <1>9 DEF Sound, ActiveOk, pc
  <2>1. pc \subseteq c.pos /\ r.bits \subseteq BlocksIn(c.pos)
    BY <1>1, <1>4 DEF ActiveOk, pc
  <2>2. c.bytes = Cardinality(BlocksIn(pc) \union r.bits)
    BY <1>1, <1>5 DEF ActiveOk
  <2> QED BY <1>2, <1>7, <1>8, <1>9, <2>0, <2>1, <2>2 DEF ActiveOk
<1>10. CmOk(c2, r2, d, z, errors) /\ ResOk(r2, d, z)
  <2>1. c.wrs = "null" /\ "stat" \notin errors => r.fts = Files
    BY DEF CmOk
  <2>2. ActiveOk(c2, r2, d) /\ Sound(r2, d)
    BY <1>6, <1>9
  <2>3. CmOk(c2, r2, d, z, errors)
    BY <1>6, <1>7, <2>1, <2>2 DEF CmOk
  <2> QED BY <1>6, <2>2, <2>3 DEF ResOk, Sound
<1>11. ASSUME NEW r3 \in filled(r2) PROVE ResOk(r3, d, z) /\ CmOk(c3, r3, d, z, errors)
  <2>1. r3 \in Resume /\ r3.pc = pc /\ r3.bits = r.bits /\ ("stat" \notin errors => r3.fts = Files)
    BY <1>6, SavedIs DEF filled
  <2>2. ActiveOk(c3, r3, d) /\ Sound(r3, d)
    BY <1>9, <2>1
  <2>3. CmOk(c3, r3, d, z, errors)
    BY <1>8, <2>1, <2>2 DEF CmOk
  <2> QED BY <2>1, <2>2, <2>3 DEF ResOk, Sound
<1>13. cm_full(c2) => r2.pc = Pieces
  BY <1>2, <1>6, <1>7, AllPieces DEF cm_full
<1> QED BY <1>3, <1>6, <1>7, <1>8, <1>10, <1>11, <1>13 DEF c2, c3, r2, n, pc

\* A bad piece: its blocks are neither counted nor remembered.
LEMMA BadPiece ==
    ASSUME NEW b \in Blocks, NEW c \in Content, NEW r \in Resume, NEW d, NEW z, NEW e,
           ResOk(r, d, z), CmOk(c, r, d, z, e), c.st = "active",
           PieceOf(b) \notin r.pc, BlocksOf(PieceOf(b)) \subseteq r.bits
    PROVE  LET c2 == dropped(c, PieceOf(b))
               r2 == [r EXCEPT !.bits = @ \ BlocksOf(PieceOf(b))] IN
           /\ c2 \in Content /\ c2.st = "active"
           /\ ResOk(r2, d, z) /\ CmOk(c2, r2, d, z, e)
<1> DEFINE P == BlocksOf(PieceOf(b))
           n == c.bytes - Cardinality(P)
           bits == r.bits \ P
           lost == c.lost \ P
           c2 == [c EXCEPT !.bytes = n, !.lost = lost]
           r2 == [r EXCEPT !.bits = bits]
           S == BlocksIn(r.pc) \union r.bits
<1>1. ActiveOk(c, r, d) /\ ~c.error /\ r.pc \in SUBSET Pieces /\ r.bits \in SUBSET Blocks
  BY DEF CmOk, Resume
<1>2. S \ P = BlocksIn(r.pc) \union bits
  BY DEF BlocksIn, BlocksOf
<1>3. n = Cardinality(S \ P) /\ n \in 0..NBlocks
  <2>1. c.bytes = Cardinality(S)
    BY <1>1 DEF ActiveOk
  <2>2. S \in SUBSET Blocks /\ P \in SUBSET S
    BY <1>1 DEF BlocksIn
  <2> HIDE DEF S, P
  <2>3. Cardinality(S) - Cardinality(P) = Cardinality(S \ P) /\ Cardinality(S \ P) \in 0..NBlocks
    BY <2>2, PieceUncounted
  <2> QED BY <2>1, <2>3
<1>4. bits \in SUBSET Blocks /\ lost = {}
  BY <1>1 DEF ActiveOk
<1>5. c2 = dropped(c, PieceOf(b))
  BY DEF dropped
<1> HIDE DEF bits, n, lost, S, P
<1>6. r2 \in Resume /\ r2.pc = r.pc /\ r2.bits = bits /\ r2.fts = r.fts
  BY <1>4 DEF Resume
<1>7. c2 \in Content
  BY <1>3, <1>4 DEF Content
<1>8. /\ c2.st = "active" /\ c2.error = FALSE /\ c2.rds = "open" /\ c2.lost = {} /\ c2.net = c.net
      /\ c2.pos = c.pos /\ c2.got = c.got /\ c2.bytes = n /\ c2.wrs = c.wrs
  BY <1>1, <1>4, <1>7 DEF Content, ActiveOk
<1>9. Sound(r2, d)
  BY <1>1, <1>6 DEF Sound, ActiveOk, bits
<1> HIDE DEF c2, r2
<1>10. ActiveOk(c2, r2, d)
  BY <1>1, <1>2, <1>3, <1>6, <1>8, <1>9 DEF ActiveOk, bits
<1>11. CmOk(c2, r2, d, z, e)
  <2>1. c.wrs = "null" /\ "stat" \notin e => r.fts = Files
    BY DEF CmOk
  <2> QED BY <1>6, <1>7, <1>8, <1>10, <2>1 DEF CmOk
<1>12. ResOk(r2, d, z)
  BY <1>6, <1>9 DEF ResOk, Sound
<1> QED BY <1>5, <1>7, <1>8, <1>11, <1>12 DEF r2, bits, P

LEMMA TestPiece ==
    ASSUME fault = "none", NEW tp \in Torrents, NEW b \in Blocks,
           NEW c \in Content, NEW r \in Resume, NEW d, NEW z,
           ResOk(r, d, z), CmOk(c, r, d, z, errors), c.net, PieceOf(b) \notin r.pc,
           BlocksOf(PieceOf(b)) \subseteq r.bits \union c.lost,
           cm_test_piece(tp, PieceOf(b), c, r, d)
    PROVE  Left(tp, d, z)
<1> DEFINE p == PieceOf(b)
<1>1. c.st \in {"active", "inactive"} /\ (c.error <=> c.st = "inactive")
  BY DEF CmOk
<1>2. p \in Pieces
  BY Shape
<1>3. c.rds = "open" => c.st = "active" /\ BlocksOf(p) \subseteq r.bits
  BY <1>1 DEF CmOk, ActiveOk
<1>4. CASE /\ c.rds = "freed" /\ fault' = "freed"
           /\ cm' = [cm EXCEPT ![tp] = c] /\ res' = [res EXCEPT ![tp] = r]
  <2>1. c.st = "inactive" /\ c.error
    BY <1>1, <1>4 DEF CmOk, ActiveOk
  <2>2. ~(errors \subseteq Harmless)
    BY <1>2, <2>1 DEF CmOk
  <2> QED BY <1>4, <2>1, <2>2 DEF Left
<1>5. CASE /\ c.rds = "open" /\ TRUE \in MayFail("test")
           /\ cm' = [cm EXCEPT ![tp] = failed(c)] /\ res' = [res EXCEPT ![tp] = r]
           /\ UNCHANGED fault
  <2>1. ~(errors \subseteq Harmless) /\ errors # {}
    BY <1>5 DEF MayFail, Harmless
  <2>2. CmOk(failed(c), r, d, z, errors) /\ failed(c).st # "starting"
    BY <2>1, FailedOk, FailedIs
  <2> QED BY <1>5, <2>1, <2>2 DEF Left
<1>6. CASE /\ c.rds = "open" /\ \A x \in BlocksOf(p) : d[x] = "good"
           /\ LET c2 == [c EXCEPT !.got = @ + 1]
                  r2 == [r EXCEPT !.pc = @ \union {p}] IN
              \E err \in MayFail("close_full") :
                IF ~cm_full(c2)
                THEN /\ ~err
                     /\ cm' = [cm EXCEPT ![tp] = c2]
                     /\ res' = [res EXCEPT ![tp] = r2]
                ELSE /\ err => c.wrs = "fd"
                     /\ cm' = [cm EXCEPT ![tp] = IF err THEN failed(c2)
                                                 ELSE [c2 EXCEPT !.wrs = "null"]]
                     /\ \E r3 \in IF err THEN {r2} ELSE filled(r2) :
                          res' = [res EXCEPT ![tp] = r3]
           /\ fault' = IF c.got < NPieces THEN "none" ELSE "assert"
  <2> DEFINE c2 == [c EXCEPT !.got = @ + 1]
             c3 == [c2 EXCEPT !.wrs = "null"]
             r2 == [r EXCEPT !.pc = @ \union {p}]
  <2>1. /\ c.got < NPieces /\ c2 \in Content /\ c2.net = c.net
        /\ ResOk(r2, d, z) /\ CmOk(c2, r2, d, z, errors) /\ c2.st = "active"
        /\ cm_full(c2) => r2.pc = Pieces
        /\ c3.st = "active"
        /\ \A r3 \in filled(r2) : ResOk(r3, d, z) /\ CmOk(c3, r3, d, z, errors)
    <3>1. c.st = "active" /\ GoodOn(d, p) /\ BlocksOf(p) \subseteq r.bits
      BY <1>3, <1>6 DEF GoodOn
    <3> QED BY <3>1, GoodPiece
  <2>2. PICK err \in MayFail("close_full") :
                IF ~cm_full(c2)
                THEN /\ ~err
                     /\ cm' = [cm EXCEPT ![tp] = c2]
                     /\ res' = [res EXCEPT ![tp] = r2]
                ELSE /\ err => c.wrs = "fd"
                     /\ cm' = [cm EXCEPT ![tp] = IF err THEN failed(c2) ELSE c3]
                     /\ \E r3 \in IF err THEN {r2} ELSE filled(r2) :
                          res' = [res EXCEPT ![tp] = r3]
    BY <1>6
  <2>3. fault' = "none"
    BY <1>6, <2>1
  <2> HIDE DEF c2, c3, r2
  <2>4. CASE ~cm_full(c2)
    BY <2>1, <2>2, <2>3, <2>4 DEF Left
  <2>5. CASE cm_full(c2) /\ ~err
    BY <2>1, <2>2, <2>3, <2>5 DEF Left
  <2>6. CASE cm_full(c2) /\ err
    <3>1. cm' = [cm EXCEPT ![tp] = failed(c2)] /\ res' = [res EXCEPT ![tp] = r2] /\ errors # {}
      BY <2>2, <2>6 DEF MayFail
    <3>2. CmOk(failed(c2), r2, d, z, errors) /\ failed(c2).st # "starting"
      BY <2>1, <2>6, <3>1, FailedOk, FailedIs
    <3> QED BY <2>1, <2>3, <3>1, <3>2 DEF Left
  <2> QED BY <2>4, <2>5, <2>6
<1>8. CASE /\ c.rds = "open" /\ \A x \in BlocksOf(p) : d[x] = "good"
           /\ TRUE \in MayFail("get")
           /\ LET c2 == [c EXCEPT !.got = @ + 1] IN
              /\ cm' = [cm EXCEPT ![tp] = failed(c2)]
              /\ fault' = CASE c.got = NPieces -> "assert"
                            [] cm_full(c2) \/ Cardinality(BlocksOf(p)) > 1 -> "freed"
                            [] OTHER -> "none"
           /\ res' = [res EXCEPT ![tp] = [r EXCEPT !.pc = @ \union {p}]]
  <2> DEFINE c2 == [c EXCEPT !.got = @ + 1]
             r2 == [r EXCEPT !.pc = @ \union {p}]
  <2>1. c2 \in Content /\ r2 \in Resume /\ ResOk(r2, d, z) /\ c.got < NPieces
    <3>1. c.st = "active" /\ GoodOn(d, p) /\ BlocksOf(p) \subseteq r.bits
      BY <1>3, <1>8 DEF GoodOn
    <3> QED BY <3>1, GoodPiece
  <2>2. ~(errors \subseteq Harmless) /\ errors # {}
    BY <1>8 DEF MayFail, Harmless
  <2>3. /\ cm' = [cm EXCEPT ![tp] = failed(c2)] /\ res' = [res EXCEPT ![tp] = r2]
        /\ fault' \in {"none", "freed"}
    <3>1. c.got # NPieces
      BY <2>1, Shape DEF Content
    <3> QED BY <1>8, <3>1
  <2> HIDE DEF c2, r2
  <2>4. CmOk(failed(c2), r2, d, z, errors) /\ failed(c2).st # "starting"
    BY <2>1, <2>2, FailedOk, FailedIs
  <2> QED BY <2>1, <2>2, <2>3, <2>4 DEF Left
<1>7. CASE /\ c.rds = "open" /\ \E x \in BlocksOf(p) : d[x] # "good"
           /\ \E err \in MayFail("get") :
                /\ cm' = [cm EXCEPT ![tp] = IF err THEN failed(dropped(c, p))
                                            ELSE dropped(c, p)]
                /\ fault' = IF err /\ Cardinality(BlocksOf(p)) > 1 THEN "freed"
                            ELSE "none"
           /\ res' = [res EXCEPT ![tp] = [r EXCEPT !.bits = @ \ BlocksOf(p)]]
  <2> DEFINE c2 == dropped(c, p)
             r2 == [r EXCEPT !.bits = @ \ BlocksOf(p)]
  <2>1. c2 \in Content /\ c2.st = "active" /\ ResOk(r2, d, z) /\ CmOk(c2, r2, d, z, errors)
    BY <1>3, <1>7, BadPiece
  <2>2. PICK err \in MayFail("get") :
                /\ cm' = [cm EXCEPT ![tp] = IF err THEN failed(c2) ELSE c2]
                /\ fault' = IF err /\ Cardinality(BlocksOf(p)) > 1 THEN "freed" ELSE "none"
    BY <1>7
  <2>3. res' = [res EXCEPT ![tp] = r2]
    BY <1>7
  <2> HIDE DEF c2, r2
  <2>4. CASE ~err
    BY <2>1, <2>2, <2>3, <2>4 DEF Left
  <2>5. CASE err
    <3>1. ~(errors \subseteq Harmless) /\ errors # {}
      BY <2>5 DEF MayFail, Harmless
    <3>2. CmOk(failed(c2), r2, d, z, errors) /\ failed(c2).st # "starting"
      BY <2>1, <3>1, FailedOk, FailedIs
    <3> QED BY <2>1, <2>2, <2>3, <2>5, <3>1, <3>2 DEF Left
  <2> QED BY <2>4, <2>5
<1> QED BY <1>4, <1>5, <1>6, <1>7, <1>8 DEF cm_test_piece

LEMMA CountedOk ==
    ASSUME fault = "none", NEW tp \in Torrents, NEW b \in Blocks,
           NEW c \in Content, NEW r \in Resume, NEW d, NEW z,
           ResOk(r, d, z), CmOk(c, r, d, z, errors), c.net, PieceOf(b) \notin r.pc,
           Counted(tp, b, c, r, d)
    PROVE  Left(tp, d, z)
<1>1. CASE BlocksOf(PieceOf(b)) \subseteq r.bits \union c.lost
  <2>1. cm_test_piece(tp, PieceOf(b), c, r, d)
    BY <1>1 DEF Counted
  <2> QED BY <1>1, <2>1, TestPiece
<1>2. CASE ~(BlocksOf(PieceOf(b)) \subseteq r.bits \union c.lost)
  <2>1. cm' = [cm EXCEPT ![tp] = c] /\ res' = [res EXCEPT ![tp] = r] /\ fault' = fault
    BY <1>2 DEF Counted
  <2>2. c.st # "starting"
    BY DEF CmOk
  <2> QED BY <2>1, <2>2 DEF Left
<1> QED BY <1>1, <1>2

\* Writing extends the files as far as needed.
LEMMA ExtendedIs ==
    ASSUME NEW tp \in Torrents, NEW bs \in SUBSET Blocks, size[tp] \in [Files -> Nat],
           \A i \in Files : size[tp][i] <= Length(i)
    PROVE  LET z == Extended(tp, bs) IN
           /\ z \in [Files -> Nat] /\ \A i \in Files : size[tp][i] <= z[i] /\ z[i] <= Length(i)
           /\ \A b \in bs : Within(z, b)
<1> DEFINE ends(i) == {b - Off(i) + 1 : b \in {x \in bs : FileOf(x) = i}} \union {size[tp][i]}
           z == Extended(tp, bs)
<1>1. ASSUME NEW i \in Files
      PROVE  z[i] \in ends(i) /\ (\A m \in ends(i) : m <= z[i]) /\ ends(i) \subseteq 0..Length(i)
  <2> DEFINE E == ends(i)
  <2>1. z[i] = CHOOSE n \in E : \A m \in E : m <= n
    BY DEF Extended
  <2>2. Length(i) \in Nat /\ size[tp][i] \in Nat /\ size[tp][i] <= Length(i)
    BY FilesShape
  <2>3. ASSUME NEW x \in bs, FileOf(x) = i PROVE x - Off(i) + 1 \in 0..Length(i)
    <3>1. x \in Nat /\ Off(i) \in Nat /\ Off(i) <= x /\ x < Off(i) + Length(i)
      BY <2>3, FilesShape, Shape
    <3> QED BY <2>2, <3>1
  <2>4. E \in SUBSET (0..Length(i)) /\ E # {}
    BY <2>2, <2>3
  <2> HIDE DEF E
  <2>5. PICK n \in E : \A m \in E : m <= n
    BY <2>2, <2>4, GreatestElement
  <2>6. z[i] \in E /\ \A m \in E : m <= z[i]
    BY <2>1, <2>5
  <2> QED BY <2>4, <2>6 DEF E
<1>2. ASSUME NEW i \in Files
      PROVE  z[i] \in Nat /\ size[tp][i] <= z[i] /\ z[i] <= Length(i)
  <2>1. z[i] \in 0..Length(i) /\ size[tp][i] <= z[i]
    BY <1>1
  <2> QED BY <2>1, FilesShape
<1>3. z \in [Files -> Nat]
  BY <1>2 DEF Extended
<1>4. ASSUME NEW b \in bs PROVE Within(z, b)
  <2> DEFINE f == FileOf(b)
  <2>1. f \in Files /\ Off(f) \in Nat /\ b \in Nat
    BY FilesShape, Shape
  <2>2. b - Off(f) + 1 \in ends(f)
    OBVIOUS
  <2>3. b - Off(f) + 1 <= z[f] /\ z[f] \in Nat
    BY <1>1, <1>2, <2>1, <2>2
  <2> HIDE DEF z, f
  <2>4. b - Off(f) < z[f]
    BY <2>1, <2>3
  <2> QED BY <2>4 DEF Within, f
<1> HIDE DEF z
<1>5. \A i \in Files : size[tp][i] <= z[i] /\ z[i] <= Length(i)
  BY <1>2
<1> QED BY <1>3, <1>4, <1>5 DEF z

\* A block is stored: allocated space holds nothing that is counted, so neither
\* the zeros nor the block overwrite anything.
LEMMA StoredOk ==
    ASSUME IInv, NEW tp \in Torrents, NEW b \in Blocks, NEW v \in {"good", "bad"},
           Wanted(tp, b), ~cm[tp].error, Stored(tp, b, v)
    PROVE  \E d2, z2 : /\ disk' = [disk EXCEPT ![tp] = d2] /\ size' = [size EXCEPT ![tp] = z2]
                       /\ FilesOk(d2, z2) /\ Left(tp, d2, z2)
<1> DEFINE c == cm[tp]
           r == res[tp]
           d == disk[tp]
           z == size[tp]
           p == PieceOf(b)
           g == group(c, p)
           bs == BlocksIn(g) \union {b}
           d2 == [x \in Blocks |-> IF x = b THEN v ELSE IF x \in bs THEN "zero" ELSE d[x]]
           z2 == Extended(tp, bs)
           pos == c.pos \union g \union {p}
           n == c.bytes + 1
           w == IF b + 1 = FileEnd[FileOf(b)] THEN "open" ELSE "fd"
           bits == r.bits \union {b}
           fts == r.fts \ {FileOf(x) : x \in bs}
           c2 == [c EXCEPT !.pos = pos, !.bytes = n, !.wrs = w]
           r2 == [r EXCEPT !.bits = bits, !.fts = fts]
<1>1. /\ FilesOk(d, z) /\ ResOk(r, d, z) /\ CmOk(c, r, d, z, errors)
      /\ c \in Content /\ r \in Resume
  BY Known
<1>2. fault = "none" /\ c.net /\ p \notin r.pc /\ b \notin r.bits
  BY DEF Wanted
<1>3. c.st = "active" /\ ActiveOk(c, r, d) /\ c.error = FALSE
  <2>1. c.error \in BOOLEAN
    BY <1>1 DEF Content
  <2> QED BY <1>1, <1>2, <2>1 DEF CmOk
<1>4. /\ r.pc \in SUBSET Pieces /\ r.bits \in SUBSET Blocks /\ r.fts \in SUBSET Files
      /\ c.pos \in SUBSET Pieces /\ p \in Pieces
  BY <1>1, Shape DEF Resume, Content
<1>5. g \in SUBSET Pieces /\ g \intersect c.pos = {} /\ g \intersect r.pc = {}
  <2>1. g \in SUBSET Pieces /\ g \intersect c.pos = {}
    BY DEF group
  <2> QED BY <1>3, <2>1 DEF ActiveOk
<1>6. /\ disk' = [disk EXCEPT ![tp] = d2] /\ size' = [size EXCEPT ![tp] = z2]
      /\ Counted(tp, b, c2, r2, d2)
  BY <1>5 DEF Stored
<1>7. bs \in SUBSET Blocks /\ b \in bs
  BY DEF BlocksIn
<1>8. /\ z2 \in [Files -> Nat] /\ \A i \in Files : z[i] <= z2[i] /\ z2[i] <= Length(i)
      /\ \A x \in bs : Within(z2, x)
  BY <1>1, <1>7, ExtendedIs DEF FilesOk
<1>9. ASSUME NEW x \in Blocks, Within(z, x) PROVE Within(z2, x)
  <2> DEFINE f == FileOf(x)
             o == x - Off(f)
  <2>1. f \in Files /\ o \in Int
    <3>1. f \in Files /\ Off(f) \in Nat /\ x \in Nat
      BY FilesShape, Shape
    <3> QED BY <3>1
  <2>2. z[f] <= z2[f] /\ z[f] \in Nat /\ z2[f] \in Nat
    BY <1>1, <1>8, <2>1 DEF FilesOk
  <2>3. o < z[f]
    BY <1>9 DEF Within
  <2> HIDE DEF o, z, z2
  <2>4. o < z2[f]
    BY <2>1, <2>2, <2>3
  <2> QED BY <2>4 DEF Within, o
<1>10. d2 \in [Blocks -> {"zero", "good", "bad"}] /\ d2[b] = v
  BY <1>1 DEF FilesOk
<1>11. \A x \in Blocks : PieceOf(x) \in c.pos /\ x # b => d2[x] = d[x]
  BY <1>5 DEF BlocksIn
<1>12. \A x \in Blocks : d2[x] # "zero" => x \in bs \/ d[x] # "zero"
  BY <1>7
<1> HIDE DEF d2, z2
<1>13. FilesOk(d2, z2)
  BY <1>1, <1>8, <1>9, <1>10, <1>12 DEF FilesOk
<1>14. bits \in SUBSET Blocks /\ fts \in SUBSET Files /\ fts # Files /\ pos \in SUBSET Pieces
  <2>1. FileOf(b) \in Files /\ FileOf(b) \notin fts
    BY <1>7, FilesShape
  <2> QED BY <1>4, <1>5, <2>1
<1>15. n = Cardinality(BlocksIn(r.pc) \union bits) /\ n \in 0..NBlocks
  <2> DEFINE S == BlocksIn(r.pc) \union r.bits
  <2>1. S \in SUBSET Blocks /\ b \notin S /\ BlocksIn(r.pc) \union bits = S \union {b}
    BY <1>2, <1>4 DEF BlocksIn
  <2>2. c.bytes = Cardinality(S)
    BY <1>3 DEF ActiveOk
  <2> HIDE DEF S, bits
  <2>3. /\ Cardinality(S \union {b}) = Cardinality(S) + 1 /\ Cardinality(S) \in Nat
        /\ Cardinality(S) + 1 <= NBlocks
    BY <2>1, Shape, OneMoreCounted
  <2>4. n = Cardinality(S) + 1
    BY <2>2
  <2> HIDE DEF n
  <2>5. n \in 0..NBlocks
    BY <2>3, <2>4, ContentAssumption
  <2> QED BY <2>1, <2>3, <2>4, <2>5
<1>16. w \in {"open", "fd"}
  OBVIOUS
<1>17. /\ r2 \in Resume /\ r2.pc = r.pc /\ r2.bits = bits /\ r2.fts = fts
  <2> HIDE DEF bits, fts
  <2> QED BY <1>1, <1>14 DEF Resume
<1>18. c2 \in Content
  <2> HIDE DEF pos, n, w
  <2> QED BY <1>1, <1>14, <1>15, <1>16 DEF Content
<1>19. /\ c2.st = "active" /\ c2.error = FALSE /\ c2.rds = "open" /\ c2.lost = {} /\ c2.net = c.net
       /\ c2.pos = pos /\ c2.got = c.got /\ c2.bytes = n /\ c2.wrs = w
  <2> HIDE DEF pos, n, w
  <2> QED BY <1>1, <1>3 DEF Content, ActiveOk
<1>20. Sound(r2, d2)
  <2>1. ASSUME NEW q \in r.pc PROVE GoodOn(d2, q)
    <3> SUFFICES ASSUME NEW x \in BlocksOf(q) PROVE d2[x] = "good"
      BY DEF GoodOn
    <3>1. x \in Blocks /\ PieceOf(x) = q /\ q \in c.pos /\ x # b
      BY <1>2, <1>3 DEF BlocksOf, ActiveOk
    <3>2. d[x] = "good"
      BY <1>3 DEF ActiveOk, Sound, GoodOn
    <3> QED BY <1>11, <3>1, <3>2
  <2>2. ASSUME NEW x \in r.bits PROVE d2[x] # "zero"
    <3>1. x \in Blocks /\ PieceOf(x) \in c.pos /\ x # b /\ d[x] # "zero"
      BY <1>2, <1>3, <1>4 DEF ActiveOk, Sound, BlocksIn
    <3> QED BY <1>11, <3>1
  <2>3. d2[b] # "zero"
    BY <1>10
  <2> QED BY <1>17, <2>1, <2>2, <2>3 DEF Sound
<1> HIDE DEF c2, r2
<1>21. ActiveOk(c2, r2, d2)
  <2>1. r.pc \subseteq pos
    BY <1>3 DEF ActiveOk
  <2>2. bits \subseteq BlocksIn(pos)
    BY <1>3 DEF ActiveOk, BlocksIn
  <2>3. c.got = Cardinality(r.pc)
    BY <1>3 DEF ActiveOk
  <2> HIDE DEF pos, bits, n, w
  <2> QED BY <1>15, <1>16, <1>17, <1>19, <1>20, <2>1, <2>2, <2>3 DEF ActiveOk
<1>22. CmOk(c2, r2, d2, z2, errors)
  BY <1>18, <1>19, <1>21 DEF CmOk
<1>23. ResOk(r2, d2, z2)
  BY <1>17, <1>20 DEF ResOk, Sound
<1>24. c2.net /\ p \notin r2.pc
  BY <1>2, <1>17, <1>19
<1>25. Left(tp, d2, z2)
  BY <1>2, <1>6, <1>17, <1>18, <1>22, <1>23, <1>24, CountedOk
<1> QED BY <1>6, <1>13, <1>25

\* A block is not stored, though download.c counts it.
LEMMA UnstoredOk ==
    ASSUME IInv, NEW tp \in Torrents, NEW b \in Blocks, Wanted(tp, b), Unstored(tp, b)
    PROVE  Left(tp, disk[tp], size[tp])
<1> DEFINE c == cm[tp]
           r == res[tp]
           d == disk[tp]
           z == size[tp]
           lost == c.lost \union {b}
           c1 == [c EXCEPT !.lost = lost]
           c2 == IF c1.error THEN c1 ELSE failed(c1)
<1>1. /\ FilesOk(d, z) /\ ResOk(r, d, z) /\ CmOk(c, r, d, z, errors)
      /\ c \in Content /\ r \in Resume
  BY Known
<1>2. fault = "none" /\ c.net /\ PieceOf(b) \notin r.pc
  BY DEF Wanted
<1>3. c.error \/ TRUE \in MayFail("put")
  BY DEF Unstored
<1>4. Counted(tp, b, c2, r, d)
  BY DEF Unstored
<1>5. lost \in SUBSET Blocks
  BY <1>1 DEF Content
<1>6. /\ c1 \in Content /\ c1.st = c.st /\ c1.error = c.error /\ c1.rds = c.rds /\ c1.net = c.net
      /\ c1.wrs = c.wrs
  <2> HIDE DEF lost
  <2>1. c1 \in Content
    BY <1>1, <1>5 DEF Content
  <2> QED BY <1>1, <2>1 DEF Content
<1> HIDE DEF c1
<1>7. c2 \in Content /\ c2.net /\ CmOk(c2, r, d, z, errors)
  <2>1. CASE c.error
    <3>1. c2 = c1 /\ c.st = "inactive"
      BY <1>1, <1>6, <2>1 DEF CmOk
    <3>2. CmOk(c1, r, d, z, errors)
      BY <1>1, <1>6, <3>1 DEF CmOk
    <3> QED BY <1>2, <1>6, <3>1, <3>2
  <2>2. CASE ~c.error
    <3>1. c2 = failed(c1) /\ errors # {} /\ ~(errors \subseteq Harmless)
      BY <1>3, <1>6, <2>2 DEF MayFail, Harmless
    <3> HIDE DEF c2
    <3> QED BY <1>2, <1>6, <3>1, FailedIs, FailedOk
  <2> QED BY <2>1, <2>2
<1> HIDE DEF c2
<1> QED BY <1>1, <1>2, <1>4, <1>7, CountedOk

LEMMA BlockOk ==
    ASSUME IInv, NEW tp \in Torrents, NEW b \in Blocks, dl_on_block(tp, b), errors' = errors
    PROVE  IInv'
<1>1. Wanted(tp, b) /\ startq' = startq /\ workev' = workev
  BY DEF dl_on_block
<1>2. PICK d2, z2 : /\ disk' = [disk EXCEPT ![tp] = d2] /\ size' = [size EXCEPT ![tp] = z2]
                    /\ FilesOk(d2, z2) /\ Left(tp, d2, z2)
  <2>1. CASE ~cm[tp].error /\ \E v \in {"good", "bad"} : Stored(tp, b, v)
    BY <1>1, <2>1, StoredOk
  <2>2. CASE Unstored(tp, b)
    <3>1. disk' = [disk EXCEPT ![tp] = disk[tp]] /\ size' = [size EXCEPT ![tp] = size[tp]]
      BY <2>2, Known DEF Unstored
    <3> QED BY <1>1, <2>2, <3>1, UnstoredOk, Known
  <2> QED BY <2>1, <2>2 DEF dl_on_block
<1>3. PICK c2, r2 : /\ cm' = [cm EXCEPT ![tp] = c2] /\ res' = [res EXCEPT ![tp] = r2]
                    /\ ResOk(r2, d2, z2) /\ CmOk(c2, r2, d2, z2, errors) /\ c2.st # "starting"
  BY <1>2 DEF Left
<1>4. cm[tp].st # "starting"
  <2>1. CmOk(cm[tp], res[tp], disk[tp], size[tp], errors)
    BY Known
  <2> QED BY <1>1, <2>1 DEF Wanted, CmOk
<1>5. Shapes' /\ \A q \in Torrents : TorrentOk(q)'
  BY <1>2, <1>3, OneTorrent
<1>6. QueueOk'
  BY <1>1, <1>2, <1>3, <1>4, QueueKept
<1>7. OthersOk'
  BY <1>1, <1>2 DEF IInv, OthersOk, Left
<1> QED BY <1>5, <1>6, <1>7 DEF IInv

------------------------------------------------------------------------------
(* The theorems *)

LEMMA NextOk == IInv /\ [Next]_vars => IInv'
<1> SUFFICES ASSUME IInv, [Next]_vars PROVE IInv'
  OBVIOUS
<1>1. CASE UNCHANGED vars
  <2>1. UNCHANGED <<cm, res, disk, size, startq, workev, fault, errors>>
    BY <1>1 DEF vars, state
  <2>2. Shapes' /\ QueueOk' /\ OthersOk'
    BY <2>1 DEF IInv, Shapes, QueueOk, OthersOk
  <2>3. \A tp \in Torrents : TorrentOk(tp)'
    BY <2>1 DEF IInv, TorrentOk
  <2> QED BY <2>2, <2>3 DEF IInv
<1>2. CASE Next
  <2>1. errors' = errors /\ Steps
    BY <1>2 DEF Next
  <2>2. ASSUME NEW tp \in Torrents, cm_start(tp) PROVE IInv'
    BY <2>1, <2>2, StartOk
  <2>3. ASSUME NEW tp \in Torrents, cm_stop(tp) PROVE IInv'
    BY <2>1, <2>3, StopOk
  <2>4. ASSUME NEW tp \in Torrents, torrent_on_tick(tp) PROVE IInv'
    BY <2>1, <2>4, TickOk
  <2>5. ASSUME NEW tp \in Torrents, edit(tp) PROVE IInv'
    BY <2>1, <2>5, EditOk
  <2>6. ASSUME NEW tp \in Torrents, NEW b \in Blocks, dl_on_block(tp, b) PROVE IInv'
    BY <2>1, <2>6, BlockOk
  <2>7. ASSUME NEW tp \in Torrents, NEW p \in Pieces, cm_get_bytes(tp, p) PROVE IInv'
    BY <2>1, <2>7, GetOk
  <2>8. CASE worker_cb
    BY <2>1, <2>8, WorkerOk
  <2>9. CASE crash
    BY <2>1, <2>9, CrashOk
  <2> QED BY <2>1, <2>2, <2>3, <2>4, <2>5, <2>6, <2>7, <2>8, <2>9 DEF Steps
<1> QED BY <1>1, <1>2

LEMMA Invariance == Spec => []IInv
BY InitOk, NextOk, PTL DEF Spec

\* What a torrent shows to its peers is on its disk, and what it will not ask
\* for again was stored, for any files and any failures: after crashes,
\* interrupted tests and changes of the files while it was stopped (content.c,
\* cm_start to startup_test_end, cm_put_bytes, cm_test_piece).
THEOREM HeldCorrect == Spec => []HeldIsGood
<1>1. IInv => HeldIsGood
  <2> SUFFICES ASSUME IInv, NEW tp \in Torrents, cm[tp].st = "active"
               PROVE  /\ \A p \in res[tp].pc : Hashes(tp, p)
                      /\ \A b \in res[tp].bits : disk[tp][b] # "zero"
    BY DEF HeldIsGood
  <2>1. Sound(res[tp], disk[tp])
    BY DEF IInv, TorrentOk, CmOk, ActiveOk
  <2> QED BY <2>1 DEF Sound, GoodOn, Hashes
<1> QED BY <1>1, Invariance, PTL

\* No stream is used after it is closed and no assertion of content.c fails
\* when start-up tests, stat calls and the closing of complete files may fail;
\* without failing disks no torrent gets an error, so neither the start-up test
\* nor an upload reads beyond the end of a file.
THEOREM FaultFree == Spec => []NoFault
<1>1. IInv => NoFault
  <2> SUFFICES ASSUME IInv
               PROVE  /\ errors \subseteq {"stat", "startup", "close_full"} => fault = "none"
                      /\ errors = {} => \A tp \in Torrents : ~cm[tp].error
    BY DEF NoFault
  <2>1. errors \subseteq {"stat", "startup", "close_full"} => fault = "none"
    BY DEF IInv, OthersOk, Harmless
  <2>2. \A tp \in Torrents : errors = {} => ~cm[tp].error
    BY DEF IInv, TorrentOk, CmOk
  <2> QED BY <2>1, <2>2
<1> QED BY <1>1, Invariance, PTL

\* The counters from which "left" and the progress are computed agree with the
\* fields of the resume data while the torrent is active, and all variables
\* have their types (cm_content and cm_pieces of content.c).
THEOREM CountsCorrect == Spec => []CountsRight
<1>1. IInv => CountsRight
  <2> SUFFICES ASSUME IInv PROVE CountsRight
    OBVIOUS
  <2>1. {std.tp : std \in Range(startq)} = {tp \in Torrents : cm[tp].st = "starting"}
    <3>1. startq \in Seq(Entry) /\ Range(startq) = {startq[i] : i \in 1..Len(startq)}
      BY RangeSeq DEF IInv, QueueOk
    <3>2. ASSUME NEW i \in 1..Len(startq)
          PROVE  startq[i].tp \in Torrents /\ cm[startq[i].tp].st = "starting"
      <4>1. startq[i] \in Entry
        BY <3>1
      <4>2. EntryOk(startq[i], cm, res, disk)
        BY DEF IInv, QueueOk
      <4> QED BY <4>1, <4>2 DEF Entry, EntryOk
    <3>3. \A tp \in Torrents : cm[tp].st = "starting" => \E i \in 1..Len(startq) : startq[i].tp = tp
      BY DEF IInv, QueueOk
    <3> QED BY <3>1, <3>2, <3>3
  <2>2. ASSUME NEW tp \in Torrents, NEW i \in Files PROVE size[tp][i] \in 0..Length(i)
    <3>1. size[tp] \in [Files -> Nat] /\ size[tp][i] <= Length(i)
      BY DEF IInv, TorrentOk, FilesOk
    <3> QED BY <3>1, FilesShape
  <2>3. TypeOK
    BY <2>1, <2>2 DEF IInv, Shapes, OthersOk, QueueOk, TypeOK, Resume, Entry
  <2>4. ASSUME NEW tp \in Torrents, cm[tp].st = "active"
        PROVE  /\ cm[tp].got = Cardinality(res[tp].pc)
               /\ cm[tp].bytes = Cardinality(BlocksIn(res[tp].pc) \union res[tp].bits)
    BY <2>4 DEF IInv, TorrentOk, CmOk, ActiveOk
  <2> QED BY <2>3, <2>4 DEF CountsRight
<1> QED BY <1>1, Invariance, PTL

\* A stop that goes well leaves resume data that needs no test, whatever was
\* downloaded before it (cm_stop and cm_write_done of content.c).
THEOREM StopIsClean == Spec => CleanStop
<1>1. ASSUME IInv, [Next]_vars, NEW tp \in Torrents, cm_stop(tp), cm[tp].st = "active",
             fault' = "none", "stat" \notin errors
      PROVE  ~run_test(tp)'
  <2>1. CmOk(cm[tp], res[tp], disk[tp], size[tp], errors) /\ res[tp] \in Resume
    BY <1>1, Known
  <2>2. ActiveOk(cm[tp], res[tp], disk[tp])
    BY <1>1, <2>1 DEF CmOk
  <2>3. \E err \in MayFail("close_stop") :
           /\ IF saves_on_stop(cm[tp]) /\ ~err
              THEN \E r \in saved(res[tp]) : res' = [res EXCEPT ![tp] = r]
              ELSE UNCHANGED res
           /\ fault' = IF err THEN "freed" ELSE "none"
    BY <1>1 DEF cm_stop, cm_active
  <2>4. IF cm[tp].wrs # "null"
        THEN \E r \in saved(res[tp]) : res' = [res EXCEPT ![tp] = r] ELSE res' = res
    BY <1>1, <2>3 DEF saves_on_stop
  <2>5. res'[tp].fts = Files
    <3>1. CASE cm[tp].wrs # "null"
      <4>1. PICK r \in saved(res[tp]) : res' = [res EXCEPT ![tp] = r]
        BY <2>4, <3>1
      <4>2. res'[tp] = r
        BY <1>1, <4>1 DEF IInv, Shapes
      <4> QED BY <1>1, <2>1, <4>2, SavedIs
    <3>2. CASE cm[tp].wrs = "null"
      BY <1>1, <2>1, <2>4, <3>2 DEF CmOk
    <3> QED BY <3>1, <3>2
  <2> QED BY <2>5 DEF run_test
<1>2. IInv /\ [Next]_vars =>
        [\A tp \in Torrents :
            cm_stop(tp) /\ cm[tp].st = "active" /\ fault' = "none" /\ "stat" \notin errors
            => ~run_test(tp)']_vars
  BY <1>1
<1> QED BY <1>2, Invariance, PTL DEF Spec, CleanStop

=============================================================================
