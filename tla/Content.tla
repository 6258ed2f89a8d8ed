------------------------------ MODULE Content ------------------------------
(***************************************************************************)
(* The content manager (btpd/content.c): the files of each torrent, the    *)
(* resume data that says which blocks and pieces of them are there, the    *)
(* test of the files when a torrent starts, one piece per turn of the      *)
(* event loop, and the storing and testing of downloaded blocks.           *)
(*                                                                         *)
(* All torrents have the same shape.  Sizes and offsets are in blocks;     *)
(* file i holds the blocks FileEnd[i-1] .. FileEnd[i]-1.  A block on disk  *)
(* is "good" (what the torrent has), "bad" or "zero" (never written, a     *)
(* hole, or beyond the end of the file).  The recorded time and size of a  *)
(* file are kept as the set of the files they are still right for.         *)
(***************************************************************************)
EXTENDS Integers, Sequences, FiniteSets, SequencesExt

CONSTANTS
    Torrents,     \* the torrents
    NBlocks,      \* blocks of a torrent
    PieceBlocks,  \* blocks of a piece (the last one may be shorter)
    FileEnd,      \* where the files end
    Alloc,        \* pieces allocated at a time (cm_alloc_size), 0: none
    Scenarios,    \* sets of operations on files that may fail
    Edits         \* whether others change the files of a stopped torrent

ErrorKinds == {"stat", "startup", "test", "get", "put", "close_full",
               "close_stop"}

ASSUME ContentAssumption ==
    /\ NBlocks \in Nat \ {0} /\ PieceBlocks \in Nat \ {0} /\ Alloc \in Nat
    /\ FileEnd \in Seq(Nat) /\ FileEnd # <<>> /\ Last(FileEnd) = NBlocks
    /\ \A i \in 2..Len(FileEnd) : FileEnd[i - 1] <= FileEnd[i]
    /\ Scenarios \subseteq SUBSET ErrorKinds /\ Edits \in BOOLEAN

Blocks == 0..(NBlocks - 1)
NPieces == (NBlocks + PieceBlocks - 1) \div PieceBlocks
Pieces == 0..(NPieces - 1)
PieceOf(b) == b \div PieceBlocks
BlocksOf(p) == {b \in Blocks : PieceOf(b) = p}
BlocksIn(ps) == {b \in Blocks : PieceOf(b) \in ps}

Files == DOMAIN FileEnd
Off(i) == IF i = 1 THEN 0 ELSE FileEnd[i - 1]
Length(i) == FileEnd[i] - Off(i)
FileOf(b) == CHOOSE i \in Files : Off(i) <= b /\ b < FileEnd[i]

VARIABLES
    cm,       \* struct content of each torrent
    res,      \* the resume file of each torrent (mapped into memory)
    disk,     \* the blocks of each torrent
    size,     \* the size of each file of each torrent
    startq,   \* m_startq: torrents to test, and the next piece of each
    workev,   \* m_workev is set
    fault,    \* "none", "freed" or "assert"
    errors    \* which of the Scenarios this is; it never changes

state == <<cm, res, disk, size, startq, workev, fault>>
vars == <<state, errors>>

\* No content object.  `wrs' is "fd" while the write stream has a file open,
\* which it closes after writing the end of it.  `net' says that torrent.c has
\* started the network part, `lost' are the blocks download.c has counted
\* though they are not stored.
Gone == [st |-> "none", error |-> FALSE, rds |-> "null", wrs |-> "null",
         pos |-> {}, got |-> 0, bytes |-> 0, net |-> FALSE, lost |-> {}]

cm_active(tp) == cm[tp].st \in {"starting", "active"}
cm_full(c) == c.got = NPieces

\* What a read of the blocks bs finds: the end of a file comes first.
Reads(tp, bs) == \A b \in bs : b - Off(FileOf(b)) < size[tp][FileOf(b)]
Hashes(tp, p) == \A b \in BlocksOf(p) : disk[tp][b] = "good"

MayFail(e) == IF e \in errors THEN BOOLEAN ELSE {FALSE}

------------------------------------------------------------------------------
(* Stopping *)

\* cm_on_error with cm_stop: the streams are closed; nothing is saved.
failed(c) ==
    [c EXCEPT !.st = "inactive", !.error = TRUE, !.wrs = "null",
              !.rds = IF @ = "null" THEN "null" ELSE "freed"]

\* cm_save: the recorded times and sizes become those of the files.  It does
\* not look at the result of stat_and_adjust, which leaves those of some files
\* unset when it fails.
saved(r) == {[r EXCEPT !.fts = fs] :
                fs \in IF "stat" \in errors THEN SUBSET Files ELSE {Files}}

Unqueued(tp) == RemoveFirstMatch(startq, LAMBDA std : std.tp = tp)

\* cm_stop, then the end of the content object.  cm_write_done saves unless
\* closing fails; then cm_on_error enters cm_stop again, in a state that is
\* not yet CM_INACTIVE, and closes the read stream a second time.
Bug_saves_on_stop(c) == c.wrs # "null" \/ c.st = "starting"
saves_on_stop(c) == c.wrs # "null"

cm_stop(tp) ==
    /\ fault = "none" /\ cm[tp].st # "none"
    /\ \E err \in MayFail("close_stop") :
         IF ~cm_active(tp)
         THEN ~err /\ UNCHANGED <<res, fault>>
         ELSE /\ err => cm[tp].wrs = "fd"
              /\ IF saves_on_stop(cm[tp]) /\ ~err
                 THEN \E r \in saved(res[tp]) : res' = [res EXCEPT ![tp] = r]
                 ELSE UNCHANGED res
              /\ fault' = IF err THEN "freed" ELSE "none"
    /\ cm' = [cm EXCEPT ![tp] = Gone]
    /\ startq' = Unqueued(tp)
    /\ UNCHANGED <<disk, size, workev>>

------------------------------------------------------------------------------
(* Starting *)

\* Pieces that reach beyond the end of a file are not tested, and forgotten.
cut(tp) ==
    UNION {((Off(i) + size[tp][i]) \div PieceBlocks)..
            ((Off(i) + Length(i) - 1) \div PieceBlocks) :
              i \in {f \in Files : size[tp][f] # Length(f)}}

\* Whether the recorded times and sizes differ from the files'.
run_test(tp) == res[tp].fts # Files

Complete(r) == {p \in Pieces \ r.pc : BlocksOf(p) \subseteq r.bits}
Partial(r) == {p \in Pieces \ (r.pc \union Complete(r)) :
                 BlocksOf(p) \intersect r.bits # {}}

\* startup_test_end for resume data r.
Bug_positioned_parts(r) == Partial(r)
positioned(r) == r.pc \union Partial(r)

ended(c, r) ==
    [c EXCEPT
        !.pos = positioned(r),
        !.got = @ + Cardinality(r.pc),
        !.bytes = @ + Cardinality(BlocksIn(r.pc))
                    + Cardinality(r.bits \intersect BlocksIn(Partial(r))),
        !.wrs = IF c.got + Cardinality(r.pc) = NPieces THEN @ ELSE "open",
        !.st = "active"]
ended_res(r, unclean) ==
    [r EXCEPT !.bits = @ \ BlocksIn(Complete(r)),
              !.fts = IF unclean THEN Files ELSE @]

\* torrent_start makes the content object and starts it.
cm_start(tp) ==
    /\ fault = "none" /\ cm[tp].st = "none"
    /\ LET c == [Gone EXCEPT !.st = "starting", !.rds = "open"]
           gone == IF run_test(tp) THEN cut(tp) ELSE {}
           pos == IF run_test(tp) THEN Pieces \ gone ELSE {}
           r == [res[tp] EXCEPT !.pc = @ \ gone, !.bits = @ \ BlocksIn(gone)]
       IN
       \E err \in MayFail("stat") :
         CASE err -> /\ cm' = [cm EXCEPT ![tp] = failed(c)]
                     /\ UNCHANGED <<res, startq, workev>>
           [] ~err /\ pos = {} ->
                /\ cm' = [cm EXCEPT ![tp] = ended(c, r)]
                /\ res' = [res EXCEPT ![tp] = ended_res(r, FALSE)]
                /\ UNCHANGED <<startq, workev>>
           [] OTHER ->
                /\ cm' = [cm EXCEPT ![tp] = [c EXCEPT !.pos = pos]]
                /\ res' = [res EXCEPT ![tp] = r]
                /\ startq' = Append(startq, [tp |-> tp,
                        start |-> CHOOSE p \in pos : \A q \in pos : p <= q])
                /\ workev' = (workev \/ startq = <<>>)
    /\ UNCHANGED <<disk, size, fault>>

\* startup_test_run.  After an error the timer is not set again.
next_start(c, start) == {p \in c.pos : p > start}

rearm(q) == q # <<>>

worker_cb ==
    /\ fault = "none" /\ workev
    /\ IF startq = <<>>
       THEN workev' = FALSE /\ UNCHANGED <<cm, res, startq>>
       ELSE LET tp == Head(startq).tp
                p == Head(startq).start
                c == cm[tp]
                r == [res[tp] EXCEPT !.pc = IF Hashes(tp, p) THEN @ \union {p}
                                            ELSE @ \ {p}]
                todo == next_start(c, p)
            IN
            \E err \in MayFail("startup") :
              CASE err \/ ~Reads(tp, BlocksOf(p)) ->
                     /\ cm' = [cm EXCEPT ![tp] = failed(c)]
                     /\ startq' = Unqueued(tp)
                     /\ workev' = FALSE
                     /\ UNCHANGED res
                [] ~err /\ Reads(tp, BlocksOf(p)) /\ todo # {} ->
                     /\ res' = [res EXCEPT ![tp] = r]
                     /\ startq' = [startq EXCEPT ![1].start =
                            CHOOSE q \in todo : \A s \in todo : q <= s]
                     /\ workev' = rearm(startq')
                     /\ UNCHANGED cm
                [] OTHER ->
                     /\ cm' = [cm EXCEPT ![tp] = ended(c, r)]
                     /\ res' = [res EXCEPT ![tp] = ended_res(r, TRUE)]
                     /\ startq' = Tail(startq)
                     /\ workev' = rearm(startq')
    /\ UNCHANGED <<disk, size, fault>>

\* torrent_on_tick: the network part of a torrent that has started is
\* started, and a torrent with an error is stopped.
torrent_on_tick(tp) ==
    /\ fault = "none"
    /\ \/ /\ cm[tp].st = "active" /\ ~cm[tp].net
          /\ cm' = [cm EXCEPT ![tp].net = TRUE]
       \/ /\ cm[tp].error
          /\ cm' = [cm EXCEPT ![tp] = Gone]
    /\ UNCHANGED <<res, disk, size, startq, workev, fault>>

------------------------------------------------------------------------------
(* Downloading: dl_on_block of download.c, as far as it concerns content *)

\* The pieces cm_put_bytes fills with zeros before it stores a block of p.
group(c, p) ==
    IF Alloc = 0 \/ p \in c.pos THEN {}
    ELSE {q \in Pieces \ c.pos : q \div Alloc = p \div Alloc}

\* Disk and sizes after writing blocks bs of torrent tp as d.
Extended(tp, bs) ==
    [i \in Files |-> LET ends == {b - Off(i) + 1 : b \in {x \in bs : FileOf(x) = i}}
                                 \union {size[tp][i]}
                     IN CHOOSE n \in ends : \A m \in ends : m <= n]

\* A bad piece is no longer counted.
Bug_dropped(c, p) == [c EXCEPT !.lost = @ \ BlocksOf(p)]
dropped(c, p) ==
    [c EXCEPT !.bytes = @ - Cardinality(BlocksOf(p)), !.lost = @ \ BlocksOf(p)]

\* cm_write_done of the last piece.
Bug_filled(r) == {r}
filled(r) == saved(r)

\* cm_test_piece for a piece whose blocks are all counted, with content c and
\* resume data r; `d' is the disk.
\* A bad piece goes to dl_on_bad_piece, a good one to dl_on_ok_piece: when it
\* came from several peers, or was bad before, piece_log_hashes reads its blocks.
\* Once a read has failed the others return no buffer, and what is in the
\* variable is freed again; and cm_write_done closes a stream that is gone.
cm_test_piece(tp, p, c, r, d) ==
    \/ /\ c.rds = "freed"                     \* bts_sha on a closed stream
       /\ fault' = "freed"
       /\ cm' = [cm EXCEPT ![tp] = c] /\ res' = [res EXCEPT ![tp] = r]
    \/ /\ c.rds = "open" /\ TRUE \in MayFail("test")
       /\ cm' = [cm EXCEPT ![tp] = failed(c)] /\ res' = [res EXCEPT ![tp] = r]
       /\ UNCHANGED fault
    \/ /\ c.rds = "open" /\ \A b \in BlocksOf(p) : d[b] = "good"
       /\ LET c2 == [c EXCEPT !.got = @ + 1]
              r2 == [r EXCEPT !.pc = @ \union {p}] IN
          \E err \in MayFail("close_full") :
            IF ~cm_full(c2)
            THEN /\ ~err
                 /\ cm' = [cm EXCEPT ![tp] = c2]
                 /\ res' = [res EXCEPT ![tp] = r2]
            ELSE /\ err => c.wrs = "fd"
                 /\ cm' = [cm EXCEPT ![tp] = IF err THEN failed(c2)
                                             ELSE [c2 EXCEPT !.wrs = "null"]]
                 /\ \E r3 \in IF err THEN {r2} ELSE filled(r2) :
                      res' = [res EXCEPT ![tp] = r3]
       /\ fault' = IF c.got < NPieces THEN "none" ELSE "assert"
    \/ /\ c.rds = "open" /\ \A b \in BlocksOf(p) : d[b] = "good"
       /\ TRUE \in MayFail("get")
       /\ LET c2 == [c EXCEPT !.got = @ + 1] IN
          /\ cm' = [cm EXCEPT ![tp] = failed(c2)]
          /\ fault' = CASE c.got = NPieces -> "assert"
                        [] cm_full(c2) \/ Cardinality(BlocksOf(p)) > 1 -> "freed"
                        [] OTHER -> "none"
       /\ res' = [res EXCEPT ![tp] = [r EXCEPT !.pc = @ \union {p}]]
    \/ /\ c.rds = "open" /\ \E b \in BlocksOf(p) : d[b] # "good"
       /\ \E err \in MayFail("get") :
            /\ cm' = [cm EXCEPT ![tp] = IF err THEN failed(dropped(c, p))
                                        ELSE dropped(c, p)]
            /\ fault' = IF err /\ Cardinality(BlocksOf(p)) > 1 THEN "freed"
                        ELSE "none"
       /\ res' = [res EXCEPT ![tp] = [r EXCEPT !.bits = @ \ BlocksOf(p)]]

\* dl_on_block goes on with c, r and d after cm_put_bytes, whose result it
\* does not look at.
Counted(tp, b, c, r, d) ==
    IF BlocksOf(PieceOf(b)) \subseteq r.bits \union c.lost
    THEN cm_test_piece(tp, PieceOf(b), c, r, d)
    ELSE /\ cm' = [cm EXCEPT ![tp] = c] /\ res' = [res EXCEPT ![tp] = r]
         /\ UNCHANGED fault

\* A block arrives that is not yet counted.
Wanted(tp, b) ==
    /\ fault = "none" /\ cm[tp].net
    /\ PieceOf(b) \notin res[tp].pc /\ b \notin res[tp].bits \union cm[tp].lost

\* cm_put_bytes stores it: `v' is what the peer has sent.
Stored(tp, b, v) ==
    LET g == group(cm[tp], PieceOf(b))
        bs == BlocksIn(g) \union {b}
        d == [x \in Blocks |-> IF x = b THEN v
                               ELSE IF x \in bs THEN "zero" ELSE disk[tp][x]]
        c == [cm[tp] EXCEPT !.pos = @ \union g \union {PieceOf(b)},
                            !.bytes = @ + 1,
                            !.wrs = IF b + 1 = FileEnd[FileOf(b)] THEN "open"
                                    ELSE "fd"]
        r == [res[tp] EXCEPT !.bits = @ \union {b},
                             !.fts = @ \ {FileOf(x) : x \in bs}]
    IN
    /\ disk' = [disk EXCEPT ![tp] = d]
    /\ size' = [size EXCEPT ![tp] = Extended(tp, bs)]
    /\ IF g \intersect res[tp].pc # {}
       THEN fault' = "assert" /\ UNCHANGED <<cm, res>>
       ELSE Counted(tp, b, c, r, d)

\* cm_put_bytes fails: at once after an earlier error, or with a new one.
Unstored(tp, b) ==
    LET c == [cm[tp] EXCEPT !.lost = @ \union {b}] IN
    /\ cm[tp].error \/ TRUE \in MayFail("put")
    /\ Counted(tp, b, IF c.error THEN c ELSE failed(c), res[tp], disk[tp])
    /\ UNCHANGED <<disk, size>>

dl_on_block(tp, b) ==
    /\ Wanted(tp, b)
    /\ \/ ~cm[tp].error /\ \E v \in {"good", "bad"} : Stored(tp, b, v)
       \/ Unstored(tp, b)
    /\ UNCHANGED <<startq, workev>>

\* cm_get_bytes for a block of a piece that a peer has asked for.
cm_get_bytes(tp, p) ==
    /\ fault = "none" /\ cm[tp].net /\ ~cm[tp].error /\ p \in res[tp].pc
    /\ TRUE \in MayFail("get") \/ ~Reads(tp, BlocksOf(p))
    /\ cm' = [cm EXCEPT ![tp] = failed(@)]
    /\ UNCHANGED <<res, disk, size, startq, workev, fault>>

------------------------------------------------------------------------------
(* Others *)

\* The process is killed.  The resume file keeps what was written to it.
crash ==
    /\ fault = "none" /\ \E tp \in Torrents : cm[tp].st # "none"
    /\ cm' = [tp \in Torrents |-> Gone]
    /\ startq' = <<>> /\ workev' = FALSE
    /\ UNCHANGED <<res, disk, size, fault>>

\* A file of a stopped torrent is cut short or a block of it is changed.
edit(tp) ==
    /\ Edits /\ fault = "none" /\ cm[tp].st = "none"
    /\ \E i \in Files :
         /\ \/ \E n \in 0..(size[tp][i] - 1) :
                 /\ size' = [size EXCEPT ![tp][i] = n]
                 /\ disk' = [disk EXCEPT ![tp] = [b \in Blocks |->
                        IF FileOf(b) = i /\ b - Off(i) >= n THEN "zero" ELSE @[b]]]
            \/ \E b \in Blocks :
                 /\ FileOf(b) = i /\ b - Off(i) < size[tp][i]
                 /\ disk' = [disk EXCEPT ![tp][b] = "bad"]
                 /\ UNCHANGED size
         /\ res' = [res EXCEPT ![tp].fts = @ \ {i}]
    /\ UNCHANGED <<cm, startq, workev, fault>>

------------------------------------------------------------------------------
\* New torrents: no files yet, and an empty resume file.
Init ==
    /\ cm = [tp \in Torrents |-> Gone]
    /\ res = [tp \in Torrents |-> [pc |-> {}, bits |-> {}, fts |-> {}]]
    /\ disk = [tp \in Torrents |-> [b \in Blocks |-> "zero"]]
    /\ size = [tp \in Torrents |-> [i \in Files |-> 0]]
    /\ startq = <<>> /\ workev = FALSE /\ fault = "none"
    /\ errors \in Scenarios

Steps ==
    \/ \E tp \in Torrents :
         \/ cm_start(tp) \/ cm_stop(tp) \/ torrent_on_tick(tp) \/ edit(tp)
         \/ \E b \in Blocks : dl_on_block(tp, b)
         \/ \E p \in Pieces : cm_get_bytes(tp, p)
    \/ worker_cb \/ crash

Next == Steps /\ UNCHANGED errors

Spec == Init /\ [][Next]_vars

\* A timer that is set fires.
FairSpec == Spec /\ WF_state(worker_cb)

------------------------------------------------------------------------------
(* Properties *)

Content == [st : {"none", "inactive", "starting", "active"}, error : BOOLEAN,
            rds : {"null", "open", "freed"}, wrs : {"null", "open", "fd"},
            pos : SUBSET Pieces, got : 0..NPieces, bytes : 0..NBlocks,
            net : BOOLEAN, lost : SUBSET Blocks]

\* Types, and a torrent waits in the queue exactly while it is starting.
TypeOK ==
    /\ cm \in [Torrents -> Content]
    /\ res \in [Torrents -> [pc : SUBSET Pieces, bits : SUBSET Blocks,
                             fts : SUBSET Files]]
    /\ disk \in [Torrents -> [Blocks -> {"zero", "good", "bad"}]]
    /\ \A tp \in Torrents : \A i \in Files : size[tp][i] \in 0..Length(i)
    /\ startq \in Seq([tp : Torrents, start : Pieces])
    /\ {std.tp : std \in Range(startq)} = {tp \in Torrents : cm[tp].st = "starting"}
    /\ workev \in BOOLEAN /\ fault \in {"none", "freed", "assert"}
    /\ errors \in Scenarios

\* No stream is used or freed after it is closed, and no assertion of content.c
\* fails, also when a start-up fails or closing the files of a complete torrent
\* does.  An error in storing, testing or reading blocks, or in closing files
\* when a torrent is stopped, does such damage.  And without failing disks no
\* torrent gets an error: neither the start-up test nor an upload reads beyond
\* the end of a file.
NoFault ==
    /\ errors \subseteq {"stat", "startup", "close_full"} => fault = "none"
    /\ errors = {} => \A tp \in Torrents : ~cm[tp].error

\* A piece that is shown to others is on disk as the torrent has it, after
\* crashes, interrupted tests and changes of the files while stopped.  A block
\* that will not be downloaded again is on disk: it was not lost with a
\* shortened file nor overwritten when space for others was allocated.
HeldIsGood == \A tp \in Torrents : cm[tp].st = "active" =>
    /\ \A p \in res[tp].pc : Hashes(tp, p)
    /\ \A b \in res[tp].bits : disk[tp][b] # "zero"

\* The counters behind "left" and the progress display agree with the fields.
CountsRight == TypeOK /\ \A tp \in Torrents : cm[tp].st = "active" =>
    /\ cm[tp].got = Cardinality(res[tp].pc)
    /\ cm[tp].bytes = Cardinality(BlocksIn(res[tp].pc) \union res[tp].bits)

\* A stop that goes well is remembered: unless the files are changed by others
\* or cannot be looked at, the next start tests nothing, whether the torrent was
\* complete or not.
CleanStop ==
    [][\A tp \in Torrents :
          cm_stop(tp) /\ cm[tp].st = "active" /\ fault' = "none" /\ "stat" \notin errors
          => ~run_test(tp)']_vars

\* Every start-up test comes to an end ("This may take time if btpd needs to
\* test the content of this torrent or one started before it").
TestsEnd == \A tp \in Torrents :
    cm[tp].st = "starting" ~> cm[tp].st # "starting"

=============================================================================
