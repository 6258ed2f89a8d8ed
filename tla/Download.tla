------------------------------ MODULE Download ------------------------------
(***************************************************************************)
(* The download side of one active torrent: which blocks are requested     *)
(* from which peer, which peers we are interested in, end game, and what   *)
(* happens to the peers of a piece whose hash is wrong                     *)
(* (btpd/download.c, btpd/download_subr.c, btpd/peer.c).                   *)
(*                                                                         *)
(* btpd runs every handler to completion, but a handler is a deep tree of  *)
(* calls that fan out over all peers and call each other.  `agenda' is     *)
(* that call stack: a sequence of calls still to be made, the innermost    *)
(* first.  A message handler is enabled only when the agenda is empty; a   *)
(* call pops its frame, changes the state and may push further calls.      *)
(*                                                                         *)
(* Lists (n->peers, n->getlst, p->my_reqs, pc->reqs) are sets here: the    *)
(* order in which the code walks them is left open.  The counters that the *)
(* code always changes together with a list or a bit field (nreqs_out,     *)
(* nreqs, nbusy, ngot, npcs_busy, npieces, npcs_bad, piece_count) are read *)
(* off the set; nwant, whose value is an obligation of the code, is kept.  *)
(* A failing assert() ends the program: `aborted'.                         *)
(*                                                                         *)
(* Operators named Bug_... are single mistakes in the operator that        *)
(* follows them; they are not used by the specification and serve to show  *)
(* that a property notices the mistake.                                    *)
(***************************************************************************)
EXTENDS Integers, Sequences, FiniteSets

CONSTANTS
    Peers,         \* the remote peers, by peer id
    Pieces,        \* the pieces of the torrent
    Blocks,        \* the blocks of a piece
    MaxPiped,      \* MAXPIPEDREQUESTS
    SuspectAt,     \* bad pieces in a row that make a peer suspect (3)
    BadData,       \* may peers send corrupt blocks?
    LateBitfield   \* may a peer send its bitfield after it unchoked us?

ASSUME DownloadAssumption ==
    /\ IsFiniteSet(Peers) /\ IsFiniteSet(Pieces) /\ IsFiniteSet(Blocks)
    /\ Pieces # {} /\ Blocks # {}
    /\ MaxPiped \in Nat \ {0}
    /\ SuspectAt \in Nat \ {0}
    /\ BadData \in BOOLEAN
    /\ LateBitfield \in BOOLEAN

VARIABLES
    got,        \* cm->piece_field: pieces downloaded and tested
    have,       \* cm->block_field, per piece
    corrupt,    \* the blocks on disk whose data is wrong
    busy,       \* n->getlst, n->busy_field: pieces being downloaded
    down,       \* pc->down_field: blocks requested outside end game
    endgame,    \* n->endgame
    log,        \* the current blog of a piece: who sent which blocks
    badlogs,    \* its older blogs, with the blocks whose hash was wrong
    peers,      \* n->peers: the attached peers
    field,      \* p->piece_field
    ann,        \* the pieces for which dl_on_piece_ann was called
    bad,        \* p->bad_field
    reqs,       \* p->my_reqs: the blocks requested from the peer
    nwant,      \* p->nwant
    iwant,      \* PF_I_WANT
    dounwant,   \* PF_DO_UNWANT
    interest,   \* peers whose last queued (un)interest message is INTEREST
    pchoke,     \* PF_P_CHOKE
    suspect,    \* PF_SUSPECT
    suspicion,  \* p->suspicion
    banned,     \* PF_BANNED, kept in the meta peer
    liars,      \* history: the peers that ever sent a corrupt block
    agenda,     \* the calls still to be made, innermost first
    aborted     \* an assertion failed

content == <<got, have, corrupt>>
pieces == <<busy, down, endgame>>
logs == <<log, badlogs>>
wants == <<nwant, iwant, dounwant, interest>>
trust == <<bad, suspect, suspicion, banned>>
remote == <<peers, field, ann, pchoke>>
vars == <<content, pieces, logs, wants, trust, remote, reqs, liars, agenda,
          aborted>>

------------------------------------------------------------------------------
(* Frames of the agenda *)

Fns == {"peer_on_bitfield", "dl_on_piece_ann", "dl_on_download",
        "dl_assign_requests", "assign_loop", "dl_piece_assign_requests",
        "dl_on_piece_full", "dl_enter_endgame", "dl_assign_requests_eg",
        "dl_unassign_requests", "dl_unassign_requests_eg",
        "dl_on_piece_unfull", "unfull_loop", "cm_test_piece",
        "piece_log_good", "judge_logs", "piece_free", "peer_free"}

Frame == [fn : Fns, ps : SUBSET Peers, pcs : SUBSET Pieces]

Call(fn, ps, pcs) == <<[fn |-> fn, ps |-> ps, pcs |-> pcs]>>

\* The calls in s replace the call being made.
Then(s) == agenda' = s \o Tail(agenda)

Running(fn) == ~aborted /\ agenda # <<>> /\ Head(agenda).fn = fn

\* assert(c): the program ends when c is false.
asserts(c) == aborted' = ~c

Idle == ~aborted /\ agenda = <<>>

NoLog == [p \in Peers |-> {}]

------------------------------------------------------------------------------
(* Predicates of the code *)

piece_full(pc) == have[pc] \union down[pc] = Blocks

peer_laden(p) == Cardinality(reqs[p]) >= MaxPiped

\* s is what the request loop takes of the open blocks: all of them, or as
\* many as fill the pipe of p.
Takes(p, s, open) ==
    \/ s = open /\ Cardinality(reqs[p]) + Cardinality(s) <= MaxPiped
    \/ Cardinality(reqs[p]) + Cardinality(s) = MaxPiped

peer_requestable(p, pc) == pc \in field[p] /\ pc \notin bad[p]

\* peer_leech_ok, with the PF_I_WANT flags given as a set.
LeechOk(p, want) == /\ p \in want
                    /\ p \notin banned \union suspect \union pchoke
                    /\ ~peer_laden(p)

peer_leech_ok(p) == LeechOk(p, iwant)

dl_piece_startable(p, pc) ==
    peer_requestable(p, pc) /\ pc \notin got /\ pc \notin busy

piece_count(pc) == Cardinality({p \in peers : pc \in ann[p]})

\* The pieces that can be started with p and that the fewest peers have.
dl_choose_rarest(p) ==
    LET startable == {pc \in Pieces : dl_piece_startable(p, pc)} IN
    {pc \in startable : \A o \in startable : piece_count(pc) <= piece_count(o)}

\* n->mptbl: a meta peer lives as long as its peer, a blog record or a ban.
Known == peers \union banned
         \union {p \in Peers : \E pc \in busy :
                    \/ log[pc][p] # {}
                    \/ \E l \in badlogs[pc] : l.rec[p] # {}}

Bug_forgets_got ==
    /\ Cardinality(busy) = Cardinality(Pieces)
    /\ \A pc \in busy : piece_full(pc)
\* cm_pieces + npcs_busy = npieces, and every piece in the getlst is full.
dl_should_enter_endgame ==
    /\ Cardinality(got) + Cardinality(busy) = Cardinality(Pieces)
    /\ \A pc \in busy : piece_full(pc)

------------------------------------------------------------------------------
(* Wanting and unwanting: peer_want, peer_unwant and peer_on_no_reqs for a *)
(* set of peers at once; what they do to one peer touches no other.  k[p]  *)
(* is how often peer_want is called for p, r the new request table.        *)

Holders(pc) == {p \in peers : peer_requestable(p, pc)}

PeerWantOk(k) ==
    \A p \in Peers : k[p] > 0 =>
        /\ nwant[p] + k[p] <= Cardinality(ann[p])
        /\ (nwant[p] = 0 /\ p \notin suspect) =>
                (reqs[p] = {} <=> p \notin dounwant)

Bug_peer_want(k) ==
    LET first == {p \in Peers : k[p] > 0 /\ nwant[p] = 1} IN
    /\ nwant' = [p \in Peers |-> nwant[p] + k[p]]
    /\ iwant' = iwant \union first
    /\ interest' = interest \union {p \in first \ suspect : reqs[p] = {}}
    /\ dounwant' = dounwant \ {p \in first \ suspect : reqs[p] # {}}
peer_want(k) ==
    LET first == {p \in Peers : k[p] > 0 /\ nwant[p] = 0} IN
    /\ nwant' = [p \in Peers |-> nwant[p] + k[p]]
    /\ iwant' = iwant \union first
    /\ interest' = interest \union {p \in first \ suspect : reqs[p] = {}}
    /\ dounwant' = dounwant \ {p \in first \ suspect : reqs[p] # {}}

Once(ps) == [p \in Peers |-> IF p \in ps THEN 1 ELSE 0]

PeerUnwantOk(ps) == \A p \in ps : nwant[p] > 0

\* The peers of ps for which nobody is left to be wanted.
Last(ps) == {p \in ps : nwant[p] = 1}

peer_unwant(ps) ==
    /\ nwant' = [p \in Peers |-> IF p \in ps THEN nwant[p] - 1 ELSE nwant[p]]
    /\ iwant' = iwant \ Last(ps)
    /\ interest' = interest \ {p \in Last(ps) \ suspect : reqs[p] = {}}
    /\ dounwant' = dounwant \union {p \in Last(ps) \ suspect : reqs[p] # {}}

\* The peers that lost their last request when the table became r.
Emptied(r) == {p \in Peers : reqs[p] # {} /\ r[p] = {}}

PeerOnNoReqsOk(r) == \A p \in Emptied(r) \intersect dounwant : nwant[p] = 0

Bug_keeps_flag(r) ==
    /\ interest' = interest \ (Emptied(r) \intersect dounwant)
    /\ UNCHANGED <<nwant, iwant, dounwant>>
peer_on_no_reqs(r) ==
    /\ dounwant' = dounwant \ Emptied(r)
    /\ interest' = interest \ (Emptied(r) \intersect dounwant)
    /\ UNCHANGED <<nwant, iwant>>

Without(pc) == [p \in Peers |-> {x \in reqs[p] : x[1] # pc}]

------------------------------------------------------------------------------
Init ==
    /\ got \in SUBSET Pieces
    /\ have \in [Pieces -> SUBSET Blocks]
    /\ \A pc \in Pieces : pc \in got <=> have[pc] = Blocks
    /\ corrupt \in SUBSET (IF BadData THEN Pieces \X Blocks ELSE {})
    /\ \A x \in corrupt : x[1] \notin got /\ x[2] \in have[x[1]]
    /\ busy = {} /\ down = [pc \in Pieces |-> {}] /\ endgame = FALSE
    /\ log = [pc \in Pieces |-> NoLog] /\ badlogs = [pc \in Pieces |-> {}]
    /\ peers = {} /\ pchoke = {}
    /\ field = [p \in Peers |-> {}] /\ ann = [p \in Peers |-> {}]
    /\ bad = [p \in Peers |-> {}] /\ reqs = [p \in Peers |-> {}]
    /\ nwant = [p \in Peers |-> 0]
    /\ iwant = {} /\ dounwant = {} /\ interest = {}
    /\ suspect = {} /\ suspicion = [p \in Peers |-> 0] /\ banned = {}
    /\ liars = {} /\ agenda = <<>> /\ aborted = FALSE

------------------------------------------------------------------------------
(* Messages and connections: the entry points, enabled between handlers *)

\* A peer not in the meta peer table completes its handshake.
peer_on_shake(p) ==
    /\ Idle /\ p \notin Known
    /\ peers' = peers \union {p}
    /\ pchoke' = pchoke \union {p}
    /\ UNCHANGED <<content, pieces, logs, wants, trust, field, ann, reqs,
                   agenda, liars, aborted>>

\* A peer whose id is in the table is turned away (net_state, SHAKE_ID).
net_refuse(p) == Idle /\ p \in Known /\ UNCHANGED vars

\* The connection is lost, times out or is closed because of a ban.
peer_kill(p) ==
    /\ Idle /\ p \in peers
    /\ peers' = peers \ {p}
    /\ agenda' =
         (IF reqs[p] = {} THEN <<>>
          ELSE IF endgame THEN Call("dl_unassign_requests_eg", {p}, {})
          ELSE Call("dl_unassign_requests", {p}, {}))
         \o Call("peer_free", {p}, {})
    /\ UNCHANGED <<content, pieces, logs, wants, trust, field, ann, pchoke,
                   reqs, liars, aborted>>

peer_on_choke(p) ==
    /\ Idle /\ p \in peers \ pchoke
    /\ pchoke' = pchoke \union {p}
    /\ agenda' = IF reqs[p] = {} THEN <<>>
                 ELSE IF endgame THEN Call("dl_unassign_requests_eg", {p}, {})
                 ELSE Call("dl_unassign_requests", {p}, {})
    /\ UNCHANGED <<content, pieces, logs, wants, trust, peers, field, ann,
                   reqs, liars, aborted>>

Bug_peer_on_unchoke(p) ==
    /\ Idle /\ p \in peers \intersect pchoke
    /\ pchoke' = pchoke \ {p}
    /\ UNCHANGED <<content, pieces, logs, wants, trust, peers, field, ann,
                   reqs, liars, agenda, aborted>>
peer_on_unchoke(p) ==
    /\ Idle /\ p \in peers \intersect pchoke
    /\ pchoke' = pchoke \ {p}
    /\ agenda' = IF p \in iwant /\ p \notin banned \union suspect
                       /\ ~peer_laden(p)
                 THEN Call("dl_on_download", {p}, {}) ELSE <<>>
    /\ UNCHANGED <<content, pieces, logs, wants, trust, peers, field, ann,
                   reqs, liars, aborted>>

peer_on_have(p, pc) ==
    /\ Idle /\ p \in peers /\ pc \notin field[p]
    /\ field' = [field EXCEPT ![p] = @ \union {pc}]
    /\ ann' = [ann EXCEPT ![p] = @ \union {pc}]
    /\ agenda' = Call("dl_on_piece_ann", {p}, {pc})
    /\ UNCHANGED <<content, pieces, logs, wants, trust, peers, pchoke, reqs,
                   liars, aborted>>

\* The whole field is copied first, the pieces are then announced in turn.
peer_on_bitfield(p, f) ==
    /\ Idle /\ p \in peers /\ ann[p] = {} /\ f # {}
    /\ LateBitfield \/ p \in pchoke
    /\ field' = [field EXCEPT ![p] = f]
    /\ agenda' = Call("peer_on_bitfield", {p}, f)
    /\ UNCHANGED <<content, pieces, logs, wants, trust, peers, ann, pchoke,
                   reqs, liars, aborted>>

\* Who is rid of the request for a block when p has sent it.
Bug_Askers(p, pc, b) == {p}
Askers(p, pc, b) ==
    IF endgame THEN {q \in Peers : <<pc, b>> \in reqs[q]} ELSE {p}

\* pc->ngot == pc->nblocks, counting the block just received.
Completes(pc, b) == have[pc] \union {b} = Blocks

\* peer_on_piece and dl_on_block.  In end game the same block is cancelled
\* at every other peer, and each of them may be given new requests.
peer_on_piece(p, pc, b, isbad) ==
    /\ Idle /\ p \in peers /\ <<pc, b>> \in reqs[p]
    /\ LET askers == Askers(p, pc, b)
           r == [q \in Peers |-> IF q \in askers THEN reqs[q] \ {<<pc, b>>}
                                 ELSE reqs[q]]
           test == IF Completes(pc, b)
                   THEN Call("cm_test_piece", {}, {pc}) ELSE <<>>
       IN
       /\ asserts(PeerOnNoReqsOk(r) /\ b \notin have[pc] /\ pc \notin got)
       /\ reqs' = r
       /\ peer_on_no_reqs(r)
       /\ log' = [log EXCEPT ![pc][p] = @ \union {b}]
       /\ have' = [have EXCEPT ![pc] = @ \union {b}]
       /\ corrupt' = IF isbad THEN corrupt \union {<<pc, b>>} ELSE corrupt
       /\ liars' = IF isbad THEN liars \union {p} ELSE liars
       /\ down' = [down EXCEPT ![pc] = @ \ {b}]
       /\ agenda' = IF endgame
                    THEN Call("dl_assign_requests_eg", askers, {}) \o test
                    ELSE test \o Call("dl_assign_requests", {p}, {})
    /\ UNCHANGED <<got, busy, endgame, badlogs, trust, remote>>

------------------------------------------------------------------------------
(* Calls *)

peer_on_bitfield_loop ==
    /\ Running("peer_on_bitfield")
    /\ \E p \in Head(agenda).ps, pc \in Head(agenda).pcs :
         LET rest == Head(agenda).pcs \ {pc} IN
         /\ ann' = [ann EXCEPT ![p] = @ \union {pc}]
         /\ Then(Call("dl_on_piece_ann", {p}, {pc})
                 \o IF rest = {} THEN <<>>
                    ELSE Call("peer_on_bitfield", {p}, rest))
    /\ UNCHANGED <<content, pieces, logs, wants, trust, peers, field, pchoke,
                   reqs, liars, aborted>>

dl_on_piece_ann ==
    /\ Running("dl_on_piece_ann")
    /\ \E p \in Head(agenda).ps, pc \in Head(agenda).pcs :
         IF pc \in got \/ (~endgame /\ pc \in busy /\ piece_full(pc))
         THEN Then(<<>>) /\ UNCHANGED <<wants, aborted>>
         ELSE LET k == Once({p} \intersect Holders(pc)) IN
              /\ asserts((endgame => pc \in busy) /\ PeerWantOk(k))
              /\ peer_want(k)
              /\ Then(IF ~LeechOk(p, iwant') THEN <<>>
                      ELSE IF endgame
                      THEN Call("dl_assign_requests_eg", {p}, {})
                      ELSE Call("dl_piece_assign_requests", {p}, {pc}))
    /\ UNCHANGED <<content, pieces, logs, trust, remote, reqs, liars>>

dl_on_download ==
    /\ Running("dl_on_download")
    /\ Then(Call(IF endgame THEN "dl_assign_requests_eg"
                 ELSE "dl_assign_requests", Head(agenda).ps, {}))
    /\ UNCHANGED <<content, pieces, logs, wants, trust, remote, reqs, liars,
                   aborted>>

\* Callers test peer_leech_ok; the function itself asserts ~endgame.
dl_assign_requests ==
    /\ Running("dl_assign_requests")
    /\ \E p \in Head(agenda).ps :
         /\ asserts(peer_leech_ok(p) => ~endgame)
         /\ Then(IF peer_leech_ok(p) THEN Call("assign_loop", {p}, {})
                 ELSE <<>>)
    /\ UNCHANGED <<content, pieces, logs, wants, trust, remote, reqs, liars>>

\* The two loops of dl_assign_requests: pieces already started first, then
\* the rarest of the others.
assign_loop ==
    /\ Running("assign_loop")
    /\ \E p \in Head(agenda).ps :
         LET started == {pc \in busy : ~piece_full(pc)
                                       /\ peer_requestable(p, pc)}
             choice == IF started # {} THEN started ELSE dl_choose_rarest(p)
         IN
         \/ /\ peer_laden(p) \/ endgame \/ choice = {}
            /\ Then(<<>>)
         \/ /\ ~peer_laden(p) /\ ~endgame
            /\ \E pc \in choice :
                 Then(Call("dl_piece_assign_requests", {p}, {pc})
                      \o Call("assign_loop", {p}, {}))
    /\ UNCHANGED <<content, pieces, logs, wants, trust, remote, reqs, liars,
                   aborted>>

\* Requests as many free blocks of the piece as the peer can take; a piece
\* that is not in the getlst is allocated first (dl_new_piece, piece_alloc).
\* In end game the loop would not mark the blocks and would request them
\* twice; the model stops there as for a failed assertion.
dl_piece_assign_requests ==
    /\ Running("dl_piece_assign_requests")
    /\ \E p \in Head(agenda).ps, pc \in Head(agenda).pcs :
         LET free == Blocks \ (have[pc] \union down[pc]) IN
         /\ asserts(free # {} /\ ~peer_laden(p) /\ ~endgame)
         /\ \E s \in SUBSET free :
              /\ Takes(p, s, free)
              /\ reqs' = [reqs EXCEPT ![p] = @ \union ({pc} \X s)]
              /\ down' = [down EXCEPT ![pc] = @ \union s]
              /\ busy' = busy \union {pc}
              /\ Then(IF s = free THEN Call("dl_on_piece_full", {}, {pc})
                      ELSE <<>>)
    /\ UNCHANGED <<content, endgame, logs, wants, trust, remote, liars>>

dl_on_piece_full ==
    /\ Running("dl_on_piece_full")
    /\ \E pc \in Head(agenda).pcs :
         /\ asserts(PeerUnwantOk(Holders(pc)))
         /\ peer_unwant(Holders(pc))
         /\ Then(IF dl_should_enter_endgame
                 THEN Call("dl_enter_endgame", {}, {}) ELSE <<>>)
    /\ UNCHANGED <<content, pieces, logs, trust, remote, reqs, liars>>

dl_enter_endgame ==
    LET k == [p \in Peers |-> IF p \in peers
                 THEN Cardinality({pc \in busy : peer_requestable(p, pc)})
                 ELSE 0] IN
    /\ Running("dl_enter_endgame")
    /\ asserts((\A p \in peers : nwant[p] = 0) /\ PeerWantOk(k))
    /\ endgame' = TRUE
    /\ down' = [pc \in Pieces |-> IF pc \in busy THEN {} ELSE down[pc]]
    /\ peer_want(k)
    /\ Then(Call("dl_assign_requests_eg", peers, {}))
    /\ UNCHANGED <<content, busy, logs, trust, remote, reqs, liars>>

\* For each peer of ps that may be given requests, all blocks it can serve
\* and does not already owe us, as far as its pipe allows.
dl_assign_requests_eg ==
    /\ Running("dl_assign_requests_eg")
    /\ LET ps == {p \in Head(agenda).ps : peer_leech_ok(p)} IN
       \/ ps = {} /\ Then(<<>>) /\ UNCHANGED reqs
       \/ \E p \in ps :
            LET open == {x \in busy \X Blocks :
                            /\ peer_requestable(p, x[1])
                            /\ x[2] \notin have[x[1]]
                            /\ x \notin reqs[p]} IN
            \E s \in SUBSET open :
              /\ Takes(p, s, open)
              /\ reqs' = [reqs EXCEPT ![p] = @ \union s]
              /\ Then(IF ps = {p} THEN <<>>
                      ELSE Call("dl_assign_requests_eg", ps \ {p}, {}))
    /\ UNCHANGED <<content, pieces, logs, wants, trust, remote, liars, aborted>>

\* One turn of the outer loop of dl_unassign_requests: all requests of one
\* piece are taken back.
dl_unassign_requests ==
    /\ Running("dl_unassign_requests")
    /\ \E p \in Head(agenda).ps : \E x \in reqs[p] :
         LET pc == x[1]
             mine == {b \in Blocks : <<pc, b>> \in reqs[p]}
             r == [reqs EXCEPT ![p] = Without(pc)[p]]
         IN
         /\ asserts(mine \subseteq down[pc] /\ PeerOnNoReqsOk(r))
         /\ down' = [down EXCEPT ![pc] = @ \ mine]
         /\ reqs' = r
         /\ peer_on_no_reqs(r)
         /\ Then((IF piece_full(pc) THEN Call("dl_on_piece_unfull", {}, {pc})
                  ELSE <<>>)
                 \o IF r[p] = {} THEN <<>>
                    ELSE Call("dl_unassign_requests", {p}, {}))
    /\ UNCHANGED <<content, busy, endgame, logs, trust, remote, liars>>

dl_unassign_requests_eg ==
    /\ Running("dl_unassign_requests_eg")
    /\ \E p \in Head(agenda).ps :
         LET r == [reqs EXCEPT ![p] = {}] IN
         /\ asserts(PeerOnNoReqsOk(r))
         /\ reqs' = r
         /\ peer_on_no_reqs(r)
    /\ Then(<<>>)
    /\ UNCHANGED <<content, pieces, logs, trust, remote, liars>>

dl_on_piece_unfull ==
    /\ Running("dl_on_piece_unfull")
    /\ \E pc \in Head(agenda).pcs :
         /\ asserts(/\ ~piece_full(pc) /\ ~endgame
                    /\ PeerWantOk(Once(Holders(pc))))
         /\ peer_want(Once(Holders(pc)))
         /\ Then(Call("unfull_loop", peers, {pc}))
    /\ UNCHANGED <<content, pieces, logs, trust, remote, reqs, liars>>

\* The loop over the peers at the end of dl_on_piece_unfull.
unfull_loop ==
    /\ Running("unfull_loop")
    /\ \E pc \in Head(agenda).pcs :
         \/ /\ Head(agenda).ps = {} \/ piece_full(pc)
            /\ Then(<<>>)
         \/ /\ ~piece_full(pc)
            /\ \E p \in Head(agenda).ps :
                 Then((IF peer_leech_ok(p) /\ peer_requestable(p, pc)
                       THEN Call("dl_piece_assign_requests", {p}, {pc})
                       ELSE <<>>)
                      \o Call("unfull_loop", Head(agenda).ps \ {p}, {pc}))
    /\ UNCHANGED <<content, pieces, logs, wants, trust, remote, reqs, liars,
                   aborted>>

------------------------------------------------------------------------------
(* A complete piece is tested *)

\* The blocks that make the hash of the piece come out wrong.  Bug_Wrong ends
\* one block short of the piece.
Bug_Wrong(pc) == {b \in Blocks \ {CHOOSE l \in Blocks : TRUE} :
                    <<pc, b>> \in corrupt}
Wrong(pc) == {b \in Blocks : <<pc, b>> \in corrupt}

Senders(rec) == {p \in Peers : rec[p] # {}}

\* The hash is right: cm_test_piece, dl_on_ok_piece.
dl_on_ok_piece ==
    /\ Running("cm_test_piece")
    /\ \E pc \in Head(agenda).pcs :
         /\ Wrong(pc) = {}
         /\ asserts(pc \notin got /\ (endgame => PeerUnwantOk(Holders(pc))))
         /\ got' = got \union {pc}
         /\ IF endgame THEN peer_unwant(Holders(pc)) ELSE UNCHANGED wants
         /\ Then(Call("piece_log_good", Senders(log[pc]) \intersect peers, {pc})
                 \o Call("judge_logs", {}, {pc})
                 \o Call("piece_free", {}, {pc}))
    /\ UNCHANGED <<have, corrupt, pieces, logs, trust, remote, reqs, liars>>

\* peer_good_piece for each sender that is still attached.
piece_log_good ==
    /\ Running("piece_log_good")
    /\ \E pc \in Head(agenda).pcs :
       \/ /\ Head(agenda).ps = {} /\ Then(<<>>)
          /\ UNCHANGED <<bad, suspect, suspicion, interest>>
       \/ \E p \in Head(agenda).ps :
            /\ bad' = [bad EXCEPT ![p] = @ \ {pc}]
            /\ suspicion' = [suspicion EXCEPT ![p] = 0]
            /\ suspect' = suspect \ {p}
            /\ interest' = IF p \in suspect /\ nwant[p] > 0
                           THEN interest \union {p} ELSE interest
            /\ Then((IF p \in suspect /\ p \in iwant
                        /\ p \notin banned \union pchoke /\ ~peer_laden(p)
                     THEN Call("dl_on_download", {p}, {}) ELSE <<>>)
                    \o Call("piece_log_good", Head(agenda).ps \ {p}, {pc}))
    /\ UNCHANGED <<content, pieces, logs, nwant, iwant, dounwant, banned,
                   remote, reqs, liars, aborted>>

\* The second half of piece_log_good: the older logs are compared with the
\* good data; who sent a block that differs is banned, the others are cleared.
judge_logs ==
    /\ Running("judge_logs")
    /\ \E pc \in Head(agenda).pcs :
       \/ /\ badlogs[pc] = {} /\ Then(<<>>)
          /\ UNCHANGED <<banned, badlogs>>
       \/ \E l \in badlogs[pc] :
            LET culprits == {p \in Peers : l.rec[p] \intersect l.wrong # {}} IN
            /\ banned' = banned \union culprits
            /\ badlogs' = [badlogs EXCEPT ![pc] = @ \ {l}]
            /\ Then(Call("piece_log_good",
                         (Senders(l.rec) \intersect peers) \ culprits, {pc})
                    \o Call("judge_logs", {}, {pc}))
    /\ UNCHANGED <<content, pieces, log, wants, bad, suspect, suspicion,
                   remote, reqs, liars, aborted>>

piece_free ==
    /\ Running("piece_free")
    /\ \E pc \in Head(agenda).pcs :
         /\ asserts(Without(pc) = reqs /\ pc \in busy)
         /\ busy' = busy \ {pc}
         /\ log' = [log EXCEPT ![pc] = NoLog]
         /\ badlogs' = [badlogs EXCEPT ![pc] = {}]
    /\ Then(<<>>)
    /\ UNCHANGED <<content, down, endgame, wants, trust, remote, reqs, liars>>

\* The one peer, if any, that sent all blocks of the piece.
Bug_Sole(pc) == {p \in Peers : Senders(log[pc]) = {p}}
Sole(pc) == {p \in Peers : log[pc] = [NoLog EXCEPT ![p] = Blocks]}

\* The hash is wrong: cm_test_piece, dl_on_bad_piece, piece_log_bad.  A peer
\* that sent the whole piece is banned; otherwise every sender gets a bad
\* mark for the piece and the log is kept.
dl_on_bad_piece ==
    /\ Running("cm_test_piece")
    /\ \E pc \in Head(agenda).pcs :
         LET sole == Sole(pc)
             marked == IF sole # {} THEN {}
                       ELSE Senders(log[pc]) \intersect peers
             un == IF endgame THEN (sole \union marked) \intersect Holders(pc)
                   ELSE {}
             newly == {p \in marked : suspicion[p] + 1 = SuspectAt}
             \* of these, the ones still wanted after the unwanting above
             wanted == {p \in newly : nwant'[p] > 0}
         IN
         /\ Wrong(pc) # {}
         /\ asserts(PeerUnwantOk(un) /\ \A p \in marked : pc \notin bad[p])
         /\ have' = [have EXCEPT ![pc] = {}]
         /\ corrupt' = {x \in corrupt : x[1] # pc}
         /\ down' = [down EXCEPT ![pc] = {}]
         /\ log' = [log EXCEPT ![pc] = NoLog]
         /\ badlogs' = IF sole # {} THEN badlogs
                       ELSE [badlogs EXCEPT ![pc] = @ \union
                               {[rec |-> log[pc], wrong |-> Wrong(pc)]}]
         /\ banned' = banned \union sole
         /\ bad' = [p \in Peers |-> IF p \in marked THEN bad[p] \union {pc}
                                    ELSE bad[p]]
         /\ suspicion' = [p \in Peers |-> IF p \in marked
                             THEN suspicion[p] + 1 ELSE suspicion[p]]
         /\ suspect' = suspect \union newly
         /\ nwant' = [p \in Peers |-> IF p \in un THEN nwant[p] - 1
                                      ELSE nwant[p]]
         /\ iwant' = iwant \ Last(un)
         /\ interest' = (interest \ {p \in Last(un) \ suspect : reqs[p] = {}})
                        \ wanted
         /\ dounwant' = (dounwant \union
                           {p \in Last(un) \ suspect : reqs[p] # {}}) \ wanted
         /\ Then(IF endgame
                 THEN Call("dl_assign_requests_eg",
                           {p \in peers : pc \in field[p] \ bad'[p]}, {})
                 ELSE Call("dl_on_piece_unfull", {}, {pc}))
    /\ UNCHANGED <<got, busy, endgame, remote, reqs, liars>>

------------------------------------------------------------------------------
\* The rest of peer_kill: the peer's memory is released.  A ban stays.
peer_free ==
    /\ Running("peer_free")
    /\ LET ps == Head(agenda).ps IN
       /\ field' = [p \in Peers |-> IF p \in ps THEN {} ELSE field[p]]
       /\ ann' = [p \in Peers |-> IF p \in ps THEN {} ELSE ann[p]]
       /\ bad' = [p \in Peers |-> IF p \in ps THEN {} ELSE bad[p]]
       /\ nwant' = [p \in Peers |-> IF p \in ps THEN 0 ELSE nwant[p]]
       /\ suspicion' = [p \in Peers |-> IF p \in ps THEN 0 ELSE suspicion[p]]
       /\ iwant' = iwant \ ps /\ dounwant' = dounwant \ ps
       /\ interest' = interest \ ps /\ pchoke' = pchoke \ ps
       /\ suspect' = suspect \ ps
    /\ Then(<<>>)
    /\ UNCHANGED <<content, pieces, logs, peers, banned, reqs, liars, aborted>>

Messages ==
    \E p \in Peers :
        \/ peer_on_shake(p) \/ net_refuse(p) \/ peer_kill(p)
        \/ peer_on_choke(p) \/ peer_on_unchoke(p)
        \/ \E pc \in Pieces : peer_on_have(p, pc)
        \/ \E f \in SUBSET Pieces : peer_on_bitfield(p, f)
        \/ \E x \in reqs[p], isbad \in {FALSE, BadData} :
                peer_on_piece(p, x[1], x[2], isbad)

Calls ==
    \/ peer_on_bitfield_loop \/ dl_on_piece_ann
    \/ dl_on_download \/ dl_assign_requests \/ assign_loop
    \/ dl_piece_assign_requests \/ dl_on_piece_full
    \/ dl_enter_endgame \/ dl_assign_requests_eg
    \/ dl_unassign_requests \/ dl_unassign_requests_eg
    \/ dl_on_piece_unfull \/ unfull_loop
    \/ dl_on_ok_piece \/ dl_on_bad_piece
    \/ piece_log_good \/ judge_logs \/ piece_free \/ peer_free

Next == Messages \/ Calls

Spec == Init /\ [][Next]_vars

------------------------------------------------------------------------------
(* Properties *)

LogRec == [Peers -> SUBSET Blocks]

\* Every variable has the shape of the C data it stands for.
TypeOK ==
    /\ got \in SUBSET Pieces /\ have \in [Pieces -> SUBSET Blocks]
    /\ corrupt \in SUBSET (Pieces \X Blocks)
    /\ busy \in SUBSET Pieces /\ down \in [Pieces -> SUBSET Blocks]
    /\ endgame \in BOOLEAN
    /\ log \in [Pieces -> LogRec]
    /\ badlogs \in [Pieces -> SUBSET [rec : LogRec, wrong : SUBSET Blocks]]
    /\ peers \in SUBSET Peers
    /\ field \in [Peers -> SUBSET Pieces] /\ ann \in [Peers -> SUBSET Pieces]
    /\ bad \in [Peers -> SUBSET Pieces]
    /\ reqs \in [Peers -> SUBSET (Pieces \X Blocks)]
    /\ nwant \in [Peers -> Int]
    /\ aborted \/ \A p \in Peers : nwant[p] >= 0
    /\ iwant \in SUBSET Peers /\ dounwant \in SUBSET Peers
    /\ interest \in SUBSET Peers /\ pchoke \in SUBSET Peers
    /\ suspect \in SUBSET Peers /\ suspicion \in [Peers -> Nat]
    /\ banned \in SUBSET Peers /\ liars \in SUBSET Peers
    /\ agenda \in Seq(Frame) /\ aborted \in BOOLEAN

\* No assert() of download.c, download_subr.c, peer.c or content.c that is
\* about the download state ever fails.
NoAssertFails == ~aborted

\* A block is requested only while its piece is in the getlst, is not yet
\* tested and the block is missing; outside end game it is requested from at
\* most one peer and exactly when its down_field bit is set (so that piece_full
\* and dl_unassign_requests are right), and in end game down_field is not used.
Accounted == aborted \/
    /\ \A p \in Peers : \A x \in reqs[p] :
          x[1] \in busy /\ x[1] \notin got /\ x[2] \notin have[x[1]]
    /\ \A pc \in Pieces : \A b \in Blocks :
          b \in down[pc] <=> ~endgame /\ \E p \in Peers : <<pc, b>> \in reqs[p]
    /\ ~endgame => \A p, q \in Peers : p # q => reqs[p] \intersect reqs[q] = {}

\* Bookkeeping of requests: my_reqs, down_field, block_field and the getlst
\* have their types and agree.
RequestsAccounted == TypeOK /\ Accounted

\* Pieces whose change of fullness, or whose announcement by p, is not yet
\* reflected in nwant because the call that does it is the next one.
NextCall(fn) == agenda # <<>> /\ Head(agenda).fn = fn
Due(fn) == IF NextCall(fn) THEN Head(agenda).pcs ELSE {}
AnnDue(p) == IF NextCall("dl_on_piece_ann") /\ p \in Head(agenda).ps
             THEN Head(agenda).pcs ELSE {}

Wanted(p) ==
    {pc \in (ann[p] \ bad[p]) \ (got \union AnnDue(p)) :
        \/ endgame
        \/ pc \in Due("dl_on_piece_full")
        \/ ~piece_full(pc) /\ pc \notin Due("dl_on_piece_unfull")}

\* "A peer is wanted except when it only has pieces we've already downloaded
\* or fully requested" (download_subr.c): nwant counts the missing, unfull
\* pieces of the peer, and PF_I_WANT says whether there are any.  Between
\* handlers the peer has been told INTEREST exactly when it is wanted or still
\* owes us blocks, unless it is suspect; PF_DO_UNWANT marks the second case.
WantedCount ==
    /\ aborted \/ \A p \in peers :
         /\ nwant[p] = Cardinality(Wanted(p))
         /\ p \in iwant <=> nwant[p] > 0
    /\ Idle => \A p \in peers \ suspect :
         /\ p \in interest <=> nwant[p] > 0 \/ reqs[p] # {}
         /\ p \in dounwant <=> nwant[p] = 0 /\ reqs[p] # {}

\* "End game mode sets in when all missing blocks are requested."
EndgameWhenSaturated ==
    Idle /\ ~endgame /\ got # Pieces =>
        \E pc \in Pieces \ got : pc \notin busy \/ ~piece_full(pc)

\* Between handlers no peer that could be asked for a block is left unasked:
\* outside end game for a block nobody was asked for, in end game for a block
\* it was not asked for itself.
NoIdlePeer == Idle =>
    \A p \in peers : peer_leech_ok(p) =>
        \A pc \in field[p] \ bad[p] : pc \notin got =>
            IF endgame
            THEN pc \in busy
                 /\ \A b \in Blocks \ have[pc] : <<pc, b>> \in reqs[p]
            ELSE pc \in busy /\ piece_full(pc)

\* A piece counts as downloaded only when it is complete and every block of
\* it is right.
GotIsGood == \A pc \in got :
    have[pc] = Blocks /\ \A b \in Blocks : <<pc, b>> \notin corrupt

\* Only a peer that sent a corrupt block is ever banned, whatever else was in
\* the pieces it contributed to.
OnlyLiarsBanned == banned \subseteq liars

Steady(p) == p \in peers /\ p \notin pchoke /\ field[p] = Pieces

\* The peer sends one of the blocks it owes us.
Answers(p) == \E x \in reqs[p] : peer_on_piece(p, x[1], x[2], FALSE)

\* Every handler that is started runs to its end.
Fairness == WF_vars(Calls)

\* One peer that has everything, stays unchoked and goes on answering is
\* enough to finish, however the others connect, choke, announce, or sit on
\* the blocks requested from them.
OneSeedIsEnough == \A p \in Peers :
    <>[]Steady(p) /\ SF_vars(Answers(p)) => <>(got = Pieces)

=============================================================================
