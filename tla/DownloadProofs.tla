--------------------------- MODULE DownloadProofs ---------------------------
(***************************************************************************)
(* Proofs about Download, for every number of peers, pieces and blocks.    *)
(*                                                                         *)
(* The first half makes no assumption on the peers: type correctness, the  *)
(* bookkeeping of requests, the goodness of downloaded pieces and the      *)
(* guilt of banned peers hold for corrupt data and for late bitfields as   *)
(* well.  The second half is about peers that send correct data, and their *)
(* bitfield before they unchoke us: no assertion fails, the counts behind  *)
(* our interest are right, end game starts when it should and no peer that *)
(* could be asked for a block is left unasked.                             *)
(***************************************************************************)
EXTENDS Download, FiniteSetTheorems, TLAPS

EgFns == {"dl_assign_requests_eg", "dl_unassign_requests_eg"}

\* What a pending call relies on: the end game variants are called in end
\* game only, and a piece that is about to be tested is complete and is not
\* counted as downloaded yet.
FrameOk(f) ==
    /\ f.fn \in EgFns => endgame
    /\ f.fn = "cm_test_piece" =>
          \A pc \in f.pcs : have[pc] = Blocks /\ pc \notin got

\* At most one test is pending at any time.
AgendaOk ==
    /\ \A i \in 1..Len(agenda) : FrameOk(agenda[i])
    /\ \A i, j \in 1..Len(agenda) :
          agenda[i].fn = "cm_test_piece" /\ agenda[j].fn = "cm_test_piece"
              => i = j

GotComplete == \A pc \in got : have[pc] = Blocks

\* The inductive invariant.
IInv == /\ TypeOK
        /\ Accounted
        /\ aborted \/ (AgendaOk /\ GotComplete)

------------------------------------------------------------------------------
(* The agenda *)

\* Calls that may be pushed by any handler.
Harmless(s) == /\ s \in Seq(Frame)
               /\ \A i \in 1..Len(s) : /\ s[i].fn # "cm_test_piece"
                                       /\ s[i].fn \in EgFns => endgame'

\* Concatenation of two sequences, index by index.
LEMMA Concat ==
    ASSUME NEW S, NEW s \in Seq(S), NEW t \in Seq(S)
    PROVE  /\ s \o t \in Seq(S) /\ Len(s \o t) = Len(s) + Len(t)
           /\ \A i \in 1..Len(s \o t) :
                (s \o t)[i] = IF i <= Len(s) THEN s[i] ELSE t[i - Len(s)]
OBVIOUS

\* A single call is a well typed sequence of one frame.
LEMMA CallType ==
    ASSUME NEW fn \in Fns, NEW ps \in SUBSET Peers, NEW pcs \in SUBSET Pieces
    PROVE  /\ Call(fn, ps, pcs) \in Seq(Frame)
           /\ Len(Call(fn, ps, pcs)) = 1
           /\ Call(fn, ps, pcs)[1] = [fn |-> fn, ps |-> ps, pcs |-> pcs]
BY DEF Call, Frame

\* A single call other than a test, and in end game if it is of that kind.
LEMMA CallHarmless ==
    ASSUME NEW fn \in Fns \ {"cm_test_piece"},
           NEW ps \in SUBSET Peers, NEW pcs \in SUBSET Pieces,
           fn \in EgFns => endgame'
    PROVE  Harmless(Call(fn, ps, pcs))
<1> DEFINE c == Call(fn, ps, pcs)
<1>1. /\ c \in Seq(Frame) /\ Len(c) = 1
      /\ c[1] = [fn |-> fn, ps |-> ps, pcs |-> pcs]
  BY CallType
<1> HIDE DEF c
<1>2. \A i \in 1..Len(c) : c[i].fn = fn
  BY <1>1
<1>3. Harmless(c)
  BY <1>1, <1>2 DEF Harmless
<1> QED
  BY <1>3 DEF c

\* Pushing nothing is harmless.
LEMMA NoneHarmless == Harmless(<<>>)
BY DEF Harmless

\* Two harmless lists of calls, one after the other, are harmless.
LEMMA ConcatHarmless ==
    ASSUME NEW s, NEW t, Harmless(s), Harmless(t)
    PROVE  Harmless(s \o t)
<1> s \in Seq(Frame) /\ t \in Seq(Frame)
  BY DEF Harmless
<1>1. s \o t \in Seq(Frame) /\ Len(s \o t) = Len(s) + Len(t)
  BY Concat
<1>2. \A i \in 1..Len(s \o t) :
         (s \o t)[i] = IF i <= Len(s) THEN s[i] ELSE t[i - Len(s)]
  BY Concat
<1> QED
  BY <1>1, <1>2 DEF Harmless

\* The calls after a step are the new ones followed by the old ones without
\* the one that was made.
LEMMA ThenCalls ==
    ASSUME agenda \in Seq(Frame), agenda # <<>>, NEW s \in Seq(Frame), Then(s)
    PROVE  /\ agenda' \in Seq(Frame)
           /\ \A i \in 1..Len(agenda') :
                \/ i <= Len(s) /\ agenda'[i] = s[i]
                \/ /\ i > Len(s) /\ i - Len(s) + 1 \in 2..Len(agenda)
                   /\ agenda'[i] = agenda[i - Len(s) + 1]
<1> DEFINE t == Tail(agenda)
<1>1. /\ t \in Seq(Frame) /\ Len(t) = Len(agenda) - 1
      /\ \A i \in 1..Len(t) : t[i] = agenda[i + 1]
  OBVIOUS
<1> HIDE DEF t
<1>2. s \o t \in Seq(Frame) /\ Len(s \o t) = Len(s) + Len(t)
  BY <1>1, Concat
<1>3. \A i \in 1..Len(s \o t) :
         (s \o t)[i] = IF i <= Len(s) THEN s[i] ELSE t[i - Len(s)]
  BY <1>1, Concat
<1>4. agenda' = s \o t
  BY DEF Then, t
<1>5. ASSUME NEW i \in 1..Len(agenda')
      PROVE  \/ i <= Len(s) /\ agenda'[i] = s[i]
             \/ /\ i > Len(s) /\ i - Len(s) + 1 \in 2..Len(agenda)
                /\ agenda'[i] = agenda[i - Len(s) + 1]
  <2>1. /\ i \in 1..(Len(s) + Len(t)) /\ Len(s) \in Nat /\ Len(t) \in Nat
        /\ Len(agenda) \in Nat /\ Len(t) = Len(agenda) - 1
    BY <1>1, <1>2, <1>4
  <2>2. agenda'[i] = IF i <= Len(s) THEN s[i] ELSE t[i - Len(s)]
    BY <1>3, <1>4
  <2>3. CASE i <= Len(s)
    BY <2>2, <2>3
  <2>4. CASE i > Len(s)
    <3>1. i - Len(s) \in 1..Len(t)
      BY <2>1, <2>4
    <3>2. agenda'[i] = t[i - Len(s)]
      BY <2>1, <2>2, <2>4
    <3>3. t[i - Len(s)] = agenda[i - Len(s) + 1]
      BY <1>1, <3>1
    <3> QED
      BY <2>1, <2>4, <3>1, <3>2, <3>3
  <2> QED
    BY <2>1, <2>3, <2>4
<1> QED
  BY <1>2, <1>4, <1>5

\* A step that pushes harmless calls and does not touch the content keeps the
\* agenda in order.
LEMMA HarmlessStep ==
    ASSUME agenda \in Seq(Frame), agenda # <<>>, AgendaOk,
           NEW s, Harmless(s), Then(s),
           endgame => endgame', have' = have, got' = got
    PROVE  agenda' \in Seq(Frame) /\ AgendaOk'
<1> s \in Seq(Frame)
  BY DEF Harmless
<1>1. agenda' \in Seq(Frame)
  BY ThenCalls
<1>2. \A i \in 1..Len(agenda') :
         \/ i <= Len(s) /\ agenda'[i] = s[i]
         \/ /\ i > Len(s) /\ i - Len(s) + 1 \in 2..Len(agenda)
            /\ agenda'[i] = agenda[i - Len(s) + 1]
  BY ThenCalls
<1>3. \A i \in 1..Len(agenda') : FrameOk(agenda[i])'
  BY <1>2 DEF AgendaOk, FrameOk, Harmless
<1>4. \A i, j \in 1..Len(agenda') :
         agenda'[i].fn = "cm_test_piece" /\ agenda'[j].fn = "cm_test_piece"
              => i = j
  <2> SUFFICES ASSUME NEW i \in 1..Len(agenda'), NEW j \in 1..Len(agenda'),
                      agenda'[i].fn = "cm_test_piece",
                      agenda'[j].fn = "cm_test_piece"
               PROVE  i = j
    OBVIOUS
  <2>1. \A l \in 1..Len(s) : s[l].fn # "cm_test_piece"
    BY DEF Harmless
  <2>2. /\ i - Len(s) + 1 \in 2..Len(agenda)
        /\ agenda'[i] = agenda[i - Len(s) + 1]
    BY <1>2, <2>1
  <2>3. /\ j - Len(s) + 1 \in 2..Len(agenda)
        /\ agenda'[j] = agenda[j - Len(s) + 1]
    BY <1>2, <2>1
  <2>4. i - Len(s) + 1 = j - Len(s) + 1
    BY <2>2, <2>3 DEF AgendaOk
  <2> QED
    BY <2>4
<1> QED
  BY <1>1, <1>3, <1>4 DEF AgendaOk

------------------------------------------------------------------------------
(* Steps that touch neither the requests nor the content *)

\* The bookkeeping does not depend on anything else.
LEMMA Frozen ==
    ASSUME IInv, ~aborted, UNCHANGED <<got, have, busy, down, endgame, reqs>>
    PROVE  Accounted' /\ GotComplete'
BY DEF IInv, Accounted, GotComplete

\* A message handler pushes its calls on an empty agenda.
LEMMA FirstCalls ==
    ASSUME NEW s, agenda' = s, Harmless(s), have' = have, got' = got
    PROVE  agenda' \in Seq(Frame) /\ AgendaOk'
BY DEF Harmless, AgendaOk, FrameOk

\* peer_on_shake preserves the invariant.
LEMMA ShakeStep ==
    ASSUME IInv, NEW p \in Peers, peer_on_shake(p)
    PROVE  IInv'
<1>1. ~aborted /\ agenda' = <<>>
  BY DEF peer_on_shake, Idle
<1>2. TypeOK'
  BY DEF IInv, TypeOK, peer_on_shake, content, pieces, logs, wants, trust
<1>3. Accounted' /\ GotComplete'
  BY <1>1, Frozen DEF peer_on_shake, content, pieces
<1>4. AgendaOk'
  BY <1>1, NoneHarmless, FirstCalls DEF peer_on_shake, content
<1> QED
  BY <1>2, <1>3, <1>4 DEF IInv

\* peer_kill preserves the invariant.
LEMMA KillStep ==
    ASSUME IInv, NEW p \in Peers, peer_kill(p)
    PROVE  IInv'
<1>1. /\ ~aborted
      /\ UNCHANGED <<got, have, busy, down, endgame, reqs>>
  BY DEF peer_kill, Idle, content, pieces
<1> DEFINE first == IF reqs[p] = {} THEN <<>>
             ELSE IF endgame THEN Call("dl_unassign_requests_eg", {p}, {})
             ELSE Call("dl_unassign_requests", {p}, {})
           last == Call("peer_free", {p}, {})
<1>2. Harmless(first)
  BY <1>1, NoneHarmless, CallHarmless DEF Fns, EgFns
<1>3. Harmless(last)
  BY CallHarmless DEF Fns, EgFns
<1>4. agenda' = first \o last
  BY DEF peer_kill
<1> HIDE DEF first, last
<1>5. Harmless(first \o last)
  BY <1>2, <1>3, ConcatHarmless
<1>6. agenda' \in Seq(Frame) /\ AgendaOk'
  BY <1>1, <1>4, <1>5, FirstCalls
<1>7. TypeOK'
  BY <1>6 DEF IInv, TypeOK, peer_kill, content, pieces, logs, wants, trust
<1>8. Accounted' /\ GotComplete'
  BY <1>1, Frozen
<1> QED
  BY <1>6, <1>7, <1>8 DEF IInv

\* peer_on_choke preserves the invariant.
LEMMA ChokeStep ==
    ASSUME IInv, NEW p \in Peers, peer_on_choke(p)
    PROVE  IInv'
<1>1. /\ ~aborted
      /\ UNCHANGED <<got, have, busy, down, endgame, reqs>>
  BY DEF peer_on_choke, Idle, content, pieces
<1>2. Harmless(agenda')
  BY <1>1, NoneHarmless, CallHarmless DEF peer_on_choke, Fns, EgFns
<1>3. agenda' \in Seq(Frame) /\ AgendaOk'
  BY <1>1, <1>2, FirstCalls
<1>4. TypeOK'
  BY <1>3 DEF IInv, TypeOK, peer_on_choke, content, pieces, logs, wants, trust
<1>5. Accounted' /\ GotComplete'
  BY <1>1, Frozen
<1> QED
  BY <1>3, <1>4, <1>5 DEF IInv

\* peer_on_unchoke preserves the invariant.
LEMMA UnchokeStep ==
    ASSUME IInv, NEW p \in Peers, peer_on_unchoke(p)
    PROVE  IInv'
<1>1. /\ ~aborted
      /\ UNCHANGED <<got, have, busy, down, endgame, reqs>>
  BY DEF peer_on_unchoke, Idle, content, pieces
<1>2. Harmless(agenda')
  BY NoneHarmless, CallHarmless DEF peer_on_unchoke, Fns, EgFns
<1>3. agenda' \in Seq(Frame) /\ AgendaOk'
  BY <1>1, <1>2, FirstCalls
<1>4. TypeOK'
  BY <1>3 DEF IInv, TypeOK, peer_on_unchoke, content, pieces, logs, wants, trust
<1>5. Accounted' /\ GotComplete'
  BY <1>1, Frozen
<1> QED
  BY <1>3, <1>4, <1>5 DEF IInv

\* peer_on_have preserves the invariant.
LEMMA HaveStep ==
    ASSUME IInv, NEW p \in Peers, NEW pc \in Pieces, peer_on_have(p, pc)
    PROVE  IInv'
<1>1. /\ ~aborted
      /\ UNCHANGED <<got, have, busy, down, endgame, reqs>>
  BY DEF peer_on_have, Idle, content, pieces
<1>2. Harmless(agenda')
  BY CallHarmless DEF peer_on_have, Fns, EgFns
<1>3. agenda' \in Seq(Frame) /\ AgendaOk'
  BY <1>1, <1>2, FirstCalls
<1>4. TypeOK'
  BY <1>3 DEF IInv, TypeOK, peer_on_have, content, pieces, logs, wants, trust
<1>5. Accounted' /\ GotComplete'
  BY <1>1, Frozen
<1> QED
  BY <1>3, <1>4, <1>5 DEF IInv

\* peer_on_bitfield preserves the invariant.
LEMMA BitfieldStep ==
    ASSUME IInv, NEW p \in Peers, NEW f \in SUBSET Pieces,
           peer_on_bitfield(p, f)
    PROVE  IInv'
<1>1. /\ ~aborted
      /\ UNCHANGED <<got, have, busy, down, endgame, reqs>>
  BY DEF peer_on_bitfield, Idle, content, pieces
<1>2. Harmless(agenda')
  BY CallHarmless DEF peer_on_bitfield, Fns, EgFns
<1>3. agenda' \in Seq(Frame) /\ AgendaOk'
  BY <1>1, <1>2, FirstCalls
<1>4. TypeOK'
  BY <1>3 DEF IInv, TypeOK, peer_on_bitfield, content, pieces, logs, wants,
              trust
<1>5. Accounted' /\ GotComplete'
  BY <1>1, Frozen
<1> QED
  BY <1>3, <1>4, <1>5 DEF IInv

------------------------------------------------------------------------------
(* Calls that touch neither the requests nor the content *)

\* The call being made is well typed.
LEMMA HeadFrame ==
    ASSUME TypeOK, agenda # <<>>
    PROVE  /\ Head(agenda) = agenda[1] /\ 1 \in 1..Len(agenda)
           /\ Head(agenda).ps \in SUBSET Peers
           /\ Head(agenda).pcs \in SUBSET Pieces
<1>1. agenda \in Seq(Frame)
  BY DEF TypeOK
<1>2. Head(agenda) = agenda[1] /\ 1 \in 1..Len(agenda)
  BY <1>1
<1>3. agenda[1] \in Frame
  BY <1>1, <1>2
<1> QED
  BY <1>2, <1>3 DEF Frame

\* The parts of the invariant that are not about types.
Sound == /\ agenda \in Seq(Frame) /\ AgendaOk
         /\ Accounted /\ GotComplete

\* A call that leaves requests and content alone keeps them.
LEMMA QuietCall ==
    ASSUME IInv, ~aborted, agenda # <<>>, NEW s, Harmless(s), Then(s),
           UNCHANGED <<got, have, busy, down, endgame, reqs>>
    PROVE  Sound'
<1>1. agenda' \in Seq(Frame) /\ AgendaOk'
  BY HarmlessStep DEF IInv, TypeOK
<1> QED
  BY <1>1, Frozen DEF Sound

\* Wanting keeps the types.
LEMMA WantType ==
    ASSUME TypeOK, ~aborted, NEW k \in [Peers -> Nat], peer_want(k)
    PROVE  /\ nwant' \in [Peers -> Int] /\ \A p \in Peers : nwant'[p] >= 0
           /\ iwant' \in SUBSET Peers /\ dounwant' \in SUBSET Peers
           /\ interest' \in SUBSET Peers
BY DEF TypeOK, peer_want

\* Unwanting keeps the types as long as its assertion holds.
LEMMA UnwantType ==
    ASSUME TypeOK, ~aborted, NEW ps \in SUBSET Peers, peer_unwant(ps)
    PROVE  /\ nwant' \in [Peers -> Int]
           /\ PeerUnwantOk(ps) => \A p \in Peers : nwant'[p] >= 0
           /\ iwant' \in SUBSET Peers /\ dounwant' \in SUBSET Peers
           /\ interest' \in SUBSET Peers
BY DEF TypeOK, peer_unwant, PeerUnwantOk, Last

\* Taking requests away keeps the types of the flags.
LEMMA NoReqsType ==
    ASSUME TypeOK, ~aborted, NEW r, peer_on_no_reqs(r)
    PROVE  /\ nwant' \in [Peers -> Int] /\ \A p \in Peers : nwant'[p] >= 0
           /\ iwant' \in SUBSET Peers /\ dounwant' \in SUBSET Peers
           /\ interest' \in SUBSET Peers
BY DEF TypeOK, peer_on_no_reqs

\* One turn of the bitfield loop preserves the invariant.
LEMMA BitfieldLoopStep ==
    ASSUME IInv, peer_on_bitfield_loop
    PROVE  IInv'
<1>1. /\ ~aborted /\ agenda # <<>>
      /\ UNCHANGED <<got, have, busy, down, endgame, reqs>>
  BY DEF peer_on_bitfield_loop, Running, content, pieces
<1>2. PICK p \in Head(agenda).ps, pc \in Head(agenda).pcs :
        LET rest == Head(agenda).pcs \ {pc} IN
         /\ ann' = [ann EXCEPT ![p] = @ \union {pc}]
         /\ Then(Call("dl_on_piece_ann", {p}, {pc})
                 \o IF rest = {} THEN <<>>
                    ELSE Call("peer_on_bitfield", {p}, rest))
  BY DEF peer_on_bitfield_loop
<1> DEFINE rest == Head(agenda).pcs \ {pc}
           c == Call("dl_on_piece_ann", {p}, {pc})
           d == IF rest = {} THEN <<>> ELSE Call("peer_on_bitfield", {p}, rest)
<1>3. p \in Peers /\ pc \in Pieces /\ rest \in SUBSET Pieces
  BY <1>1, HeadFrame DEF IInv
<1>4. Harmless(c)
  BY <1>3, CallHarmless DEF Fns, EgFns
<1>5. Harmless(d)
  BY <1>3, NoneHarmless, CallHarmless DEF Fns, EgFns
<1>6. Then(c \o d) /\ ann' = [ann EXCEPT ![p] = @ \union {pc}]
  BY <1>2
<1> HIDE DEF c, d
<1>7. Sound'
  BY <1>1, <1>4, <1>5, <1>6, ConcatHarmless, QuietCall
<1>8. TypeOK'
  BY <1>3, <1>6, <1>7 DEF IInv, Sound, TypeOK, peer_on_bitfield_loop, content,
     pieces, logs, wants, trust
<1> QED
  BY <1>7, <1>8 DEF IInv, Sound

\* dl_on_piece_ann preserves the invariant.
LEMMA AnnStep ==
    ASSUME IInv, dl_on_piece_ann
    PROVE  IInv'
<1>1. /\ ~aborted /\ agenda # <<>>
      /\ UNCHANGED <<got, have, busy, down, endgame, reqs>>
      /\ UNCHANGED <<content, pieces, logs, trust, remote, reqs, liars>>
  BY DEF dl_on_piece_ann, Running, content, pieces
<1>2. PICK p \in Head(agenda).ps, pc \in Head(agenda).pcs :
         IF pc \in got \/ (~endgame /\ pc \in busy /\ piece_full(pc))
         THEN Then(<<>>) /\ UNCHANGED <<wants, aborted>>
         ELSE LET k == Once({p} \intersect Holders(pc)) IN
              /\ asserts((endgame => pc \in busy) /\ PeerWantOk(k))
              /\ peer_want(k)
              /\ Then(IF ~LeechOk(p, iwant') THEN <<>>
                      ELSE IF endgame
                      THEN Call("dl_assign_requests_eg", {p}, {})
                      ELSE Call("dl_piece_assign_requests", {p}, {pc}))
  BY DEF dl_on_piece_ann
<1>3. p \in Peers /\ pc \in Pieces
  BY <1>1, HeadFrame DEF IInv
<1>4. CASE Then(<<>>) /\ UNCHANGED <<wants, aborted>>
  <2>1. Sound'
    BY <1>1, <1>4, NoneHarmless, QuietCall
  <2>2. TypeOK'
    BY <1>1, <1>4, <2>1 DEF IInv, Sound, TypeOK, content, pieces, logs, wants, trust,
       remote
  <2> QED
    BY <2>1, <2>2 DEF IInv, Sound
<1>5. CASE ~(Then(<<>>) /\ UNCHANGED <<wants, aborted>>)
  <2> DEFINE k == Once({p} \intersect Holders(pc))
             s == IF ~LeechOk(p, iwant') THEN <<>>
                  ELSE IF endgame THEN Call("dl_assign_requests_eg", {p}, {})
                  ELSE Call("dl_piece_assign_requests", {p}, {pc})
  <2>1. Then(s) /\ peer_want(k) /\ aborted' \in BOOLEAN
    BY <1>2, <1>5 DEF asserts
  <2>2. k \in [Peers -> Nat]
    BY DEF Once
  <2>3. Harmless(s)
    BY <1>1, <1>3, NoneHarmless, CallHarmless DEF Fns, EgFns
  <2> HIDE DEF k, s
  <2>4. Sound'
    BY <1>1, <2>1, <2>3, QuietCall
  <2>5. TypeOK'
    BY <1>1, <2>1, <2>2, <2>4, WantType DEF IInv, Sound, TypeOK, content, pieces,
       logs, trust, remote
  <2> QED
    BY <2>4, <2>5 DEF IInv, Sound
<1> QED
  BY <1>4, <1>5

\* dl_on_download preserves the invariant.
LEMMA DownloadStep ==
    ASSUME IInv, dl_on_download
    PROVE  IInv'
<1>1. /\ ~aborted /\ agenda # <<>>
      /\ UNCHANGED <<got, have, busy, down, endgame, reqs>>
      /\ UNCHANGED <<content, pieces, logs, wants, trust, remote, reqs, liars,
                     aborted>>
  BY DEF dl_on_download, Running, content, pieces
<1> DEFINE s == Call(IF endgame THEN "dl_assign_requests_eg"
                     ELSE "dl_assign_requests", Head(agenda).ps, {})
<1>2. Then(s)
  BY DEF dl_on_download
<1>3. Harmless(s)
  BY <1>1, HeadFrame, CallHarmless DEF IInv, Fns, EgFns
<1> HIDE DEF s
<1>4. Sound'
  BY <1>1, <1>2, <1>3, QuietCall
<1>5. TypeOK'
  BY <1>1, <1>4 DEF IInv, Sound, TypeOK, content, pieces, logs, wants, trust, remote
<1> QED
  BY <1>4, <1>5 DEF IInv, Sound

\* dl_assign_requests preserves the invariant.
LEMMA AssignStep ==
    ASSUME IInv, dl_assign_requests
    PROVE  IInv'
<1>1. /\ ~aborted /\ agenda # <<>>
      /\ UNCHANGED <<got, have, busy, down, endgame, reqs>>
      /\ UNCHANGED <<content, pieces, logs, wants, trust, remote, reqs, liars>>
  BY DEF dl_assign_requests, Running, content, pieces
<1>2. PICK p \in Head(agenda).ps :
         /\ asserts(peer_leech_ok(p) => ~endgame)
         /\ Then(IF peer_leech_ok(p) THEN Call("assign_loop", {p}, {})
                 ELSE <<>>)
  BY DEF dl_assign_requests
<1> DEFINE s == IF peer_leech_ok(p) THEN Call("assign_loop", {p}, {}) ELSE <<>>
<1>3. Harmless(s)
  BY <1>1, HeadFrame, NoneHarmless, CallHarmless DEF IInv, Fns, EgFns
<1>4. Then(s) /\ aborted' \in BOOLEAN
  BY <1>2 DEF asserts
<1> HIDE DEF s
<1>5. Sound'
  BY <1>1, <1>3, <1>4, QuietCall
<1>6. TypeOK'
  BY <1>1, <1>4, <1>5 DEF IInv, Sound, TypeOK, content, pieces, logs, wants, trust,
     remote
<1> QED
  BY <1>5, <1>6 DEF IInv, Sound

\* A turn of the loops of dl_assign_requests preserves the invariant.
LEMMA AssignLoopStep ==
    ASSUME IInv, assign_loop
    PROVE  IInv'
<1>1. /\ ~aborted /\ agenda # <<>>
      /\ UNCHANGED <<got, have, busy, down, endgame, reqs>>
      /\ UNCHANGED <<content, pieces, logs, wants, trust, remote, reqs, liars,
                     aborted>>
  BY DEF assign_loop, Running, content, pieces
<1>2. PICK p \in Head(agenda).ps :
        \/ Then(<<>>)
        \/ \E pc \in busy \union Pieces :
                 Then(Call("dl_piece_assign_requests", {p}, {pc})
                      \o Call("assign_loop", {p}, {}))
  BY DEF assign_loop, dl_choose_rarest
<1>3. p \in Peers
  BY <1>1, HeadFrame DEF IInv
<1>4. PICK s : Harmless(s) /\ Then(s)
  <2>1. CASE Then(<<>>)
    BY <2>1, NoneHarmless
  <2>2. ASSUME NEW pc \in busy \union Pieces,
               Then(Call("dl_piece_assign_requests", {p}, {pc})
                      \o Call("assign_loop", {p}, {}))
        PROVE  \E s : Harmless(s) /\ Then(s)
    <3>1. pc \in Pieces
      BY DEF IInv, TypeOK
    <3>2. Harmless(Call("dl_piece_assign_requests", {p}, {pc}))
      BY <1>3, <3>1, CallHarmless DEF Fns, EgFns
    <3>3. Harmless(Call("assign_loop", {p}, {}))
      BY <1>3, CallHarmless DEF Fns, EgFns
    <3> QED
      BY <2>2, <3>2, <3>3, ConcatHarmless
  <2> QED
    BY <1>2, <2>1, <2>2
<1>5. Sound'
  BY <1>1, <1>4, QuietCall
<1>6. TypeOK'
  BY <1>1, <1>5 DEF IInv, Sound, TypeOK, content, pieces, logs, wants, trust,
     remote
<1> QED
  BY <1>5, <1>6 DEF IInv, Sound

\* dl_on_piece_full preserves the invariant.
LEMMA PieceFullStep ==
    ASSUME IInv, dl_on_piece_full
    PROVE  IInv'
<1>1. /\ ~aborted /\ agenda # <<>>
      /\ UNCHANGED <<got, have, busy, down, endgame, reqs>>
      /\ UNCHANGED <<content, pieces, logs, trust, remote, reqs, liars>>
  BY DEF dl_on_piece_full, Running, content, pieces
<1>2. PICK pc \in Head(agenda).pcs :
         /\ asserts(PeerUnwantOk(Holders(pc)))
         /\ peer_unwant(Holders(pc))
         /\ Then(IF dl_should_enter_endgame
                 THEN Call("dl_enter_endgame", {}, {}) ELSE <<>>)
  BY DEF dl_on_piece_full
<1> DEFINE s == IF dl_should_enter_endgame
                THEN Call("dl_enter_endgame", {}, {}) ELSE <<>>
<1>3. Harmless(s)
  BY NoneHarmless, CallHarmless DEF Fns, EgFns
<1>4. Then(s) /\ aborted' = ~PeerUnwantOk(Holders(pc))
  BY <1>2 DEF asserts
<1>5. Holders(pc) \in SUBSET Peers
  BY DEF Holders, IInv, TypeOK
<1> HIDE DEF s
<1>6. Sound'
  BY <1>1, <1>3, <1>4, QuietCall
<1>7. TypeOK'
  BY <1>1, <1>2, <1>4, <1>5, <1>6, UnwantType DEF IInv, Sound, TypeOK, content,
     pieces, logs, trust, remote
<1> QED
  BY <1>6, <1>7 DEF IInv, Sound

\* dl_on_piece_unfull preserves the invariant.
LEMMA PieceUnfullStep ==
    ASSUME IInv, dl_on_piece_unfull
    PROVE  IInv'
<1>1. /\ ~aborted /\ agenda # <<>>
      /\ UNCHANGED <<got, have, busy, down, endgame, reqs>>
      /\ UNCHANGED <<content, pieces, logs, trust, remote, reqs, liars>>
  BY DEF dl_on_piece_unfull, Running, content, pieces
<1>2. PICK pc \in Head(agenda).pcs :
         /\ aborted' \in BOOLEAN
         /\ peer_want(Once(Holders(pc)))
         /\ Then(Call("unfull_loop", peers, {pc}))
  BY DEF dl_on_piece_unfull, asserts
<1>3. Harmless(Call("unfull_loop", peers, {pc}))
  BY <1>1, HeadFrame, CallHarmless DEF IInv, TypeOK, Fns, EgFns
<1>4. Once(Holders(pc)) \in [Peers -> Nat]
  BY DEF Once
<1>5. Sound'
  BY <1>1, <1>2, <1>3, QuietCall
<1>6. TypeOK'
  BY <1>1, <1>2, <1>4, <1>5, WantType DEF IInv, Sound, TypeOK, content,
     pieces, logs, trust, remote
<1> QED
  BY <1>5, <1>6 DEF IInv, Sound

\* A turn of the loop of dl_on_piece_unfull preserves the invariant.
LEMMA UnfullLoopStep ==
    ASSUME IInv, unfull_loop
    PROVE  IInv'
<1>1. /\ ~aborted /\ agenda # <<>>
      /\ UNCHANGED <<got, have, busy, down, endgame, reqs>>
      /\ UNCHANGED <<content, pieces, logs, wants, trust, remote, reqs, liars,
                     aborted>>
  BY DEF unfull_loop, Running, content, pieces
<1>2. PICK pc \in Head(agenda).pcs :
        \/ Then(<<>>)
        \/ \E p \in Head(agenda).ps :
                 Then((IF peer_leech_ok(p) /\ peer_requestable(p, pc)
                       THEN Call("dl_piece_assign_requests", {p}, {pc})
                       ELSE <<>>)
                      \o Call("unfull_loop", Head(agenda).ps \ {p}, {pc}))
  BY DEF unfull_loop
<1>3. pc \in Pieces /\ Head(agenda).ps \in SUBSET Peers
  BY <1>1, HeadFrame DEF IInv
<1>4. PICK s : Harmless(s) /\ Then(s)
  <2>1. CASE Then(<<>>)
    BY <2>1, NoneHarmless
  <2>2. ASSUME NEW p \in Head(agenda).ps,
               Then((IF peer_leech_ok(p) /\ peer_requestable(p, pc)
                       THEN Call("dl_piece_assign_requests", {p}, {pc})
                       ELSE <<>>)
                      \o Call("unfull_loop", Head(agenda).ps \ {p}, {pc}))
        PROVE  \E s : Harmless(s) /\ Then(s)
    <3>1. Harmless(IF peer_leech_ok(p) /\ peer_requestable(p, pc)
                   THEN Call("dl_piece_assign_requests", {p}, {pc})
                   ELSE <<>>)
      BY <1>3, NoneHarmless, CallHarmless DEF Fns, EgFns
    <3>2. Harmless(Call("unfull_loop", Head(agenda).ps \ {p}, {pc}))
      BY <1>3, CallHarmless DEF Fns, EgFns
    <3> QED
      BY <2>2, <3>1, <3>2, ConcatHarmless
  <2> QED
    BY <1>2, <2>1, <2>2
<1>5. Sound'
  BY <1>1, <1>4, QuietCall
<1>6. TypeOK'
  BY <1>1, <1>5 DEF IInv, Sound, TypeOK, content, pieces, logs, wants, trust,
     remote
<1> QED
  BY <1>5, <1>6 DEF IInv, Sound

\* peer_good_piece, for one sender of the piece, preserves the invariant.
LEMMA LogGoodStep ==
    ASSUME IInv, piece_log_good
    PROVE  IInv'
<1>1. /\ ~aborted /\ agenda # <<>>
      /\ UNCHANGED <<got, have, busy, down, endgame, reqs>>
      /\ UNCHANGED <<content, pieces, logs, nwant, iwant, dounwant, banned,
                     remote, reqs, liars, aborted>>
  BY DEF piece_log_good, Running, content, pieces
<1>2. PICK pc \in Head(agenda).pcs :
       \/ /\ Then(<<>>)
          /\ UNCHANGED <<bad, suspect, suspicion, interest>>
       \/ \E p \in Head(agenda).ps :
            /\ bad' = [bad EXCEPT ![p] = @ \ {pc}]
            /\ suspicion' = [suspicion EXCEPT ![p] = 0]
            /\ suspect' = suspect \ {p}
            /\ interest' = IF p \in suspect /\ nwant[p] > 0
                           THEN interest \union {p} ELSE interest
            /\ Then((IF p \in suspect /\ p \in iwant
                        /\ p \notin banned \union pchoke /\ ~peer_laden(p)
                     THEN Call("dl_on_download", {p}, {}) ELSE <<>>)
                    \o Call("piece_log_good", Head(agenda).ps \ {p}, {pc}))
  BY DEF piece_log_good
<1>3. pc \in Pieces /\ Head(agenda).ps \in SUBSET Peers
  BY <1>1, HeadFrame DEF IInv
<1>4. CASE Then(<<>>) /\ UNCHANGED <<bad, suspect, suspicion, interest>>
  <2>1. Sound'
    BY <1>1, <1>4, NoneHarmless, QuietCall
  <2>2. TypeOK'
    BY <1>1, <1>4, <2>1 DEF IInv, Sound, TypeOK, content, pieces, logs, remote
  <2> QED
    BY <2>1, <2>2 DEF IInv, Sound
<1>5. ASSUME NEW p \in Head(agenda).ps,
             bad' = [bad EXCEPT ![p] = @ \ {pc}],
             suspicion' = [suspicion EXCEPT ![p] = 0],
             suspect' = suspect \ {p},
             interest' = IF p \in suspect /\ nwant[p] > 0
                         THEN interest \union {p} ELSE interest,
             Then((IF p \in suspect /\ p \in iwant
                        /\ p \notin banned \union pchoke /\ ~peer_laden(p)
                     THEN Call("dl_on_download", {p}, {}) ELSE <<>>)
                    \o Call("piece_log_good", Head(agenda).ps \ {p}, {pc}))
      PROVE  IInv'
  <2>1. Harmless(IF p \in suspect /\ p \in iwant
                    /\ p \notin banned \union pchoke /\ ~peer_laden(p)
                 THEN Call("dl_on_download", {p}, {}) ELSE <<>>)
    BY <1>3, NoneHarmless, CallHarmless DEF Fns, EgFns
  <2>2. Harmless(Call("piece_log_good", Head(agenda).ps \ {p}, {pc}))
    BY <1>3, CallHarmless DEF Fns, EgFns
  <2>3. Sound'
    BY <1>1, <1>5, <2>1, <2>2, ConcatHarmless, QuietCall
  <2>4. TypeOK'
    BY <1>1, <1>3, <1>5, <2>3 DEF IInv, Sound, TypeOK, content, pieces, logs,
       remote
  <2> QED
    BY <2>3, <2>4 DEF IInv, Sound
<1> QED
  BY <1>2, <1>4, <1>5

\* Judging one of the older logs preserves the invariant.
LEMMA JudgeStep ==
    ASSUME IInv, judge_logs
    PROVE  IInv'
<1>1. /\ ~aborted /\ agenda # <<>>
      /\ UNCHANGED <<got, have, busy, down, endgame, reqs>>
      /\ UNCHANGED <<content, pieces, log, wants, bad, suspect, suspicion,
                     remote, reqs, liars, aborted>>
  BY DEF judge_logs, Running, content, pieces
<1>2. PICK pc \in Head(agenda).pcs :
       \/ Then(<<>>) /\ UNCHANGED <<banned, badlogs>>
       \/ \E l \in badlogs[pc] :
            LET culprits == {p \in Peers : l.rec[p] \intersect l.wrong # {}} IN
            /\ banned' = banned \union culprits
            /\ badlogs' = [badlogs EXCEPT ![pc] = @ \ {l}]
            /\ Then(Call("piece_log_good",
                         (Senders(l.rec) \intersect peers) \ culprits, {pc})
                    \o Call("judge_logs", {}, {pc}))
  BY DEF judge_logs
<1>3. pc \in Pieces /\ peers \in SUBSET Peers
  BY <1>1, HeadFrame DEF IInv, TypeOK
<1>4. CASE Then(<<>>) /\ UNCHANGED <<banned, badlogs>>
  <2>1. Sound'
    BY <1>1, <1>4, NoneHarmless, QuietCall
  <2>2. TypeOK'
    BY <1>1, <1>4, <2>1 DEF IInv, Sound, TypeOK, content, pieces, wants, remote
  <2> QED
    BY <2>1, <2>2 DEF IInv, Sound
<1>5. ASSUME NEW l \in badlogs[pc],
             NEW culprits \in SUBSET Peers,
             banned' = banned \union culprits,
             badlogs' = [badlogs EXCEPT ![pc] = @ \ {l}],
             Then(Call("piece_log_good",
                         (Senders(l.rec) \intersect peers) \ culprits, {pc})
                    \o Call("judge_logs", {}, {pc}))
      PROVE  IInv'
  <2>1. Harmless(Call("piece_log_good",
                      (Senders(l.rec) \intersect peers) \ culprits, {pc}))
    BY <1>3, CallHarmless DEF Fns, EgFns
  <2>2. Harmless(Call("judge_logs", {}, {pc}))
    BY <1>3, CallHarmless DEF Fns, EgFns
  <2>3. Sound'
    BY <1>1, <1>5, <2>1, <2>2, ConcatHarmless, QuietCall
  <2>4. badlogs' \in [Pieces -> SUBSET [rec : LogRec, wrong : SUBSET Blocks]]
    BY <1>3, <1>5 DEF IInv, TypeOK
  <2>5. TypeOK'
    BY <1>1, <1>5, <2>3, <2>4 DEF IInv, Sound, TypeOK, content, pieces, wants,
       remote
  <2> QED
    BY <2>3, <2>5 DEF IInv, Sound
<1> QED
  BY <1>2, <1>4, <1>5

\* Releasing a peer preserves the invariant.
LEMMA PeerFreeStep ==
    ASSUME IInv, peer_free
    PROVE  IInv'
<1>1. /\ ~aborted /\ agenda # <<>> /\ Then(<<>>)
      /\ UNCHANGED <<got, have, busy, down, endgame, reqs>>
      /\ UNCHANGED <<content, pieces, logs, peers, banned, reqs, liars, aborted>>
  BY DEF peer_free, Running, content, pieces
<1>2. Sound'
  BY <1>1, NoneHarmless, QuietCall
<1>3. TypeOK'
  BY <1>1, <1>2 DEF IInv, Sound, TypeOK, peer_free, content, pieces, logs
<1> QED
  BY <1>2, <1>3 DEF IInv, Sound

------------------------------------------------------------------------------
(* Calls that change the requests or the content *)

\* dl_piece_assign_requests preserves the invariant: it takes blocks that
\* nobody was asked for.
LEMMA PieceAssignStep ==
    ASSUME IInv, dl_piece_assign_requests
    PROVE  IInv'
<1>1. /\ ~aborted /\ agenda # <<>>
      /\ UNCHANGED <<content, endgame, logs, wants, trust, remote, liars>>
      /\ UNCHANGED <<have, got>>
  BY DEF dl_piece_assign_requests, Running, content
<1> DEFINE Given(p, pc, f) ==
         /\ aborted' = ~(Blocks \ (have[pc] \union down[pc]) # {}
                         /\ ~peer_laden(p) /\ ~endgame)
         /\ reqs' = [reqs EXCEPT ![p] = @ \union ({pc} \X f)]
         /\ down' = [down EXCEPT ![pc] = @ \union f]
         /\ busy' = busy \union {pc}
         /\ Then(IF f = Blocks \ (have[pc] \union down[pc])
                 THEN Call("dl_on_piece_full", {}, {pc}) ELSE <<>>)
<1>a. PICK p \in Head(agenda).ps, pc \in Head(agenda).pcs :
        \E f \in SUBSET (Blocks \ (have[pc] \union down[pc])) : Given(p, pc, f)
  BY DEF dl_piece_assign_requests, asserts
<1>2. PICK f \in SUBSET (Blocks \ (have[pc] \union down[pc])) : Given(p, pc, f)
  BY <1>a
<1>3. p \in Peers /\ pc \in Pieces /\ f \in SUBSET Blocks
  BY <1>1, <1>2, HeadFrame DEF IInv
<1> DEFINE s == IF f = Blocks \ (have[pc] \union down[pc])
                THEN Call("dl_on_piece_full", {}, {pc}) ELSE <<>>
<1>4. Harmless(s)
  BY <1>3, NoneHarmless, CallHarmless DEF Fns, EgFns
<1>5. Then(s)
  BY <1>2
<1> HIDE DEF s
<1>6. agenda' \in Seq(Frame) /\ AgendaOk'
  BY <1>1, <1>4, <1>5, HarmlessStep DEF IInv, TypeOK
<1>7. GotComplete'
  BY <1>1 DEF IInv, GotComplete
<1>8. /\ reqs' \in [Peers -> SUBSET (Pieces \X Blocks)]
      /\ down' \in [Pieces -> SUBSET Blocks] /\ busy' \in SUBSET Pieces
      /\ aborted' \in BOOLEAN
  BY <1>2, <1>3 DEF IInv, TypeOK
<1>9. TypeOK'
  BY <1>1, <1>6, <1>8 DEF IInv, TypeOK, content, logs, wants, trust, remote
<1>10. Accounted'
  <2> SUFFICES ASSUME ~aborted' PROVE Accounted'
    BY DEF Accounted
  <2>1. ~endgame /\ ~endgame'
    BY <1>1, <1>2
  <2>2. /\ \A q \in Peers \ {p} : reqs'[q] = reqs[q]
        /\ reqs'[p] = reqs[p] \union ({pc} \X f)
        /\ \A o \in Pieces \ {pc} : down'[o] = down[o]
        /\ down'[pc] = down[pc] \union f
    BY <1>2, <1>3 DEF IInv, TypeOK
  <2>3. \A q \in Peers : \A x \in reqs[q] :
            x[1] \in busy /\ x[1] \notin got /\ x[2] \notin have[x[1]]
    BY <1>1 DEF IInv, Accounted
  <2>4. f # {} => pc \notin got
    BY <1>1, <1>2 DEF IInv, GotComplete
  <2>5. \A q \in Peers : \A x \in reqs'[q] :
            x[1] \in busy' /\ x[1] \notin got' /\ x[2] \notin have'[x[1]]
    BY <1>1, <1>2, <1>3, <2>2, <2>3, <2>4
  <2>6. \A o \in Pieces : \A b \in Blocks :
            b \in down[o] <=> \E q \in Peers : <<o, b>> \in reqs[q]
    BY <1>1, <2>1 DEF IInv, Accounted
  <2>7. \A o \in Pieces : \A b \in Blocks :
            b \in down'[o] <=> \E q \in Peers : <<o, b>> \in reqs'[q]
    BY <1>2, <1>3, <2>2, <2>6
  <2>8. \A q, r \in Peers : q # r => reqs[q] \intersect reqs[r] = {}
    BY <1>1, <2>1 DEF IInv, Accounted
  <2>9. \A q \in Peers : reqs[q] \intersect ({pc} \X f) = {}
    BY <1>2, <1>3, <2>6
  <2>10. \A q, r \in Peers : q # r => reqs'[q] \intersect reqs'[r] = {}
    BY <1>3, <2>2, <2>8, <2>9
  <2> QED
    BY <2>1, <2>5, <2>7, <2>10 DEF Accounted
<1> QED
  BY <1>6, <1>7, <1>9, <1>10 DEF IInv

\* dl_enter_endgame preserves the invariant: down_field is given up.
LEMMA EnterEndgameStep ==
    ASSUME IInv, dl_enter_endgame, IsFiniteSet(Pieces)
    PROVE  IInv'
<1> DEFINE k == [p \in Peers |-> IF p \in peers
                 THEN Cardinality({pc \in busy : peer_requestable(p, pc)})
                 ELSE 0]
<1>1. /\ ~aborted /\ agenda # <<>> /\ endgame' = TRUE
      /\ UNCHANGED <<content, busy, logs, trust, remote, reqs, liars>>
      /\ UNCHANGED <<have, got>> /\ aborted' \in BOOLEAN
      /\ down' = [pc \in Pieces |-> IF pc \in busy THEN {} ELSE down[pc]]
      /\ peer_want(k)
      /\ Then(Call("dl_assign_requests_eg", peers, {}))
  BY DEF dl_enter_endgame, Running, content, asserts
<1>2. Harmless(Call("dl_assign_requests_eg", peers, {}))
  BY <1>1, CallHarmless DEF Fns, EgFns, IInv, TypeOK
<1>3. agenda' \in Seq(Frame) /\ AgendaOk'
  BY <1>1, <1>2, HarmlessStep DEF IInv, TypeOK
<1>4. k \in [Peers -> Nat]
  <2>1. ASSUME NEW p \in Peers
        PROVE  Cardinality({pc \in busy : peer_requestable(p, pc)}) \in Nat
    <3>1. {pc \in busy : peer_requestable(p, pc)} \in SUBSET Pieces
      BY DEF IInv, TypeOK
    <3> QED
      BY <3>1, FS_Subset, FS_CardinalityType
  <2> QED
    BY <2>1
<1> HIDE DEF k
<1>5. TypeOK'
  BY <1>1, <1>3, <1>4, WantType DEF IInv, TypeOK, content, logs, trust, remote
<1>6. GotComplete'
  BY <1>1 DEF IInv, GotComplete
<1>7. Accounted'
  <2>1. ASSUME NEW pc \in Pieces \ busy, NEW b \in Blocks, b \in down[pc]
        PROVE  FALSE
    <3>1. PICK p \in Peers : <<pc, b>> \in reqs[p]
      BY <1>1, <2>1 DEF IInv, Accounted
    <3>2. <<pc, b>>[1] \in busy
      BY <1>1, <3>1 DEF IInv, Accounted
    <3> QED
      BY <3>2
  <2>2. \A pc \in Pieces : down'[pc] = {}
    BY <1>1, <2>1 DEF IInv, TypeOK
  <2> QED
    BY <1>1, <2>2 DEF IInv, Accounted
<1> QED
  BY <1>3, <1>5, <1>6, <1>7 DEF IInv

\* dl_assign_requests_eg preserves the invariant: it only asks for missing
\* blocks of pieces in the getlst.
LEMMA AssignEgStep ==
    ASSUME IInv, dl_assign_requests_eg
    PROVE  IInv'
<1>1. /\ ~aborted /\ agenda # <<>> /\ endgame /\ ~aborted'
      /\ UNCHANGED <<content, pieces, logs, wants, trust, remote, liars, aborted>>
      /\ UNCHANGED <<have, got, endgame, busy, down>>
  <2>1. Head(agenda) = agenda[1] /\ 1 \in 1..Len(agenda)
    BY HeadFrame DEF dl_assign_requests_eg, Running, IInv
  <2>2. FrameOk(agenda[1])
    BY <2>1 DEF dl_assign_requests_eg, Running, IInv, AgendaOk
  <2> QED
    BY <2>1, <2>2 DEF dl_assign_requests_eg, Running, content, pieces, FrameOk,
       EgFns
<1> DEFINE ps == {p \in Head(agenda).ps : peer_leech_ok(p)}
           Open(p) == {x \in busy \X Blocks :
                            /\ peer_requestable(p, x[1])
                            /\ x[2] \notin have[x[1]]
                            /\ x \notin reqs[p]}
<1>2. \/ Then(<<>>) /\ UNCHANGED reqs
      \/ \E p \in ps : \E f \in SUBSET Open(p) :
           /\ reqs' = [reqs EXCEPT ![p] = @ \union f]
           /\ Then(IF ps = {p} THEN <<>>
                      ELSE Call("dl_assign_requests_eg", ps \ {p}, {}))
  BY DEF dl_assign_requests_eg
<1>3. Head(agenda).ps \in SUBSET Peers
  BY <1>1, HeadFrame DEF IInv
<1>4. GotComplete'
  BY <1>1 DEF IInv, GotComplete
<1>5. CASE Then(<<>>) /\ UNCHANGED reqs
  <2>1. Sound'
    BY <1>1, <1>5, NoneHarmless, QuietCall
  <2>2. TypeOK'
    BY <1>1, <1>5, <2>1 DEF IInv, Sound, TypeOK, content, pieces, logs, wants,
       trust, remote
  <2> QED
    BY <2>1, <2>2 DEF IInv, Sound
<1>6. ASSUME NEW p \in ps, NEW f \in SUBSET Open(p),
             reqs' = [reqs EXCEPT ![p] = @ \union f],
             Then(IF ps = {p} THEN <<>>
                  ELSE Call("dl_assign_requests_eg", ps \ {p}, {}))
      PROVE  IInv'
  <2> DEFINE s == IF ps = {p} THEN <<>>
                  ELSE Call("dl_assign_requests_eg", ps \ {p}, {})
  <2>1. p \in Peers /\ ps \in SUBSET Peers
    BY <1>3
  <2>2. Harmless(s)
    BY <1>1, <2>1, NoneHarmless, CallHarmless DEF Fns, EgFns
  <2>3. Then(s)
    BY <1>6
  <2>4. f \in SUBSET (Pieces \X Blocks)
    BY DEF IInv, TypeOK
  <2>5. \A x \in f : x[1] \in busy /\ x[1] \notin got /\ x[2] \notin have[x[1]]
    <3> SUFFICES ASSUME NEW x \in f
                 PROVE  x[1] \in busy /\ x[1] \notin got /\ x[2] \notin have[x[1]]
      OBVIOUS
    <3>1. x[1] \in busy /\ x[2] \in Blocks /\ x[2] \notin have[x[1]]
      OBVIOUS
    <3> QED
      BY <1>1, <3>1 DEF IInv, GotComplete
  <2> HIDE DEF s, Open, ps
  <2>6. agenda' \in Seq(Frame) /\ AgendaOk'
    BY <1>1, <2>2, <2>3, HarmlessStep DEF IInv, TypeOK
  <2>7. reqs' \in [Peers -> SUBSET (Pieces \X Blocks)]
    BY <1>6, <2>1, <2>4 DEF IInv, TypeOK
  <2>8. TypeOK'
    BY <1>1, <2>6, <2>7 DEF IInv, TypeOK, content, pieces, logs, wants, trust,
       remote
  <2>9. /\ \A q \in Peers \ {p} : reqs'[q] = reqs[q]
        /\ reqs'[p] = reqs[p] \union f
    BY <1>6, <2>1 DEF IInv, TypeOK
  <2>10. \A q \in Peers : \A x \in reqs'[q] :
            x[1] \in busy /\ x[1] \notin got /\ x[2] \notin have[x[1]]
    BY <1>1, <2>5, <2>9 DEF IInv, Accounted
  <2>11. Accounted'
    BY <1>1, <2>10 DEF IInv, Accounted
  <2> QED
    BY <1>4, <2>6, <2>8, <2>11 DEF IInv
<1> QED
  BY <1>2, <1>5, <1>6

\* dl_unassign_requests_eg preserves the invariant: in end game nothing else
\* depends on the requests.
LEMMA UnassignEgStep ==
    ASSUME IInv, dl_unassign_requests_eg
    PROVE  IInv'
<1>1. /\ ~aborted /\ agenda # <<>> /\ endgame /\ Then(<<>>)
      /\ UNCHANGED <<content, pieces, logs, trust, remote, liars>>
      /\ UNCHANGED <<have, got, endgame, busy, down>>
  <2>1. Head(agenda) = agenda[1] /\ 1 \in 1..Len(agenda)
    BY HeadFrame DEF dl_unassign_requests_eg, Running, IInv
  <2>2. FrameOk(agenda[1])
    BY <2>1 DEF dl_unassign_requests_eg, Running, IInv, AgendaOk
  <2> QED
    BY <2>1, <2>2 DEF dl_unassign_requests_eg, Running, content, pieces,
       FrameOk, EgFns
<1>2. PICK p \in Head(agenda).ps :
         LET r == [reqs EXCEPT ![p] = {}] IN
         /\ aborted' \in BOOLEAN
         /\ reqs' = r
         /\ peer_on_no_reqs(r)
  BY DEF dl_unassign_requests_eg, asserts
<1>3. agenda' \in Seq(Frame) /\ AgendaOk'
  BY <1>1, NoneHarmless, HarmlessStep DEF IInv, TypeOK
<1>4. reqs' \in [Peers -> SUBSET (Pieces \X Blocks)]
  BY <1>2 DEF IInv, TypeOK
<1>5. TypeOK'
  BY <1>1, <1>2, <1>3, <1>4, NoReqsType DEF IInv, TypeOK, content, pieces,
     logs, trust, remote
<1>6. \A q \in Peers : reqs'[q] \subseteq reqs[q]
  BY <1>2 DEF IInv, TypeOK
<1>7. Accounted' /\ GotComplete'
  BY <1>1, <1>6 DEF IInv, Accounted, GotComplete
<1> QED
  BY <1>3, <1>5, <1>7 DEF IInv

\* dl_unassign_requests preserves the invariant: the blocks taken back were
\* requested from this peer alone, so their down_field bits go with them.
LEMMA UnassignStep ==
    ASSUME IInv, dl_unassign_requests
    PROVE  IInv'
<1>1. /\ ~aborted /\ agenda # <<>>
      /\ UNCHANGED <<content, busy, endgame, logs, trust, remote, liars>>
      /\ UNCHANGED <<have, got>>
  BY DEF dl_unassign_requests, Running, content
<1> DEFINE Mine(p, pc) == {b \in Blocks : <<pc, b>> \in reqs[p]}
           Left(p, pc) == [reqs EXCEPT ![p] = Without(pc)[p]]
           Taken(p, pc) ==
             /\ aborted' = ~(Mine(p, pc) \subseteq down[pc]
                             /\ PeerOnNoReqsOk(Left(p, pc)))
             /\ down' = [down EXCEPT ![pc] = @ \ Mine(p, pc)]
             /\ reqs' = Left(p, pc)
             /\ peer_on_no_reqs(Left(p, pc))
             /\ Then((IF piece_full(pc)
                      THEN Call("dl_on_piece_unfull", {}, {pc}) ELSE <<>>)
                     \o IF Left(p, pc)[p] = {} THEN <<>>
                        ELSE Call("dl_unassign_requests", {p}, {}))
<1>2. PICK p \in Head(agenda).ps : \E x \in reqs[p] : Taken(p, x[1])
  BY DEF dl_unassign_requests, asserts
<1>3. PICK x \in reqs[p] : Taken(p, x[1])
  BY <1>2
<1> DEFINE pc == x[1]
<1>4. p \in Peers /\ x \in Pieces \X Blocks /\ pc \in Pieces
  <2>1. p \in Peers
    BY <1>1, HeadFrame DEF IInv
  <2> QED
    BY <2>1 DEF IInv, TypeOK
<1>5. Taken(p, pc) /\ x = <<pc, x[2]>> /\ x[2] \in Blocks
  BY <1>3, <1>4
<1> HIDE DEF pc
<1> DEFINE c == IF piece_full(pc)
                THEN Call("dl_on_piece_unfull", {}, {pc}) ELSE <<>>
           d == IF Left(p, pc)[p] = {} THEN <<>>
                ELSE Call("dl_unassign_requests", {p}, {})
<1>6. Harmless(c)
  BY <1>4, NoneHarmless, CallHarmless DEF Fns, EgFns
<1>7. Harmless(d)
  BY <1>4, NoneHarmless, CallHarmless DEF Fns, EgFns
<1>8. Then(c \o d)
  BY <1>5
<1> HIDE DEF c, d
<1>9. agenda' \in Seq(Frame) /\ AgendaOk'
  BY <1>1, <1>6, <1>7, <1>8, ConcatHarmless, HarmlessStep DEF IInv, TypeOK
<1>10. /\ \A q \in Peers \ {p} : reqs'[q] = reqs[q]
       /\ reqs'[p] = {y \in reqs[p] : y[1] # pc}
       /\ \A o \in Pieces \ {pc} : down'[o] = down[o]
       /\ down'[pc] = down[pc] \ Mine(p, pc)
  BY <1>4, <1>5 DEF IInv, TypeOK, Without
<1>11. /\ reqs' \in [Peers -> SUBSET (Pieces \X Blocks)]
       /\ down' \in [Pieces -> SUBSET Blocks] /\ aborted' \in BOOLEAN
  BY <1>4, <1>5, <1>10 DEF IInv, TypeOK
<1>12. peer_on_no_reqs(Left(p, pc))
  BY <1>5
<1>13. TypeOK'
  BY <1>1, <1>9, <1>11, <1>12, NoReqsType DEF IInv, TypeOK, content, logs,
     trust, remote
<1>14. GotComplete'
  BY <1>1 DEF IInv, GotComplete
<1>15. Accounted'
  <2> SUFFICES ASSUME ~aborted' PROVE Accounted'
    BY DEF Accounted
  <2>1. \A q \in Peers : reqs'[q] \subseteq reqs[q]
    BY <1>4, <1>10
  <2>2. \A q \in Peers : \A y \in reqs'[q] :
            y[1] \in busy' /\ y[1] \notin got' /\ y[2] \notin have'[y[1]]
    BY <1>1, <2>1 DEF IInv, Accounted
  <2>3. x[2] \in down[pc]
    BY <1>5
  <2>4. ~endgame /\ ~endgame'
    BY <1>1, <1>4, <1>5, <2>3 DEF IInv, Accounted
  <2>5. \A q, r \in Peers : q # r => reqs[q] \intersect reqs[r] = {}
    BY <1>1, <2>4 DEF IInv, Accounted
  <2>6. \A o \in Pieces : \A b \in Blocks :
            b \in down[o] <=> \E q \in Peers : <<o, b>> \in reqs[q]
    BY <1>1, <2>4 DEF IInv, Accounted
  <2>7. ASSUME NEW o \in Pieces, NEW b \in Blocks
        PROVE  b \in down'[o] <=> \E q \in Peers : <<o, b>> \in reqs'[q]
    <3>1. CASE o # pc
      BY <1>4, <1>10, <2>6, <3>1
    <3>2. CASE o = pc
      <4>1. b \in down'[o] <=> b \in down[o] /\ <<o, b>> \notin reqs[p]
        BY <1>10, <3>2
      <4>2. <<o, b>> \notin reqs'[p]
        BY <1>10, <3>2
      <4>3. <<o, b>> \in reqs[p] => \A q \in Peers \ {p} : <<o, b>> \notin reqs[q]
        BY <1>4, <2>5
      <4> QED
        BY <1>4, <1>10, <2>6, <4>1, <4>2, <4>3
    <3> QED
      BY <3>1, <3>2
  <2>8. \A q, r \in Peers : q # r => reqs'[q] \intersect reqs'[r] = {}
    BY <2>1, <2>5
  <2> QED
    BY <2>2, <2>4, <2>7, <2>8 DEF Accounted
<1> QED
  BY <1>9, <1>13, <1>14, <1>15 DEF IInv

\* piece_free preserves the invariant: nothing is requested of the piece.
LEMMA PieceFreeStep ==
    ASSUME IInv, piece_free
    PROVE  IInv'
<1>1. /\ ~aborted /\ agenda # <<>> /\ Then(<<>>)
      /\ UNCHANGED <<content, down, endgame, wants, trust, remote, reqs, liars>>
      /\ UNCHANGED <<have, got>>
  BY DEF piece_free, Running, content
<1>2. PICK pc \in Head(agenda).pcs :
         /\ aborted' = ~(Without(pc) = reqs /\ pc \in busy)
         /\ busy' = busy \ {pc}
         /\ log' = [log EXCEPT ![pc] = NoLog]
         /\ badlogs' = [badlogs EXCEPT ![pc] = {}]
  BY DEF piece_free, asserts
<1>3. pc \in Pieces
  BY <1>1, HeadFrame DEF IInv
<1>4. agenda' \in Seq(Frame) /\ AgendaOk'
  BY <1>1, NoneHarmless, HarmlessStep DEF IInv, TypeOK
<1>5. log' \in [Pieces -> LogRec] /\ busy' \in SUBSET Pieces
  BY <1>2, <1>3 DEF IInv, TypeOK, NoLog, LogRec
<1>6. badlogs' \in [Pieces -> SUBSET [rec : LogRec, wrong : SUBSET Blocks]]
  BY <1>2, <1>3 DEF IInv, TypeOK
<1>7. TypeOK'
  BY <1>1, <1>2, <1>4, <1>5, <1>6 DEF IInv, TypeOK, content, wants, trust, remote
<1>8. GotComplete'
  BY <1>1 DEF IInv, GotComplete
<1>9. Accounted'
  <2> SUFFICES ASSUME ~aborted' PROVE Accounted'
    BY DEF Accounted
  <2>1. \A q \in Peers : reqs[q] = {x \in reqs[q] : x[1] # pc}
    BY <1>2 DEF Without
  <2>2. \A q \in Peers : \A x \in reqs[q] : x[1] # pc
    BY <2>1
  <2> QED
    BY <1>1, <1>2, <2>2 DEF IInv, Accounted
<1> QED
  BY <1>4, <1>7, <1>8, <1>9 DEF IInv

\* When the pending test is made no test is left, and the content may change.
LEMMA TestStep ==
    ASSUME agenda \in Seq(Frame), Running("cm_test_piece"), AgendaOk,
           NEW s, Harmless(s), Then(s), endgame' = endgame
    PROVE  agenda' \in Seq(Frame) /\ AgendaOk'
<1> s \in Seq(Frame) /\ agenda # <<>>
  BY DEF Harmless, Running
<1>1. agenda' \in Seq(Frame)
  BY ThenCalls
<1>2. \A i \in 1..Len(agenda') :
         \/ i <= Len(s) /\ agenda'[i] = s[i]
         \/ /\ i > Len(s) /\ i - Len(s) + 1 \in 2..Len(agenda)
            /\ agenda'[i] = agenda[i - Len(s) + 1]
  BY ThenCalls
<1>3. agenda[1].fn = "cm_test_piece" /\ 1 \in 1..Len(agenda)
  BY DEF Running
<1>4. \A i \in 2..Len(agenda) :
         agenda[i].fn # "cm_test_piece" /\ (agenda[i].fn \in EgFns => endgame)
  BY <1>3 DEF AgendaOk, FrameOk
<1>5. \A i \in 1..Len(agenda') :
         /\ agenda'[i].fn # "cm_test_piece"
         /\ agenda'[i].fn \in EgFns => endgame'
  <2> SUFFICES ASSUME NEW i \in 1..Len(agenda')
               PROVE  /\ agenda'[i].fn # "cm_test_piece"
                      /\ agenda'[i].fn \in EgFns => endgame'
    OBVIOUS
  <2>1. CASE i <= Len(s) /\ agenda'[i] = s[i]
    BY <2>1 DEF Harmless
  <2>2. CASE /\ i - Len(s) + 1 \in 2..Len(agenda)
             /\ agenda'[i] = agenda[i - Len(s) + 1]
    BY <1>4, <2>2
  <2> QED
    BY <1>2, <2>1, <2>2
<1> QED
  BY <1>1, <1>5 DEF AgendaOk, FrameOk

\* Nothing is requested of a piece that is about to be tested.
LEMMA TestedPiece ==
    ASSUME IInv, Running("cm_test_piece"), NEW pc \in Head(agenda).pcs
    PROVE  /\ pc \in Pieces /\ have[pc] = Blocks /\ pc \notin got
           /\ \A p \in Peers : \A x \in reqs[p] : x[1] # pc
           /\ down[pc] = {}
<1>1. /\ ~aborted /\ agenda # <<>>
      /\ Head(agenda) = agenda[1] /\ 1 \in 1..Len(agenda) /\ pc \in Pieces
  BY HeadFrame DEF IInv, Running
<1>2. FrameOk(agenda[1])
  BY <1>1 DEF IInv, AgendaOk
<1>3. have[pc] = Blocks /\ pc \notin got
  BY <1>1, <1>2 DEF Running, FrameOk
<1>4. ASSUME NEW p \in Peers, NEW x \in reqs[p]
      PROVE  x[1] # pc
  <2>1. x \in Pieces \X Blocks
    BY DEF IInv, TypeOK
  <2>2. x[2] \in Blocks /\ x[2] \notin have[x[1]]
    BY <1>1, <2>1 DEF IInv, Accounted
  <2> QED
    BY <1>3, <2>2
<1>5. ASSUME NEW b \in down[pc] PROVE FALSE
  <2>1. b \in Blocks
    BY <1>1 DEF IInv, TypeOK
  <2>2. PICK p \in Peers : <<pc, b>> \in reqs[p]
    BY <1>1, <2>1 DEF IInv, Accounted
  <2>3. <<pc, b>>[1] # pc
    BY <1>4, <2>2
  <2> QED
    BY <2>3
<1> QED
  BY <1>1, <1>3, <1>4, <1>5

\* dl_on_ok_piece preserves the invariant.
LEMMA OkStep ==
    ASSUME IInv, dl_on_ok_piece
    PROVE  IInv'
<1>1. /\ ~aborted /\ agenda # <<>> /\ Running("cm_test_piece")
      /\ UNCHANGED <<have, corrupt, pieces, logs, trust, remote, reqs, liars>>
      /\ UNCHANGED <<busy, down, endgame>>
  BY DEF dl_on_ok_piece, Running, pieces
<1>2. PICK pc \in Head(agenda).pcs :
         /\ aborted' = ~(pc \notin got
                         /\ (endgame => PeerUnwantOk(Holders(pc))))
         /\ got' = got \union {pc}
         /\ IF endgame THEN peer_unwant(Holders(pc)) ELSE UNCHANGED wants
         /\ Then(Call("piece_log_good", Senders(log[pc]) \intersect peers, {pc})
                 \o Call("judge_logs", {}, {pc})
                 \o Call("piece_free", {}, {pc}))
  BY DEF dl_on_ok_piece, asserts
<1>3. /\ pc \in Pieces /\ have[pc] = Blocks
      /\ \A p \in Peers : \A x \in reqs[p] : x[1] # pc
  BY <1>1, TestedPiece
<1>4. peers \in SUBSET Peers /\ Holders(pc) \in SUBSET Peers
  BY DEF IInv, TypeOK, Holders
<1> DEFINE c == Call("piece_log_good", Senders(log[pc]) \intersect peers, {pc})
           d == Call("judge_logs", {}, {pc})
           e == Call("piece_free", {}, {pc})
<1>5. Harmless(c)
  BY <1>3, <1>4, CallHarmless DEF Fns, EgFns
<1>6. Harmless(d)
  BY <1>3, CallHarmless DEF Fns, EgFns
<1>7. Harmless(e)
  BY <1>3, CallHarmless DEF Fns, EgFns
<1>8. Then((c \o d) \o e)
  BY <1>2
<1> HIDE DEF c, d, e
<1>9. Harmless((c \o d) \o e)
  BY <1>5, <1>6, <1>7, ConcatHarmless
<1>10. agenda' \in Seq(Frame) /\ AgendaOk'
  BY <1>1, <1>8, <1>9, TestStep DEF IInv, TypeOK
<1>11. /\ nwant' \in [Peers -> Int]
       /\ aborted' \/ \A p \in Peers : nwant'[p] >= 0
       /\ iwant' \in SUBSET Peers /\ dounwant' \in SUBSET Peers
       /\ interest' \in SUBSET Peers
  <2>1. CASE endgame
    BY <1>1, <1>2, <1>4, <2>1, UnwantType DEF IInv
  <2>2. CASE ~endgame
    BY <1>1, <1>2, <2>2 DEF IInv, TypeOK, wants
  <2> QED
    BY <2>1, <2>2
<1>12. TypeOK'
  BY <1>1, <1>2, <1>3, <1>10, <1>11 DEF IInv, TypeOK, pieces, logs, trust, remote
<1>13. GotComplete'
  BY <1>1, <1>2, <1>3 DEF IInv, GotComplete
<1>14. Accounted'
  BY <1>1, <1>2, <1>3 DEF IInv, Accounted
<1> QED
  BY <1>10, <1>12, <1>13, <1>14 DEF IInv

\* dl_on_bad_piece preserves the invariant: the piece starts anew with no
\* block present and none requested.
LEMMA BadStep ==
    ASSUME IInv, dl_on_bad_piece
    PROVE  IInv'
<1>1. /\ ~aborted /\ agenda # <<>> /\ Running("cm_test_piece")
      /\ UNCHANGED <<got, busy, endgame, remote, reqs, liars>>
  BY DEF dl_on_bad_piece, Running
<1> DEFINE marked(pc) == IF Sole(pc) # {} THEN {}
                         ELSE Senders(log[pc]) \intersect peers
           un(pc) == IF endgame
                     THEN (Sole(pc) \union marked(pc)) \intersect Holders(pc)
                     ELSE {}
           newly(pc) == {p \in marked(pc) : suspicion[p] + 1 = SuspectAt}
           wanted(pc) == {p \in newly(pc) : nwant'[p] > 0}
           again(pc) == IF endgame
                        THEN Call("dl_assign_requests_eg",
                                  {p \in peers : pc \in field[p] \ bad'[p]}, {})
                        ELSE Call("dl_on_piece_unfull", {}, {pc})
<1>2. PICK pc \in Head(agenda).pcs :
         /\ aborted' = ~(/\ PeerUnwantOk(un(pc))
                         /\ \A p \in marked(pc) : pc \notin bad[p])
         /\ have' = [have EXCEPT ![pc] = {}]
         /\ corrupt' = {x \in corrupt : x[1] # pc}
         /\ down' = [down EXCEPT ![pc] = {}]
         /\ log' = [log EXCEPT ![pc] = NoLog]
         /\ badlogs' = IF Sole(pc) # {} THEN badlogs
                       ELSE [badlogs EXCEPT ![pc] = @ \union
                               {[rec |-> log[pc], wrong |-> Wrong(pc)]}]
         /\ banned' = banned \union Sole(pc)
         /\ bad' = [p \in Peers |-> IF p \in marked(pc) THEN bad[p] \union {pc}
                                    ELSE bad[p]]
         /\ suspicion' = [p \in Peers |-> IF p \in marked(pc)
                             THEN suspicion[p] + 1 ELSE suspicion[p]]
         /\ suspect' = suspect \union newly(pc)
         /\ nwant' = [p \in Peers |-> IF p \in un(pc) THEN nwant[p] - 1
                                      ELSE nwant[p]]
         /\ iwant' = iwant \ Last(un(pc))
         /\ interest' = (interest \ {p \in Last(un(pc)) \ suspect :
                                        reqs[p] = {}}) \ wanted(pc)
         /\ dounwant' = (dounwant \union {p \in Last(un(pc)) \ suspect :
                                             reqs[p] # {}}) \ wanted(pc)
         /\ Then(again(pc))
  BY DEF dl_on_bad_piece, asserts
<1>3. /\ pc \in Pieces /\ pc \notin got /\ down[pc] = {}
      /\ \A p \in Peers : \A x \in reqs[p] : x[1] # pc
  BY <1>1, TestedPiece
<1>4. Sole(pc) \in SUBSET Peers /\ marked(pc) \in SUBSET Peers
  BY DEF Sole, Senders
<1>5. un(pc) \in SUBSET Peers /\ Last(un(pc)) \in SUBSET Peers
  BY <1>4 DEF Last
<1>6. newly(pc) \in SUBSET Peers
  BY <1>4
<1>7. Harmless(again(pc))
  <2>1. {p \in peers : pc \in field[p] \ bad'[p]} \in SUBSET Peers
    BY DEF IInv, TypeOK
  <2> QED
    BY <1>1, <1>3, <2>1, CallHarmless DEF Fns, EgFns
<1> HIDE DEF marked, un, newly, wanted, again
<1>8. agenda' \in Seq(Frame) /\ AgendaOk'
  BY <1>1, <1>2, <1>7, TestStep DEF IInv, TypeOK
<1>9. /\ have' \in [Pieces -> SUBSET Blocks]
      /\ corrupt' \in SUBSET (Pieces \X Blocks)
      /\ down' = down /\ banned' \in SUBSET Peers /\ suspect' \in SUBSET Peers
  BY <1>2, <1>3, <1>4, <1>6 DEF IInv, TypeOK
<1>10. /\ bad' \in [Peers -> SUBSET Pieces] /\ suspicion' \in [Peers -> Nat]
  BY <1>2, <1>3 DEF IInv, TypeOK
<1>11. /\ nwant' \in [Peers -> Int]
       /\ aborted' \/ \A p \in Peers : nwant'[p] >= 0
  <2>1. nwant \in [Peers -> Int] /\ \A p \in Peers : nwant[p] >= 0
    BY <1>1 DEF IInv, TypeOK
  <2>2. nwant' = [p \in Peers |-> IF p \in un(pc) THEN nwant[p] - 1
                                 ELSE nwant[p]]
    BY <1>2
  <2>3. aborted' \/ \A p \in un(pc) : nwant[p] > 0
    BY <1>2 DEF PeerUnwantOk
  <2> QED
    BY <2>1, <2>2, <2>3
<1>12. /\ iwant' \in SUBSET Peers /\ interest' \in SUBSET Peers
       /\ dounwant' \in SUBSET Peers
  BY <1>2, <1>5 DEF IInv, TypeOK
<1>13. log' \in [Pieces -> LogRec]
  BY <1>2, <1>3 DEF IInv, TypeOK, NoLog, LogRec
<1>14. badlogs' \in [Pieces -> SUBSET [rec : LogRec, wrong : SUBSET Blocks]]
  <2>1. [rec |-> log[pc], wrong |-> Wrong(pc)]
            \in [rec : LogRec, wrong : SUBSET Blocks]
    BY <1>3 DEF IInv, TypeOK, Wrong
  <2> DEFINE new == [rec |-> log[pc], wrong |-> Wrong(pc)]
             T == [rec : LogRec, wrong : SUBSET Blocks]
  <2>2. new \in T
    BY <2>1
  <2>3. badlogs \in [Pieces -> SUBSET T]
    BY DEF IInv, TypeOK
  <2>4. badlogs' = IF Sole(pc) # {} THEN badlogs
                   ELSE [badlogs EXCEPT ![pc] = @ \union {new}]
    BY <1>2
  <2> HIDE DEF new, T
  <2>5. badlogs' \in [Pieces -> SUBSET T]
    BY <1>3, <2>2, <2>3, <2>4
  <2> QED
    BY <2>5 DEF T
<1>15. TypeOK'
  <2>1. aborted' \in BOOLEAN
    BY <1>2
  <2> QED
    BY <1>1, <1>8, <1>9, <1>10, <1>11, <1>12, <1>13, <1>14, <2>1
       DEF IInv, TypeOK, remote
<1>16. GotComplete'
  BY <1>1, <1>2, <1>3 DEF IInv, TypeOK, GotComplete
<1>17. Accounted'
  <2>1. \A o \in Pieces \ {pc} : have'[o] = have[o]
    BY <1>2 DEF IInv, TypeOK
  <2>2. \A p \in Peers : \A x \in reqs[p] :
          x[1] \in busy /\ x[1] \notin got /\ x[2] \notin have'[x[1]]
    BY <1>1, <1>3, <2>1 DEF IInv, TypeOK, Accounted
  <2> QED
    BY <1>1, <1>9, <2>2 DEF IInv, Accounted
<1> QED
  BY <1>8, <1>15, <1>16, <1>17 DEF IInv

\* A test is called next to one other call, in either order.
LEMMA TestPushed ==
    ASSUME NEW fn \in Fns \ {"cm_test_piece"}, NEW ps \in SUBSET Peers,
           NEW pc \in Pieces, fn \in EgFns => endgame',
           have'[pc] = Blocks, pc \notin got',
           \/ agenda' = Call(fn, ps, {}) \o Call("cm_test_piece", {}, {pc})
           \/ agenda' = Call("cm_test_piece", {}, {pc}) \o Call(fn, ps, {})
    PROVE  agenda' \in Seq(Frame) /\ AgendaOk'
<1> DEFINE c == Call(fn, ps, {})
           t == Call("cm_test_piece", {}, {pc})
<1>1. /\ c \in Seq(Frame) /\ Len(c) = 1 /\ c[1].fn = fn
  <2>1. fn \in Fns /\ {} \in SUBSET Pieces
    OBVIOUS
  <2>2. /\ c \in Seq(Frame) /\ Len(c) = 1
        /\ c[1] = [fn |-> fn, ps |-> ps, pcs |-> {}]
    BY <2>1, CallType
  <2> QED
    BY <2>2
<1>2. /\ t \in Seq(Frame) /\ Len(t) = 1 /\ t[1].fn = "cm_test_piece"
      /\ t[1].pcs = {pc}
  <2>1. [fn |-> "cm_test_piece", ps |-> {}, pcs |-> {pc}] \in Frame
    BY DEF Frame, Fns
  <2>2. t = << [fn |-> "cm_test_piece", ps |-> {}, pcs |-> {pc}] >>
    BY DEF Call
  <2> HIDE DEF t
  <2> QED
    BY <2>1, <2>2
<1>3. agenda' = c \o t \/ agenda' = t \o c
  OBVIOUS
<1> HIDE DEF c, t
<1>4. /\ agenda' \in Seq(Frame) /\ Len(agenda') = 2
      /\ \/ agenda'[1] = c[1] /\ agenda'[2] = t[1]
         \/ agenda'[1] = t[1] /\ agenda'[2] = c[1]
  <2>1. /\ c \o t \in Seq(Frame) /\ Len(c \o t) = 2
        /\ (c \o t)[1] = c[1] /\ (c \o t)[2] = t[1]
    BY <1>1, <1>2, Concat
  <2>2. /\ t \o c \in Seq(Frame) /\ Len(t \o c) = 2
        /\ (t \o c)[1] = t[1] /\ (t \o c)[2] = c[1]
    BY <1>1, <1>2, Concat
  <2> QED
    BY <1>3, <2>1, <2>2
<1>5. \A i \in 1..Len(agenda') : i = 1 \/ i = 2
  BY <1>4
<1>6. \A i \in 1..Len(agenda') : FrameOk(agenda[i])'
  BY <1>1, <1>2, <1>4, <1>5 DEF FrameOk, EgFns
<1>7. \A i, j \in 1..Len(agenda') :
         agenda'[i].fn = "cm_test_piece" /\ agenda'[j].fn = "cm_test_piece"
              => i = j
  BY <1>1, <1>2, <1>4, <1>5
<1> QED
  BY <1>4, <1>6, <1>7 DEF AgendaOk

\* peer_on_piece preserves the invariant: nobody is left asked for the block
\* that has arrived, and a test is only called for a complete piece.
LEMMA PieceStep ==
    ASSUME IInv, NEW p \in Peers, NEW x \in reqs[p], NEW isbad \in BOOLEAN,
           peer_on_piece(p, x[1], x[2], isbad)
    PROVE  IInv'
<1>1. PICK pc \in Pieces, b \in Blocks : x = <<pc, b>>
  BY DEF IInv, TypeOK
<1> DEFINE askers == Askers(p, pc, b)
           r == [q \in Peers |-> IF q \in askers THEN reqs[q] \ {<<pc, b>>}
                                 ELSE reqs[q]]
           test == IF Completes(pc, b)
                   THEN Call("cm_test_piece", {}, {pc}) ELSE <<>>
<1>2. /\ ~aborted /\ <<pc, b>> \in reqs[p]
      /\ aborted' = ~(PeerOnNoReqsOk(r) /\ b \notin have[pc] /\ pc \notin got)
      /\ reqs' = r
      /\ peer_on_no_reqs(r)
      /\ log' = [log EXCEPT ![pc][p] = @ \union {b}]
      /\ have' = [have EXCEPT ![pc] = @ \union {b}]
      /\ corrupt' = IF isbad THEN corrupt \union {<<pc, b>>} ELSE corrupt
      /\ liars' = IF isbad THEN liars \union {p} ELSE liars
      /\ down' = [down EXCEPT ![pc] = @ \ {b}]
      /\ agenda' = IF endgame
                   THEN Call("dl_assign_requests_eg", askers, {}) \o test
                   ELSE test \o Call("dl_assign_requests", {p}, {})
      /\ UNCHANGED <<got, busy, endgame, badlogs, trust, remote>>
  <2>1. peer_on_piece(p, pc, b, isbad)
    BY <1>1
  <2> QED
    BY <2>1 DEF peer_on_piece, Idle, asserts
<1>3. askers \in SUBSET Peers
  BY DEF Askers
<1>4. \A q \in Peers : reqs'[q] = reqs[q] \ {<<pc, b>>}
  <2>1. CASE endgame
    BY <1>2, <2>1 DEF Askers
  <2>2. CASE ~endgame
    <3>1. \A q \in Peers : q # p => <<pc, b>> \notin reqs[q]
      BY <1>2, <2>2 DEF IInv, Accounted
    <3> QED
      BY <1>2, <2>2, <3>1 DEF Askers
  <2> QED
    BY <2>1, <2>2
<1>5. pc \in busy /\ pc \notin got /\ b \notin have[pc]
  <2>1. /\ <<pc, b>>[1] \in busy /\ <<pc, b>>[1] \notin got
        /\ <<pc, b>>[2] \notin have[<<pc, b>>[1]]
    BY <1>2 DEF IInv, Accounted
  <2> QED
    BY <2>1
<1>6. /\ \A o \in Pieces \ {pc} : have'[o] = have[o] /\ down'[o] = down[o]
      /\ have'[pc] = have[pc] \union {b} /\ down'[pc] = down[pc] \ {b}
  BY <1>2 DEF IInv, TypeOK
<1>7. agenda' \in Seq(Frame) /\ AgendaOk'
  <2>1. CASE Completes(pc, b)
    <3>1. have'[pc] = Blocks /\ pc \notin got'
      BY <1>2, <1>5, <1>6, <2>1 DEF Completes
    <3>2. CASE endgame
      <4>1. agenda' = Call("dl_assign_requests_eg", askers, {})
                      \o Call("cm_test_piece", {}, {pc})
        BY <1>2, <2>1, <3>2
      <4> QED
        <5>1. /\ "dl_assign_requests_eg" \in Fns \ {"cm_test_piece"}
              /\ endgame'
          BY <1>2, <3>2 DEF Fns
        <5> HIDE DEF askers
        <5> QED
          BY <1>3, <3>1, <4>1, <5>1, TestPushed
    <3>3. CASE ~endgame
      <4>1. agenda' = Call("cm_test_piece", {}, {pc})
                      \o Call("dl_assign_requests", {p}, {})
        BY <1>2, <2>1, <3>3
      <4> QED
        <5>1. /\ "dl_assign_requests" \in Fns \ {"cm_test_piece"}
              /\ "dl_assign_requests" \notin EgFns /\ {p} \in SUBSET Peers
          BY DEF Fns, EgFns
        <5> QED
          BY <3>1, <4>1, <5>1, TestPushed
    <3> QED
      BY <3>2, <3>3
  <2>2. CASE ~Completes(pc, b)
    <3>1. CASE endgame
      <4>1. agenda' = Call("dl_assign_requests_eg", askers, {}) \o <<>>
        BY <1>2, <2>2, <3>1
      <4>2. Harmless(Call("dl_assign_requests_eg", askers, {}))
        BY <1>2, <1>3, <3>1, CallHarmless DEF Fns, EgFns
      <4>3. Harmless(agenda')
        BY <4>1, <4>2, NoneHarmless, ConcatHarmless
      <4> QED
        BY <4>3 DEF Harmless, AgendaOk, FrameOk
    <3>2. CASE ~endgame
      <4>1. agenda' = <<>> \o Call("dl_assign_requests", {p}, {})
        BY <1>2, <2>2, <3>2
      <4>2. Harmless(Call("dl_assign_requests", {p}, {}))
        BY CallHarmless DEF Fns, EgFns
      <4>3. Harmless(agenda')
        BY <4>1, <4>2, NoneHarmless, ConcatHarmless
      <4> QED
        BY <4>3 DEF Harmless, AgendaOk, FrameOk
    <3> QED
      BY <3>1, <3>2
  <2> QED
    BY <2>1, <2>2
<1> HIDE DEF askers, r, test
<1>8. /\ reqs' \in [Peers -> SUBSET (Pieces \X Blocks)]
      /\ have' \in [Pieces -> SUBSET Blocks]
      /\ down' \in [Pieces -> SUBSET Blocks]
      /\ corrupt' \in SUBSET (Pieces \X Blocks) /\ liars' \in SUBSET Peers
      /\ aborted' \in BOOLEAN
  <2>1. reqs' \in [Peers -> SUBSET (Pieces \X Blocks)]
    BY <1>2, <1>4 DEF IInv, TypeOK, r
  <2> QED
    BY <1>2, <2>1 DEF IInv, TypeOK
<1>9. log' \in [Pieces -> LogRec]
  <2>1. log \in [Pieces -> LogRec] /\ log[pc] \in [Peers -> SUBSET Blocks]
    BY DEF IInv, TypeOK, LogRec
  <2>2. [log[pc] EXCEPT ![p] = @ \union {b}] \in LogRec
    BY <2>1 DEF LogRec
  <2>3. log' = [log EXCEPT ![pc] = [log[pc] EXCEPT ![p] = @ \union {b}]]
    BY <1>2, <2>1
  <2> QED
    BY <2>1, <2>2, <2>3
<1>10. TypeOK'
  BY <1>2, <1>7, <1>8, <1>9, NoReqsType DEF IInv, TypeOK, trust, remote
<1>11. GotComplete'
  BY <1>2, <1>5, <1>6 DEF IInv, TypeOK, GotComplete
<1>12. Accounted'
  <2>1. ASSUME NEW q \in Peers, NEW y \in reqs'[q]
        PROVE  y[1] \in busy' /\ y[1] \notin got' /\ y[2] \notin have'[y[1]]
    <3>1. y \in reqs[q] /\ y # <<pc, b>> /\ y \in Pieces \X Blocks
      BY <1>4 DEF IInv, TypeOK
    <3>2. y[1] \in busy /\ y[1] \notin got /\ y[2] \notin have[y[1]]
      BY <1>2, <3>1 DEF IInv, Accounted
    <3> QED
      BY <1>2, <1>6, <3>1, <3>2
  <2>2. ASSUME NEW o \in Pieces, NEW d \in Blocks
        PROVE  d \in down'[o] <=>
                  ~endgame' /\ \E q \in Peers : <<o, d>> \in reqs'[q]
    <3>1. d \in down[o] <=> ~endgame /\ \E q \in Peers : <<o, d>> \in reqs[q]
      BY <1>2 DEF IInv, Accounted
    <3>2. d \in down'[o] <=> d \in down[o] /\ <<o, d>> # <<pc, b>>
      BY <1>6
    <3>3. \A q \in Peers : <<o, d>> \in reqs'[q] <=>
                              <<o, d>> \in reqs[q] /\ <<o, d>> # <<pc, b>>
      BY <1>4
    <3> QED
      BY <1>2, <3>1, <3>2, <3>3
  <2>3. ~endgame' =>
          \A q, t \in Peers : q # t => reqs'[q] \intersect reqs'[t] = {}
    BY <1>2, <1>4 DEF IInv, Accounted
  <2> QED
    BY <2>1, <2>2, <2>3 DEF Accounted
<1> QED
  BY <1>7, <1>10, <1>11, <1>12 DEF IInv

------------------------------------------------------------------------------
(* The theorems *)

\* Initially nothing is requested, and the pieces that count as downloaded
\* are complete.
LEMMA InitInv == Init => IInv
<1> SUFFICES ASSUME Init PROVE IInv
  OBVIOUS
<1>1. TypeOK
  <2>1. /\ got \in SUBSET Pieces /\ have \in [Pieces -> SUBSET Blocks]
        /\ corrupt \in SUBSET (Pieces \X Blocks)
        /\ busy \in SUBSET Pieces /\ down \in [Pieces -> SUBSET Blocks]
        /\ endgame \in BOOLEAN
    BY DEF Init
  <2>2. log \in [Pieces -> LogRec]
    BY DEF Init, NoLog, LogRec
  <2>3. badlogs \in [Pieces -> SUBSET [rec : LogRec, wrong : SUBSET Blocks]]
    BY DEF Init
  <2>4. /\ peers \in SUBSET Peers
        /\ field \in [Peers -> SUBSET Pieces]
        /\ ann \in [Peers -> SUBSET Pieces]
        /\ bad \in [Peers -> SUBSET Pieces]
        /\ reqs \in [Peers -> SUBSET (Pieces \X Blocks)]
    BY DEF Init
  <2>5. /\ nwant \in [Peers -> Int] /\ \A p \in Peers : nwant[p] >= 0
        /\ suspicion \in [Peers -> Nat]
    BY DEF Init
  <2>6. <<>> \in Seq(Frame)
    OBVIOUS
  <2>7. agenda \in Seq(Frame)
    BY <2>6, Zenon DEF Init
  <2> QED
    BY <2>1, <2>2, <2>3, <2>4, <2>5, <2>7 DEF Init, TypeOK
<1>2. Accounted
  BY DEF Init, Accounted
<1>3. AgendaOk /\ GotComplete
  BY DEF Init, AgendaOk, GotComplete
<1> QED
  BY <1>1, <1>2, <1>3 DEF IInv

\* Doing nothing preserves the invariant.
LEMMA Unchanged == IInv /\ UNCHANGED vars => IInv'
<1> SUFFICES ASSUME IInv, UNCHANGED vars PROVE IInv'
  OBVIOUS
<1>1. TypeOK'
  BY DEF IInv, TypeOK, vars, content, pieces, logs, wants, trust, remote
<1>2. Accounted'
  BY DEF IInv, Accounted, vars, content, pieces
<1>3. aborted' \/ (AgendaOk' /\ GotComplete')
  BY DEF IInv, AgendaOk, FrameOk, GotComplete, vars, content, pieces
<1> QED
  BY <1>1, <1>2, <1>3 DEF IInv

\* Every message handler and every call preserves the invariant.
LEMMA NextInv == IInv /\ [Next]_vars => IInv'
<1> SUFFICES ASSUME IInv, [Next]_vars PROVE IInv'
  OBVIOUS
<1>1. CASE Messages
  <2>1. PICK p \in Peers :
        \/ peer_on_shake(p) \/ net_refuse(p) \/ peer_kill(p)
        \/ peer_on_choke(p) \/ peer_on_unchoke(p)
        \/ \E pc \in Pieces : peer_on_have(p, pc)
        \/ \E f \in SUBSET Pieces : peer_on_bitfield(p, f)
        \/ \E x \in reqs[p], isbad \in {FALSE, BadData} :
                peer_on_piece(p, x[1], x[2], isbad)
    BY <1>1 DEF Messages
  <2>2. CASE net_refuse(p)
    BY <2>2, Unchanged DEF net_refuse
  <2>3. ASSUME NEW x \in reqs[p], NEW isbad \in {FALSE, BadData},
               peer_on_piece(p, x[1], x[2], isbad)
        PROVE  IInv'
    <3>1. isbad \in BOOLEAN
      BY DownloadAssumption
    <3> QED
      BY <2>3, <3>1, PieceStep
  <2> QED
    BY <2>1, <2>2, <2>3, ShakeStep, KillStep, ChokeStep, UnchokeStep, HaveStep,
       BitfieldStep
<1>2. CASE Calls
  <2>1. CASE dl_enter_endgame
    BY <2>1, EnterEndgameStep, DownloadAssumption
  <2> QED
    BY <1>2, <2>1, BitfieldLoopStep, AnnStep, DownloadStep, AssignStep,
       AssignLoopStep, PieceAssignStep, PieceFullStep, AssignEgStep,
       UnassignStep, UnassignEgStep, PieceUnfullStep, UnfullLoopStep, OkStep,
       BadStep, LogGoodStep, JudgeStep, PieceFreeStep, PeerFreeStep DEF Calls
<1>3. CASE UNCHANGED vars
  BY <1>3, Unchanged
<1> QED
  BY <1>1, <1>2, <1>3 DEF Next

\* The invariant holds in every reachable state.
LEMMA Invariance == Spec => []IInv
BY InitInv, NextInv, PTL DEF Spec

\* Whatever peers send and in whatever order handlers run, every variable
\* keeps its type; in particular nwant never drops below zero except in the
\* step in which peer_unwant's assert() stops the program.
THEOREM TypeCorrect == Spec => []TypeOK
<1>1. IInv => TypeOK
  BY DEF IInv
<1> QED
  BY <1>1, Invariance, PTL

\* The bookkeeping of requests in my_reqs, down_field, block_field and the
\* getlst agrees for any number of peers, pieces and blocks.
THEOREM RequestsCorrect == Spec => []RequestsAccounted
<1>1. IInv => RequestsAccounted
  BY DEF IInv, RequestsAccounted
<1> QED
  BY <1>1, Invariance, PTL

------------------------------------------------------------------------------
(* Good pieces and guilty peers *)

\* A corrupt block that is logged was sent by who the log says: a block has
\* bytes on disk, or a sender in the log, only while it counts as present, and
\* then nobody else is asked for it.  Older logs keep what was known when the
\* piece failed its test.
Evidence ==
    /\ GotIsGood /\ OnlyLiarsBanned
    /\ \A x \in corrupt : x[2] \in have[x[1]]
    /\ \A pc \in Pieces : \A p \in Peers : \A b \in log[pc][p] :
          b \in have[pc] /\ (<<pc, b>> \in corrupt => p \in liars)
    /\ \A pc \in Pieces : \A l \in badlogs[pc] : \A p \in Peers :
          l.rec[p] \intersect l.wrong # {} => p \in liars

\* Most calls touch none of this.
LEMMA EvidenceFrozen ==
    ASSUME Evidence, UNCHANGED <<content, logs, banned, liars>>
    PROVE  Evidence'
BY DEF Evidence, GotIsGood, OnlyLiarsBanned, content, logs

LEMMA EvidenceInit == Init => Evidence
<1> SUFFICES ASSUME Init PROVE Evidence
  OBVIOUS
<1>1. GotIsGood
  <2> SUFFICES ASSUME NEW pc \in got
               PROVE  have[pc] = Blocks /\ \A b \in Blocks : <<pc, b>> \notin corrupt
    BY DEF GotIsGood
  <2>1. pc \in Pieces /\ have[pc] = Blocks
    BY DEF Init
  <2>2. ASSUME NEW b \in Blocks, <<pc, b>> \in corrupt PROVE FALSE
    <3>1. <<pc, b>>[1] \notin got
      BY <2>2 DEF Init
    <3> QED BY <3>1
  <2> QED BY <2>1, <2>2
<1>2. OnlyLiarsBanned
  BY DEF Init, OnlyLiarsBanned
<1>3. \A x \in corrupt : x[2] \in have[x[1]]
  BY DEF Init
<1>4. /\ \A pc \in Pieces : \A p \in Peers : log[pc][p] = {}
      /\ \A pc \in Pieces : badlogs[pc] = {}
  BY DEF Init, NoLog
<1> QED BY <1>1, <1>2, <1>3, <1>4 DEF Evidence

\* A block arrives that nobody has sent yet.
LEMMA PieceEvidence ==
    ASSUME IInv, Evidence, NEW p \in Peers, NEW x \in reqs[p], NEW isbad \in BOOLEAN,
           peer_on_piece(p, x[1], x[2], isbad)
    PROVE  Evidence'
<1> DEFINE pc == x[1]
           b == x[2]
<1>1. /\ ~aborted /\ x = <<pc, b>> /\ pc \in Pieces /\ b \in Blocks /\ b \notin have[pc]
      /\ pc \notin got
  <2>1. ~aborted
    BY DEF peer_on_piece, Idle
  <2>2. x \in Pieces \X Blocks
    BY DEF IInv, TypeOK
  <2> QED BY <2>1, <2>2 DEF IInv, Accounted
<1>2. /\ log' = [log EXCEPT ![pc][p] = @ \union {b}]
      /\ have' = [have EXCEPT ![pc] = @ \union {b}]
      /\ corrupt' = IF isbad THEN corrupt \union {<<pc, b>>} ELSE corrupt
      /\ liars' = IF isbad THEN liars \union {p} ELSE liars
      /\ got' = got /\ badlogs' = badlogs /\ banned' = banned
  BY DEF peer_on_piece, trust
<1>3. /\ have \in [Pieces -> SUBSET Blocks] /\ log \in [Pieces -> [Peers -> SUBSET Blocks]]
      /\ got \in SUBSET Pieces /\ corrupt \in SUBSET (Pieces \X Blocks)
  BY DEF IInv, TypeOK, LogRec
<1> HIDE DEF pc, b
<1>4. /\ \A q \in Pieces : have'[q] = IF q = pc THEN have[q] \union {b} ELSE have[q]
      /\ liars \subseteq liars'
  BY <1>1, <1>2, <1>3
<1>5. \A q \in Pieces : \A t \in Peers :
         log'[q][t] = IF q = pc /\ t = p THEN log[q][t] \union {b} ELSE log[q][t]
  BY <1>1, <1>2, <1>3
<1>6. \A y \in corrupt' : y \in corrupt \/ (isbad /\ y = <<pc, b>>)
  BY <1>2
<1>7. GotIsGood'
  <2> SUFFICES ASSUME NEW q \in got
               PROVE  have'[q] = Blocks /\ \A c \in Blocks : <<q, c>> \notin corrupt'
    BY <1>2 DEF GotIsGood
  <2>1. q \in Pieces /\ q # pc /\ have[q] = Blocks /\ \A c \in Blocks : <<q, c>> \notin corrupt
    BY <1>1, <1>3 DEF Evidence, GotIsGood
  <2> QED BY <1>4, <1>6, <2>1
<1>8. OnlyLiarsBanned'
  BY <1>2, <1>4 DEF Evidence, OnlyLiarsBanned
<1>9. ASSUME NEW y \in corrupt' PROVE y[2] \in have'[y[1]]
  <2>1. CASE y \in corrupt
    <3>1. y[1] \in Pieces /\ y[2] \in have[y[1]]
      BY <1>3, <2>1 DEF Evidence
    <3> QED BY <1>4, <3>1
  <2>2. CASE y = <<pc, b>>
    BY <1>1, <1>4, <2>2
  <2> QED BY <1>6, <2>1, <2>2
<1>10. ASSUME NEW q \in Pieces, NEW t \in Peers, NEW c \in log'[q][t]
       PROVE  c \in have'[q] /\ (<<q, c>> \in corrupt' => t \in liars')
  <2>1. CASE c \in log[q][t]
    <3>1. c \in have[q] /\ (<<q, c>> \in corrupt => t \in liars)
      BY <2>1 DEF Evidence
    <3>2. <<q, c>> # <<pc, b>>
      BY <1>1, <3>1
    <3>3. <<q, c>> \in corrupt' => <<q, c>> \in corrupt
      BY <1>6, <3>2
    <3> QED BY <1>4, <3>1, <3>3
  <2>2. CASE c \notin log[q][t]
    <3>1. q = pc /\ t = p /\ c = b
      BY <1>5, <2>2
    <3>2. <<q, c>> \notin corrupt
      <4>1. ASSUME <<q, c>> \in corrupt PROVE FALSE
        <5>1. <<q, c>>[2] \in have[<<q, c>>[1]]
          BY <4>1 DEF Evidence
        <5> QED BY <1>1, <3>1, <5>1
      <4> QED BY <4>1
    <3>3. <<q, c>> \in corrupt' => t \in liars'
      BY <1>2, <3>1, <3>2
    <3> QED BY <1>1, <1>4, <3>1, <3>3
  <2> QED BY <2>1, <2>2
<1>11. \A q \in Pieces : \A l \in badlogs'[q] : \A t \in Peers :
          l.rec[t] \intersect l.wrong # {} => t \in liars'
  BY <1>2, <1>4 DEF Evidence
<1> QED BY <1>7, <1>8, <1>9, <1>10, <1>11 DEF Evidence

\* A piece counts as downloaded after its test.
LEMMA OkEvidence ==
    ASSUME IInv, Evidence, dl_on_ok_piece
    PROVE  Evidence'
<1>1. /\ Running("cm_test_piece") /\ UNCHANGED <<have, corrupt, logs, trust, liars>>
  BY DEF dl_on_ok_piece
<1>2. PICK pc \in Head(agenda).pcs : Wrong(pc) = {} /\ got' = got \union {pc}
  BY DEF dl_on_ok_piece
<1>3. pc \in Pieces /\ have[pc] = Blocks
  BY <1>1, TestedPiece
<1>4. \A b \in Blocks : <<pc, b>> \notin corrupt
  BY <1>2 DEF Wrong
<1>5. GotIsGood'
  BY <1>1, <1>2, <1>3, <1>4 DEF Evidence, GotIsGood
<1> QED BY <1>1, <1>5 DEF Evidence, OnlyLiarsBanned, logs, trust

\* The peer that sent all of a wrong piece is guilty; the log of several is
\* kept with the blocks that were wrong.
LEMMA BadEvidence ==
    ASSUME IInv, Evidence, dl_on_bad_piece
    PROVE  Evidence'
<1>1. Running("cm_test_piece") /\ got' = got /\ liars' = liars
  BY DEF dl_on_bad_piece
<1>2. PICK pc \in Head(agenda).pcs :
         /\ Wrong(pc) # {}
         /\ have' = [have EXCEPT ![pc] = {}]
         /\ corrupt' = {x \in corrupt : x[1] # pc}
         /\ log' = [log EXCEPT ![pc] = NoLog]
         /\ badlogs' = IF Sole(pc) # {} THEN badlogs
                       ELSE [badlogs EXCEPT ![pc] = @ \union
                               {[rec |-> log[pc], wrong |-> Wrong(pc)]}]
         /\ banned' = banned \union Sole(pc)
  BY DEF dl_on_bad_piece
<1>3. pc \in Pieces /\ have[pc] = Blocks /\ pc \notin got
  BY <1>1, TestedPiece
<1>4. /\ have \in [Pieces -> SUBSET Blocks] /\ log \in [Pieces -> [Peers -> SUBSET Blocks]]
      /\ got \in SUBSET Pieces /\ corrupt \in SUBSET (Pieces \X Blocks)
      /\ badlogs \in [Pieces -> SUBSET [rec : LogRec, wrong : SUBSET Blocks]]
  BY DEF IInv, TypeOK, LogRec
<1>5. /\ \A q \in Pieces : have'[q] = IF q = pc THEN {} ELSE have[q]
      /\ \A q \in Pieces : \A t \in Peers : log'[q][t] = IF q = pc THEN {} ELSE log[q][t]
  BY <1>2, <1>4 DEF NoLog
<1>6. \A b \in Wrong(pc) : b \in Blocks /\ <<pc, b>> \in corrupt
  BY DEF Wrong
<1>7. GotIsGood'
  <2> SUFFICES ASSUME NEW q \in got
               PROVE  have'[q] = Blocks /\ \A c \in Blocks : <<q, c>> \notin corrupt'
    BY <1>1 DEF GotIsGood
  <2>1. q \in Pieces /\ q # pc /\ have[q] = Blocks /\ \A c \in Blocks : <<q, c>> \notin corrupt
    BY <1>3, <1>4 DEF Evidence, GotIsGood
  <2> QED BY <1>2, <1>5, <2>1
<1>8. OnlyLiarsBanned'
  <2>1. ASSUME NEW p \in Sole(pc) PROVE p \in liars
    <3>1. p \in Peers /\ log[pc] = [NoLog EXCEPT ![p] = Blocks]
      BY DEF Sole
    <3>2. log[pc][p] = Blocks
      BY <3>1 DEF NoLog
    <3>3. PICK b \in Wrong(pc) : TRUE
      BY <1>2
    <3> QED BY <1>3, <1>6, <3>1, <3>2, <3>3 DEF Evidence
  <2> QED BY <1>1, <1>2, <2>1 DEF Evidence, OnlyLiarsBanned
<1>9. ASSUME NEW y \in corrupt' PROVE y[2] \in have'[y[1]]
  <2>1. y \in corrupt /\ y[1] # pc /\ y[1] \in Pieces /\ y[2] \in have[y[1]]
    BY <1>2, <1>4 DEF Evidence
  <2> QED BY <1>5, <2>1
<1>10. ASSUME NEW q \in Pieces, NEW t \in Peers, NEW c \in log'[q][t]
       PROVE  c \in have'[q] /\ (<<q, c>> \in corrupt' => t \in liars')
  <2>1. q # pc /\ c \in log[q][t]
    BY <1>5
  <2>2. c \in have[q] /\ (<<q, c>> \in corrupt => t \in liars)
    BY <2>1 DEF Evidence
  <2> QED BY <1>1, <1>2, <1>5, <2>1, <2>2
<1>11. ASSUME NEW q \in Pieces, NEW l \in badlogs'[q], NEW t \in Peers,
              l.rec[t] \intersect l.wrong # {}
       PROVE  t \in liars'
  <2>1. CASE l \in badlogs[q]
    BY <1>1, <1>11, <2>1 DEF Evidence
  <2>2. CASE l \notin badlogs[q]
    <3>1. q = pc /\ l = [rec |-> log[pc], wrong |-> Wrong(pc)]
      BY <1>2, <1>3, <1>4, <2>2
    <3>2. PICK b : b \in log[pc][t] /\ b \in Wrong(pc)
      BY <1>11, <3>1
    <3> QED BY <1>1, <1>3, <1>6, <3>2 DEF Evidence
  <2> QED BY <2>1, <2>2
<1> QED BY <1>7, <1>8, <1>9, <1>10, <1>11 DEF Evidence

\* The older logs of a good piece are judged.
LEMMA JudgeEvidence ==
    ASSUME IInv, Evidence, judge_logs
    PROVE  Evidence'
<1>1. /\ Running("judge_logs") /\ UNCHANGED <<got, have, corrupt, log, liars>>
  BY DEF judge_logs, content
<1>2. PICK pc \in Head(agenda).pcs :
         \/ UNCHANGED <<banned, badlogs>>
         \/ \E l \in badlogs[pc] :
              /\ banned' = banned \union {p \in Peers : l.rec[p] \intersect l.wrong # {}}
              /\ badlogs' = [badlogs EXCEPT ![pc] = @ \ {l}]
  BY DEF judge_logs
<1>3. CASE UNCHANGED <<banned, badlogs>>
  BY <1>1, <1>3, EvidenceFrozen DEF content, logs
<1>4. ASSUME NEW l \in badlogs[pc],
             banned' = banned \union {p \in Peers : l.rec[p] \intersect l.wrong # {}},
             badlogs' = [badlogs EXCEPT ![pc] = @ \ {l}]
      PROVE  Evidence'
  <2>1. pc \in Pieces
    <3>1. agenda # <<>>
      BY <1>1 DEF Running
    <3>2. Head(agenda).pcs \in SUBSET Pieces
      BY <3>1, HeadFrame DEF IInv
    <3> QED BY <3>2
  <2>2. badlogs \in [Pieces -> SUBSET [rec : LogRec, wrong : SUBSET Blocks]]
    BY DEF IInv, TypeOK
  <2>3. \A q \in Pieces : badlogs'[q] \subseteq badlogs[q]
    BY <1>4, <2>1, <2>2
  <2>4. OnlyLiarsBanned'
    BY <1>1, <1>4, <2>1 DEF Evidence, OnlyLiarsBanned
  <2>5. GotIsGood'
    BY <1>1 DEF Evidence, GotIsGood
  <2> QED BY <1>1, <2>3, <2>4, <2>5 DEF Evidence
<1> QED BY <1>2, <1>3, <1>4

\* The piece is released with its logs.
LEMMA FreeEvidence ==
    ASSUME IInv, Evidence, piece_free
    PROVE  Evidence'
<1>1. Running("piece_free") /\ UNCHANGED <<got, have, corrupt, banned, liars>>
  BY DEF piece_free, content, trust
<1>2. PICK pc \in Head(agenda).pcs : /\ log' = [log EXCEPT ![pc] = NoLog]
                                     /\ badlogs' = [badlogs EXCEPT ![pc] = {}]
  BY DEF piece_free
<1>3. /\ log \in [Pieces -> [Peers -> SUBSET Blocks]]
      /\ badlogs \in [Pieces -> SUBSET [rec : LogRec, wrong : SUBSET Blocks]]
  BY DEF IInv, TypeOK, LogRec
<1>4. /\ \A q \in Pieces : \A t \in Peers : log'[q][t] \subseteq log[q][t]
      /\ \A q \in Pieces : badlogs'[q] \subseteq badlogs[q]
  BY <1>2, <1>3 DEF NoLog
<1>5. GotIsGood' /\ OnlyLiarsBanned'
  BY <1>1 DEF Evidence, GotIsGood, OnlyLiarsBanned
<1> QED BY <1>1, <1>4, <1>5 DEF Evidence

LEMMA EvidenceStep == IInv /\ Evidence /\ [Next]_vars => Evidence'
<1> SUFFICES ASSUME IInv, Evidence, [Next]_vars PROVE Evidence'
  OBVIOUS
<1>1. CASE Messages
  <2>1. PICK p \in Peers :
        \/ peer_on_shake(p) \/ net_refuse(p) \/ peer_kill(p)
        \/ peer_on_choke(p) \/ peer_on_unchoke(p)
        \/ \E pc \in Pieces : peer_on_have(p, pc)
        \/ \E f \in SUBSET Pieces : peer_on_bitfield(p, f)
        \/ \E x \in reqs[p], isbad \in {FALSE, BadData} :
                peer_on_piece(p, x[1], x[2], isbad)
    BY <1>1 DEF Messages
  <2>2. ASSUME NEW x \in reqs[p], NEW isbad \in {FALSE, BadData},
               peer_on_piece(p, x[1], x[2], isbad)
        PROVE  Evidence'
    <3>1. isbad \in BOOLEAN
      BY DownloadAssumption
    <3> QED BY <2>2, <3>1, PieceEvidence
  <2>3. CASE peer_on_shake(p) \/ peer_kill(p) \/ peer_on_choke(p) \/ peer_on_unchoke(p)
    BY <2>3, EvidenceFrozen DEF peer_on_shake, peer_kill, peer_on_choke, peer_on_unchoke, trust
  <2>4. CASE net_refuse(p)
    BY <2>4, EvidenceFrozen DEF net_refuse, vars, trust
  <2>5. ASSUME NEW pc \in Pieces, peer_on_have(p, pc) PROVE Evidence'
    BY <2>5, EvidenceFrozen DEF peer_on_have, trust
  <2>6. ASSUME NEW f \in SUBSET Pieces, peer_on_bitfield(p, f) PROVE Evidence'
    BY <2>6, EvidenceFrozen DEF peer_on_bitfield, trust
  <2> QED BY <2>1, <2>2, <2>3, <2>4, <2>5, <2>6
<1>2. CASE Calls
  <2>1. CASE peer_on_bitfield_loop \/ dl_on_piece_ann \/ dl_on_download \/ dl_assign_requests
    BY <2>1, EvidenceFrozen DEF peer_on_bitfield_loop, dl_on_piece_ann, dl_on_download,
       dl_assign_requests, trust
  <2>2. CASE assign_loop \/ dl_piece_assign_requests \/ dl_on_piece_full \/ dl_enter_endgame
    BY <2>2, EvidenceFrozen DEF assign_loop, dl_piece_assign_requests, dl_on_piece_full,
       dl_enter_endgame, trust
  <2>3. CASE dl_assign_requests_eg \/ dl_unassign_requests \/ dl_unassign_requests_eg
    BY <2>3, EvidenceFrozen DEF dl_assign_requests_eg, dl_unassign_requests,
       dl_unassign_requests_eg, trust
  <2>4. CASE dl_on_piece_unfull \/ unfull_loop \/ piece_log_good \/ peer_free
    BY <2>4, EvidenceFrozen DEF dl_on_piece_unfull, unfull_loop, piece_log_good, peer_free, trust
  <2> QED
    BY <1>2, <2>1, <2>2, <2>3, <2>4, OkEvidence, BadEvidence, JudgeEvidence, FreeEvidence DEF Calls
<1>3. CASE UNCHANGED vars
  BY <1>3, EvidenceFrozen DEF vars, trust
<1> QED BY <1>1, <1>2, <1>3 DEF Next

LEMMA EvidenceInvariance == Spec => []Evidence
BY EvidenceInit, EvidenceStep, Invariance, PTL DEF Spec

\* A piece that cm_test_piece has accepted is complete and right, and stays so:
\* no answer to an old request, in end game or not, overwrites a block of it.
THEOREM GoodCorrect == Spec => []GotIsGood
<1>1. Evidence => GotIsGood
  BY DEF Evidence
<1> QED
  BY <1>1, EvidenceInvariance, PTL

\* However many peers contributed to however many bad versions of a piece, and
\* even if they left meanwhile: piece_log_bad and piece_log_good ban only those
\* that did send a corrupt block.
THEOREM BansCorrect == Spec => []OnlyLiarsBanned
<1>1. Evidence => OnlyLiarsBanned
  BY DEF Evidence
<1> QED
  BY <1>1, EvidenceInvariance, PTL

------------------------------------------------------------------------------
(***************************************************************************)
(* Honest peers.  The invariant describes the call stack: which call may   *)
(* wait below which (Stacked), what each one will find (FramesOk), what    *)
(* the tables owe to calls not made yet (Links, Saturated), and from it    *)
(* the counts and flags of peer_want and peer_unwant.                      *)
(***************************************************************************)

\* The members of a sequence.
Elems(s) == {s[i] : i \in 1..Len(s)}

\* The calls on the stack, and the ones below the call being made.
Frames == Elems(agenda)
Rest == Elems(Tail(agenda))

\* f is above g on the call stack only in the combinations the call graph of
\* download.c, download_subr.c and peer.c allows.
Below(f, g) ==
    \/ /\ f.fn = "dl_on_piece_ann"
       /\ g.fn = "peer_on_bitfield" /\ g.ps = f.ps
    \/ /\ f.fn \in {"dl_piece_assign_requests", "dl_on_piece_full"}
       /\ \/ g.fn \in {"assign_loop", "dl_unassign_requests", "peer_free"}
          \/ g.fn = "unfull_loop" /\ g.pcs = f.pcs
    \/ /\ f.fn = "dl_enter_endgame"
       /\ g.fn \in {"assign_loop", "peer_free"}
    \/ /\ f.fn = "dl_assign_requests_eg"
       /\ g.fn \in {"assign_loop", "cm_test_piece", "peer_free"}
    \/ /\ f.fn \in {"dl_on_piece_unfull", "unfull_loop"}
       /\ g.fn \in {"dl_unassign_requests", "peer_free"}
    \/ /\ f.fn \in {"dl_unassign_requests", "dl_unassign_requests_eg"}
       /\ g.fn = "peer_free"
    \/ /\ f.fn = "piece_log_good"
       /\ g.fn \in {"judge_logs", "piece_free", "dl_assign_requests"}
    \/ /\ f.fn = "judge_logs"
       /\ g.fn \in {"piece_free", "dl_assign_requests"}
    \/ /\ f.fn \in {"cm_test_piece", "piece_free"}
       /\ g.fn = "dl_assign_requests"

\* Every two calls of a sequence are in such a combination.
Ordered(s) == \A i, j \in 1..Len(s) : i < j => Below(s[i], s[j])
Stacked == Ordered(agenda)

\* The calls that bring nwant up to date: until they are made Wanted makes up
\* for them.
DueFns == {"dl_on_piece_ann", "dl_on_piece_full", "dl_on_piece_unfull"}

\* No corrupt data, and hence no marks, logs or bans.
Clean == /\ corrupt = {} /\ banned = {} /\ suspect = {}
         /\ \A p \in Peers : bad[p] = {}
         /\ \A pc \in Pieces : badlogs[pc] = {}

\* The piece has a block nobody was asked for (outside end game).
OpenPiece(pc) == pc \notin got /\ (pc \notin busy \/ ~piece_full(pc))

\* What each pending call finds when its turn comes: the asserts() at the top
\* of the functions, and what their callers have tested.  It holds while the
\* call waits, whatever the calls above it do.
CallOk(f) ==
    /\ f.fn = "peer_on_bitfield" =>
         \E p \in peers \intersect pchoke :
             f.ps = {p} /\ f.pcs = field[p] \ ann[p] /\ f.pcs # {}
    /\ f.fn = "dl_on_piece_ann" =>
         \E p \in peers : \E pc \in ann[p] : f.ps = {p} /\ f.pcs = {pc}
    /\ f.fn \in {"dl_on_download", "dl_assign_requests", "assign_loop"} =>
         \E p \in peers : f.ps = {p}
    /\ f.fn = "dl_assign_requests" => ~endgame
    /\ f.fn = "assign_loop" => f.pcs = {} /\ \A p \in f.ps : p \notin pchoke
    /\ f.fn = "dl_piece_assign_requests" =>
         \E p \in peers \ pchoke : \E pc \in field[p] \ got :
             /\ f.ps = {p} /\ f.pcs = {pc} /\ ~endgame
             /\ p \in iwant /\ ~peer_laden(p) /\ ~piece_full(pc)
    /\ f.fn = "dl_on_piece_full" =>
         \E pc \in busy \ got : f.pcs = {pc} /\ piece_full(pc) /\ ~endgame
    /\ f.fn = "dl_enter_endgame" =>
         ~endgame /\ \A pc \in Pieces : ~OpenPiece(pc)
    /\ f.fn \in {"dl_assign_requests_eg", "unfull_loop"} => f.ps \subseteq peers
    /\ f.fn \in {"dl_unassign_requests", "dl_unassign_requests_eg"} =>
         \E p \in (Peers \ peers) \union pchoke : f.ps = {p}
    /\ f.fn = "dl_unassign_requests" => ~endgame /\ f.pcs = {}
    /\ f.fn \in {"dl_on_piece_unfull", "unfull_loop"} =>
         \E pc \in busy \ got : f.pcs = {pc} /\ ~endgame
    /\ f.fn = "dl_on_piece_unfull" => \A pc \in f.pcs : ~piece_full(pc)
    /\ f.fn = "cm_test_piece" => \E pc \in busy : f.pcs = {pc}
    /\ f.fn \in {"piece_log_good", "judge_logs", "piece_free"} =>
         \E pc \in Pieces : f.pcs = {pc} /\ got \intersect busy = {pc}
    /\ f.fn = "peer_free" => f.pcs = {} /\ \E p \in Peers \ peers : f.ps = {p}

\* One of these calls is still to be made for p.
Pending(fns, p) == \E f \in Frames : f.fn \in fns /\ p \in f.ps

\* What the tables say of each other, up to the calls that will repair them:
\* the announced pieces are the copied field, a detached peer has nothing, end
\* game has started every piece, a complete piece is downloaded or in the
\* getlst, and a downloaded piece leaves the getlst.
Links ==
    /\ \A p \in Peers : ann[p] \subseteq field[p]
    /\ \A p \in Peers : field[p] = ann[p] \/ Pending({"peer_on_bitfield"}, p)
    /\ \A p \in Peers \ peers :
         (field[p] = {} /\ nwant[p] = 0) \/ Pending({"peer_free"}, p)
    /\ \A p \in Peers \ peers :
         reqs[p] = {} \/ Pending({"dl_unassign_requests",
                                  "dl_unassign_requests_eg"}, p)
    /\ endgame => got \union busy = Pieces
    /\ \A pc \in Pieces \ (got \union busy) : have[pc] # Blocks
    /\ got \intersect busy = {} \/ \E f \in Frames : f.fn = "piece_free"

\* Requests are being taken back from a peer that choked us or was lost.
Detached == \E f \in Frames :
    f.fn \in {"dl_unassign_requests", "dl_on_piece_unfull", "unfull_loop"}

\* Outside end game some piece is open, unless everything is downloaded or the
\* next call goes into end game.  While requests are being taken back there is
\* an open piece other than the one at hand: filling that one again does not
\* lead into end game.
Saturated == ~endgame =>
    \/ got = Pieces
    \/ /\ NextCall("dl_on_piece_full") \/ NextCall("dl_enter_endgame")
       /\ ~Detached
    \/ \E pc \in Pieces :
          OpenPiece(pc) /\ (Detached => pc \notin Head(agenda).pcs)

\* nwant counts the wanted pieces.
Counts == \A p \in peers : nwant[p] = Cardinality(Wanted(p))

\* PF_I_WANT, the interest told to the peer and PF_DO_UNWANT follow from nwant
\* and the requests.
Flags == \A p \in Peers :
    /\ p \in iwant <=> nwant[p] > 0
    /\ p \in interest <=> nwant[p] > 0 \/ reqs[p] # {}
    /\ p \in dounwant <=> nwant[p] = 0 /\ reqs[p] # {}

\* Every pending call finds what it relies on.
FramesOk == \A f \in Frames : CallOk(f)

\* The inductive invariant for honest peers.
HInv == /\ ~aborted /\ Clean /\ Stacked /\ FramesOk /\ Links /\ Saturated
        /\ Counts /\ Flags

\* A peer that could be asked is on its way to be asked: in end game by the
\* next call or it owes us all it can serve; outside end game by a pending call
\* of the dl_assign_requests family, or because the one piece it is wanted for
\* has just become full, or the loop after dl_on_piece_unfull has still to
\* reach it.
Served == \A p \in peers : peer_leech_ok(p) =>
    IF endgame
    THEN \/ /\ NextCall("dl_assign_requests_eg") \/ NextCall("dl_on_download")
            /\ p \in Head(agenda).ps
         \/ \A pc \in ann[p] \ (got \union AnnDue(p)) :
                \A b \in Blocks \ have[pc] : <<pc, b>> \in reqs[p]
    ELSE \/ Pending({"dl_on_download", "dl_assign_requests", "assign_loop"}, p)
         \/ /\ \/ NextCall("dl_on_piece_full")
               \/ /\ \/ NextCall("unfull_loop")
                     \/ NextCall("dl_piece_assign_requests")
                  /\ Pending({"unfull_loop", "dl_piece_assign_requests"}, p)
            /\ Wanted(p) = Head(agenda).pcs

------------------------------------------------------------------------------
(* The stack of pending calls *)

\* A single call is ordered.
LEMMA OrderedOne ==
    ASSUME NEW f \in Frame
    PROVE  /\ <<f>> \in Seq(Frame) /\ <<f>> # <<>>
           /\ Ordered(<<f>>) /\ Elems(<<f>>) = {f} /\ Head(<<f>>) = f
<1>1. Len(<<f>>) = 1 /\ <<f>>[1] = f /\ <<f>> \in Seq(Frame)
  OBVIOUS
<1>2. \A i \in 1..Len(<<f>>) : i = 1
  BY <1>1
<1>3. Ordered(<<f>>)
  BY <1>1, <1>2 DEF Ordered
<1>4. Elems(<<f>>) = {f}
  BY <1>1, <1>2 DEF Elems
<1> QED
  BY <1>1, <1>3, <1>4

\* So is no call.
LEMMA OrderedNone == <<>> \in Seq(Frame) /\ Ordered(<<>>) /\ Elems(<<>>) = {}
<1>1. Len(<<>>) = 0 /\ 1..0 = {}
  OBVIOUS
<1> QED
  BY <1>1 DEF Ordered, Elems

\* Two ordered sequences one above the other.
LEMMA OrderedConcat ==
    ASSUME NEW s \in Seq(Frame), NEW t \in Seq(Frame), Ordered(s), Ordered(t),
           \A f \in Elems(s), g \in Elems(t) : Below(f, g)
    PROVE  /\ s \o t \in Seq(Frame) /\ Ordered(s \o t)
           /\ Elems(s \o t) = Elems(s) \union Elems(t)
<1> DEFINE u == s \o t
<1>1. u \in Seq(Frame) /\ Len(u) = Len(s) + Len(t)
  BY Concat
<1>2. \A i \in 1..Len(u) : u[i] = IF i <= Len(s) THEN s[i] ELSE t[i - Len(s)]
  BY Concat
<1> HIDE DEF u
<1>3. Len(s) \in Nat /\ Len(t) \in Nat
  OBVIOUS
<1>4. \A i \in 1..Len(s) : i \in 1..Len(u) /\ u[i] = s[i] /\ s[i] \in Elems(s)
  BY <1>1, <1>2, <1>3 DEF Elems
<1>5. \A i \in 1..Len(t) : i + Len(s) \in 1..Len(u) /\ u[i + Len(s)] = t[i]
  <2> SUFFICES ASSUME NEW i \in 1..Len(t)
               PROVE  i + Len(s) \in 1..Len(u) /\ u[i + Len(s)] = t[i]
    OBVIOUS
  <2>1. /\ i + Len(s) \in 1..Len(u) /\ ~(i + Len(s) <= Len(s))
        /\ (i + Len(s)) - Len(s) = i
    BY <1>1, <1>3
  <2> QED
    BY <1>2, <2>1
<1>6. \A i \in 1..Len(u) :
        \/ i \in 1..Len(s) /\ u[i] = s[i] /\ s[i] \in Elems(s)
        \/ /\ i > Len(s) /\ i - Len(s) \in 1..Len(t) /\ u[i] = t[i - Len(s)]
           /\ t[i - Len(s)] \in Elems(t)
  BY <1>1, <1>2, <1>3 DEF Elems
<1>7. Ordered(u)
  <2> SUFFICES ASSUME NEW i \in 1..Len(u), NEW j \in 1..Len(u), i < j
               PROVE  Below(u[i], u[j])
    BY DEF Ordered
  <2>1. CASE j \in 1..Len(s) /\ u[j] = s[j]
    BY <1>3, <1>6, <2>1 DEF Ordered
  <2>2. CASE ~(j \in 1..Len(s))
    <3>1. j - Len(s) \in 1..Len(t) /\ u[j] = t[j - Len(s)]
          /\ t[j - Len(s)] \in Elems(t)
      BY <1>6, <2>2
    <3>2. CASE i \in 1..Len(s) /\ u[i] = s[i] /\ s[i] \in Elems(s)
      BY <3>1, <3>2
    <3>3. CASE i > Len(s) /\ i - Len(s) \in 1..Len(t) /\ u[i] = t[i - Len(s)]
      <4>1. i - Len(s) < j - Len(s)
        BY <1>3
      <4> QED
        BY <3>1, <3>3, <4>1 DEF Ordered
    <3> QED
      BY <1>6, <3>2, <3>3
  <2> QED
    BY <1>6, <2>1, <2>2
<1>8. Elems(u) = Elems(s) \union Elems(t)
  <2>1. ASSUME NEW f \in Elems(u)
        PROVE  f \in Elems(s) \union Elems(t)
    BY <1>6 DEF Elems
  <2>2. ASSUME NEW f \in Elems(s)
        PROVE  f \in Elems(u)
    <3>1. PICK i \in 1..Len(s) : f = s[i]
      BY DEF Elems
    <3> QED
      BY <1>4, <3>1 DEF Elems
  <2>3. ASSUME NEW f \in Elems(t)
        PROVE  f \in Elems(u)
    <3>1. PICK i \in 1..Len(t) : f = t[i]
      BY DEF Elems
    <3>2. i + Len(s) \in 1..Len(u) /\ u[i + Len(s)] = f
      BY <1>5, <3>1
    <3> QED
      BY <3>2 DEF Elems
  <2> QED
    BY <2>1, <2>2, <2>3
<1> QED
  BY <1>1, <1>7, <1>8 DEF u

\* The first call of an ordered sequence is above all others.
LEMMA OrderedTail ==
    ASSUME NEW s \in Seq(Frame), s # <<>>, Ordered(s)
    PROVE  /\ Tail(s) \in Seq(Frame) /\ Ordered(Tail(s))
           /\ Head(s) \in Frame /\ Elems(Tail(s)) \subseteq Frame
           /\ Elems(s) = {Head(s)} \union Elems(Tail(s))
           /\ \A g \in Elems(Tail(s)) : Below(Head(s), g)
           /\ Tail(s) = <<>> \/ Head(Tail(s)) \in Elems(Tail(s))
<1> DEFINE t == Tail(s)
<1>1. /\ t \in Seq(Frame) /\ Len(s) \in Nat /\ Len(t) = Len(s) - 1
      /\ \A i \in 1..Len(t) : t[i] = s[i + 1]
      /\ Head(s) = s[1] /\ 1 \in 1..Len(s)
      /\ t = <<>> \/ (1 \in 1..Len(t) /\ Head(t) = t[1])
  OBVIOUS
<1> HIDE DEF t
<1>2. \A i \in 1..Len(t) : i + 1 \in 1..Len(s) /\ i + 1 > 1 /\ t[i] \in Frame
  BY <1>1
<1>3. \A i \in 1..Len(s) : i = 1 \/ (i - 1 \in 1..Len(t) /\ s[i] = t[i - 1])
  BY <1>1
<1>4. Elems(s) = {Head(s)} \union Elems(t)
  BY <1>1, <1>2, <1>3 DEF Elems
<1>5. Ordered(t)
  <2> SUFFICES ASSUME NEW i \in 1..Len(t), NEW j \in 1..Len(t), i < j
               PROVE  Below(t[i], t[j])
    BY DEF Ordered
  <2>1. i + 1 \in 1..Len(s) /\ j + 1 \in 1..Len(s) /\ i + 1 < j + 1
    BY <1>1
  <2>2. t[i] = s[i + 1] /\ t[j] = s[j + 1]
    BY <1>1
  <2> QED
    BY <2>1, <2>2 DEF Ordered
<1>6. \A g \in Elems(t) : Below(Head(s), g)
  BY <1>1, <1>2 DEF Elems, Ordered
<1>7. Head(s) \in Frame
  BY <1>1
<1>8. Elems(t) \subseteq Frame
  BY <1>2 DEF Elems
<1>9. t = <<>> \/ Head(t) \in Elems(t)
  BY <1>1 DEF Elems
<1> QED
  BY <1>1, <1>4, <1>5, <1>6, <1>7, <1>8, <1>9 DEF t

\* What the invariant says of the call being made and the ones below it.
LEMMA Top ==
    ASSUME agenda \in Seq(Frame), agenda # <<>>, Stacked
    PROVE  /\ Head(agenda) \in Frame /\ Rest \subseteq Frame
           /\ Frames = {Head(agenda)} \union Rest
           /\ \A g \in Rest : Below(Head(agenda), g)
BY OrderedTail DEF Stacked, Frames, Rest

\* A call that makes no further calls uncovers the one below it.
LEMMA Pop ==
    ASSUME agenda \in Seq(Frame), agenda # <<>>, Stacked, Then(<<>>)
    PROVE  /\ Stacked' /\ Frames' = Rest
           /\ agenda' = <<>> \/ Head(agenda') \in Rest
<1> DEFINE t == Tail(agenda)
<1>1. /\ t \in Seq(Frame) /\ Ordered(t)
      /\ t = <<>> \/ Head(t) \in Elems(t)
  BY OrderedTail DEF Stacked
<1>2. <<>> \o t = t
  BY <1>1
<1>3. agenda' = t
  BY <1>2 DEF Then
<1>4. Rest = Elems(t)
  BY DEF Rest
<1> HIDE DEF t
<1>5. Stacked' /\ Frames' = Elems(t)
  BY <1>1, <1>3 DEF Stacked, Frames, Ordered, Elems
<1> QED
  BY <1>1, <1>3, <1>4, <1>5

\* The calls s are made instead of the call at the head.
LEMMA Push ==
    ASSUME agenda \in Seq(Frame), agenda # <<>>, Stacked,
           NEW s \in Seq(Frame), s # <<>>, Ordered(s), Then(s),
           \A f \in Elems(s), g \in Rest : Below(f, g)
    PROVE  /\ Stacked' /\ Frames' = Elems(s) \union Rest
           /\ agenda' # <<>> /\ Head(agenda') = Head(s)
<1> DEFINE t == Tail(agenda)
<1>1. t \in Seq(Frame) /\ Ordered(t)
  BY OrderedTail DEF Stacked
<1>2. Rest = Elems(t)
  BY DEF Rest
<1>3. agenda' = s \o t
  BY DEF Then
<1> HIDE DEF t
<1> DEFINE u == s \o t
<1>4. u \in Seq(Frame) /\ Ordered(u) /\ Elems(u) = Elems(s) \union Elems(t)
  BY <1>1, <1>2, OrderedConcat
<1>5. u # <<>> /\ Head(u) = Head(s)
  <2>1. Len(u) = Len(s) + Len(t) /\ Len(s) \in Nat /\ Len(t) \in Nat
        /\ Len(s) > 0
    BY <1>1, Concat
  <2>2. 1 \in 1..Len(u) /\ 1 <= Len(s)
    BY <2>1
  <2>3. u[1] = s[1]
    BY <1>1, <2>2, Concat
  <2>4. Head(s) = s[1]
    BY <2>1
  <2> HIDE DEF u
  <2>5. u # <<>> /\ Head(u) = u[1]
    BY <1>4, <2>1
  <2> QED
    BY <2>3, <2>4, <2>5
<1> HIDE DEF u
<1>6. agenda' = u
  BY <1>3 DEF u
<1>7. Stacked' /\ Frames' = Elems(u)
  BY <1>4, <1>6 DEF Stacked, Frames, Ordered, Elems
<1> QED
  BY <1>2, <1>4, <1>5, <1>6, <1>7

\* The same for one call.
LEMMA Push1 ==
    ASSUME agenda \in Seq(Frame), agenda # <<>>, Stacked,
           NEW f \in Frame, Then(<<f>>), \A g \in Rest : Below(f, g)
    PROVE  /\ Stacked' /\ Frames' = {f} \union Rest
           /\ agenda' # <<>> /\ Head(agenda') = f
<1> DEFINE s == <<f>>
<1>1. /\ s \in Seq(Frame) /\ s # <<>> /\ Ordered(s) /\ Elems(s) = {f}
      /\ Head(s) = f /\ Then(s)
  BY OrderedOne
<1> HIDE DEF s
<1> QED
  BY <1>1, Push

\* Two calls in a row.
LEMMA OrderedTwo ==
    ASSUME NEW f \in Frame, NEW g \in Frame, Below(f, g)
    PROVE  LET s == <<f>> \o <<g>> IN
           /\ s \in Seq(Frame) /\ s # <<>> /\ Ordered(s) /\ Elems(s) = {f, g}
           /\ Head(s) = f
<1> DEFINE a == <<f>>
           b == <<g>>
<1>1. /\ a \in Seq(Frame) /\ Ordered(a) /\ Elems(a) = {f}
      /\ b \in Seq(Frame) /\ Ordered(b) /\ Elems(b) = {g}
  BY OrderedOne
<1>2. Len(a) = 1 /\ a[1] = f /\ Len(b) = 1
  OBVIOUS
<1> HIDE DEF a, b
<1> DEFINE s == a \o b
<1>3. s \in Seq(Frame) /\ Ordered(s) /\ Elems(s) = {f} \union {g}
  BY <1>1, OrderedConcat
<1>4. Len(s) = 2 /\ s[1] = f
  BY <1>1, <1>2, Concat
<1> HIDE DEF s
<1>5. s # <<>>
  BY <1>4
<1>6. Head(s) = s[1]
  BY <1>3, <1>5
<1> QED
  BY <1>3, <1>4, <1>5, <1>6 DEF s, a, b

\* The same for two calls.
LEMMA Push2 ==
    ASSUME agenda \in Seq(Frame), agenda # <<>>, Stacked,
           NEW f \in Frame, NEW g \in Frame, Then(<<f>> \o <<g>>), Below(f, g),
           \A h \in Rest : Below(f, h) /\ Below(g, h)
    PROVE  /\ Stacked' /\ Frames' = {f, g} \union Rest
           /\ agenda' # <<>> /\ Head(agenda') = f
<1> DEFINE s == <<f>> \o <<g>>
<1>1. /\ s \in Seq(Frame) /\ s # <<>> /\ Ordered(s) /\ Elems(s) = {f, g}
      /\ Head(s) = f /\ Then(s)
  BY OrderedTwo
<1> HIDE DEF s
<1> QED
  BY <1>1, Push

\* The agenda of a message handler: at most two calls.
LEMMA Start0 == agenda' = <<>> => Stacked' /\ Frames' = {}
BY OrderedNone DEF Stacked, Frames, Ordered, Elems

\* One call.
LEMMA Start1 ==
    ASSUME NEW f \in Frame, agenda' = <<f>>
    PROVE  /\ Stacked' /\ Frames' = {f} /\ agenda' # <<>> /\ Head(agenda') = f
<1> DEFINE s == <<f>>
<1>1. s # <<>> /\ Ordered(s) /\ Elems(s) = {f} /\ Head(s) = f /\ agenda' = s
  BY OrderedOne
<1> HIDE DEF s
<1> QED
  BY <1>1 DEF Stacked, Frames, Ordered, Elems

\* Two calls.
LEMMA Start2 ==
    ASSUME NEW f \in Frame, NEW g \in Frame, Below(f, g),
           agenda' = <<f>> \o <<g>>
    PROVE  /\ Stacked' /\ Frames' = {f, g} /\ agenda' # <<>>
           /\ Head(agenda') = f
<1> DEFINE s == <<f>> \o <<g>>
<1>1. s # <<>> /\ Ordered(s) /\ Elems(s) = {f, g} /\ Head(s) = f /\ agenda' = s
  BY OrderedTwo
<1> HIDE DEF s
<1> QED
  BY <1>1 DEF Stacked, Frames, Ordered, Elems

------------------------------------------------------------------------------
(* What a step keeps *)

\* A pending call finds the same as long as the state it looks at is the same.
\* dl_piece_assign_requests is only made at once.
LEMMA KeptCalls ==
    ASSUME FramesOk, NEW g \in Frames, g.fn # "dl_piece_assign_requests",
           UNCHANGED <<peers, pchoke, field, ann, endgame, have, down, busy,
                       got>>
    PROVE  CallOk(g)'
<1>1. CallOk(g)
  BY DEF FramesOk
<1> QED
  BY <1>1 DEF CallOk, OpenPiece, piece_full

\* The calls that repair Links.
LinkFns == {"peer_on_bitfield", "peer_free", "dl_unassign_requests",
            "dl_unassign_requests_eg", "piece_free"}

\* Links is kept by a step that makes no call of that kind.
LEMMA KeptLinks ==
    ASSUME Links, Frames = {Head(agenda)} \union Rest, Rest \subseteq Frames',
           Head(agenda).fn \notin LinkFns,
           UNCHANGED <<peers, field, ann, endgame, reqs, have, busy, got>>,
           \A p \in Peers \ peers : nwant'[p] = nwant[p]
    PROVE  Links'
<1>1. \A f \in Frames : f.fn \in LinkFns => f \in Frames'
  OBVIOUS
<1>2. ASSUME NEW fns \in SUBSET LinkFns, NEW p
      PROVE  Pending(fns, p) => Pending(fns, p)'
  BY <1>1 DEF Pending
<1>3. \A p : Pending({"peer_on_bitfield"}, p) =>
                Pending({"peer_on_bitfield"}, p)'
  BY <1>2 DEF LinkFns
<1>4. \A p : Pending({"peer_free"}, p) => Pending({"peer_free"}, p)'
  BY <1>2 DEF LinkFns
<1>5. \A p : Pending({"dl_unassign_requests", "dl_unassign_requests_eg"}, p) =>
             Pending({"dl_unassign_requests", "dl_unassign_requests_eg"}, p)'
  BY <1>2 DEF LinkFns
<1>6. (\E f \in Frames : f.fn = "piece_free") =>
         \E f \in Frames' : f.fn = "piece_free"
  BY <1>1 DEF LinkFns
<1> QED
  BY <1>3, <1>4, <1>5, <1>6 DEF Links

\* An open piece stays open when content and requests do not change.
LEMMA KeptOpen ==
    ASSUME Saturated,
           ~NextCall("dl_on_piece_full"), ~NextCall("dl_enter_endgame"),
           UNCHANGED <<endgame, have, down, busy, got>>,
           Detached' => /\ Detached
                        /\ Head(agenda').pcs \subseteq Head(agenda).pcs
    PROVE  Saturated'
BY DEF Saturated, OpenPiece, piece_full

\* Neither does what is wanted of a peer.
LEMMA KeptWanted ==
    ASSUME UNCHANGED <<ann, endgame, have, down, got>>, Clean, Clean',
           agenda = <<>> \/ Head(agenda).fn \notin DueFns,
           agenda' = <<>> \/ Head(agenda').fn \notin DueFns,
           NEW p \in Peers
    PROVE  Wanted(p)' = Wanted(p)
<1>1. AnnDue(p) = {} /\ Due("dl_on_piece_full") = {}
      /\ Due("dl_on_piece_unfull") = {}
  BY DEF AnnDue, Due, NextCall, DueFns
<1>2. AnnDue(p)' = {} /\ Due("dl_on_piece_full")' = {}
      /\ Due("dl_on_piece_unfull")' = {}
  BY DEF AnnDue, Due, NextCall, DueFns
<1>3. bad[p] = {} /\ bad'[p] = {}
  BY DEF Clean
<1> QED
  BY <1>1, <1>2, <1>3 DEF Wanted, piece_full

\* Nor how much.
LEMMA KeptCounts ==
    ASSUME UNCHANGED <<ann, endgame, have, down, got>>, Clean, Clean', TypeOK,
           agenda = <<>> \/ Head(agenda).fn \notin DueFns,
           agenda' = <<>> \/ Head(agenda').fn \notin DueFns,
           Counts, peers' \subseteq peers, nwant' = nwant
    PROVE  Counts'
<1>1. \A p \in peers' : Wanted(p)' = Wanted(p)
  BY KeptWanted DEF TypeOK
<1> QED
  BY <1>1 DEF Counts

\* The flags stay as they are with the counts and the requests.
LEMMA KeptFlags ==
    ASSUME Flags, UNCHANGED <<wants, reqs>>
    PROVE  Flags'
BY DEF Flags, wants

\* A call that only makes other calls keeps the invariant if these find what
\* they rely on.
LEMMA QuietStep ==
    ASSUME IInv, HInv, agenda # <<>>, Stacked', ~aborted', Clean',
           UNCHANGED <<peers, pchoke, field, ann, endgame, reqs, have, down,
                       busy, got>>,
           UNCHANGED wants,
           Rest \subseteq Frames',
           \A f \in Frames' : f \in Rest \/ CallOk(f)',
           Head(agenda).fn \in {"dl_on_download", "dl_assign_requests",
                   "assign_loop", "unfull_loop", "judge_logs", "piece_log_good",
                   "dl_assign_requests_eg"},
           agenda' = <<>> \/ Head(agenda').fn \notin DueFns,
           Detached' => /\ Detached
                        /\ Head(agenda').pcs \subseteq Head(agenda).pcs
    PROVE  HInv'
<1>1. /\ Frames = {Head(agenda)} \union Rest
      /\ \A g \in Rest : Below(Head(agenda), g)
  BY Top DEF IInv, TypeOK, HInv
<1>2. \A g \in Rest : g.fn # "dl_piece_assign_requests"
  BY <1>1 DEF Below
<1>3. \A g \in Rest : CallOk(g)'
  BY <1>1, <1>2, KeptCalls DEF HInv
<1>4. FramesOk'
  BY <1>3 DEF FramesOk
<1>5. nwant' = nwant
  BY DEF wants
<1>6. Links'
  BY <1>1, <1>5, KeptLinks DEF HInv, LinkFns
<1>7. Saturated'
  BY KeptOpen DEF HInv, NextCall
<1>8. Counts'
  BY <1>5, KeptCounts DEF HInv, IInv, DueFns
<1>9. Flags'
  BY KeptFlags DEF HInv
<1> QED
  BY <1>4, <1>6, <1>7, <1>8, <1>9 DEF HInv

------------------------------------------------------------------------------
(* Correct data *)

\* Peers send correct blocks, and their bitfield before they unchoke us.
Honest == ~BadData /\ ~LateBitfield

\* What the invariant says of the call being made.
LEMMA TopOk ==
    ASSUME IInv, HInv, agenda # <<>>
    PROVE  /\ agenda \in Seq(Frame) /\ Head(agenda) \in Frame
           /\ Head(agenda).ps \in SUBSET Peers
           /\ Head(agenda).pcs \in SUBSET Pieces
           /\ Rest \subseteq Frame /\ Frames = {Head(agenda)} \union Rest
           /\ \A g \in Rest : Below(Head(agenda), g) /\ CallOk(g)
           /\ CallOk(Head(agenda)) /\ Stacked
<1>1. agenda \in Seq(Frame) /\ Stacked
  BY DEF IInv, TypeOK, HInv
<1>2. /\ Head(agenda) \in Frame /\ Rest \subseteq Frame
      /\ Frames = {Head(agenda)} \union Rest
      /\ \A g \in Rest : Below(Head(agenda), g)
  BY <1>1, Top
<1>3. Head(agenda).ps \in SUBSET Peers /\ Head(agenda).pcs \in SUBSET Pieces
  BY <1>2 DEF Frame
<1> QED
  BY <1>1, <1>2, <1>3 DEF HInv, FramesOk

\* With correct data the hash of a complete piece is right.
LEMMA GoodNews ==
    ASSUME IInv, Clean, Running("cm_test_piece"), dl_on_bad_piece
    PROVE  FALSE
BY DEF dl_on_bad_piece, Clean, Wrong

\* Correct data stays correct, and nobody is marked, suspected or banned.
LEMMA CleanStep ==
    ASSUME IInv, Clean, ~BadData, Next, ~aborted
    PROVE  Clean'
<1> USE DEF Clean
<1>1. ASSUME UNCHANGED <<content, logs, trust>> PROVE Clean'
  BY <1>1 DEF content, logs, trust
<1>2. ASSUME Messages PROVE Clean'
  <2>1. PICK p \in Peers :
        \/ peer_on_shake(p) \/ net_refuse(p) \/ peer_kill(p)
        \/ peer_on_choke(p) \/ peer_on_unchoke(p)
        \/ \E pc \in Pieces : peer_on_have(p, pc)
        \/ \E f \in SUBSET Pieces : peer_on_bitfield(p, f)
        \/ \E x \in reqs[p], isbad \in {FALSE, BadData} :
                peer_on_piece(p, x[1], x[2], isbad)
    BY <1>2 DEF Messages
  <2>2. ASSUME NEW x \in reqs[p], NEW isbad \in {FALSE, BadData},
               peer_on_piece(p, x[1], x[2], isbad)
        PROVE  Clean'
    <3>1. isbad = FALSE
      BY DownloadAssumption DEF DownloadAssumption
    <3>2. /\ corrupt' = corrupt /\ badlogs' = badlogs
          /\ UNCHANGED trust
      BY <2>2, <3>1 DEF peer_on_piece
    <3> QED
      BY <3>2 DEF trust
  <2> QED
    BY <1>1, <2>1, <2>2 DEF peer_on_shake, net_refuse, peer_kill, peer_on_choke,
       peer_on_unchoke, peer_on_have, peer_on_bitfield, vars
<1>3. ASSUME Calls PROVE Clean'
  <2>1. ASSUME piece_log_good PROVE Clean'
    <3>1. /\ UNCHANGED <<corrupt, banned, badlogs>>
          /\ Head(agenda).pcs \in SUBSET Pieces
          /\ Head(agenda).ps \in SUBSET Peers
      BY <2>1, HeadFrame DEF piece_log_good, content, logs, Running, IInv
    <3>2. PICK pc \in Head(agenda).pcs :
            \/ UNCHANGED <<bad, suspect>>
            \/ \E p \in Head(agenda).ps :
                /\ bad' = [bad EXCEPT ![p] = @ \ {pc}]
                /\ suspect' = suspect \ {p}
      BY <2>1 DEF piece_log_good
    <3> QED
      BY <3>1, <3>2 DEF IInv, TypeOK
  <2>2. ASSUME judge_logs PROVE Clean'
    <3>1. PICK pc \in Head(agenda).pcs :
             \/ UNCHANGED <<banned, badlogs>>
             \/ \E l \in badlogs[pc] : TRUE
      BY <2>2 DEF judge_logs
    <3>2. pc \in Pieces
      BY <2>2, HeadFrame DEF judge_logs, Running, IInv
    <3> QED
      BY <2>2, <3>1, <3>2 DEF judge_logs, content
  <2>3. ASSUME piece_free PROVE Clean'
    <3>1. PICK pc \in Head(agenda).pcs :
             badlogs' = [badlogs EXCEPT ![pc] = {}]
      BY <2>3 DEF piece_free
    <3> QED
      BY <2>3, <3>1 DEF piece_free, content, trust, IInv, TypeOK
  <2>4. ASSUME peer_free PROVE Clean'
    BY <2>4 DEF peer_free, content, logs
  <2>5. ASSUME dl_on_bad_piece PROVE Clean'
    BY <2>5, GoodNews DEF dl_on_bad_piece
  <2>6. ASSUME dl_on_ok_piece PROVE Clean'
    BY <2>6 DEF dl_on_ok_piece, logs, trust
  <2> QED
    BY <1>1, <1>3, <2>1, <2>2, <2>3, <2>4, <2>5, <2>6
    DEF Calls, peer_on_bitfield_loop, dl_on_piece_ann, dl_on_download,
        dl_assign_requests, assign_loop, dl_piece_assign_requests,
        dl_on_piece_full, dl_enter_endgame, dl_assign_requests_eg,
        dl_unassign_requests, dl_unassign_requests_eg, dl_on_piece_unfull,
        unfull_loop
<1> QED
  BY <1>2, <1>3 DEF Next

------------------------------------------------------------------------------
(* Calls that only make other calls *)

\* dl_on_download keeps the invariant.
LEMMA DownloadHonest ==
    ASSUME IInv, HInv, Clean', dl_on_download
    PROVE  HInv'
<1>1. /\ ~aborted' /\ agenda # <<>> /\ Head(agenda).fn = "dl_on_download"
      /\ UNCHANGED <<peers, pchoke, field, ann, endgame, reqs, have, down,
                       busy, got>>
      /\ UNCHANGED wants
  BY DEF dl_on_download, Running, HInv, content, pieces, remote
<1>2. Rest = {}
  BY <1>1, TopOk DEF Below
<1>3. PICK f \in Frame :
        /\ f.fn = (IF endgame THEN "dl_assign_requests_eg"
                   ELSE "dl_assign_requests")
        /\ f.ps = Head(agenda).ps /\ Then(<<f>>)
  <2> DEFINE fn == IF endgame THEN "dl_assign_requests_eg"
                   ELSE "dl_assign_requests"
             f == [fn |-> fn, ps |-> Head(agenda).ps, pcs |-> {}]
  <2>1. f \in Frame /\ f.fn = fn /\ f.ps = Head(agenda).ps
    BY <1>1, TopOk DEF Frame, Fns
  <2>2. Then(<<f>>)
    BY DEF dl_on_download, Call
  <2> QED
    BY <2>1, <2>2
<1>4. f.fn \notin DueFns /\ f.fn \notin {"dl_unassign_requests",
                                "dl_on_piece_unfull", "unfull_loop"}
  BY <1>3 DEF DueFns
<1>5. PICK p \in peers : f.ps = {p}
  BY <1>1, <1>3, TopOk DEF CallOk
<1>6. CallOk(f)'
  BY <1>1, <1>3, <1>5 DEF CallOk
<1>7. Stacked' /\ Frames' = {f} /\ agenda' # <<>> /\ Head(agenda') = f
  BY <1>1, <1>2, <1>3, TopOk, Push1
<1> QED
  BY <1>1, <1>2, <1>4, <1>6, <1>7, QuietStep DEF Detached

\* dl_assign_requests keeps the invariant.
LEMMA AssignHonest ==
    ASSUME IInv, HInv, Clean', dl_assign_requests
    PROVE  HInv'
<1>1. /\ agenda # <<>> /\ Head(agenda).fn = "dl_assign_requests"
      /\ UNCHANGED <<peers, pchoke, field, ann, endgame, reqs, have, down,
                       busy, got>>
      /\ UNCHANGED wants
  BY DEF dl_assign_requests, Running, content, pieces, remote
<1>2. Rest = {}
  BY <1>1, TopOk DEF Below
<1>3. ~endgame /\ \E p \in peers : Head(agenda).ps = {p}
  BY <1>1, TopOk DEF CallOk
<1>4. PICK p \in peers : Head(agenda).ps = {p}
  BY <1>3
<1>5. /\ asserts(peer_leech_ok(p) => ~endgame)
      /\ Then(IF peer_leech_ok(p) THEN Call("assign_loop", {p}, {})
                 ELSE <<>>)
  BY <1>4 DEF dl_assign_requests
<1>6. ~aborted'
  BY <1>3, <1>5 DEF asserts
<1>7. CASE peer_leech_ok(p)
  <2> DEFINE f == [fn |-> "assign_loop", ps |-> {p}, pcs |-> {}]
  <2>1. f \in Frame /\ f.fn = "assign_loop" /\ p \in Peers
    BY DEF Frame, Fns, IInv, TypeOK
  <2>2. Then(<<f>>)
    BY <1>5, <1>7 DEF Call
  <2>3. CallOk(f)'
    BY <1>1, <1>7 DEF CallOk, peer_leech_ok, LeechOk
  <2> HIDE DEF f
  <2>4. Stacked' /\ Frames' = {f} /\ agenda' # <<>> /\ Head(agenda') = f
    BY <1>1, <1>2, <2>1, <2>2, TopOk, Push1
  <2> QED
    BY <1>1, <1>2, <1>6, <2>1, <2>3, <2>4, QuietStep DEF Detached, DueFns
<1>8. CASE ~peer_leech_ok(p)
  <2>1. Then(<<>>)
    BY <1>5, <1>8
  <2>2. Stacked' /\ Frames' = {} /\ agenda' = <<>>
    BY <1>1, <1>2, <2>1, TopOk, Pop
  <2> QED
    BY <1>1, <1>2, <1>6, <2>2, QuietStep DEF Detached
<1> QED
  BY <1>7, <1>8

------------------------------------------------------------------------------
(* Facts about the state when a call is made *)

\* Except while a bitfield is being announced, all pieces of a peer are.
LEMMA Announced ==
    ASSUME IInv, HInv,
           agenda = <<>> \/ Head(agenda).fn \notin {"dl_on_piece_ann",
                                                    "peer_on_bitfield"}
    PROVE  \A p \in Peers : field[p] = ann[p]
<1>1. \A f \in Frames : f.fn # "peer_on_bitfield"
  <2>1. CASE agenda = <<>>
    BY <2>1, OrderedNone DEF Frames
  <2>2. CASE agenda # <<>>
    BY <2>2, TopOk DEF Below
  <2> QED
    BY <2>1, <2>2
<1> QED
  BY <1>1 DEF HInv, Links, Pending

\* Except while a downloaded piece is being released, no downloaded piece is in
\* the getlst.
LEMMA Apart ==
    ASSUME IInv, HInv,
           agenda = <<>> \/ Head(agenda).fn \notin {"piece_log_good",
                                            "judge_logs", "piece_free"}
    PROVE  got \intersect busy = {}
<1>1. \A f \in Frames : f.fn # "piece_free"
  <2>1. CASE agenda = <<>>
    BY <2>1, OrderedNone DEF Frames
  <2>2. CASE agenda # <<>>
    BY <2>2, TopOk DEF Below
  <2> QED
    BY <2>1, <2>2
<1> QED
  BY <1>1 DEF HInv, Links

\* A piece that was not started has no requested block and misses some.
LEMMA NotStarted ==
    ASSUME IInv, HInv, NEW pc \in Pieces \ (got \union busy)
    PROVE  have[pc] # Blocks /\ down[pc] = {} /\ ~piece_full(pc)
<1>1. have[pc] # Blocks
  BY DEF HInv, Links
<1>2. ASSUME NEW b \in down[pc] PROVE FALSE
  <2>1. b \in Blocks
    BY DEF IInv, TypeOK
  <2>2. PICK p \in Peers : <<pc, b>> \in reqs[p]
    BY <2>1 DEF HInv, IInv, Accounted
  <2>3. <<pc, b>>[1] \in busy
    BY <2>2 DEF HInv, IInv, Accounted
  <2> QED
    BY <2>3
<1>3. down[pc] = {}
  BY <1>2
<1> QED
  BY <1>1, <1>3 DEF piece_full

\* The wanted pieces of a peer can be counted.
LEMMA WantedFinite ==
    ASSUME IInv, NEW p \in Peers
    PROVE  /\ Wanted(p) \in SUBSET ann[p] /\ IsFiniteSet(ann[p])
           /\ IsFiniteSet(Wanted(p))
           /\ Cardinality(Wanted(p)) \in Nat
           /\ Cardinality(Wanted(p)) = 0 <=> Wanted(p) = {}
<1>1. ann[p] \in SUBSET Pieces /\ IsFiniteSet(Pieces)
  BY DownloadAssumption DEF IInv, TypeOK, DownloadAssumption
<1>2. IsFiniteSet(ann[p])
  BY <1>1, FS_Subset
<1>3. Wanted(p) \in SUBSET ann[p]
  BY DEF Wanted
<1>4. IsFiniteSet(Wanted(p))
  BY <1>2, <1>3, FS_Subset
<1> QED
  BY <1>2, <1>3, <1>4, FS_CardinalityType, FS_EmptySet

\* nwant and PF_I_WANT say whether anything is wanted of the peer.
LEMMA NoneWanted ==
    ASSUME IInv, HInv, NEW p \in peers
    PROVE  /\ nwant[p] \in Nat /\ p \in Peers
           /\ nwant[p] = 0 <=> Wanted(p) = {}
           /\ p \in iwant <=> Wanted(p) # {}
<1>1. p \in Peers
  BY DEF IInv, TypeOK
<1>2. nwant[p] = Cardinality(Wanted(p))
  BY DEF HInv, Counts
<1> HIDE DEF Wanted
<1>3. nwant[p] \in Nat /\ (nwant[p] = 0 <=> Wanted(p) = {})
  BY <1>1, <1>2, WantedFinite
<1>4. p \in iwant <=> nwant[p] > 0
  BY <1>1 DEF HInv, Flags
<1> QED
  BY <1>1, <1>3, <1>4

\* Unless an update of nwant is the next call, the missing, unfull pieces of a
\* peer are wanted.
LEMMA NoDues ==
    ASSUME Clean, agenda = <<>> \/ Head(agenda).fn \notin DueFns,
           NEW p \in Peers
    PROVE  Wanted(p) = {pc \in ann[p] \ got : endgame \/ ~piece_full(pc)}
<1>1. AnnDue(p) = {} /\ Due("dl_on_piece_full") = {}
      /\ Due("dl_on_piece_unfull") = {}
  BY DEF AnnDue, Due, NextCall, DueFns
<1>2. bad[p] = {}
  BY DEF Clean
<1> QED
  BY <1>1, <1>2 DEF Wanted

------------------------------------------------------------------------------
(* The loops *)

\* A turn of the loops of dl_assign_requests keeps the invariant: the piece
\* chosen is missing, not full, and the peer has it.
LEMMA AssignLoopHonest ==
    ASSUME IInv, HInv, Clean', assign_loop
    PROVE  HInv'
<1>1. /\ agenda # <<>> /\ Head(agenda).fn = "assign_loop" /\ ~aborted'
      /\ UNCHANGED <<peers, pchoke, field, ann, endgame, reqs, have, down,
                       busy, got>>
      /\ UNCHANGED wants
  BY DEF assign_loop, Running, HInv, content, pieces, remote
<1>2. Rest = {}
  BY <1>1, TopOk DEF Below
<1>3. PICK p \in peers : Head(agenda).ps = {p} /\ p \notin pchoke
  BY <1>1, TopOk DEF CallOk
<1>4. p \in Peers /\ field[p] = ann[p] /\ ann[p] \in SUBSET Pieces
  BY <1>1, Announced DEF IInv, TypeOK
<1>5. CASE Then(<<>>)
  <2>1. Stacked' /\ Frames' = {} /\ agenda' = <<>>
    BY <1>1, <1>2, <1>5, TopOk, Pop
  <2> QED
    BY <1>1, <1>2, <2>1, QuietStep DEF Detached
<1>6. CASE ~Then(<<>>)
  <2>1. PICK pc \in Pieces :
          /\ ~peer_laden(p) /\ ~endgame /\ pc \in field[p] \ got
          /\ ~piece_full(pc)
          /\ Then(Call("dl_piece_assign_requests", {p}, {pc})
                  \o Call("assign_loop", {p}, {}))
    <3>1. PICK pc \in {x \in busy : ~piece_full(x) /\ peer_requestable(p, x)}
                      \union dl_choose_rarest(p) :
            /\ ~peer_laden(p) /\ ~endgame
            /\ Then(Call("dl_piece_assign_requests", {p}, {pc})
                  \o Call("assign_loop", {p}, {}))
      BY <1>3, <1>6 DEF assign_loop
    <3>2. CASE pc \in busy /\ ~piece_full(pc) /\ peer_requestable(p, pc)
      <4>1. pc \notin got
        BY <1>1, <3>2, Apart
      <4> QED
        BY <1>4, <3>1, <3>2, <4>1 DEF peer_requestable
    <3>3. CASE pc \in Pieces /\ dl_piece_startable(p, pc)
      <4>1. pc \in field[p] /\ pc \in Pieces \ (got \union busy)
        BY <3>3 DEF dl_piece_startable, peer_requestable
      <4> QED
        BY <3>1, <4>1, NotStarted
    <3> QED
      BY <3>1, <3>2, <3>3 DEF dl_choose_rarest
  <2> DEFINE f == [fn |-> "dl_piece_assign_requests", ps |-> {p}, pcs |-> {pc}]
             g == [fn |-> "assign_loop", ps |-> {p}, pcs |-> {}]
  <2>2. f \in Frame /\ g \in Frame /\ Below(f, g)
    BY <1>4 DEF Frame, Fns, Below
  <2>3. Then(<<f>> \o <<g>>)
    BY <2>1 DEF Call
  <2>4. p \in iwant
    <3>1. pc \in Wanted(p)
      BY <1>1, <1>4, <2>1, NoDues DEF DueFns, HInv
    <3> QED
      BY <3>1, NoneWanted
  <2>5. iwant' = iwant
    BY <1>1 DEF wants
  <2>6. CallOk(f)'
    BY <1>1, <1>3, <2>1, <2>4, <2>5 DEF CallOk, peer_laden, piece_full
  <2>7. CallOk(g)'
    BY <1>1, <1>3 DEF CallOk
  <2>8. f.fn = "dl_piece_assign_requests" /\ g.fn = "assign_loop"
    OBVIOUS
  <2> HIDE DEF f, g
  <2>9. Stacked' /\ Frames' = {f, g} /\ agenda' # <<>> /\ Head(agenda') = f
    BY <1>1, <1>2, <2>2, <2>3, TopOk, Push2
  <2> QED
    BY <1>1, <1>2, <2>6, <2>7, <2>8, <2>9, QuietStep DEF Detached, DueFns
<1> QED
  BY <1>5, <1>6

\* No call above one call.
LEMMA NoneFirst == \A f \in Frame : <<>> \o <<f>> = <<f>>
OBVIOUS

\* A turn of the loop of dl_on_piece_unfull keeps the invariant.
LEMMA UnfullLoopHonest ==
    ASSUME IInv, HInv, Clean', unfull_loop
    PROVE  HInv'
<1>1. /\ agenda # <<>> /\ Head(agenda).fn = "unfull_loop" /\ ~aborted'
      /\ UNCHANGED <<peers, pchoke, field, ann, endgame, reqs, have, down,
                       busy, got>>
      /\ UNCHANGED wants
  BY DEF unfull_loop, Running, HInv, content, pieces, remote
<1>2. \A g \in Rest : /\ g.fn \in {"dl_unassign_requests", "peer_free"}
                      /\ g.pcs = {}
  BY <1>1, TopOk DEF Below, CallOk
<1>3. PICK pc \in busy \ got : Head(agenda).pcs = {pc}
  BY <1>1, TopOk DEF CallOk
<1>4. ~endgame /\ Head(agenda).ps \subseteq peers /\ Detached /\ pc \in Pieces
  BY <1>1, TopOk DEF CallOk, Detached, IInv, TypeOK
<1>5. CASE Then(<<>>)
  <2>1. /\ Stacked' /\ Frames' = Rest
        /\ agenda' = <<>> \/ Head(agenda') \in Rest
    BY <1>1, <1>5, TopOk, Pop
  <2>2. agenda' = <<>> => ~Detached'
    BY OrderedNone DEF Detached, Frames, Elems
  <2>3. Detached' => Head(agenda').pcs \subseteq Head(agenda).pcs
    BY <1>2, <2>1, <2>2
  <2>4. agenda' = <<>> \/ Head(agenda').fn \notin DueFns
    BY <1>2, <2>1 DEF DueFns
  <2> QED
    BY <1>1, <1>4, <2>1, <2>3, <2>4, QuietStep
<1>6. CASE ~Then(<<>>)
  <2>1. PICK p \in Head(agenda).ps :
          /\ ~piece_full(pc)
          /\ Then((IF peer_leech_ok(p) /\ peer_requestable(p, pc)
                   THEN Call("dl_piece_assign_requests", {p}, {pc})
                   ELSE <<>>)
                  \o Call("unfull_loop", Head(agenda).ps \ {p}, {pc}))
    BY <1>3, <1>6 DEF unfull_loop
  <2>2. p \in peers /\ p \in Peers
    BY <1>4 DEF IInv, TypeOK
  <2>3. PICK g \in Frame :
          g = [fn |-> "unfull_loop", ps |-> Head(agenda).ps \ {p}, pcs |-> {pc}]
    BY <1>1, <1>4, TopOk DEF Frame, Fns
  <2>4. /\ g.fn = "unfull_loop" /\ g.ps \subseteq peers /\ g.pcs = {pc}
        /\ <<g>> = Call("unfull_loop", Head(agenda).ps \ {p}, {pc})
    BY <1>4, <2>3 DEF Call
  <2>5. CallOk(g)'
    BY <1>1, <1>3, <1>4, <2>4 DEF CallOk
  <2>6. \A h \in Rest : Below(g, h)
    BY <1>2, <2>4 DEF Below
  <2>7. CASE peer_leech_ok(p) /\ peer_requestable(p, pc)
    <3> DEFINE f == [fn |-> "dl_piece_assign_requests", ps |-> {p},
                     pcs |-> {pc}]
    <3>1. /\ f \in Frame /\ f.fn = "dl_piece_assign_requests"
          /\ f.pcs = {pc}
      BY <1>4, <2>2 DEF Frame, Fns
    <3>2. Then(<<f>> \o <<g>>)
      BY <2>1, <2>4, <2>7 DEF Call
    <3>3. iwant' = iwant
      BY <1>1 DEF wants
    <3>4. CallOk(f)'
      BY <1>1, <1>3, <1>4, <2>1, <2>2, <2>7, <3>3
      DEF CallOk, peer_laden, piece_full, peer_leech_ok, LeechOk,
          peer_requestable
    <3> HIDE DEF f
    <3>5. Below(f, g) /\ \A h \in Rest : Below(f, h)
      BY <1>2, <2>4, <3>1 DEF Below
    <3>6. /\ Stacked' /\ Frames' = {f, g} \union Rest
          /\ agenda' # <<>> /\ Head(agenda') = f
      BY <1>1, <2>6, <3>1, <3>2, <3>5, TopOk, Push2
    <3> QED
      BY <1>1, <1>3, <1>4, <2>5, <3>1, <3>4, <3>6, QuietStep DEF DueFns
  <2>8. CASE ~(peer_leech_ok(p) /\ peer_requestable(p, pc))
    <3>1. Then(<<g>>)
      BY <2>1, <2>4, <2>8, NoneFirst
    <3>2. /\ Stacked' /\ Frames' = {g} \union Rest
          /\ agenda' # <<>> /\ Head(agenda') = g
      BY <1>1, <2>6, <3>1, TopOk, Push1
    <3> QED
      BY <1>1, <1>3, <1>4, <2>4, <2>5, <3>2, QuietStep DEF DueFns
  <2> QED
    BY <2>7, <2>8
<1> QED
  BY <1>5, <1>6

\* There are no older logs to judge.
LEMMA JudgeHonest ==
    ASSUME IInv, HInv, Clean', judge_logs
    PROVE  HInv'
<1>1. /\ agenda # <<>> /\ Head(agenda).fn = "judge_logs" /\ ~aborted'
      /\ UNCHANGED <<peers, pchoke, field, ann, endgame, reqs, have, down,
                       busy, got>>
      /\ UNCHANGED wants
  BY DEF judge_logs, Running, HInv, content, pieces, remote
<1>2. \A g \in Rest : g.fn \in {"piece_free", "dl_assign_requests"}
  BY <1>1, TopOk DEF Below
<1>3. Then(<<>>)
  <2>1. \A pc \in Head(agenda).pcs : badlogs[pc] = {}
    BY <1>1, TopOk DEF HInv, Clean
  <2> QED
    BY <2>1 DEF judge_logs
<1>4. /\ Stacked' /\ Frames' = Rest
      /\ agenda' = <<>> \/ Head(agenda') \in Rest
  BY <1>1, <1>3, TopOk, Pop
<1> QED
  BY <1>1, <1>2, <1>4, QuietStep DEF Detached, DueFns

\* peer_good_piece finds nothing to clear.
LEMMA LogGoodHonest ==
    ASSUME IInv, HInv, Clean', piece_log_good
    PROVE  HInv'
<1>1. /\ agenda # <<>> /\ Head(agenda).fn = "piece_log_good" /\ ~aborted'
      /\ UNCHANGED <<peers, pchoke, field, ann, endgame, reqs, have, down,
                       busy, got>>
      /\ UNCHANGED <<nwant, iwant, dounwant>>
  BY DEF piece_log_good, Running, HInv, content, pieces, remote
<1>2. \A g \in Rest :
         g.fn \in {"judge_logs", "piece_free", "dl_assign_requests"}
  BY <1>1, TopOk DEF Below
<1>3. PICK pc \in Pieces : Head(agenda).pcs = {pc} /\ got \intersect busy = {pc}
  BY <1>1, TopOk DEF CallOk
<1>4. PICK s : /\ UNCHANGED interest /\ Then(s)
               /\ \/ s = <<>>
                  \/ \E p \in Head(agenda).ps :
                       s = Call("piece_log_good", Head(agenda).ps \ {p}, {pc})
  <2>1. \A p \in Head(agenda).ps : p \notin suspect
    BY DEF HInv, Clean
  <2>2. CASE Then(<<>>) /\ UNCHANGED interest
    BY <2>2
  <2>3. CASE ~(Then(<<>>) /\ UNCHANGED interest)
    <3>1. PICK p \in Head(agenda).ps :
            /\ interest' = IF p \in suspect /\ nwant[p] > 0
                           THEN interest \union {p} ELSE interest
            /\ Then((IF p \in suspect /\ p \in iwant
                        /\ p \notin banned \union pchoke /\ ~peer_laden(p)
                     THEN Call("dl_on_download", {p}, {}) ELSE <<>>)
                    \o Call("piece_log_good", Head(agenda).ps \ {p}, {pc}))
      BY <1>3, <2>3 DEF piece_log_good
    <3> DEFINE c == Call("piece_log_good", Head(agenda).ps \ {p}, {pc})
    <3>2. Then(<<>> \o c) /\ UNCHANGED interest
      BY <2>1, <3>1
    <3>3. c \in Seq(Frame)
      <4>1. Head(agenda).ps \ {p} \in SUBSET Peers /\ {pc} \in SUBSET Pieces
        BY <1>1, TopOk
      <4>2. "piece_log_good" \in Fns
        BY DEF Fns
      <4> QED
        BY <4>1, <4>2, CallType
    <3> HIDE DEF c
    <3>4. <<>> \o c = c
      BY <3>3
    <3> QED
      BY <3>2, <3>4 DEF c
  <2> QED
    BY <2>2, <2>3
<1>5. UNCHANGED wants
  BY <1>1, <1>4 DEF wants
<1>6. CASE s = <<>>
  <2>1. /\ Stacked' /\ Frames' = Rest
        /\ agenda' = <<>> \/ Head(agenda') \in Rest
    BY <1>1, <1>4, <1>6, TopOk, Pop
  <2> QED
    BY <1>1, <1>2, <1>5, <2>1, QuietStep DEF Detached, DueFns
<1>7. CASE s # <<>>
  <2>1. PICK p \in Head(agenda).ps :
           s = Call("piece_log_good", Head(agenda).ps \ {p}, {pc})
    BY <1>4, <1>7
  <2>2. PICK f \in Frame :
          f = [fn |-> "piece_log_good", ps |-> Head(agenda).ps \ {p},
               pcs |-> {pc}]
    BY <1>1, TopOk DEF Frame, Fns
  <2>3. f.fn = "piece_log_good" /\ f.pcs = {pc} /\ Then(<<f>>)
    BY <1>4, <2>1, <2>2 DEF Call
  <2>4. CallOk(f)'
    BY <1>1, <1>3, <2>3 DEF CallOk
  <2>5. \A g \in Rest : Below(f, g)
    BY <1>2, <2>3 DEF Below
  <2>6. /\ Stacked' /\ Frames' = {f} \union Rest
        /\ agenda' # <<>> /\ Head(agenda') = f
    BY <1>1, <2>3, <2>5, TopOk, Push1
  <2> QED
    BY <1>1, <1>2, <1>5, <2>3, <2>4, <2>6, QuietStep DEF Detached, DueFns
<1> QED
  BY <1>6, <1>7

------------------------------------------------------------------------------
(* Message handlers *)

\* The invariant between two handlers.
LEMMA Resting ==
    ASSUME IInv, HInv, Idle
    PROVE  /\ Frames = {} /\ agenda = <<>> /\ ~Detached
           /\ \A p \in Peers : field[p] = ann[p]
           /\ \A p \in Peers \ peers : /\ field[p] = {} /\ ann[p] = {}
                                       /\ nwant[p] = 0 /\ reqs[p] = {}
           /\ got \intersect busy = {}
           /\ ~endgame => \/ got = Pieces
                          \/ \E pc \in Pieces : OpenPiece(pc)
<1>1. Frames = {} /\ agenda = <<>>
  BY OrderedNone DEF Frames, Idle
<1>2. \A fns, p : ~Pending(fns, p)
  BY <1>1 DEF Pending
<1>3. \A p \in Peers : field[p] = ann[p]
  BY <1>2 DEF HInv, Links
<1>4. \A p \in Peers \ peers : field[p] = {} /\ nwant[p] = 0 /\ reqs[p] = {}
  BY <1>2 DEF HInv, Links
<1>5. got \intersect busy = {}
  BY <1>1 DEF HInv, Links
<1>6. ~endgame => got = Pieces \/ \E pc \in Pieces : OpenPiece(pc)
  BY <1>1 DEF HInv, Saturated, NextCall
<1> QED
  BY <1>1, <1>3, <1>4, <1>5, <1>6 DEF Detached

\* A message that changes neither content nor requests leaves a piece open.
LEMMA SameContent ==
    ASSUME IInv, HInv, Idle, UNCHANGED <<endgame, have, down, busy, got>>,
           ~Detached' \/ Head(agenda').pcs = {}
    PROVE  Saturated'
BY Resting DEF Saturated, OpenPiece, piece_full

\* peer_on_shake keeps the invariant.
LEMMA ShakeHonest ==
    ASSUME IInv, HInv, Clean', NEW p \in Peers, peer_on_shake(p)
    PROVE  HInv'
<1>1. /\ Idle /\ ~aborted' /\ agenda' = agenda /\ p \notin peers
      /\ peers' = peers \union {p}
      /\ UNCHANGED <<field, ann, endgame, reqs, have, down, busy, got>>
      /\ UNCHANGED wants
  BY DEF peer_on_shake, HInv, content, pieces, Known
<1>2. Frames' = {} /\ Stacked' /\ ~Detached' /\ agenda' = <<>>
  BY <1>1, Resting, Start0 DEF Detached
<1>3. FramesOk' /\ nwant' = nwant
  BY <1>1, <1>2 DEF FramesOk, wants
<1>4. Links'
  BY <1>1, <1>2, <1>3, Resting DEF HInv, Links
<1>5. Saturated'
  BY <1>1, <1>2, SameContent
<1>6. Flags'
  BY <1>1, KeptFlags DEF HInv
<1>7. Counts'
  <2> SUFFICES ASSUME NEW q \in peers' PROVE nwant'[q] = Cardinality(Wanted(q)')
    BY DEF Counts
  <2>1. q \in Peers
    BY <1>1 DEF IInv, TypeOK
  <2>2. Wanted(q)' = Wanted(q)
    BY <1>1, <1>2, <2>1, KeptWanted DEF Idle, HInv
  <2>3. CASE q \in peers
    BY <1>3, <2>2, <2>3 DEF HInv, Counts
  <2>4. CASE q = p
    <3>1. ann[q] = {} /\ nwant[q] = 0
      BY <1>1, <2>4, Resting
    <3>2. Wanted(q) = {}
      BY <3>1 DEF Wanted
    <3> QED
      BY <1>3, <2>2, <3>1, <3>2, FS_EmptySet
  <2> QED
    BY <1>1, <2>3, <2>4
<1> QED
  BY <1>1, <1>2, <1>3, <1>4, <1>5, <1>6, <1>7 DEF HInv

\* The calls with which requests are taken back.
Unassigning(p) == [fn |-> IF endgame THEN "dl_unassign_requests_eg"
                          ELSE "dl_unassign_requests",
                   ps |-> {p}, pcs |-> {}]

\* It is a frame.
LEMMA UnassigningType ==
    ASSUME NEW p \in Peers
    PROVE  Unassigning(p) \in Frame
<1> DEFINE fn == IF endgame THEN "dl_unassign_requests_eg"
                 ELSE "dl_unassign_requests"
<1>1. fn \in Fns
  BY DEF Fns
<1> HIDE DEF fn
<1>2. [fn |-> fn, ps |-> {p}, pcs |-> {}] \in Frame
  BY <1>1 DEF Frame
<1> QED
  BY <1>2 DEF fn, Unassigning

\* peer_kill keeps the invariant.
LEMMA KillHonest ==
    ASSUME IInv, HInv, Clean', NEW p \in Peers, peer_kill(p)
    PROVE  HInv'
<1>1. /\ Idle /\ ~aborted' /\ p \in peers /\ peers' = peers \ {p}
      /\ UNCHANGED <<pchoke, field, ann, endgame, reqs, have, down, busy, got>>
      /\ UNCHANGED wants
  BY DEF peer_kill, HInv, content, pieces
<1>2. PICK f \in Frame : f = Unassigning(p)
  BY UnassigningType
<1> DEFINE g == [fn |-> "peer_free", ps |-> {p}, pcs |-> {}]
<1>3. /\ g \in Frame /\ Below(f, g)
      /\ g.fn = "peer_free" /\ g.ps = {p} /\ g.pcs = {}
  BY <1>2 DEF Frame, Fns, Below, Unassigning
<1>4. /\ f.fn \in {"dl_unassign_requests_eg", "dl_unassign_requests"}
      /\ f.ps = {p} /\ f.pcs = {}
      /\ f.fn = "dl_unassign_requests" => ~endgame
  BY <1>2 DEF Unassigning
<1>5. CallOk(f)'
  BY <1>1, <1>4 DEF CallOk
<1>6. CallOk(g)'
  BY <1>1 DEF CallOk
<1>7. agenda' = IF reqs[p] = {} THEN <<g>> ELSE <<f>> \o <<g>>
  <2>1. <<>> \o <<g>> = <<g>>
    BY <1>3, NoneFirst
  <2> QED
    BY <1>2, <2>1 DEF peer_kill, Call, Unassigning
<1> HIDE DEF g
<1>8. /\ Stacked' /\ Frames' = (IF reqs[p] = {} THEN {g} ELSE {f, g})
      /\ agenda' # <<>> /\ Head(agenda') = (IF reqs[p] = {} THEN g ELSE f)
  BY <1>3, <1>7, Start1, Start2
<1>9. FramesOk' /\ nwant' = nwant
  BY <1>1, <1>5, <1>6, <1>8 DEF FramesOk, wants
<1>10. Links'
  <2>1. Pending({"peer_free"}, p)'
    BY <1>3, <1>8 DEF Pending
  <2>2. reqs[p] = {} \/ Pending({"dl_unassign_requests",
                                 "dl_unassign_requests_eg"}, p)'
    BY <1>4, <1>8 DEF Pending
  <2> QED
    BY <1>1, <1>9, <2>1, <2>2, Resting DEF HInv, Links
<1>11. Saturated'
  BY <1>1, <1>3, <1>4, <1>8, SameContent
<1>12. Counts'
  BY <1>1, <1>3, <1>4, <1>8, <1>9, KeptCounts DEF DueFns, HInv, IInv, Idle
<1>13. Flags'
  BY <1>1, KeptFlags DEF HInv
<1> QED
  BY <1>1, <1>8, <1>9, <1>10, <1>11, <1>12, <1>13 DEF HInv

\* peer_on_choke keeps the invariant.
LEMMA ChokeHonest ==
    ASSUME IInv, HInv, Clean', NEW p \in Peers, peer_on_choke(p)
    PROVE  HInv'
<1>1. /\ Idle /\ ~aborted' /\ p \in peers /\ pchoke' = pchoke \union {p}
      /\ UNCHANGED <<peers, field, ann, endgame, reqs, have, down, busy, got>>
      /\ UNCHANGED wants
  BY DEF peer_on_choke, HInv, content, pieces
<1>2. PICK f \in Frame : f = Unassigning(p)
  BY UnassigningType
<1>3. /\ f.fn \in {"dl_unassign_requests_eg", "dl_unassign_requests"}
      /\ f.ps = {p} /\ f.pcs = {}
      /\ f.fn = "dl_unassign_requests" => ~endgame
  BY <1>2 DEF Unassigning
<1>4. CallOk(f)'
  BY <1>1, <1>3 DEF CallOk
<1>5. agenda' = IF reqs[p] = {} THEN <<>> ELSE <<f>>
  BY <1>2 DEF peer_on_choke, Call, Unassigning
<1>6. /\ Stacked' /\ Frames' = (IF reqs[p] = {} THEN {} ELSE {f})
      /\ agenda' = <<>> \/ Head(agenda') = f
      /\ agenda' = <<>> => Frames' = {}
  BY <1>5, Start0, Start1
<1>7. FramesOk' /\ nwant' = nwant
  BY <1>1, <1>4, <1>6 DEF FramesOk, wants
<1>8. Links'
  BY <1>1, <1>7, Resting DEF HInv, Links
<1>9. Saturated'
  BY <1>1, <1>3, <1>6, SameContent DEF Detached
<1>10. Counts'
  BY <1>1, <1>3, <1>6, <1>7, KeptCounts DEF DueFns, HInv, IInv, Idle
<1>11. Flags'
  BY <1>1, KeptFlags DEF HInv
<1> QED
  BY <1>1, <1>6, <1>7, <1>8, <1>9, <1>10, <1>11 DEF HInv

\* peer_on_unchoke keeps the invariant.
LEMMA UnchokeHonest ==
    ASSUME IInv, HInv, Clean', NEW p \in Peers, peer_on_unchoke(p)
    PROVE  HInv'
<1>1. /\ Idle /\ ~aborted' /\ p \in peers
      /\ UNCHANGED <<peers, field, ann, endgame, reqs, have, down, busy, got>>
      /\ UNCHANGED wants
  BY DEF peer_on_unchoke, HInv, content, pieces
<1> DEFINE f == [fn |-> "dl_on_download", ps |-> {p}, pcs |-> {}]
<1>2. f \in Frame /\ f.fn = "dl_on_download" /\ f.ps = {p}
  BY DEF Frame, Fns
<1>3. agenda' = <<>> \/ agenda' = <<f>>
  BY DEF peer_on_unchoke, Call
<1>4. CallOk(f)'
  BY <1>1 DEF CallOk
<1> HIDE DEF f
<1>5. /\ Stacked' /\ Frames' \subseteq {f}
      /\ agenda' = <<>> \/ Head(agenda') = f
  BY <1>2, <1>3, Start0, Start1
<1>6. FramesOk' /\ nwant' = nwant
  BY <1>1, <1>4, <1>5 DEF FramesOk, wants
<1>7. Links'
  BY <1>1, <1>6, Resting DEF HInv, Links
<1>8. Saturated'
  BY <1>1, <1>2, <1>5, SameContent DEF Detached
<1>9. Counts'
  BY <1>1, <1>2, <1>5, <1>6, KeptCounts DEF DueFns, HInv, IInv, Idle
<1>10. Flags'
  BY <1>1, KeptFlags DEF HInv
<1> QED
  BY <1>1, <1>5, <1>6, <1>7, <1>8, <1>9, <1>10 DEF HInv

------------------------------------------------------------------------------
(* Interest *)

\* peer_want keeps the flags in step with the counts.
LEMMA WantFlags ==
    ASSUME TypeOK, Flags, suspect = {}, ~aborted, NEW k \in [Peers -> Nat],
           peer_want(k), reqs' = reqs
    PROVE  Flags'
<1>1. \A p \in Peers : nwant[p] \in Nat /\ k[p] \in Nat
                       /\ nwant'[p] = nwant[p] + k[p]
  BY DEF TypeOK, peer_want
<1>2. ASSUME NEW p \in Peers
      PROVE  /\ p \in iwant' <=> nwant'[p] > 0
             /\ p \in interest' <=> nwant'[p] > 0 \/ reqs'[p] # {}
             /\ p \in dounwant' <=> nwant'[p] = 0 /\ reqs'[p] # {}
  <2>1. /\ p \in iwant <=> nwant[p] > 0
        /\ p \in interest <=> nwant[p] > 0 \/ reqs[p] # {}
        /\ p \in dounwant <=> nwant[p] = 0 /\ reqs[p] # {}
    BY DEF Flags
  <2>2. /\ p \in iwant' <=> p \in iwant \/ (k[p] > 0 /\ nwant[p] = 0)
        /\ p \in interest' <=>
             p \in interest \/ (k[p] > 0 /\ nwant[p] = 0 /\ reqs[p] = {})
        /\ p \in dounwant' <=>
             p \in dounwant /\ ~(k[p] > 0 /\ nwant[p] = 0 /\ reqs[p] # {})
    BY DEF peer_want
  <2> QED
    BY <1>1, <2>1, <2>2
<1> QED
  BY <1>2 DEF Flags

\* So does peer_unwant.
LEMMA UnwantFlags ==
    ASSUME TypeOK, Flags, suspect = {}, ~aborted, NEW ps \in SUBSET Peers,
           PeerUnwantOk(ps), peer_unwant(ps), reqs' = reqs
    PROVE  Flags'
<1>1. \A p \in Peers :
        /\ nwant[p] \in Nat /\ (p \in ps => nwant[p] > 0)
        /\ nwant'[p] = IF p \in ps THEN nwant[p] - 1 ELSE nwant[p]
  BY DEF TypeOK, peer_unwant, PeerUnwantOk
<1>2. ASSUME NEW p \in Peers
      PROVE  /\ p \in iwant' <=> nwant'[p] > 0
             /\ p \in interest' <=> nwant'[p] > 0 \/ reqs'[p] # {}
             /\ p \in dounwant' <=> nwant'[p] = 0 /\ reqs'[p] # {}
  <2>1. /\ p \in iwant <=> nwant[p] > 0
        /\ p \in interest <=> nwant[p] > 0 \/ reqs[p] # {}
        /\ p \in dounwant <=> nwant[p] = 0 /\ reqs[p] # {}
    BY DEF Flags
  <2>2. /\ p \in iwant' <=> p \in iwant /\ ~(p \in ps /\ nwant[p] = 1)
        /\ p \in interest' <=>
             p \in interest /\ ~(p \in ps /\ nwant[p] = 1 /\ reqs[p] = {})
        /\ p \in dounwant' <=>
             p \in dounwant \/ (p \in ps /\ nwant[p] = 1 /\ reqs[p] # {})
    BY DEF peer_unwant, Last
  <2> QED
    BY <1>1, <2>1, <2>2
<1> QED
  BY <1>2 DEF Flags

\* peer_on_no_reqs keeps the flags in step with the requests; its assertion
\* holds.
LEMMA NoReqFlags ==
    ASSUME TypeOK, Flags, ~aborted, NEW r, peer_on_no_reqs(r), reqs' = r,
           \A p \in Peers : r[p] \subseteq reqs[p]
    PROVE  Flags' /\ PeerOnNoReqsOk(r) /\ nwant' = nwant /\ iwant' = iwant
<1>1. nwant' = nwant /\ iwant' = iwant
  BY DEF peer_on_no_reqs
<1>2. ASSUME NEW p \in Peers
      PROVE  /\ p \in iwant' <=> nwant'[p] > 0
             /\ p \in interest' <=> nwant'[p] > 0 \/ reqs'[p] # {}
             /\ p \in dounwant' <=> nwant'[p] = 0 /\ reqs'[p] # {}
  <2>1. /\ p \in iwant <=> nwant[p] > 0
        /\ p \in interest <=> nwant[p] > 0 \/ reqs[p] # {}
        /\ p \in dounwant <=> nwant[p] = 0 /\ reqs[p] # {}
        /\ nwant[p] \in Nat /\ r[p] \subseteq reqs[p]
    BY DEF Flags, TypeOK
  <2>2. /\ p \in dounwant' <=> p \in dounwant /\ ~(reqs[p] # {} /\ r[p] = {})
        /\ p \in interest' <=>
             p \in interest /\ ~(reqs[p] # {} /\ r[p] = {} /\ p \in dounwant)
    BY DEF peer_on_no_reqs, Emptied
  <2> QED
    BY <1>1, <2>1, <2>2
<1>3. PeerOnNoReqsOk(r)
  BY DEF PeerOnNoReqsOk, Emptied, Flags
<1> QED
  BY <1>1, <1>2, <1>3 DEF Flags

\* Requests are given only to peers that are wanted.
LEMMA AskFlags ==
    ASSUME TypeOK, Flags, UNCHANGED wants, NEW p \in Peers, p \in iwant,
           \A q \in Peers : reqs[q] \subseteq reqs'[q]
                            /\ (q # p => reqs'[q] = reqs[q])
    PROVE  Flags'
<1>1. UNCHANGED <<nwant, iwant, interest, dounwant>>
  BY DEF wants
<1>2. nwant[p] > 0 /\ \A q \in Peers : nwant[q] \in Int
  BY DEF Flags, TypeOK
<1>3. ASSUME NEW q \in Peers
      PROVE  /\ q \in iwant' <=> nwant'[q] > 0
             /\ q \in interest' <=> nwant'[q] > 0 \/ reqs'[q] # {}
             /\ q \in dounwant' <=> nwant'[q] = 0 /\ reqs'[q] # {}
  <2>1. /\ q \in iwant <=> nwant[q] > 0
        /\ q \in interest <=> nwant[q] > 0 \/ reqs[q] # {}
        /\ q \in dounwant <=> nwant[q] = 0 /\ reqs[q] # {}
    BY DEF Flags
  <2>2. CASE q = p
    BY <1>1, <1>2, <2>1, <2>2
  <2>3. CASE q # p
    BY <1>1, <2>1, <2>3
  <2> QED
    BY <2>2, <2>3
<1> QED
  BY <1>3 DEF Flags

------------------------------------------------------------------------------
(* Announcements *)

\* A new piece of a peer is not wanted before dl_on_piece_ann is called for it.
LEMMA AnnWanted ==
    ASSUME Clean, Clean', IInv, UNCHANGED <<endgame, have, down, got>>,
           NEW p \in Peers, NEW pc, pc \notin ann[p],
           ann' = [ann EXCEPT ![p] = @ \union {pc}],
           agenda = <<>> \/ Head(agenda).fn \notin DueFns,
           NEW f, agenda' # <<>>, Head(agenda') = f,
           f.fn = "dl_on_piece_ann", f.ps = {p}, f.pcs = {pc},
           NEW q \in Peers
    PROVE  Wanted(q)' = Wanted(q)
<1>1. AnnDue(q) = {} /\ Due("dl_on_piece_full") = {}
      /\ Due("dl_on_piece_unfull") = {}
  BY DEF AnnDue, Due, NextCall, DueFns
<1>2. AnnDue(q)' = (IF q = p THEN {pc} ELSE {})
      /\ Due("dl_on_piece_full")' = {} /\ Due("dl_on_piece_unfull")' = {}
  BY DEF AnnDue, Due, NextCall, DueFns
<1>3. bad[q] = {} /\ bad'[q] = {}
  BY DEF Clean
<1>4. ann'[q] = IF q = p THEN ann[q] \union {pc} ELSE ann[q]
  BY DEF IInv, TypeOK
<1> QED
  BY <1>1, <1>2, <1>3, <1>4 DEF Wanted, piece_full

\* peer_on_have keeps the invariant.
LEMMA HaveHonest ==
    ASSUME IInv, HInv, Clean', NEW p \in Peers, NEW pc \in Pieces,
           peer_on_have(p, pc)
    PROVE  HInv'
<1>1. /\ Idle /\ ~aborted' /\ p \in peers /\ pc \notin field[p]
      /\ field' = [field EXCEPT ![p] = @ \union {pc}]
      /\ ann' = [ann EXCEPT ![p] = @ \union {pc}]
      /\ UNCHANGED <<peers, pchoke, endgame, reqs, have, down, busy, got>>
      /\ UNCHANGED wants
  BY DEF peer_on_have, HInv, content, pieces
<1> DEFINE f == [fn |-> "dl_on_piece_ann", ps |-> {p}, pcs |-> {pc}]
<1>2. /\ f \in Frame /\ f.fn = "dl_on_piece_ann" /\ f.ps = {p}
      /\ f.pcs = {pc}
  BY DEF Frame, Fns
<1>3. agenda' = <<f>>
  BY DEF peer_on_have, Call
<1>4. pc \in ann'[p] /\ \A q \in Peers : field'[q] = ann'[q]
  BY <1>1, Resting DEF IInv, TypeOK
<1>5. CallOk(f)'
  BY <1>1, <1>4 DEF CallOk
<1> HIDE DEF f
<1>6. Stacked' /\ Frames' = {f} /\ agenda' # <<>> /\ Head(agenda') = f
  BY <1>2, <1>3, Start1
<1>7. FramesOk' /\ nwant' = nwant
  BY <1>1, <1>5, <1>6 DEF FramesOk, wants
<1>8. Links'
  <2>1. \A q \in Peers \ peers : field'[q] = {} /\ nwant[q] = 0 /\ reqs[q] = {}
    BY <1>1, Resting DEF IInv, TypeOK
  <2>2. got \intersect busy = {} /\ (endgame => got \union busy = Pieces)
    BY <1>1, Resting DEF HInv, Links
  <2>3. \A x \in Pieces \ (got \union busy) : have[x] # Blocks
    BY DEF HInv, Links
  <2> QED
    BY <1>1, <1>4, <1>7, <2>1, <2>2, <2>3 DEF Links
<1>9. Saturated'
  BY <1>1, <1>2, <1>6, SameContent DEF Detached
<1>10. Counts'
  <2>1. pc \notin ann[p]
    BY <1>1, Resting
  <2>2. \A q \in Peers : Wanted(q)' = Wanted(q)
    BY <1>1, <1>2, <1>6, <2>1, AnnWanted DEF HInv, Idle
  <2> QED
    BY <1>1, <1>7, <2>2 DEF HInv, Counts, IInv, TypeOK
<1>11. Flags'
  BY <1>1, KeptFlags DEF HInv
<1> QED
  BY <1>1, <1>6, <1>7, <1>8, <1>9, <1>10, <1>11 DEF HInv

\* peer_on_bitfield keeps the invariant when the peer has not unchoked us.
LEMMA BitfieldHonest ==
    ASSUME IInv, HInv, Clean', Honest, NEW p \in Peers,
           NEW s \in SUBSET Pieces, peer_on_bitfield(p, s)
    PROVE  HInv'
<1>1. /\ Idle /\ ~aborted' /\ p \in peers /\ p \in pchoke
      /\ ann[p] = {} /\ s # {} /\ field' = [field EXCEPT ![p] = s]
      /\ UNCHANGED <<peers, pchoke, ann, endgame, reqs, have, down, busy, got>>
      /\ UNCHANGED wants
  BY DEF peer_on_bitfield, HInv, content, pieces, Honest
<1> DEFINE f == [fn |-> "peer_on_bitfield", ps |-> {p}, pcs |-> s]
<1>2. /\ f \in Frame /\ f.fn = "peer_on_bitfield" /\ f.ps = {p} /\ f.pcs = s
  BY DEF Frame, Fns
<1>3. agenda' = <<f>>
  BY DEF peer_on_bitfield, Call
<1>4. field'[p] = s /\ \A q \in Peers : q # p => field'[q] = field[q]
  BY <1>1 DEF IInv, TypeOK
<1> HIDE DEF f
<1>5. CallOk(f)'
  BY <1>1, <1>2, <1>4 DEF CallOk
<1>6. Stacked' /\ Frames' = {f} /\ agenda' # <<>> /\ Head(agenda') = f
  BY <1>2, <1>3, Start1
<1>7. FramesOk' /\ nwant' = nwant
  BY <1>1, <1>5, <1>6 DEF FramesOk, wants
<1>8. Links'
  <2>1. \A q \in Peers \ peers : field'[q] = {} /\ nwant[q] = 0 /\ reqs[q] = {}
    BY <1>1, <1>4, Resting
  <2>2. got \intersect busy = {} /\ (endgame => got \union busy = Pieces)
    BY <1>1, Resting DEF HInv, Links
  <2>3. \A x \in Pieces \ (got \union busy) : have[x] # Blocks
    BY DEF HInv, Links
  <2>4. \A q \in Peers : ann[q] \subseteq field'[q]
                         /\ (q # p => field'[q] = ann[q])
    BY <1>1, <1>4, Resting
  <2>5. Pending({"peer_on_bitfield"}, p)'
    BY <1>2, <1>6 DEF Pending
  <2> QED
    BY <1>1, <1>7, <2>1, <2>2, <2>3, <2>4, <2>5 DEF Links
<1>9. Saturated'
  BY <1>1, <1>2, <1>6, SameContent DEF Detached
<1>10. Counts'
  BY <1>1, <1>2, <1>6, <1>7, KeptCounts DEF DueFns, HInv, IInv, Idle
<1>11. Flags'
  BY <1>1, KeptFlags DEF HInv
<1> QED
  BY <1>1, <1>6, <1>7, <1>8, <1>9, <1>10, <1>11 DEF HInv

\* So does each turn of its loop over the pieces.
LEMMA BitfieldLoopHonest ==
    ASSUME IInv, HInv, Clean', peer_on_bitfield_loop
    PROVE  HInv'
<1>1. /\ agenda # <<>> /\ Head(agenda).fn = "peer_on_bitfield" /\ ~aborted'
      /\ UNCHANGED <<peers, pchoke, field, endgame, reqs, have, down, busy,
                     got>>
      /\ UNCHANGED wants
  BY DEF peer_on_bitfield_loop, Running, HInv, content, pieces
<1>2. Rest = {} /\ Frames = {Head(agenda)}
  BY <1>1, TopOk DEF Below
<1>3. PICK p \in peers \intersect pchoke :
        Head(agenda).ps = {p} /\ Head(agenda).pcs = field[p] \ ann[p]
  BY <1>1, TopOk DEF CallOk
<1>4. PICK pc \in Head(agenda).pcs :
        /\ ann' = [ann EXCEPT ![p] = @ \union {pc}]
        /\ Then(Call("dl_on_piece_ann", {p}, {pc})
                \o IF Head(agenda).pcs \ {pc} = {} THEN <<>>
                   ELSE Call("peer_on_bitfield", {p}, Head(agenda).pcs \ {pc}))
  BY <1>3 DEF peer_on_bitfield_loop
<1>5. PICK rest \in SUBSET Pieces : rest = Head(agenda).pcs \ {pc}
  BY <1>1, TopOk
<1>6. p \in Peers /\ pc \in Pieces /\ pc \in field[p] \ ann[p]
  BY <1>1, <1>3, TopOk DEF IInv, TypeOK
<1>7. /\ \A q \in Peers : ann'[q] = IF q = p THEN ann[q] \union {pc} ELSE ann[q]
      /\ rest = field[p] \ ann'[p]
  BY <1>3, <1>4, <1>5, <1>6 DEF IInv, TypeOK
<1> DEFINE f == [fn |-> "dl_on_piece_ann", ps |-> {p}, pcs |-> {pc}]
           g == [fn |-> "peer_on_bitfield", ps |-> {p}, pcs |-> rest]
<1>8. /\ f \in Frame /\ f.fn = "dl_on_piece_ann" /\ f.ps = {p}
      /\ f.pcs = {pc}
  BY <1>6 DEF Frame, Fns
<1>9. /\ g \in Frame /\ g.fn = "peer_on_bitfield" /\ g.ps = {p}
      /\ g.pcs = rest
  BY <1>6 DEF Frame, Fns
<1>10. Then(<<f>> \o (IF rest = {} THEN <<>> ELSE <<g>>))
  BY <1>4, <1>5 DEF Call
<1> HIDE DEF f, g
<1>11. CallOk(f)'
  BY <1>1, <1>3, <1>6, <1>7, <1>8 DEF CallOk
<1>12. rest # {} => CallOk(g)'
  BY <1>1, <1>3, <1>7, <1>9 DEF CallOk
<1>13. /\ Stacked' /\ agenda' # <<>> /\ Head(agenda') = f
       /\ Frames' = IF rest = {} THEN {f} ELSE {f, g}
  <2>1. CASE rest = {}
    <3>1. <<f>> \o <<>> = <<f>>
      BY <1>8
    <3>2. Then(<<f>>)
      BY <1>10, <2>1, <3>1
    <3> QED
      BY <1>1, <1>2, <1>8, <2>1, <3>2, TopOk, Push1
  <2>2. CASE rest # {}
    <3>1. Below(f, g) /\ Then(<<f>> \o <<g>>)
      BY <1>8, <1>9, <1>10, <2>2 DEF Below
    <3> QED
      BY <1>1, <1>2, <1>8, <1>9, <2>2, <3>1, TopOk, Push2
  <2> QED
    BY <2>1, <2>2
<1>14. FramesOk' /\ nwant' = nwant
  BY <1>1, <1>11, <1>12, <1>13 DEF FramesOk, wants
<1>15. Links'
  <2>1. \A fns, q : Pending(fns, q) => q = p /\ "peer_on_bitfield" \in fns
    BY <1>1, <1>2, <1>3 DEF Pending
  <2>2. \A q \in Peers \ peers : field[q] = {} /\ nwant[q] = 0 /\ reqs[q] = {}
    BY <1>3, <2>1 DEF HInv, Links
  <2>3. got \intersect busy = {} /\ (endgame => got \union busy = Pieces)
    BY <1>1, <1>2 DEF HInv, Links
  <2>4. \A x \in Pieces \ (got \union busy) : have[x] # Blocks
    BY DEF HInv, Links
  <2>5. \A q \in Peers : ann[q] \subseteq field[q]
                         /\ (q # p => field[q] = ann[q])
    BY <2>1 DEF HInv, Links
  <2>6. field[p] = ann'[p] \/ Pending({"peer_on_bitfield"}, p)'
    <3>1. CASE rest = {}
      BY <1>6, <1>7, <2>5, <3>1
    <3>2. CASE rest # {}
      BY <1>9, <1>13, <3>2 DEF Pending
    <3> QED
      BY <3>1, <3>2
  <2>7. \A q \in Peers : ann'[q] \subseteq field[q]
                         /\ (q # p => field[q] = ann'[q])
    BY <1>6, <1>7, <2>5
  <2> QED
    BY <1>1, <1>14, <2>2, <2>3, <2>4, <2>6, <2>7 DEF Links
<1>16. Saturated'
  <2>1. ~Detached'
    BY <1>8, <1>9, <1>13 DEF Detached
  <2> QED
    BY <1>1, <2>1, KeptOpen DEF HInv, NextCall
<1>17. Counts'
  <2>1. \A q \in Peers : Wanted(q)' = Wanted(q)
    BY <1>1, <1>4, <1>6, <1>8, <1>13, AnnWanted DEF HInv, DueFns
  <2> QED
    BY <1>1, <1>14, <2>1 DEF HInv, Counts, IInv, TypeOK
<1>18. Flags'
  BY <1>1, KeptFlags DEF HInv
<1> QED
  BY <1>1, <1>13, <1>14, <1>15, <1>16, <1>17, <1>18 DEF HInv

\* peer_free keeps the invariant.
LEMMA PeerFreeHonest ==
    ASSUME IInv, HInv, Clean', peer_free
    PROVE  HInv'
<1>1. /\ agenda # <<>> /\ Head(agenda).fn = "peer_free" /\ ~aborted'
      /\ UNCHANGED <<peers, endgame, reqs, have, down, busy, got>>
      /\ Then(<<>>)
  BY DEF peer_free, Running, HInv, content, pieces
<1>2. Rest = {} /\ Frames = {Head(agenda)}
  BY <1>1, TopOk DEF Below
<1>3. PICK p \in Peers \ peers : Head(agenda).ps = {p}
  BY <1>1, TopOk DEF CallOk
<1>4. Stacked' /\ Frames' = {} /\ agenda' = <<>>
  BY <1>1, <1>2, TopOk, Pop
<1>5. \A q \in Peers :
        IF q = p THEN /\ field'[q] = {} /\ ann'[q] = {} /\ nwant'[q] = 0
                      /\ q \notin iwant' /\ q \notin interest'
                      /\ q \notin dounwant'
        ELSE /\ field'[q] = field[q] /\ ann'[q] = ann[q] /\ nwant'[q] = nwant[q]
             /\ q \in iwant' <=> q \in iwant
             /\ q \in interest' <=> q \in interest
             /\ q \in dounwant' <=> q \in dounwant
  BY <1>3 DEF peer_free
<1>6. \A fns, q : Pending(fns, q) => q = p /\ "peer_free" \in fns
  BY <1>1, <1>2, <1>3 DEF Pending
<1>7. reqs[p] = {}
  BY <1>3, <1>6 DEF HInv, Links
<1>8. FramesOk'
  BY <1>4 DEF FramesOk
<1>9. Links'
  <2>1. \A q \in Peers \ peers :
          field'[q] = {} /\ nwant'[q] = 0 /\ reqs'[q] = {}
    BY <1>1, <1>5, <1>6, <1>7 DEF HInv, Links
  <2>2. got \intersect busy = {} /\ (endgame => got \union busy = Pieces)
    BY <1>1, <1>2 DEF HInv, Links
  <2>3. \A x \in Pieces \ (got \union busy) : have[x] # Blocks
    BY DEF HInv, Links
  <2>4. \A q \in Peers : field'[q] = ann'[q]
    BY <1>5, <1>6 DEF HInv, Links
  <2> QED
    BY <1>1, <2>1, <2>2, <2>3, <2>4 DEF Links
<1>10. Saturated'
  <2>1. ~Detached'
    BY <1>4 DEF Detached
  <2> QED
    BY <1>1, <2>1, KeptOpen DEF HInv, NextCall
<1>11. Counts'
  <2> SUFFICES ASSUME NEW q \in peers PROVE nwant'[q] = Cardinality(Wanted(q)')
    BY <1>1 DEF Counts
  <2>1. q \in Peers /\ q # p
    BY <1>3 DEF IInv, TypeOK
  <2>2. Wanted(q) = {pc \in ann[q] \ got : endgame \/ ~piece_full(pc)}
    BY <1>1, <2>1, NoDues DEF HInv, DueFns
  <2>3. AnnDue(q)' = {} /\ Due("dl_on_piece_full")' = {}
        /\ Due("dl_on_piece_unfull")' = {} /\ bad'[q] = {}
    BY <1>4, <2>1 DEF AnnDue, Due, NextCall, Clean
  <2>4. Wanted(q)' = Wanted(q)
    BY <1>1, <1>5, <2>1, <2>2, <2>3 DEF Wanted, piece_full
  <2> QED
    BY <1>5, <2>1, <2>4 DEF HInv, Counts
<1>12. Flags'
  BY <1>1, <1>5, <1>7 DEF HInv, Flags
<1> QED
  BY <1>1, <1>4, <1>8, <1>9, <1>10, <1>11, <1>12 DEF HInv

\* piece_free keeps the invariant; its assertions hold.
LEMMA PieceFreeHonest ==
    ASSUME IInv, HInv, Clean', piece_free
    PROVE  HInv'
<1>1. /\ agenda # <<>> /\ Head(agenda).fn = "piece_free"
      /\ UNCHANGED <<peers, pchoke, field, ann, endgame, reqs, have, down, got>>
      /\ UNCHANGED wants
      /\ Then(<<>>)
  BY DEF piece_free, Running, content, remote
<1>2. /\ \A g \in Rest : g.fn = "dl_assign_requests" /\ CallOk(g)
      /\ Frames = {Head(agenda)} \union Rest
  BY <1>1, TopOk DEF Below
<1>3. PICK pc \in Pieces : Head(agenda).pcs = {pc} /\ got \intersect busy = {pc}
  BY <1>1, TopOk DEF CallOk
<1>4. /\ asserts(Without(pc) = reqs /\ pc \in busy)
      /\ busy' = busy \ {pc}
  BY <1>3 DEF piece_free
<1>5. ~aborted'
  <2>1. \A p \in Peers : \A x \in reqs[p] : x[1] # pc
    BY <1>3 DEF IInv, HInv, Accounted
  <2>2. Without(pc) = reqs
    <3>1. \A p \in Peers : {x \in reqs[p] : x[1] # pc} = reqs[p]
      BY <2>1
    <3> QED
      BY <3>1 DEF Without, IInv, TypeOK
  <2> QED
    BY <1>3, <1>4, <2>2 DEF asserts
<1>6. /\ Stacked' /\ Frames' = Rest
      /\ agenda' = <<>> \/ Head(agenda') \in Rest
  BY <1>1, TopOk, Pop
<1>7. FramesOk' /\ nwant' = nwant
  <2>1. ASSUME NEW g \in Rest PROVE CallOk(g)'
    BY <1>1, <1>2, <2>1 DEF CallOk
  <2> QED
    BY <1>1, <1>6, <2>1 DEF FramesOk, wants
<1>8. Links'
  <2>1. \A fns, q : (Pending(fns, q) /\ fns \subseteq LinkFns) =>
                        "piece_free" \in fns
    BY <1>1, <1>2 DEF Pending, LinkFns
  <2>2. \A q \in Peers : field[q] = ann[q]
    BY <2>1 DEF HInv, Links, LinkFns
  <2>3. \A q \in Peers \ peers : field[q] = {} /\ nwant[q] = 0
    BY <2>1 DEF HInv, Links, LinkFns
  <2>4. \A q \in Peers \ peers : reqs[q] = {}
    BY <2>1 DEF HInv, Links, LinkFns
  <2>5. got \intersect busy' = {} /\ got \union busy' = got \union busy
    BY <1>3, <1>4
  <2>6. /\ endgame => got \union busy = Pieces
        /\ \A x \in Pieces \ (got \union busy) : have[x] # Blocks
    BY DEF HInv, Links
  <2> QED
    BY <1>1, <1>7, <2>2, <2>3, <2>4, <2>5, <2>6 DEF Links
<1>9. Saturated'
  <2>1. ~Detached'
    BY <1>2, <1>6 DEF Detached
  <2>2. ~endgame => got = Pieces \/ \E x \in Pieces : OpenPiece(x)
    BY <1>1 DEF HInv, Saturated, NextCall
  <2>3. \A x \in Pieces : OpenPiece(x)' <=> OpenPiece(x)
    BY <1>1, <1>3, <1>4 DEF OpenPiece, piece_full
  <2> QED
    BY <1>1, <2>1, <2>2, <2>3 DEF Saturated
<1>10. Counts'
  BY <1>1, <1>2, <1>6, <1>7, KeptCounts DEF HInv, IInv, DueFns
<1>11. Flags'
  BY <1>1, KeptFlags DEF HInv
<1> QED
  BY <1>5, <1>6, <1>7, <1>8, <1>9, <1>10, <1>11 DEF HInv

------------------------------------------------------------------------------
(* Counting *)

\* One more.
LEMMA Gains ==
    ASSUME NEW S, IsFiniteSet(S), NEW x, x \notin S
    PROVE  Cardinality(S \union {x}) = Cardinality(S) + 1
BY FS_AddElement

\* One less.
LEMMA Loses ==
    ASSUME NEW S, IsFiniteSet(S), NEW x \in S
    PROVE  Cardinality(S \ {x}) = Cardinality(S) - 1
BY FS_RemoveElement

\* Once(ps) counts calls.
LEMMA OnceType ==
    ASSUME NEW ps \in SUBSET Peers
    PROVE  Once(ps) \in [Peers -> Nat]
BY DEF Once

\* peer_want asserts nwant < npieces: the piece was not counted before.
LEMMA WantOk ==
    ASSUME IInv, HInv, NEW ps \in SUBSET peers, NEW pc,
           \A p \in ps : pc \in ann[p] /\ pc \notin Wanted(p)
    PROVE  PeerWantOk(Once(ps))
<1> SUFFICES ASSUME NEW p \in Peers, Once(ps)[p] > 0
             PROVE  /\ nwant[p] + Once(ps)[p] <= Cardinality(ann[p])
                    /\ (nwant[p] = 0 /\ p \notin suspect) =>
                         (reqs[p] = {} <=> p \notin dounwant)
  BY DEF PeerWantOk
<1>1. p \in ps /\ Once(ps)[p] = 1 /\ p \in peers
  BY DEF Once
<1>2. nwant[p] = Cardinality(Wanted(p))
  BY <1>1 DEF HInv, Counts
<1>3. IsFiniteSet(ann[p]) /\ Wanted(p) \in SUBSET ann[p]
      /\ Cardinality(Wanted(p)) \in Nat
  BY WantedFinite
<1>4. pc \in ann[p] /\ pc \notin Wanted(p)
  BY <1>1
<1> DEFINE A == ann[p]
           W == Wanted(p)
<1>5. IsFiniteSet(A) /\ W \in SUBSET A /\ pc \in A /\ pc \notin W
      /\ Cardinality(W) \in Nat
  BY <1>3, <1>4
<1>6. Cardinality(W) + 1 <= Cardinality(A)
  <2> HIDE DEF A, W
  <2>1. IsFiniteSet(A \ {pc}) /\ Cardinality(A \ {pc}) = Cardinality(A) - 1
    BY <1>5, FS_RemoveElement
  <2>2. W \in SUBSET (A \ {pc})
    BY <1>5
  <2>3. Cardinality(W) <= Cardinality(A \ {pc})
    BY <2>1, <2>2, FS_Subset
  <2>4. Cardinality(A) \in Nat
    BY <1>5, FS_CardinalityType
  <2> QED
    BY <1>5, <2>1, <2>3, <2>4
<1>7. nwant[p] = 0 => (reqs[p] = {} <=> p \notin dounwant)
  BY DEF HInv, Flags
<1> QED
  BY <1>1, <1>2, <1>6, <1>7

\* peer_want for the holders of a piece that becomes wanted keeps the counts
\* right.
LEMMA CountsGain ==
    ASSUME IInv, HInv, NEW ps \in SUBSET peers, NEW pc, peers' = peers,
           peer_want(Once(ps)),
           \A p \in ps : pc \notin Wanted(p),
           \A p \in peers : Wanted(p)' = IF p \in ps THEN Wanted(p) \union {pc}
                                         ELSE Wanted(p)
    PROVE  Counts'
<1> SUFFICES ASSUME NEW p \in peers PROVE nwant'[p] = Cardinality(Wanted(p)')
  BY DEF Counts
<1>1. p \in Peers
  BY DEF IInv, TypeOK
<1>2. nwant'[p] = nwant[p] + (IF p \in ps THEN 1 ELSE 0)
  BY <1>1 DEF peer_want, Once
<1>3. nwant[p] = Cardinality(Wanted(p)) /\ nwant[p] \in Nat
      /\ IsFiniteSet(Wanted(p))
  BY <1>1, WantedFinite DEF HInv, Counts
<1>4. CASE p \in ps
  <2>1. Cardinality(Wanted(p) \union {pc}) = Cardinality(Wanted(p)) + 1
    BY <1>3, <1>4, Gains
  <2> QED
    BY <1>2, <1>3, <1>4, <2>1
<1>5. CASE p \notin ps
  BY <1>2, <1>3, <1>5
<1> QED
  BY <1>4, <1>5

\* peer_unwant asserts nwant > 0: the piece was counted.
LEMMA UnwantOk ==
    ASSUME IInv, HInv, NEW ps \in SUBSET peers, NEW pc,
           \A p \in ps : pc \in Wanted(p)
    PROVE  PeerUnwantOk(ps)
<1> SUFFICES ASSUME NEW p \in ps PROVE nwant[p] > 0
  BY DEF PeerUnwantOk
<1>1. nwant[p] \in Nat /\ nwant[p] # 0
  BY NoneWanted
<1> QED
  BY <1>1

\* peer_unwant for the holders of a piece that is no longer wanted keeps the
\* counts right.
LEMMA CountsLose ==
    ASSUME IInv, HInv, NEW ps \in SUBSET peers, NEW pc, peers' = peers,
           peer_unwant(ps),
           \A p \in ps : pc \in Wanted(p),
           \A p \in peers : Wanted(p)' = IF p \in ps THEN Wanted(p) \ {pc}
                                         ELSE Wanted(p)
    PROVE  Counts'
<1> SUFFICES ASSUME NEW p \in peers PROVE nwant'[p] = Cardinality(Wanted(p)')
  BY DEF Counts
<1>1. p \in Peers
  BY DEF IInv, TypeOK
<1>2. nwant'[p] = IF p \in ps THEN nwant[p] - 1 ELSE nwant[p]
  BY <1>1 DEF peer_unwant
<1>3. nwant[p] = Cardinality(Wanted(p)) /\ nwant[p] \in Nat
      /\ IsFiniteSet(Wanted(p))
  BY <1>1, WantedFinite DEF HInv, Counts
<1>4. CASE p \in ps
  <2>1. Cardinality(Wanted(p) \ {pc}) = Cardinality(Wanted(p)) - 1
    BY <1>3, <1>4, Loses
  <2> QED
    BY <1>2, <1>3, <1>4, <2>1
<1>5. CASE p \notin ps
  BY <1>2, <1>3, <1>5
<1> QED
  BY <1>4, <1>5

\* Only what is said of an announced piece changes when dl_on_piece_ann is made.
LEMMA AnnounceHonest ==
    ASSUME IInv, HInv, Clean', dl_on_piece_ann
    PROVE  HInv'
<1>1. /\ agenda # <<>> /\ Head(agenda).fn = "dl_on_piece_ann" /\ ~aborted
      /\ UNCHANGED <<peers, pchoke, field, ann, endgame, reqs, have, down,
                     busy, got>>
  BY DEF dl_on_piece_ann, Running, content, pieces, remote
<1>2. /\ \A g \in Rest : /\ g.fn = "peer_on_bitfield"
                         /\ g.ps = Head(agenda).ps /\ CallOk(g)
      /\ Frames = {Head(agenda)} \union Rest
  BY <1>1, TopOk DEF Below
<1>3. PICK p \in peers : \E x \in ann[p] :
         Head(agenda).ps = {p} /\ Head(agenda).pcs = {x}
  BY <1>1, TopOk DEF CallOk
<1>4. PICK pc \in ann[p] : Head(agenda).ps = {p} /\ Head(agenda).pcs = {pc}
  BY <1>3
<1>5. p \in Peers /\ pc \in Pieces /\ pc \in field[p]
  BY <1>4 DEF IInv, TypeOK, HInv, Links
<1>6. \A q \in Peers :
        Wanted(q) = {x \in ann[q] \ got : /\ endgame \/ ~piece_full(x)
                                          /\ q # p \/ x # pc}
  <2> SUFFICES ASSUME NEW q \in Peers
               PROVE  Wanted(q) = {x \in ann[q] \ got :
                                      /\ endgame \/ ~piece_full(x)
                                      /\ q # p \/ x # pc}
    OBVIOUS
  <2>1. /\ AnnDue(q) = (IF q = p THEN {pc} ELSE {})
        /\ Due("dl_on_piece_full") = {} /\ Due("dl_on_piece_unfull") = {}
        /\ bad[q] = {}
    BY <1>1, <1>4 DEF AnnDue, Due, NextCall, Clean, HInv
  <2> QED
    BY <2>1 DEF Wanted
<1>7. ASSUME agenda' = <<>> \/ Head(agenda').fn \notin DueFns
      PROVE  \A q \in Peers :
        Wanted(q)' = {x \in ann[q] \ got : endgame \/ ~piece_full(x)}
  <2> SUFFICES ASSUME NEW q \in Peers
               PROVE  Wanted(q)' = {x \in ann[q] \ got :
                                       endgame \/ ~piece_full(x)}
    OBVIOUS
  <2>1. AnnDue(q)' = {} /\ Due("dl_on_piece_full")' = {}
        /\ Due("dl_on_piece_unfull")' = {} /\ bad'[q] = {}
    BY <1>7 DEF AnnDue, Due, NextCall, Clean, DueFns
  <2> QED
    BY <1>1, <2>1 DEF Wanted, piece_full
<1>8. CASE pc \in got \/ (~endgame /\ pc \in busy /\ piece_full(pc))
  <2>1. Then(<<>>) /\ UNCHANGED <<wants, aborted>>
    BY <1>4, <1>8 DEF dl_on_piece_ann
  <2>2. /\ Stacked' /\ Frames' = Rest
        /\ agenda' = <<>> \/ Head(agenda') \in Rest
    BY <1>1, <2>1, TopOk, Pop
  <2>3. agenda' = <<>> \/ Head(agenda').fn \notin DueFns
    BY <1>2, <2>2 DEF DueFns
  <2>4. FramesOk'
    BY <1>1, <1>2, <2>2, KeptCalls DEF HInv, FramesOk
  <2>5. nwant' = nwant
    BY <2>1 DEF wants
  <2>6. Links'
    BY <1>1, <1>2, <2>2, <2>5, KeptLinks DEF HInv, LinkFns
  <2>7. Saturated'
    <3>1. ~Detached'
      BY <1>2, <2>2 DEF Detached
    <3> QED
      BY <1>1, <3>1, KeptOpen DEF HInv, NextCall
  <2>8. Counts'
    <3>1. \A q \in Peers : Wanted(q)' = Wanted(q)
      BY <1>6, <1>7, <1>8, <2>3
    <3> QED
      BY <1>1, <2>5, <3>1 DEF HInv, Counts, IInv, TypeOK
  <2>9. Flags'
    BY <1>1, <2>1, KeptFlags DEF HInv
  <2> QED
    BY <1>1, <2>1, <2>2, <2>4, <2>6, <2>7, <2>8, <2>9 DEF HInv
<1>9. CASE ~(pc \in got \/ (~endgame /\ pc \in busy /\ piece_full(pc)))
  <2>1. {p} \intersect Holders(pc) = {p}
    BY <1>5 DEF Holders, peer_requestable, HInv, Clean
  <2>2. /\ asserts((endgame => pc \in busy) /\ PeerWantOk(Once({p})))
        /\ peer_want(Once({p}))
        /\ Then(IF ~LeechOk(p, iwant') THEN <<>>
                ELSE IF endgame
                THEN Call("dl_assign_requests_eg", {p}, {})
                ELSE Call("dl_piece_assign_requests", {p}, {pc}))
    BY <1>4, <1>9, <2>1 DEF dl_on_piece_ann
  <2>3. pc \notin Wanted(p)
    BY <1>5, <1>6
  <2>4. ~aborted'
    <3>1. PeerWantOk(Once({p}))
      BY <1>4, <2>3, WantOk
    <3>2. endgame => pc \in busy
      BY <1>5, <1>9 DEF HInv, Links
    <3> QED
      BY <2>2, <3>1, <3>2 DEF asserts
  <2>5. ~endgame => ~piece_full(pc)
    BY <1>5, <1>9, NotStarted
  <2>6. Flags'
    BY <1>1, <1>5, <2>2, OnceType, WantFlags DEF HInv, IInv, Clean
  <2>7. \A q \in Peers : q # p => nwant'[q] = nwant[q]
    BY <2>2 DEF peer_want, Once, IInv, TypeOK
  <2>8. p \in iwant'
    <3>1. nwant'[p] = nwant[p] + 1 /\ nwant[p] \in Nat
      BY <1>1, <1>5, <2>2 DEF peer_want, Once, IInv, TypeOK
    <3> QED
      BY <1>5, <2>6, <3>1 DEF Flags
  <2>9. /\ Stacked' /\ Rest \subseteq Frames' /\ ~Detached'
        /\ agenda' = <<>> \/ Head(agenda').fn \notin DueFns
        /\ FramesOk'
    <3>1. CASE ~LeechOk(p, iwant')
      <4>1. Then(<<>>)
        BY <2>2, <3>1
      <4>2. /\ Stacked' /\ Frames' = Rest
            /\ agenda' = <<>> \/ Head(agenda') \in Rest
        BY <1>1, <4>1, TopOk, Pop
      <4> QED
        BY <1>1, <1>2, <4>2, KeptCalls DEF HInv, FramesOk, Detached, DueFns
    <3>2. CASE LeechOk(p, iwant')
      <4>1. p \notin pchoke /\ ~peer_laden(p)
        BY <3>2 DEF LeechOk
      <4>2. Rest = {}
        <5> SUFFICES ASSUME NEW g \in Rest PROVE FALSE
          OBVIOUS
        <5>1. g.fn = "peer_on_bitfield" /\ g.ps = {p} /\ CallOk(g)
          BY <1>2, <1>4
        <5> QED
          BY <4>1, <5>1 DEF CallOk
      <4>3. PICK f \in Frame :
              /\ Then(<<f>>) /\ f.ps = {p}
              /\ \/ endgame /\ f.fn = "dl_assign_requests_eg"
                 \/ /\ ~endgame /\ f.fn = "dl_piece_assign_requests"
                    /\ f.pcs = {pc}
        <5> DEFINE f1 == [fn |-> "dl_assign_requests_eg", ps |-> {p},
                          pcs |-> {}]
                   f2 == [fn |-> "dl_piece_assign_requests", ps |-> {p},
                          pcs |-> {pc}]
        <5>1. f1 \in Frame /\ f2 \in Frame
          BY <1>5 DEF Frame, Fns
        <5>2. IF endgame THEN Then(<<f1>>) ELSE Then(<<f2>>)
          BY <2>2, <3>2 DEF Call
        <5>3. /\ f1.ps = {p} /\ f1.fn = "dl_assign_requests_eg"
              /\ f2.ps = {p} /\ f2.fn = "dl_piece_assign_requests"
              /\ f2.pcs = {pc}
          OBVIOUS
        <5> HIDE DEF f1, f2
        <5> QED
          BY <5>1, <5>2, <5>3
      <4>4. /\ Stacked' /\ Frames' = {f}
            /\ agenda' # <<>> /\ Head(agenda') = f
        BY <1>1, <4>2, <4>3, TopOk, Push1
      <4>5. CallOk(f)'
        BY <1>1, <1>5, <1>9, <2>5, <2>8, <4>1, <4>3
        DEF CallOk, peer_laden, piece_full
      <4> QED
        BY <4>2, <4>3, <4>4, <4>5 DEF FramesOk, Detached, DueFns
    <3> QED
      BY <3>1, <3>2
  <2>10. Links'
    BY <1>1, <1>2, <2>7, <2>9, KeptLinks DEF HInv, LinkFns
  <2>11. Saturated'
    BY <1>1, <2>9, KeptOpen DEF HInv, NextCall
  <2>12. Counts'
    <3>1. \A q \in Peers : Wanted(q)' = IF q \in {p} THEN Wanted(q) \union {pc}
                                        ELSE Wanted(q)
      <4> SUFFICES ASSUME NEW q \in Peers
                   PROVE  Wanted(q)' = IF q \in {p} THEN Wanted(q) \union {pc}
                                       ELSE Wanted(q)
        OBVIOUS
      <4>1. Wanted(q)' = {x \in ann[q] \ got : endgame \/ ~piece_full(x)}
        BY <1>7, <2>9
      <4>2. Wanted(q) = {x \in ann[q] \ got :
               (endgame \/ ~piece_full(x)) /\ (q # p \/ x # pc)}
        BY <1>6
      <4>3. pc \in ann[p] \ got /\ (endgame \/ ~piece_full(pc))
        BY <1>9, <2>5
      <4> HIDE DEF Wanted
      <4>4. CASE q = p
        BY <4>1, <4>2, <4>3, <4>4
      <4>5. CASE q # p
        BY <4>1, <4>2, <4>5
      <4> QED
        BY <4>4, <4>5
    <3>2. peers \in SUBSET Peers
      BY DEF IInv, TypeOK
    <3> QED
      BY <1>1, <2>2, <2>3, <3>1, <3>2, CountsGain
  <2> QED
    BY <2>4, <2>6, <2>9, <2>10, <2>11, <2>12 DEF HInv
<1> QED
  BY <1>8, <1>9

------------------------------------------------------------------------------
(* Requests are given *)

\* The calls below the one being made stay pending.
LEMMA StillPending ==
    ASSUME Frames = {Head(agenda)} \union Rest, Rest \subseteq Frames',
           NEW fns, NEW p, Head(agenda).fn \notin fns, Pending(fns, p)
    PROVE  Pending(fns, p)'
BY DEF Pending

\* Links is kept by a step that gives requests.
LEMMA MoreLinks ==
    ASSUME Links, Frames = {Head(agenda)} \union Rest, Rest \subseteq Frames',
           Head(agenda).fn \notin LinkFns,
           UNCHANGED <<peers, field, ann>>,
           \A p \in Peers \ peers :
               nwant'[p] = nwant[p] /\ (reqs'[p] = {} \/ reqs'[p] = reqs[p]),
           endgame' => got' \union busy' = Pieces,
           \A pc \in Pieces \ (got' \union busy') : have'[pc] # Blocks,
           got' \intersect busy' = {} \/ \E f \in Frames' : f.fn = "piece_free"
    PROVE  Links'
<1>1. \A p \in Peers : ann'[p] \subseteq field'[p]
  BY DEF Links
<1>2. ASSUME NEW p \in Peers
      PROVE  field'[p] = ann'[p] \/ Pending({"peer_on_bitfield"}, p)'
  BY StillPending DEF Links, LinkFns
<1>3. ASSUME NEW p \in Peers \ peers'
      PROVE  (field'[p] = {} /\ nwant'[p] = 0) \/ Pending({"peer_free"}, p)'
  BY StillPending DEF Links, LinkFns
<1>4. ASSUME NEW p \in Peers \ peers'
      PROVE  reqs'[p] = {} \/ Pending({"dl_unassign_requests",
                                       "dl_unassign_requests_eg"}, p)'
  BY StillPending DEF Links, LinkFns
<1> QED
  BY <1>1, <1>2, <1>3, <1>4 DEF Links

\* dl_piece_assign_requests keeps the invariant: when it fills the piece, the
\* holders stay wanted for it until dl_on_piece_full, the next call.
LEMMA PieceAssignHonest ==
    ASSUME IInv, HInv, Clean', dl_piece_assign_requests
    PROVE  HInv'
<1>1. /\ agenda # <<>> /\ Head(agenda).fn = "dl_piece_assign_requests"
      /\ UNCHANGED <<peers, pchoke, field, ann, endgame, have, got>>
      /\ UNCHANGED wants
  BY DEF dl_piece_assign_requests, Running, content, remote
<1>2. PICK p \in peers \ pchoke : \E x \in field[p] \ got :
             /\ Head(agenda).ps = {p} /\ Head(agenda).pcs = {x} /\ ~endgame
             /\ p \in iwant /\ ~peer_laden(p) /\ ~piece_full(x)
  BY <1>1, TopOk DEF CallOk
<1>3. PICK pc \in field[p] \ got :
             /\ Head(agenda).ps = {p} /\ Head(agenda).pcs = {pc} /\ ~endgame
             /\ p \in iwant /\ ~peer_laden(p) /\ ~piece_full(pc)
  BY <1>2
<1>4. p \in Peers /\ pc \in Pieces /\ got # Pieces
  BY <1>3 DEF IInv, TypeOK
<1> DEFINE free == Blocks \ (have[pc] \union down[pc])
<1>5. PICK s \in SUBSET free :
        /\ asserts(free # {} /\ ~peer_laden(p) /\ ~endgame)
        /\ reqs' = [reqs EXCEPT ![p] = @ \union ({pc} \X s)]
        /\ down' = [down EXCEPT ![pc] = @ \union s]
        /\ busy' = busy \union {pc}
        /\ Then(IF s = free THEN Call("dl_on_piece_full", {}, {pc})
                ELSE <<>>)
  BY <1>3 DEF dl_piece_assign_requests
<1>6. free # {}
  BY <1>3, <1>4 DEF piece_full, IInv, TypeOK
<1>7. ~aborted'
  BY <1>3, <1>5, <1>6 DEF asserts
<1>8. \A x \in Pieces : down'[x] = IF x = pc THEN down[pc] \union s ELSE down[x]
  BY <1>4, <1>5 DEF IInv, TypeOK
<1>9. \A x \in Pieces : x # pc => (piece_full(x)' <=> piece_full(x))
  BY <1>1, <1>8 DEF piece_full
<1>10. piece_full(pc)' <=> s = free
  BY <1>1, <1>4, <1>8 DEF piece_full, IInv, TypeOK
<1>11. \A q \in Peers : reqs'[q] = IF q = p THEN reqs[q] \union ({pc} \X s)
                                   ELSE reqs[q]
  BY <1>4, <1>5 DEF IInv, TypeOK
<1> HIDE DEF free
<1>12. Flags'
  BY <1>1, <1>3, <1>4, <1>11, AskFlags DEF HInv, IInv
<1>13. /\ Frames = {Head(agenda)} \union Rest
       /\ \A g \in Rest :
            /\ \/ g.fn \in {"assign_loop", "dl_unassign_requests", "peer_free"}
               \/ g.fn = "unfull_loop" /\ g.pcs = {pc}
            /\ CallOk(g) /\ g.pcs \subseteq {pc}
  BY <1>1, <1>3, TopOk DEF Below, CallOk
<1>14. ASSUME NEW g \in Rest PROVE CallOk(g)'
  <2>1. CASE g.fn \in {"assign_loop", "dl_unassign_requests", "peer_free"}
    BY <1>1, <1>13, <2>1 DEF CallOk
  <2>2. CASE g.fn = "unfull_loop" /\ g.pcs = {pc}
    BY <1>1, <1>3, <1>5, <1>13, <2>2 DEF CallOk
  <2> QED
    BY <1>13, <2>1, <2>2
<1>15. \E x \in Pieces : OpenPiece(x) /\ (Detached => x # pc)
  <2>1. ~NextCall("dl_on_piece_full") /\ ~NextCall("dl_enter_endgame")
    BY <1>1 DEF NextCall
  <2> QED
    BY <1>3, <1>4, <2>1 DEF HInv, Saturated
<1>16. PICK x \in Pieces : OpenPiece(x) /\ (Detached => x # pc)
  BY <1>15
<1>17. x # pc => OpenPiece(x)'
  BY <1>1, <1>5, <1>9, <1>16 DEF OpenPiece
<1>18. /\ Stacked' /\ Rest \subseteq Frames' /\ (Detached' => Detached)
       /\ FramesOk' /\ Saturated'
       /\ \A q \in Peers : Wanted(q)' = Wanted(q)
  <2>1. ASSUME NEW q \in Peers
        PROVE  Wanted(q) = {y \in ann[q] \ got : ~piece_full(y)}
    BY <1>1, <1>3, NoDues DEF HInv, DueFns
  <2>2. CASE s = free
    <3> DEFINE f == [fn |-> "dl_on_piece_full", ps |-> {}, pcs |-> {pc}]
    <3>1. /\ f \in Frame /\ f.fn = "dl_on_piece_full" /\ f.pcs = {pc}
      BY <1>4 DEF Frame, Fns
    <3>2. Then(<<f>>)
      BY <1>5, <2>2 DEF Call
    <3> HIDE DEF f
    <3>3. \A g \in Rest : Below(f, g)
      BY <1>13, <3>1 DEF Below
    <3>4. /\ Stacked' /\ Frames' = {f} \union Rest
          /\ agenda' # <<>> /\ Head(agenda') = f
      BY <1>1, <3>1, <3>2, <3>3, TopOk, Push1
    <3>5. CallOk(f)'
      BY <1>1, <1>3, <1>4, <1>5, <1>10, <2>2, <3>1 DEF CallOk
    <3>6. FramesOk'
      BY <1>14, <3>4, <3>5 DEF FramesOk
    <3>7. Detached' => Detached
      BY <1>13, <3>1, <3>4 DEF Detached
    <3>8. Saturated'
      BY <1>16, <1>17, <3>1, <3>4, <3>7 DEF Saturated, NextCall
    <3>9. ASSUME NEW q \in Peers PROVE Wanted(q)' = Wanted(q)
      <4>1. /\ AnnDue(q)' = {} /\ Due("dl_on_piece_full")' = {pc}
            /\ Due("dl_on_piece_unfull")' = {} /\ bad'[q] = {}
        BY <3>1, <3>4 DEF AnnDue, Due, NextCall, Clean
      <4>2. Wanted(q)' = {y \in ann[q] \ got : y = pc \/ ~piece_full(y)'}
        BY <1>1, <1>3, <4>1 DEF Wanted
      <4>3. ann[q] \in SUBSET Pieces
        BY DEF IInv, TypeOK
      <4> QED
        BY <1>3, <1>9, <2>1, <4>2, <4>3
    <3> QED
      BY <3>4, <3>6, <3>7, <3>8, <3>9
  <2>3. CASE s # free
    <3>1. Then(<<>>)
      BY <1>5, <2>3
    <3>2. /\ Stacked' /\ Frames' = Rest
          /\ agenda' = <<>> \/ Head(agenda') \in Rest
      BY <1>1, <3>1, TopOk, Pop
    <3>3. FramesOk'
      BY <1>14, <3>2 DEF FramesOk
    <3>4. Detached' => Detached
      BY <1>13, <3>2 DEF Detached
    <3>5. OpenPiece(pc)'
      BY <1>1, <1>3, <1>10, <2>3 DEF OpenPiece
    <3>6. Detached' => agenda' # <<>>
      BY OrderedNone DEF Detached, Frames, Elems
    <3>7. Saturated'
      BY <1>4, <1>13, <1>16, <1>17, <3>2, <3>4, <3>5, <3>6 DEF Saturated
    <3>8. ASSUME NEW q \in Peers PROVE Wanted(q)' = Wanted(q)
      <4>1. /\ AnnDue(q)' = {} /\ Due("dl_on_piece_full")' = {}
            /\ Due("dl_on_piece_unfull")' = {} /\ bad'[q] = {}
        BY <1>13, <3>2 DEF AnnDue, Due, NextCall, Clean
      <4>2. Wanted(q)' = {y \in ann[q] \ got : ~piece_full(y)'}
        BY <1>1, <1>3, <4>1 DEF Wanted
      <4>3. ann[q] \in SUBSET Pieces
        BY DEF IInv, TypeOK
      <4> QED
        BY <1>3, <1>9, <1>10, <2>1, <2>3, <4>2, <4>3
    <3> QED
      BY <3>2, <3>3, <3>4, <3>7, <3>8
  <2> QED
    BY <2>2, <2>3
<1>19. Links'
  <2>1. nwant' = nwant
    BY <1>1 DEF wants
  <2>2. got' \intersect busy' = {}
    BY <1>1, <1>3, <1>5, Apart
  <2>3. \A y \in Pieces \ (got' \union busy') : have'[y] # Blocks
    BY <1>1, <1>5 DEF HInv, Links
  <2>4. \A q \in Peers \ peers : reqs'[q] = reqs[q]
    BY <1>2, <1>11
  <2> QED
    BY <1>1, <1>3, <1>13, <1>18, <2>1, <2>2, <2>3, <2>4, MoreLinks
    DEF HInv, LinkFns
<1>20. Counts'
  <2>1. nwant' = nwant
    BY <1>1 DEF wants
  <2> QED
    BY <1>1, <1>18, <2>1 DEF HInv, Counts, IInv, TypeOK
<1> QED
  BY <1>7, <1>12, <1>18, <1>19, <1>20 DEF HInv

\* cm_pieces + npcs_busy = npieces says that every piece is downloaded or in
\* the getlst.
LEMMA Disjoint ==
    ASSUME IInv, got \intersect busy = {}
    PROVE  Cardinality(got) + Cardinality(busy) = Cardinality(Pieces) <=>
               got \union busy = Pieces
<1>1. got \in SUBSET Pieces /\ busy \in SUBSET Pieces /\ IsFiniteSet(Pieces)
  BY DownloadAssumption DEF IInv, TypeOK, DownloadAssumption
<1>2. IsFiniteSet(got) /\ IsFiniteSet(busy)
  BY <1>1, FS_Subset
<1>3. /\ Cardinality(got \union busy) =
           Cardinality(got) + Cardinality(busy) - Cardinality(got \intersect busy)
  BY <1>2, FS_Union
<1>4. Cardinality({}) = 0
  BY FS_EmptySet
<1>5. Cardinality(got) \in Nat /\ Cardinality(busy) \in Nat
  BY <1>2, FS_CardinalityType
<1>6. Cardinality(got \union busy) = Cardinality(got) + Cardinality(busy)
  <2>1. Cardinality(got \intersect busy) = 0
    BY <1>4
  <2> QED
    BY <1>3, <1>5, <2>1
<1>7. got \union busy \in SUBSET Pieces
  BY <1>1
<1>8. Cardinality(got \union busy) = Cardinality(Pieces) =>
          got \union busy = Pieces
  BY <1>1, <1>7, FS_Subset
<1> QED
  BY <1>6, <1>8

\* dl_should_enter_endgame says that every missing block is requested.
LEMMA NothingOpen ==
    ASSUME IInv, got \intersect busy = {}
    PROVE  dl_should_enter_endgame <=> \A pc \in Pieces : ~OpenPiece(pc)
<1>1. got \in SUBSET Pieces /\ busy \in SUBSET Pieces
  BY DEF IInv, TypeOK
<1>2. dl_should_enter_endgame <=> /\ got \union busy = Pieces
                                  /\ \A pc \in busy : piece_full(pc)
  BY Disjoint DEF dl_should_enter_endgame
<1>3. ASSUME got \union busy = Pieces, \A pc \in busy : piece_full(pc),
             NEW pc \in Pieces
      PROVE  ~OpenPiece(pc)
  BY <1>3 DEF OpenPiece
<1>4. ASSUME \A pc \in Pieces : ~OpenPiece(pc)
      PROVE  got \union busy = Pieces /\ \A pc \in busy : piece_full(pc)
  BY <1>1, <1>4 DEF OpenPiece
<1> QED
  BY <1>2, <1>3, <1>4

\* The peers that can be asked for a piece are those that announced it.
LEMMA HoldersAre ==
    ASSUME IInv, HInv,
           agenda = <<>> \/ Head(agenda).fn \notin {"dl_on_piece_ann",
                                                    "peer_on_bitfield"},
           NEW pc
    PROVE  /\ Holders(pc) = {p \in peers : pc \in ann[p]}
           /\ Holders(pc) \in SUBSET peers /\ peers \in SUBSET Peers
<1>1. peers \in SUBSET Peers
  BY DEF IInv, TypeOK
<1>2. \A p \in Peers : field[p] = ann[p] /\ bad[p] = {}
  BY Announced DEF HInv, Clean
<1> QED
  BY <1>1, <1>2 DEF Holders, peer_requestable

\* dl_on_piece_full keeps the invariant: the piece is no longer wanted, and end
\* game is entered exactly when no piece is open.
LEMMA PieceFullHonest ==
    ASSUME IInv, HInv, Clean', dl_on_piece_full
    PROVE  HInv'
<1>1. /\ agenda # <<>> /\ Head(agenda).fn = "dl_on_piece_full" /\ ~aborted
      /\ UNCHANGED <<peers, pchoke, field, ann, endgame, reqs, have, down,
                     busy, got>>
  BY DEF dl_on_piece_full, Running, content, pieces, remote
<1>2. PICK pc \in busy \ got :
        Head(agenda).pcs = {pc} /\ piece_full(pc) /\ ~endgame
  BY <1>1, TopOk DEF CallOk
<1>3. PICK ps \in SUBSET peers :
        ps = Holders(pc) /\ ps = {p \in peers : pc \in ann[p]}
  BY <1>1, HoldersAre
<1>4. /\ asserts(PeerUnwantOk(ps)) /\ peer_unwant(ps)
      /\ Then(IF dl_should_enter_endgame
              THEN Call("dl_enter_endgame", {}, {}) ELSE <<>>)
  BY <1>2, <1>3 DEF dl_on_piece_full
<1>5. ps \in SUBSET Peers /\ peers \in SUBSET Peers /\ pc \in Pieces
  BY <1>2, <1>3 DEF IInv, TypeOK
<1>6. \A q \in Peers :
         Wanted(q) = {x \in ann[q] \ got : x = pc \/ ~piece_full(x)}
  <2> SUFFICES ASSUME NEW q \in Peers
               PROVE  Wanted(q) = {x \in ann[q] \ got :
                                      x = pc \/ ~piece_full(x)}
    OBVIOUS
  <2>1. /\ AnnDue(q) = {} /\ Due("dl_on_piece_full") = {pc}
        /\ Due("dl_on_piece_unfull") = {} /\ bad[q] = {}
    BY <1>1, <1>2 DEF AnnDue, Due, NextCall, Clean, HInv
  <2> QED
    BY <1>2, <2>1 DEF Wanted
<1>7. \A q \in ps : pc \in Wanted(q)
  BY <1>2, <1>3, <1>5, <1>6
<1>8. PeerUnwantOk(ps)
  BY <1>7, UnwantOk
<1>9. ~aborted'
  BY <1>4, <1>8 DEF asserts
<1>10. Flags'
  BY <1>1, <1>4, <1>5, <1>8, UnwantFlags DEF HInv, IInv, Clean
<1>11. \A q \in Peers \ peers : nwant'[q] = nwant[q]
  BY <1>4 DEF peer_unwant
<1>12. /\ Frames = {Head(agenda)} \union Rest
       /\ \A g \in Rest :
            /\ \/ g.fn \in {"assign_loop", "dl_unassign_requests", "peer_free"}
               \/ g.fn = "unfull_loop" /\ g.pcs = {pc}
            /\ CallOk(g) /\ g.pcs \subseteq {pc}
            /\ CallOk(g)'
  <2>1. /\ Frames = {Head(agenda)} \union Rest
        /\ \A g \in Rest :
            /\ \/ g.fn \in {"assign_loop", "dl_unassign_requests", "peer_free"}
               \/ g.fn = "unfull_loop" /\ g.pcs = {pc}
            /\ CallOk(g) /\ g.pcs \subseteq {pc}
    BY <1>1, <1>2, TopOk DEF Below, CallOk
  <2>2. \A g \in Rest : CallOk(g)'
    BY <1>1, <2>1, KeptCalls DEF HInv
  <2> QED
    BY <2>1, <2>2
<1>13. \/ ~Detached
       \/ \E x \in Pieces : OpenPiece(x) /\ x # pc
  BY <1>2, <1>5 DEF HInv, Saturated
<1>14. \A x \in Pieces : OpenPiece(x)' <=> OpenPiece(x)
  BY <1>1 DEF OpenPiece, piece_full
<1>15. got \intersect busy = {}
  BY <1>1, Apart
<1>16. /\ Stacked' /\ Rest \subseteq Frames' /\ FramesOk' /\ Saturated'
       /\ agenda' = <<>> \/ Head(agenda').fn \notin DueFns
  <2>1. CASE dl_should_enter_endgame
    <3>1. \A x \in Pieces : ~OpenPiece(x)
      BY <1>15, <2>1, NothingOpen
    <3>2. ~Detached
      BY <1>13, <3>1
    <3> DEFINE f == [fn |-> "dl_enter_endgame", ps |-> {}, pcs |-> {}]
    <3>3. f \in Frame /\ f.fn = "dl_enter_endgame"
      BY DEF Frame, Fns
    <3>4. Then(<<f>>)
      BY <1>4, <2>1 DEF Call
    <3> HIDE DEF f
    <3>5. \A g \in Rest : Below(f, g)
      BY <1>12, <3>2, <3>3 DEF Below, Detached
    <3>6. /\ Stacked' /\ Frames' = {f} \union Rest
          /\ agenda' # <<>> /\ Head(agenda') = f
      BY <1>1, <3>3, <3>4, <3>5, TopOk, Push1
    <3>7. CallOk(f)'
      BY <1>1, <1>2, <1>14, <3>1, <3>3 DEF CallOk
    <3>8. ~Detached'
      BY <1>12, <3>2, <3>3, <3>6 DEF Detached
    <3> QED
      BY <1>12, <3>3, <3>6, <3>7, <3>8 DEF FramesOk, Saturated, NextCall, DueFns
  <2>2. CASE ~dl_should_enter_endgame
    <3>1. Then(<<>>)
      BY <1>4, <2>2
    <3>2. /\ Stacked' /\ Frames' = Rest
          /\ agenda' = <<>> \/ Head(agenda') \in Rest
      BY <1>1, <3>1, TopOk, Pop
    <3>3. Detached' => Detached /\ agenda' # <<>>
      BY <1>12, <3>2, OrderedNone DEF Detached, Frames, Elems
    <3>4. \E x \in Pieces : OpenPiece(x)' /\ (Detached => x # pc)
      <4>1. CASE Detached
        BY <1>13, <1>14, <4>1
      <4>2. CASE ~Detached
        BY <1>14, <1>15, <2>2, <4>2, NothingOpen
      <4> QED
        BY <4>1, <4>2
    <3>5. Saturated'
      BY <1>12, <3>2, <3>3, <3>4 DEF Saturated
    <3> QED
      BY <1>12, <3>2, <3>5 DEF FramesOk, DueFns
  <2> QED
    BY <2>1, <2>2
<1>17. Links'
  BY <1>1, <1>11, <1>12, <1>16, KeptLinks DEF HInv, LinkFns
<1>18. Counts'
  <2>1. ASSUME NEW q \in Peers
        PROVE  Wanted(q)' = {x \in ann[q] \ got : ~piece_full(x)}
    <3>1. /\ AnnDue(q)' = {} /\ Due("dl_on_piece_full")' = {}
          /\ Due("dl_on_piece_unfull")' = {} /\ bad'[q] = {}
      BY <1>16 DEF AnnDue, Due, NextCall, Clean, DueFns
    <3> QED
      BY <1>1, <1>2, <3>1 DEF Wanted, piece_full
  <2>2. \A q \in peers : Wanted(q)' = IF q \in ps THEN Wanted(q) \ {pc}
                                      ELSE Wanted(q)
    <3> SUFFICES ASSUME NEW q \in peers
                 PROVE  Wanted(q)' = IF q \in ps THEN Wanted(q) \ {pc}
                                     ELSE Wanted(q)
      OBVIOUS
    <3>1. /\ Wanted(q)' = {x \in ann[q] \ got : ~piece_full(x)}
          /\ Wanted(q) = {x \in ann[q] \ got : x = pc \/ ~piece_full(x)}
      BY <1>5, <1>6, <2>1
    <3> HIDE DEF Wanted
    <3>2. CASE q \in ps
      BY <1>2, <3>1, <3>2
    <3>3. CASE q \notin ps
      BY <1>2, <1>3, <3>1, <3>3
    <3> QED
      BY <3>2, <3>3
  <2> QED
    BY <1>1, <1>4, <1>7, <2>2, CountsLose
<1> QED
  BY <1>9, <1>10, <1>16, <1>17, <1>18 DEF HInv

\* dl_enter_endgame keeps the invariant: nobody was wanted, and every peer is
\* now wanted for the pieces of the getlst it has.
LEMMA EnterEndgameHonest ==
    ASSUME IInv, HInv, Clean', dl_enter_endgame
    PROVE  HInv'
<1>1. /\ agenda # <<>> /\ Head(agenda).fn = "dl_enter_endgame" /\ ~aborted
      /\ UNCHANGED <<peers, pchoke, field, ann, reqs, have, busy, got>>
      /\ endgame' = TRUE
  BY DEF dl_enter_endgame, Running, content, remote
<1>2. ~endgame /\ \A x \in Pieces : ~OpenPiece(x)
  BY <1>1, TopOk DEF CallOk
<1>3. got \intersect busy = {} /\ got \union busy = Pieces
  <2>1. got \intersect busy = {}
    BY <1>1, Apart
  <2>2. got \in SUBSET Pieces /\ busy \in SUBSET Pieces
    BY DEF IInv, TypeOK
  <2> QED
    BY <1>2, <2>1, <2>2 DEF OpenPiece
<1>4. \A q \in Peers : /\ field[q] = ann[q] /\ bad[q] = {}
                       /\ ann[q] \in SUBSET Pieces
  BY <1>1, Announced DEF HInv, Clean, IInv, TypeOK
<1>5. peers \in SUBSET Peers
  BY DEF IInv, TypeOK
<1>6. \A q \in peers : nwant[q] = 0
  <2> SUFFICES ASSUME NEW q \in peers PROVE Wanted(q) = {}
    BY NoneWanted
  <2>1. Wanted(q) = {x \in ann[q] \ got : ~piece_full(x)}
    BY <1>1, <1>2, <1>5, NoDues DEF HInv, DueFns
  <2>2. \A x \in ann[q] \ got : piece_full(x)
    BY <1>2, <1>4, <1>5 DEF OpenPiece
  <2> HIDE DEF Wanted
  <2> QED
    BY <2>1, <2>2
<1>7. PICK k : k = [p \in Peers |-> IF p \in peers
                 THEN Cardinality({x \in busy : peer_requestable(p, x)})
                 ELSE 0]
  OBVIOUS
<1>8. /\ asserts((\A p \in peers : nwant[p] = 0) /\ PeerWantOk(k))
      /\ peer_want(k)
      /\ Then(Call("dl_assign_requests_eg", peers, {}))
  BY <1>7 DEF dl_enter_endgame
<1>9. \A q \in Peers : k[q] = IF q \in peers THEN Cardinality(busy \intersect ann[q])
                              ELSE 0
  <2> SUFFICES ASSUME NEW q \in peers
               PROVE  {x \in busy : peer_requestable(q, x)}
                        = busy \intersect ann[q]
    BY <1>5, <1>7
  <2> QED
    BY <1>4, <1>5 DEF peer_requestable
<1>10. \A q \in Peers : /\ Cardinality(busy \intersect ann[q]) \in Nat
                        /\ Cardinality(busy \intersect ann[q]) <=
                             Cardinality(ann[q])
  <2> SUFFICES ASSUME NEW q \in Peers
               PROVE  /\ Cardinality(busy \intersect ann[q]) \in Nat
                      /\ Cardinality(busy \intersect ann[q]) <=
                             Cardinality(ann[q])
    OBVIOUS
  <2>1. IsFiniteSet(ann[q])
    BY WantedFinite
  <2>2. busy \intersect ann[q] \in SUBSET ann[q]
    OBVIOUS
  <2> QED
    BY <2>1, <2>2, FS_Subset, FS_CardinalityType
<1>11. k \in [Peers -> Nat]
  BY <1>7, <1>9, <1>10
<1>12. PeerWantOk(k)
  <2> SUFFICES ASSUME NEW q \in Peers, k[q] > 0
               PROVE  /\ nwant[q] + k[q] <= Cardinality(ann[q])
                      /\ (nwant[q] = 0 /\ q \notin suspect) =>
                           (reqs[q] = {} <=> q \notin dounwant)
    BY DEF PeerWantOk
  <2>1. q \in peers
    <3> SUFFICES ASSUME q \notin peers PROVE FALSE
      OBVIOUS
    <3>1. k[q] = 0
      BY <1>9
    <3> QED
      BY <3>1
  <2>2. nwant[q] = 0 /\ k[q] = Cardinality(busy \intersect ann[q])
    BY <1>6, <1>9, <2>1
  <2>3. nwant[q] + k[q] <= Cardinality(ann[q])
    BY <1>10, <2>2
  <2> QED
    BY <2>3 DEF HInv, Flags
<1>13. ~aborted'
  BY <1>6, <1>8, <1>12 DEF asserts
<1>14. Flags'
  BY <1>1, <1>8, <1>11, WantFlags DEF HInv, IInv, Clean
<1>15. \A q \in Peers : nwant'[q] = nwant[q] + k[q]
  BY <1>8 DEF peer_want
<1>16. /\ Frames = {Head(agenda)} \union Rest
       /\ \A g \in Rest : g.fn \in {"assign_loop", "peer_free"} /\ CallOk(g)
  BY <1>1, TopOk DEF Below
<1>17. PICK f \in Frame :
         f = [fn |-> "dl_assign_requests_eg", ps |-> peers, pcs |-> {}]
  BY <1>5 DEF Frame, Fns
<1>18. f.fn = "dl_assign_requests_eg" /\ f.ps = peers /\ Then(<<f>>)
  BY <1>8, <1>17 DEF Call
<1>19. \A g \in Rest : Below(f, g)
  BY <1>16, <1>18 DEF Below
<1>20. /\ Stacked' /\ Frames' = {f} \union Rest
       /\ agenda' # <<>> /\ Head(agenda') = f
  BY <1>1, <1>17, <1>18, <1>19, TopOk, Push1
<1>21. FramesOk'
  <2>1. CallOk(f)'
    BY <1>1, <1>18 DEF CallOk
  <2>2. ASSUME NEW g \in Rest PROVE CallOk(g)'
    BY <1>1, <1>16, <2>2 DEF CallOk
  <2> QED
    BY <1>20, <2>1, <2>2 DEF FramesOk
<1>22. Saturated'
  BY <1>1 DEF Saturated
<1>23. Links'
  <2>1. ASSUME NEW q \in Peers \ peers PROVE nwant'[q] = nwant[q]
    <3>1. k[q] = 0 /\ nwant[q] \in Int
      BY <1>9 DEF IInv, TypeOK
    <3> QED
      BY <1>15, <3>1
  <2>2. Rest \subseteq Frames' /\ Head(agenda).fn \notin LinkFns
    BY <1>1, <1>20 DEF LinkFns
  <2> QED
    BY <1>1, <1>3, <1>16, <2>1, <2>2, MoreLinks DEF HInv
<1>24. Counts'
  <2> SUFFICES ASSUME NEW q \in peers PROVE nwant'[q] = Cardinality(Wanted(q)')
    BY <1>1 DEF Counts
  <2>1. q \in Peers
    BY <1>5
  <2>2. /\ AnnDue(q)' = {} /\ Due("dl_on_piece_full")' = {}
        /\ Due("dl_on_piece_unfull")' = {} /\ bad'[q] = {}
    BY <1>18, <1>20, <2>1 DEF AnnDue, Due, NextCall, Clean
  <2>3. Wanted(q)' = ann[q] \ got
    BY <1>1, <2>2 DEF Wanted
  <2>4. ann[q] \ got = busy \intersect ann[q]
    BY <1>3, <1>4, <2>1
  <2>5. nwant'[q] = Cardinality(busy \intersect ann[q])
    BY <1>6, <1>9, <1>10, <1>15, <2>1
  <2> QED
    BY <2>3, <2>4, <2>5
<1> QED
  BY <1>13, <1>14, <1>20, <1>21, <1>22, <1>23, <1>24 DEF HInv

\* dl_assign_requests_eg keeps the invariant.
LEMMA AssignEgHonest ==
    ASSUME IInv, HInv, Clean', dl_assign_requests_eg
    PROVE  HInv'
<1>1. /\ agenda # <<>> /\ Head(agenda).fn = "dl_assign_requests_eg"
      /\ UNCHANGED <<peers, pchoke, field, ann, endgame, have, down, busy, got>>
      /\ UNCHANGED wants /\ ~aborted'
  BY DEF dl_assign_requests_eg, Running, content, pieces, remote
<1>2. /\ Frames = {Head(agenda)} \union Rest
      /\ \A g \in Rest : /\ g.fn \in {"assign_loop", "cm_test_piece", "peer_free"}
                         /\ CallOk(g)'
      /\ Head(agenda).ps \subseteq peers
  <2>1. /\ Frames = {Head(agenda)} \union Rest
        /\ \A g \in Rest : g.fn \in {"assign_loop", "cm_test_piece", "peer_free"}
        /\ Head(agenda).ps \subseteq peers
    BY <1>1, TopOk DEF Below, CallOk
  <2>2. \A g \in Rest : CallOk(g)'
    BY <1>1, <2>1, KeptCalls DEF HInv
  <2> QED
    BY <2>1, <2>2
<1>3. endgame
  BY <1>1, HeadFrame DEF IInv, HInv, AgendaOk, FrameOk, EgFns
<1>4. PICK ps \in SUBSET peers :
        /\ ps = {p \in Head(agenda).ps : peer_leech_ok(p)}
        /\ \/ ps = {} /\ Then(<<>>) /\ UNCHANGED reqs
           \/ \E p \in ps :
                /\ \E s : reqs' = [reqs EXCEPT ![p] = @ \union s]
                /\ Then(IF ps = {p} THEN <<>>
                        ELSE Call("dl_assign_requests_eg", ps \ {p}, {}))
  <2> DEFINE ps == {p \in Head(agenda).ps : peer_leech_ok(p)}
  <2>1. ps \in SUBSET peers
    BY <1>2
  <2>2. \/ ps = {} /\ Then(<<>>) /\ UNCHANGED reqs
        \/ \E p \in ps :
             /\ \E s : reqs' = [reqs EXCEPT ![p] = @ \union s]
             /\ Then(IF ps = {p} THEN <<>>
                     ELSE Call("dl_assign_requests_eg", ps \ {p}, {}))
    BY DEF dl_assign_requests_eg
  <2> QED
    BY <2>1, <2>2
<1>5. peers \in SUBSET Peers
  BY DEF IInv, TypeOK
<1>6. /\ Flags'
      /\ \A q \in Peers \ peers : reqs'[q] = reqs[q]
  <2>1. CASE UNCHANGED reqs
    BY <1>1, <2>1, KeptFlags DEF HInv
  <2>2. CASE ~UNCHANGED reqs
    <3>1. PICK p \in ps : \E s : reqs' = [reqs EXCEPT ![p] = @ \union s]
      BY <1>4, <2>2
    <3>2. PICK s : reqs' = [reqs EXCEPT ![p] = @ \union s]
      BY <3>1
    <3>3. \A q \in Peers : /\ reqs[q] \subseteq reqs'[q]
                           /\ q # p => reqs'[q] = reqs[q]
      BY <3>2 DEF IInv, TypeOK
    <3>4. p \in iwant /\ p \in Peers /\ p \in peers
      BY <1>4, <1>5 DEF peer_leech_ok, LeechOk
    <3>5. Flags'
      BY <1>1, <3>3, <3>4, AskFlags DEF HInv, IInv
    <3> QED
      BY <3>3, <3>4, <3>5
  <2> QED
    BY <2>1, <2>2
<1>7. /\ Stacked' /\ Rest \subseteq Frames' /\ FramesOk'
      /\ agenda' = <<>> \/ Head(agenda').fn \notin DueFns
  <2>1. CASE Then(<<>>)
    <3>1. /\ Stacked' /\ Frames' = Rest
          /\ agenda' = <<>> \/ Head(agenda') \in Rest
      BY <1>1, <2>1, TopOk, Pop
    <3> QED
      BY <1>2, <3>1 DEF FramesOk, DueFns
  <2>2. CASE ~Then(<<>>)
    <3>1. PICK p \in ps : Then(Call("dl_assign_requests_eg", ps \ {p}, {}))
      BY <1>4, <2>2
    <3> DEFINE f == [fn |-> "dl_assign_requests_eg", ps |-> ps \ {p},
                     pcs |-> {}]
    <3>2. /\ f \in Frame /\ f.fn = "dl_assign_requests_eg"
          /\ f.ps \subseteq ps
      BY <1>5 DEF Frame, Fns
    <3>3. Then(<<f>>)
      BY <3>1 DEF Call
    <3> HIDE DEF f
    <3>4. \A g \in Rest : Below(f, g)
      BY <1>2, <3>2 DEF Below
    <3>5. /\ Stacked' /\ Frames' = {f} \union Rest
          /\ agenda' # <<>> /\ Head(agenda') = f
      BY <1>1, <3>2, <3>3, <3>4, TopOk, Push1
    <3>6. f.ps \subseteq peers
      BY <3>2
    <3>7. CallOk(f)'
      BY <1>1, <3>2, <3>6 DEF CallOk
    <3> QED
      BY <1>2, <3>2, <3>5, <3>7 DEF FramesOk, DueFns
  <2> QED
    BY <2>1, <2>2
<1>8. Saturated'
  BY <1>1, <1>3 DEF Saturated
<1>9. nwant' = nwant
  BY <1>1 DEF wants
<1>10. Links'
  <2>1. got' \intersect busy' = {}
    BY <1>1, Apart
  <2>2. /\ endgame' => got' \union busy' = Pieces
        /\ \A y \in Pieces \ (got' \union busy') : have'[y] # Blocks
    BY <1>1 DEF HInv, Links
  <2> QED
    BY <1>1, <1>2, <1>6, <1>7, <1>9, <2>1, <2>2, MoreLinks DEF HInv, LinkFns
<1>11. Counts'
  BY <1>1, <1>7, <1>9, KeptCounts DEF HInv, IInv, DueFns
<1> QED
  BY <1>1, <1>6, <1>7, <1>8, <1>10, <1>11 DEF HInv

------------------------------------------------------------------------------
(* Requests are taken back *)

\* No call below one call.
LEMMA NoneLast == \A f \in Frame : <<f>> \o <<>> = <<f>>
OBVIOUS

\* A turn of dl_unassign_requests keeps the invariant: a full piece that opens
\* is not wanted until dl_on_piece_unfull, the next call.
LEMMA UnassignHonest ==
    ASSUME IInv, HInv, Clean', dl_unassign_requests
    PROVE  HInv'
<1>1. /\ agenda # <<>> /\ Head(agenda).fn = "dl_unassign_requests" /\ ~aborted
      /\ UNCHANGED <<peers, pchoke, field, ann, endgame, have, busy, got>>
  BY DEF dl_unassign_requests, Running, content, remote
<1>2. PICK p \in (Peers \ peers) \union pchoke : Head(agenda).ps = {p}
  BY <1>1, TopOk DEF CallOk
<1>3. p \in Peers /\ ~endgame /\ Head(agenda).pcs = {}
  BY <1>1, <1>2, TopOk DEF CallOk, IInv, TypeOK
<1> DEFINE Mine(q, y) == {b \in Blocks : <<y, b>> \in reqs[q]}
           Left(q, y) == [reqs EXCEPT ![q] = Without(y)[q]]
           Taken(q, y) ==
             /\ asserts(Mine(q, y) \subseteq down[y]
                        /\ PeerOnNoReqsOk(Left(q, y)))
             /\ down' = [down EXCEPT ![y] = @ \ Mine(q, y)]
             /\ reqs' = Left(q, y)
             /\ peer_on_no_reqs(Left(q, y))
             /\ Then((IF piece_full(y)
                      THEN Call("dl_on_piece_unfull", {}, {y}) ELSE <<>>)
                     \o IF Left(q, y)[q] = {} THEN <<>>
                        ELSE Call("dl_unassign_requests", {q}, {}))
<1>4. PICK x \in reqs[p] : Taken(p, x[1])
  <2>1. \E q \in Head(agenda).ps : \E x \in reqs[q] : Taken(q, x[1])
    BY DEF dl_unassign_requests
  <2> HIDE DEF Taken
  <2> QED
    BY <1>2, <2>1
<1>5. PICK pc \in Pieces : pc = x[1] /\ x[2] \in Blocks /\ x = <<pc, x[2]>>
  BY <1>3 DEF IInv, TypeOK
<1>6. PICK mine \in SUBSET Blocks :
        mine = {b \in Blocks : <<pc, b>> \in reqs[p]}
  OBVIOUS
<1>7. PICK r :
        /\ r = [reqs EXCEPT ![p] = Without(pc)[p]]
        /\ asserts(mine \subseteq down[pc] /\ PeerOnNoReqsOk(r))
        /\ down' = [down EXCEPT ![pc] = @ \ mine]
        /\ reqs' = r
        /\ peer_on_no_reqs(r)
        /\ Then((IF piece_full(pc) THEN Call("dl_on_piece_unfull", {}, {pc})
                 ELSE <<>>)
                 \o IF r[p] = {} THEN <<>>
                    ELSE Call("dl_unassign_requests", {p}, {}))
  BY <1>4, <1>5, <1>6
<1>8. pc \in busy \ got /\ x[2] \notin have[pc] /\ x[2] \in mine
  BY <1>1, <1>3, <1>5, <1>6 DEF IInv, Accounted
<1>9. \A q \in Peers : r[q] \subseteq reqs[q] /\ (q # p => r[q] = reqs[q])
  BY <1>3, <1>7 DEF Without, IInv, TypeOK
<1>10. mine \subseteq down[pc]
  BY <1>1, <1>3, <1>5, <1>6 DEF IInv, Accounted
<1>11. Flags' /\ PeerOnNoReqsOk(r) /\ nwant' = nwant
  BY <1>1, <1>7, <1>9, NoReqFlags DEF HInv, IInv
<1>12. ~aborted'
  BY <1>7, <1>10, <1>11 DEF asserts
<1>13. /\ \A y \in Pieces : y # pc => (piece_full(y)' <=> piece_full(y))
       /\ ~piece_full(pc)'
  <2>1. \A y \in Pieces : down'[y] = IF y = pc THEN down[pc] \ mine ELSE down[y]
    BY <1>7 DEF IInv, TypeOK
  <2> QED
    BY <1>1, <1>5, <1>8, <2>1 DEF piece_full
<1>14. \A y \in Pieces : OpenPiece(y) => OpenPiece(y)'
  BY <1>1, <1>13 DEF OpenPiece
<1>15. /\ Frames = {Head(agenda)} \union Rest
       /\ \A h \in Rest : h.fn = "peer_free" /\ h.pcs = {} /\ CallOk(h)
  BY <1>1, TopOk DEF Below, CallOk
<1> DEFINE f == [fn |-> "dl_on_piece_unfull", ps |-> {}, pcs |-> {pc}]
           g == [fn |-> "dl_unassign_requests", ps |-> {p}, pcs |-> {}]
<1>16. /\ f \in Frame /\ f.fn = "dl_on_piece_unfull" /\ f.pcs = {pc}
       /\ g \in Frame /\ g.fn = "dl_unassign_requests" /\ g.ps = {p}
       /\ g.pcs = {}
  BY <1>3 DEF Frame, Fns
<1>17. /\ (piece_full(pc) /\ r[p] = {}) => Then(<<f>>)
       /\ (piece_full(pc) /\ r[p] # {}) => Then(<<f>> \o <<g>>)
       /\ (~piece_full(pc) /\ r[p] = {}) => Then(<<>>)
       /\ (~piece_full(pc) /\ r[p] # {}) => Then(<<g>>)
  <2>1. /\ <<f>> \o <<>> = <<f>> /\ <<>> \o <<>> = <<>> /\ <<>> \o <<g>> = <<g>>
    BY <1>16, NoneLast, NoneFirst
  <2> QED
    BY <1>7, <2>1 DEF Call
<1> HIDE DEF f, g
<1>18. /\ Below(f, g)
       /\ \A h \in Rest : Below(f, h) /\ Below(g, h)
  BY <1>15, <1>16 DEF Below
<1>19. /\ Stacked'
       /\ Frames' = (IF piece_full(pc) THEN {f} ELSE {})
                    \union (IF r[p] = {} THEN {} ELSE {g}) \union Rest
       /\ piece_full(pc) => agenda' # <<>> /\ Head(agenda') = f
       /\ ~piece_full(pc) => \/ agenda' = <<>> \/ Head(agenda') = g
                             \/ Head(agenda') \in Rest
  <2>1. CASE piece_full(pc) /\ r[p] = {}
    BY <1>1, <1>16, <1>17, <1>18, <2>1, TopOk, Push1
  <2>2. CASE piece_full(pc) /\ r[p] # {}
    BY <1>1, <1>16, <1>17, <1>18, <2>2, TopOk, Push2
  <2>3. CASE ~piece_full(pc) /\ r[p] = {}
    BY <1>1, <1>16, <1>17, <1>18, <2>3, TopOk, Pop
  <2>4. CASE ~piece_full(pc) /\ r[p] # {}
    BY <1>1, <1>16, <1>17, <1>18, <2>4, TopOk, Push1
  <2> QED
    BY <2>1, <2>2, <2>3, <2>4
<1>20. FramesOk'
  <2>1. CallOk(f)'
    BY <1>1, <1>3, <1>8, <1>13, <1>16 DEF CallOk
  <2>2. CallOk(g)'
    BY <1>1, <1>2, <1>3, <1>16 DEF CallOk
  <2>3. ASSUME NEW h \in Rest PROVE CallOk(h)'
    BY <1>1, <1>15, <2>3 DEF CallOk
  <2> QED
    BY <1>19, <2>1, <2>2, <2>3 DEF FramesOk
<1>21. Links'
  <2>1. ASSUME NEW q \in Peers PROVE field'[q] = ann'[q]
    BY <1>1, Announced
  <2>2. ASSUME NEW q \in Peers \ peers
        PROVE  (field'[q] = {} /\ nwant'[q] = 0) \/ Pending({"peer_free"}, q)'
    <3>1. Pending({"peer_free"}, q) => Pending({"peer_free"}, q)'
      BY <1>1, <1>15, <1>19, StillPending
    <3> QED
      BY <1>1, <1>11, <3>1 DEF HInv, Links
  <2>3. ASSUME NEW q \in Peers \ peers
        PROVE  reqs'[q] = {} \/ Pending({"dl_unassign_requests",
                                         "dl_unassign_requests_eg"}, q)'
    <3>1. CASE q = p
      BY <1>7, <1>16, <1>19, <3>1 DEF Pending
    <3>2. CASE q # p
      <4>1. ~Pending({"dl_unassign_requests", "dl_unassign_requests_eg"}, q)
        BY <1>2, <1>15, <3>2 DEF Pending
      <4>2. reqs[q] = {}
        BY <4>1 DEF HInv, Links
      <4> QED
        BY <1>7, <1>9, <3>2, <4>2
    <3> QED
      BY <3>1, <3>2
  <2>4. got \intersect busy = {}
    BY <1>1, Apart
  <2>5. \A y \in Pieces \ (got \union busy) : have[y] # Blocks
    BY DEF HInv, Links
  <2> QED
    BY <1>1, <1>3, <2>1, <2>2, <2>3, <2>4, <2>5 DEF Links
<1>22. Saturated'
  <2>1. Detached /\ ~NextCall("dl_on_piece_full") /\ ~NextCall("dl_enter_endgame")
    BY <1>1, <1>15 DEF NextCall, Detached
  <2>2. PICK y \in Pieces : OpenPiece(y)
    BY <1>3, <1>8, <2>1 DEF HInv, Saturated
  <2>3. OpenPiece(y)'
    BY <1>14, <2>2
  <2>4. piece_full(pc) => y # pc
    BY <1>8, <2>2 DEF OpenPiece
  <2>5. Detached' => agenda' # <<>>
    BY OrderedNone DEF Detached, Frames, Elems
  <2>6. Detached' => y \notin Head(agenda').pcs
    BY <1>15, <1>16, <1>19, <2>4, <2>5
  <2> QED
    BY <2>3, <2>6 DEF Saturated
<1>23. Counts'
  <2>1. ASSUME NEW q \in Peers PROVE Wanted(q)' = Wanted(q)
    <3>1. Wanted(q) = {y \in ann[q] \ got : ~piece_full(y)}
      BY <1>1, <1>3, NoDues DEF HInv, DueFns
    <3>2. ann[q] \in SUBSET Pieces
      BY DEF IInv, TypeOK
    <3>3. CASE piece_full(pc)
      <4>1. /\ AnnDue(q)' = {} /\ Due("dl_on_piece_full")' = {}
            /\ Due("dl_on_piece_unfull")' = {pc} /\ bad'[q] = {}
        BY <1>16, <1>19, <3>3 DEF AnnDue, Due, NextCall, Clean
      <4>2. Wanted(q)' = {y \in ann[q] \ got : ~piece_full(y)' /\ y # pc}
        BY <1>1, <1>3, <4>1 DEF Wanted
      <4> QED
        BY <1>13, <3>1, <3>2, <3>3, <4>2
    <3>4. CASE ~piece_full(pc)
      <4>1. /\ AnnDue(q)' = {} /\ Due("dl_on_piece_full")' = {}
            /\ Due("dl_on_piece_unfull")' = {} /\ bad'[q] = {}
        BY <1>15, <1>16, <1>19, <3>4 DEF AnnDue, Due, NextCall, Clean
      <4>2. Wanted(q)' = {y \in ann[q] \ got : ~piece_full(y)'}
        BY <1>1, <1>3, <4>1 DEF Wanted
      <4> QED
        BY <1>13, <3>1, <3>2, <3>4, <4>2
    <3> QED
      BY <3>3, <3>4
  <2> QED
    BY <1>1, <1>11, <2>1 DEF HInv, Counts, IInv, TypeOK
<1> QED
  BY <1>11, <1>12, <1>19, <1>20, <1>21, <1>22, <1>23 DEF HInv

\* dl_unassign_requests_eg keeps the invariant.
LEMMA UnassignEgHonest ==
    ASSUME IInv, HInv, Clean', dl_unassign_requests_eg
    PROVE  HInv'
<1>1. /\ agenda # <<>> /\ Head(agenda).fn = "dl_unassign_requests_eg" /\ ~aborted
      /\ UNCHANGED <<peers, pchoke, field, ann, endgame, have, down, busy, got>>
      /\ Then(<<>>)
  BY DEF dl_unassign_requests_eg, Running, content, pieces, remote
<1>2. PICK p \in (Peers \ peers) \union pchoke : Head(agenda).ps = {p}
  BY <1>1, TopOk DEF CallOk
<1>3. p \in Peers
  BY <1>2 DEF IInv, TypeOK
<1>4. PICK r :
        /\ r = [reqs EXCEPT ![p] = {}]
        /\ asserts(PeerOnNoReqsOk(r)) /\ reqs' = r /\ peer_on_no_reqs(r)
  BY <1>2 DEF dl_unassign_requests_eg
<1>5. \A q \in Peers : r[q] = IF q = p THEN {} ELSE reqs[q]
  BY <1>3, <1>4 DEF IInv, TypeOK
<1>6. Flags' /\ PeerOnNoReqsOk(r) /\ nwant' = nwant
  <2>1. \A q \in Peers : r[q] \subseteq reqs[q]
    BY <1>5
  <2> QED
    BY <1>1, <1>4, <2>1, NoReqFlags DEF HInv, IInv
<1>7. ~aborted'
  BY <1>4, <1>6 DEF asserts
<1>8. endgame
  BY <1>1, HeadFrame DEF IInv, HInv, AgendaOk, FrameOk, EgFns
<1>9. /\ Frames = {Head(agenda)} \union Rest
      /\ \A h \in Rest : h.fn = "peer_free" /\ h.pcs = {} /\ CallOk(h)
  BY <1>1, TopOk DEF Below, CallOk
<1>10. /\ Stacked' /\ Frames' = Rest
       /\ agenda' = <<>> \/ Head(agenda') \in Rest
  BY <1>1, TopOk, Pop
<1>11. FramesOk'
  <2>1. ASSUME NEW h \in Rest PROVE CallOk(h)'
    BY <1>1, <1>9, <2>1 DEF CallOk
  <2> QED
    BY <1>10, <2>1 DEF FramesOk
<1>12. Links'
  <2>1. ASSUME NEW q \in Peers PROVE field'[q] = ann'[q]
    BY <1>1, Announced
  <2>2. ASSUME NEW q \in Peers \ peers
        PROVE  (field'[q] = {} /\ nwant'[q] = 0) \/ Pending({"peer_free"}, q)'
    <3>1. Pending({"peer_free"}, q) => Pending({"peer_free"}, q)'
      BY <1>1, <1>9, <1>10, StillPending
    <3> QED
      BY <1>1, <1>6, <3>1 DEF HInv, Links
  <2>3. ASSUME NEW q \in Peers \ peers
        PROVE  reqs'[q] = {}
    <3>1. CASE q = p
      BY <1>4, <1>5, <3>1
    <3>2. CASE q # p
      <4>1. ~Pending({"dl_unassign_requests", "dl_unassign_requests_eg"}, q)
        BY <1>2, <1>9, <3>2 DEF Pending
      <4>2. reqs[q] = {}
        BY <4>1 DEF HInv, Links
      <4> QED
        BY <1>4, <1>5, <4>2
    <3> QED
      BY <3>1, <3>2
  <2>4. got \intersect busy = {}
    BY <1>1, Apart
  <2>5. /\ \A y \in Pieces \ (got \union busy) : have[y] # Blocks
        /\ got \union busy = Pieces
    BY <1>8 DEF HInv, Links
  <2> QED
    BY <1>1, <2>1, <2>2, <2>3, <2>4, <2>5 DEF Links
<1>13. Saturated'
  BY <1>1, <1>8 DEF Saturated
<1>14. Counts'
  BY <1>1, <1>6, <1>9, <1>10, KeptCounts DEF HInv, IInv, DueFns
<1> QED
  BY <1>6, <1>7, <1>10, <1>11, <1>12, <1>13, <1>14 DEF HInv

\* dl_on_piece_unfull keeps the invariant: every holder is wanted for the piece
\* again.
LEMMA PieceUnfullHonest ==
    ASSUME IInv, HInv, Clean', dl_on_piece_unfull
    PROVE  HInv'
<1>1. /\ agenda # <<>> /\ Head(agenda).fn = "dl_on_piece_unfull" /\ ~aborted
      /\ UNCHANGED <<peers, pchoke, field, ann, endgame, reqs, have, down,
                     busy, got>>
  BY DEF dl_on_piece_unfull, Running, content, pieces, remote
<1>2. PICK pc \in busy \ got :
        Head(agenda).pcs = {pc} /\ ~piece_full(pc) /\ ~endgame
  BY <1>1, TopOk DEF CallOk
<1>3. PICK ps \in SUBSET peers :
        ps = Holders(pc) /\ ps = {p \in peers : pc \in ann[p]}
  BY <1>1, HoldersAre
<1>4. /\ asserts(~piece_full(pc) /\ ~endgame /\ PeerWantOk(Once(ps)))
      /\ peer_want(Once(ps))
      /\ Then(Call("unfull_loop", peers, {pc}))
  BY <1>2, <1>3 DEF dl_on_piece_unfull
<1>5. ps \in SUBSET Peers /\ peers \in SUBSET Peers /\ pc \in Pieces
  BY <1>2, <1>3 DEF IInv, TypeOK
<1>6. \A q \in Peers :
         Wanted(q) = {x \in ann[q] \ got : x # pc /\ ~piece_full(x)}
  <2> SUFFICES ASSUME NEW q \in Peers
               PROVE  Wanted(q) = {x \in ann[q] \ got :
                                      x # pc /\ ~piece_full(x)}
    OBVIOUS
  <2>1. /\ AnnDue(q) = {} /\ Due("dl_on_piece_full") = {}
        /\ Due("dl_on_piece_unfull") = {pc} /\ bad[q] = {}
    BY <1>1, <1>2 DEF AnnDue, Due, NextCall, Clean, HInv
  <2> QED
    BY <1>2, <2>1 DEF Wanted
<1>7. \A q \in ps : pc \in ann[q] /\ pc \notin Wanted(q)
  BY <1>3, <1>5, <1>6
<1>8. PeerWantOk(Once(ps))
  BY <1>7, WantOk
<1>9. ~aborted'
  BY <1>2, <1>4, <1>8 DEF asserts
<1>10. Flags'
  BY <1>1, <1>4, <1>5, OnceType, WantFlags DEF HInv, IInv, Clean
<1>11. ASSUME NEW q \in Peers \ peers PROVE nwant'[q] = nwant[q]
  <2>1. nwant'[q] = nwant[q] + 0 /\ nwant[q] \in Int
    BY <1>4 DEF peer_want, Once, IInv, TypeOK
  <2> QED
    BY <2>1
<1>12. /\ Frames = {Head(agenda)} \union Rest
       /\ \A g \in Rest : g.fn \in {"dl_unassign_requests", "peer_free"}
       /\ \A g \in Rest : CallOk(g)'
  <2>1. /\ Frames = {Head(agenda)} \union Rest
        /\ \A g \in Rest : g.fn \in {"dl_unassign_requests", "peer_free"}
    BY <1>1, TopOk DEF Below
  <2>2. \A g \in Rest : CallOk(g)'
    BY <1>1, <2>1, KeptCalls DEF HInv
  <2> QED
    BY <2>1, <2>2
<1>13. PICK f \in Frame : f = [fn |-> "unfull_loop", ps |-> peers, pcs |-> {pc}]
  BY <1>5 DEF Frame, Fns
<1>14. f.fn = "unfull_loop" /\ f.ps = peers /\ f.pcs = {pc} /\ Then(<<f>>)
  BY <1>4, <1>13 DEF Call
<1>15. \A g \in Rest : Below(f, g)
  BY <1>12, <1>14 DEF Below
<1>16. /\ Stacked' /\ Frames' = {f} \union Rest
       /\ agenda' # <<>> /\ Head(agenda') = f
  BY <1>1, <1>13, <1>14, <1>15, TopOk, Push1
<1>17. FramesOk'
  <2>1. CallOk(f)'
    BY <1>1, <1>2, <1>14 DEF CallOk
  <2> QED
    BY <1>12, <1>16, <2>1 DEF FramesOk
<1>18. Links'
  BY <1>1, <1>11, <1>12, <1>16, KeptLinks DEF HInv, LinkFns
<1>19. Saturated'
  <2>1. Detached
    BY <1>1, <1>12 DEF Detached
  <2> QED
    BY <1>1, <1>2, <1>14, <1>16, <2>1, KeptOpen DEF HInv, NextCall
<1>20. Counts'
  <2>1. ASSUME NEW q \in Peers
        PROVE  Wanted(q)' = {x \in ann[q] \ got : ~piece_full(x)}
    <3>1. /\ AnnDue(q)' = {} /\ Due("dl_on_piece_full")' = {}
          /\ Due("dl_on_piece_unfull")' = {} /\ bad'[q] = {}
      BY <1>14, <1>16 DEF AnnDue, Due, NextCall, Clean
    <3> QED
      BY <1>1, <1>2, <3>1 DEF Wanted, piece_full
  <2>2. \A q \in peers : Wanted(q)' = IF q \in ps THEN Wanted(q) \union {pc}
                                      ELSE Wanted(q)
    <3> SUFFICES ASSUME NEW q \in peers
                 PROVE  Wanted(q)' = IF q \in ps THEN Wanted(q) \union {pc}
                                     ELSE Wanted(q)
      OBVIOUS
    <3>1. /\ Wanted(q)' = {x \in ann[q] \ got : ~piece_full(x)}
          /\ Wanted(q) = {x \in ann[q] \ got : x # pc /\ ~piece_full(x)}
      BY <1>5, <1>6, <2>1
    <3> HIDE DEF Wanted
    <3>2. CASE q \in ps
      BY <1>2, <1>3, <3>1, <3>2
    <3>3. CASE q \notin ps
      BY <1>2, <1>3, <3>1, <3>3
    <3> QED
      BY <3>2, <3>3
  <2> QED
    BY <1>1, <1>4, <1>7, <2>2, CountsGain
<1> QED
  BY <1>9, <1>10, <1>16, <1>17, <1>18, <1>19, <1>20 DEF HInv

------------------------------------------------------------------------------
(* A piece is complete *)

\* Three calls are made instead of the call at the head.
LEMMA Push3 ==
    ASSUME agenda \in Seq(Frame), agenda # <<>>, Stacked,
           NEW f \in Frame, NEW g \in Frame, NEW h \in Frame,
           Then((<<f>> \o <<g>>) \o <<h>>),
           Below(f, g), Below(f, h), Below(g, h),
           \A i \in Rest : Below(f, i) /\ Below(g, i) /\ Below(h, i)
    PROVE  /\ Stacked' /\ Frames' = {f, g, h} \union Rest
           /\ agenda' # <<>> /\ Head(agenda') = f
<1> DEFINE a == <<f>> \o <<g>>
           b == <<h>>
<1>1. /\ a \in Seq(Frame) /\ a # <<>> /\ Ordered(a) /\ Elems(a) = {f, g}
      /\ Head(a) = f
  BY OrderedTwo
<1>2. b \in Seq(Frame) /\ Ordered(b) /\ Elems(b) = {h}
  BY OrderedOne
<1>3. Then(a \o b)
  OBVIOUS
<1> HIDE DEF a, b
<1> DEFINE s == a \o b
<1>4. s \in Seq(Frame) /\ Ordered(s) /\ Elems(s) = {f, g} \union {h}
  <2>1. \A i \in Elems(a), j \in Elems(b) : Below(i, j)
    BY <1>1, <1>2
  <2>2. /\ a \o b \in Seq(Frame) /\ Ordered(a \o b)
        /\ Elems(a \o b) = Elems(a) \union Elems(b)
    BY <1>1, <1>2, <2>1, OrderedConcat
  <2> QED
    BY <1>1, <1>2, <2>2
<1>5. s # <<>> /\ Head(s) = f
  <2>1. Len(s) = Len(a) + Len(b) /\ Len(a) \in Nat /\ Len(b) \in Nat
        /\ Len(a) > 0
    BY <1>1, <1>2, Concat
  <2>2. 1 \in 1..Len(s) /\ 1 <= Len(a)
    BY <2>1
  <2>3. s[1] = a[1]
    BY <1>1, <1>2, <2>2, Concat
  <2>4. Head(a) = a[1]
    BY <1>1
  <2> HIDE DEF s
  <2>5. s # <<>> /\ Head(s) = s[1]
    BY <1>4, <2>1
  <2> QED
    BY <1>1, <2>3, <2>4, <2>5
<1>6. Then(s)
  BY <1>3
<1> HIDE DEF s
<1>7. \A i \in Elems(s), j \in Rest : Below(i, j)
  BY <1>4
<1> QED
  BY <1>4, <1>5, <1>6, <1>7, Push

\* dl_on_ok_piece keeps the invariant: outside end game nobody was wanted for
\* the piece any more, in end game every holder was.
LEMMA OkHonest ==
    ASSUME IInv, HInv, Clean', dl_on_ok_piece
    PROVE  HInv'
<1>1. /\ agenda # <<>> /\ Head(agenda).fn = "cm_test_piece" /\ ~aborted
      /\ UNCHANGED <<peers, pchoke, field, ann, endgame, reqs, have, down, busy>>
  BY DEF dl_on_ok_piece, Running, pieces, remote
<1>2. PICK pc \in busy : Head(agenda).pcs = {pc}
  BY <1>1, TopOk DEF CallOk
<1>3. have[pc] = Blocks /\ pc \notin got /\ pc \in Pieces
  <2>1. FrameOk(Head(agenda))
    BY <1>1, HeadFrame DEF IInv, HInv, AgendaOk
  <2> QED
    BY <1>1, <1>2, <2>1 DEF FrameOk, IInv, TypeOK
<1>4. piece_full(pc)
  BY <1>3 DEF piece_full, IInv, TypeOK
<1>5. PICK ps \in SUBSET peers :
        ps = Holders(pc) /\ ps = {p \in peers : pc \in ann[p]}
  BY <1>1, HoldersAre
<1>6. PICK ss \in SUBSET Peers : ss = Senders(log[pc]) \intersect peers
  BY DEF Senders
<1>7. /\ asserts(pc \notin got /\ (endgame => PeerUnwantOk(ps)))
      /\ got' = got \union {pc}
      /\ IF endgame THEN peer_unwant(ps) ELSE UNCHANGED wants
      /\ Then(Call("piece_log_good", ss, {pc})
              \o Call("judge_logs", {}, {pc})
              \o Call("piece_free", {}, {pc}))
  BY <1>2, <1>5, <1>6 DEF dl_on_ok_piece
<1>8. ps \in SUBSET Peers /\ peers \in SUBSET Peers
  BY <1>5 DEF IInv, TypeOK
<1>9. \A q \in Peers :
        Wanted(q) = {x \in ann[q] \ got : endgame \/ ~piece_full(x)}
  BY <1>1, NoDues DEF HInv, DueFns
<1>10. endgame => \A q \in ps : pc \in Wanted(q)
  BY <1>3, <1>5, <1>8, <1>9
<1>11. endgame => PeerUnwantOk(ps)
  BY <1>10, UnwantOk
<1>12. ~aborted'
  BY <1>3, <1>7, <1>11 DEF asserts
<1>13. Flags'
  <2>1. CASE endgame
    BY <1>1, <1>7, <1>8, <1>11, <2>1, UnwantFlags DEF HInv, IInv, Clean
  <2>2. CASE ~endgame
    BY <1>1, <1>7, <2>2, KeptFlags DEF HInv
  <2> QED
    BY <2>1, <2>2
<1>14. \A q \in Peers \ peers : nwant'[q] = nwant[q]
  BY <1>7 DEF peer_unwant, wants
<1>15. /\ Frames = {Head(agenda)} \union Rest
       /\ \A i \in Rest : i.fn = "dl_assign_requests" /\ CallOk(i)
  BY <1>1, TopOk DEF Below
<1> DEFINE f == [fn |-> "piece_log_good", ps |-> ss, pcs |-> {pc}]
           g == [fn |-> "judge_logs", ps |-> {}, pcs |-> {pc}]
           h == [fn |-> "piece_free", ps |-> {}, pcs |-> {pc}]
<1>16. /\ f \in Frame /\ f.fn = "piece_log_good" /\ f.pcs = {pc}
       /\ g \in Frame /\ g.fn = "judge_logs" /\ g.pcs = {pc}
       /\ h \in Frame /\ h.fn = "piece_free" /\ h.pcs = {pc}
  BY <1>3 DEF Frame, Fns
<1>17. Then((<<f>> \o <<g>>) \o <<h>>)
  BY <1>7 DEF Call
<1> HIDE DEF f, g, h
<1>18. /\ Below(f, g) /\ Below(f, h) /\ Below(g, h)
       /\ \A i \in Rest : Below(f, i) /\ Below(g, i) /\ Below(h, i)
  BY <1>15, <1>16 DEF Below
<1>19. /\ Stacked' /\ Frames' = {f, g, h} \union Rest
       /\ agenda' # <<>> /\ Head(agenda') = f
  BY <1>1, <1>16, <1>17, <1>18, TopOk, Push3
<1>20. got' \intersect busy' = {pc}
  <2>1. got \intersect busy = {}
    BY <1>1, Apart
  <2> QED
    BY <1>1, <1>2, <1>7, <2>1
<1>21. FramesOk'
  <2>1. CallOk(f)' /\ CallOk(g)' /\ CallOk(h)'
    BY <1>3, <1>16, <1>20 DEF CallOk
  <2>2. ASSUME NEW i \in Rest PROVE CallOk(i)'
    BY <1>1, <1>15, <2>2 DEF CallOk
  <2> QED
    BY <1>19, <2>1, <2>2 DEF FramesOk
<1>22. Links'
  <2>1. /\ endgame' => got' \union busy' = Pieces
        /\ \A y \in Pieces \ (got' \union busy') : have'[y] # Blocks
    BY <1>1, <1>2, <1>7 DEF HInv, Links
  <2>2. \E i \in Frames' : i.fn = "piece_free"
    BY <1>16, <1>19
  <2>3. Rest \subseteq Frames' /\ Head(agenda).fn \notin LinkFns
    BY <1>1, <1>19 DEF LinkFns
  <2> QED
    BY <1>1, <1>14, <1>15, <2>1, <2>2, <2>3, MoreLinks DEF HInv
<1>23. Saturated'
  <2> SUFFICES ASSUME ~endgame PROVE Saturated'
    BY <1>1 DEF Saturated
  <2>1. ~Detached'
    BY <1>15, <1>16, <1>19 DEF Detached
  <2>2. got # Pieces /\ ~NextCall("dl_on_piece_full")
        /\ ~NextCall("dl_enter_endgame")
    BY <1>1, <1>3 DEF NextCall
  <2>3. PICK y \in Pieces : OpenPiece(y)
    BY <2>2 DEF HInv, Saturated
  <2>4. OpenPiece(y)'
    BY <1>1, <1>2, <1>4, <1>7, <2>3 DEF OpenPiece, piece_full
  <2> QED
    BY <2>1, <2>4 DEF Saturated
<1>24. Counts'
  <2>1. ASSUME NEW q \in Peers
        PROVE  Wanted(q)' = {x \in ann[q] \ got :
                               x # pc /\ (endgame \/ ~piece_full(x))}
    <3>1. /\ AnnDue(q)' = {} /\ Due("dl_on_piece_full")' = {}
          /\ Due("dl_on_piece_unfull")' = {} /\ bad'[q] = {}
      BY <1>16, <1>19 DEF AnnDue, Due, NextCall, Clean
    <3>2. Wanted(q)' = {x \in ann[q] \ got' : endgame \/ ~piece_full(x)}
      BY <1>1, <3>1 DEF Wanted, piece_full
    <3> HIDE DEF Wanted
    <3> QED
      BY <1>7, <3>2
  <2>2. CASE endgame
    <3>1. \A q \in peers : Wanted(q)' = IF q \in ps THEN Wanted(q) \ {pc}
                                        ELSE Wanted(q)
      <4> SUFFICES ASSUME NEW q \in peers
                   PROVE  Wanted(q)' = IF q \in ps THEN Wanted(q) \ {pc}
                                       ELSE Wanted(q)
        OBVIOUS
      <4>1. /\ Wanted(q)' = {x \in ann[q] \ got :
                               x # pc /\ (endgame \/ ~piece_full(x))}
            /\ Wanted(q) = {x \in ann[q] \ got : endgame \/ ~piece_full(x)}
        BY <1>8, <1>9, <2>1
      <4> HIDE DEF Wanted
      <4>2. CASE q \in ps
        BY <4>1, <4>2
      <4>3. CASE q \notin ps
        BY <1>5, <4>1, <4>3
      <4> QED
        BY <4>2, <4>3
    <3> QED
      BY <1>1, <1>7, <1>10, <2>2, <3>1, CountsLose
  <2>3. CASE ~endgame
    <3>1. ASSUME NEW q \in peers PROVE Wanted(q)' = Wanted(q)
      <4>1. /\ Wanted(q)' = {x \in ann[q] \ got :
                               x # pc /\ (endgame \/ ~piece_full(x))}
            /\ Wanted(q) = {x \in ann[q] \ got : endgame \/ ~piece_full(x)}
        BY <1>8, <1>9, <2>1
      <4> HIDE DEF Wanted
      <4> QED
        BY <1>4, <2>3, <4>1
    <3> QED
      BY <1>1, <1>7, <2>3, <3>1 DEF HInv, Counts, wants
  <2> QED
    BY <2>2, <2>3
<1> QED
  BY <1>12, <1>13, <1>19, <1>21, <1>22, <1>23, <1>24 DEF HInv

\* peer_on_piece keeps the invariant.
LEMMA PieceHonest ==
    ASSUME IInv, HInv, Clean', NEW p \in Peers, NEW pc, NEW b, NEW isbad,
           peer_on_piece(p, pc, b, isbad)
    PROVE  HInv'
<1>1. /\ Idle /\ ~aborted /\ p \in peers /\ <<pc, b>> \in reqs[p]
      /\ UNCHANGED <<peers, pchoke, field, ann, endgame, busy, got>>
  BY DEF peer_on_piece, Idle, remote
<1>2. /\ pc \in Pieces /\ b \in Blocks /\ pc \in busy \ got
      /\ b \notin have[pc] /\ (~endgame => b \in down[pc])
  <2>1. <<pc, b>> \in Pieces \X Blocks
    BY <1>1 DEF IInv, TypeOK
  <2>2. pc \in Pieces /\ b \in Blocks
    BY <2>1
  <2>3. <<pc, b>>[1] = pc /\ <<pc, b>>[2] = b
    OBVIOUS
  <2>4. pc \in busy /\ pc \notin got /\ b \notin have[pc]
    BY <1>1, <2>3 DEF IInv, Accounted
  <2>5. ~endgame => b \in down[pc]
    BY <1>1, <2>2 DEF IInv, Accounted
  <2> QED
    BY <2>2, <2>4, <2>5
<1>3. PICK as \in SUBSET peers : as = Askers(p, pc, b)
  <2>1. Askers(p, pc, b) \in SUBSET peers
    BY <1>1, Resting DEF Askers
  <2> QED
    BY <2>1
<1>4. PICK r : r = [q \in Peers |-> IF q \in as THEN reqs[q] \ {<<pc, b>>}
                                    ELSE reqs[q]]
  OBVIOUS
<1> DEFINE test == IF Completes(pc, b) THEN Call("cm_test_piece", {}, {pc})
                   ELSE <<>>
<1>5. /\ asserts(PeerOnNoReqsOk(r) /\ b \notin have[pc] /\ pc \notin got)
      /\ reqs' = r /\ peer_on_no_reqs(r)
      /\ have' = [have EXCEPT ![pc] = @ \union {b}]
      /\ down' = [down EXCEPT ![pc] = @ \ {b}]
      /\ agenda' = IF endgame
                   THEN Call("dl_assign_requests_eg", as, {}) \o test
                   ELSE test \o Call("dl_assign_requests", {p}, {})
  BY <1>3, <1>4 DEF peer_on_piece
<1>6. \A q \in Peers : r[q] \subseteq reqs[q]
  BY <1>4
<1>7. Flags' /\ PeerOnNoReqsOk(r) /\ nwant' = nwant
  BY <1>1, <1>5, <1>6, NoReqFlags DEF HInv, IInv
<1>8. ~aborted'
  BY <1>2, <1>5, <1>7 DEF asserts
<1>9. \A x \in Pieces :
        /\ have'[x] = IF x = pc THEN have[x] \union {b} ELSE have[x]
        /\ down'[x] = IF x = pc THEN down[x] \ {b} ELSE down[x]
  BY <1>2, <1>5 DEF IInv, TypeOK
<1>10. ~endgame => \A x \in Pieces : piece_full(x)' <=> piece_full(x)
  BY <1>2, <1>9 DEF piece_full
<1> DEFINE e == [fn |-> "dl_assign_requests_eg", ps |-> as, pcs |-> {}]
           t == [fn |-> "cm_test_piece", ps |-> {}, pcs |-> {pc}]
           a == [fn |-> "dl_assign_requests", ps |-> {p}, pcs |-> {}]
<1>11. /\ e \in Frame /\ e.fn = "dl_assign_requests_eg" /\ e.ps = as
       /\ t \in Frame /\ t.fn = "cm_test_piece" /\ t.pcs = {pc}
       /\ a \in Frame /\ a.fn = "dl_assign_requests" /\ a.ps = {p}
  <2>1. as \in SUBSET Peers
    BY <1>3 DEF IInv, TypeOK
  <2> QED
    BY <1>2, <2>1 DEF Frame, Fns
<1>12. \/ endgame /\ agenda' = <<e>>
       \/ endgame /\ agenda' = <<e>> \o <<t>>
       \/ ~endgame /\ agenda' = <<a>>
       \/ ~endgame /\ agenda' = <<t>> \o <<a>>
  <2>1. <<e>> \o <<>> = <<e>> /\ <<>> \o <<a>> = <<a>>
    BY <1>11, NoneFirst, NoneLast
  <2> QED
    BY <1>5, <2>1 DEF Call
<1> HIDE DEF e, t, a
<1>13. Below(e, t) /\ Below(t, a)
  BY <1>11 DEF Below
<1>14. /\ Stacked' /\ agenda' # <<>> /\ Head(agenda') \in {e, t, a}
       /\ Frames' \subseteq (IF endgame THEN {e, t} ELSE {t, a})
  <2>1. CASE endgame /\ agenda' = <<e>>
    BY <1>11, <2>1, Start1
  <2>2. CASE endgame /\ agenda' = <<e>> \o <<t>>
    BY <1>11, <1>13, <2>2, Start2
  <2>3. CASE ~endgame /\ agenda' = <<a>>
    BY <1>11, <2>3, Start1
  <2>4. CASE ~endgame /\ agenda' = <<t>> \o <<a>>
    BY <1>11, <1>13, <2>4, Start2
  <2> QED
    BY <1>12, <2>1, <2>2, <2>3, <2>4
<1>15. FramesOk'
  <2>1. CallOk(e)'
    BY <1>1, <1>3, <1>11 DEF CallOk
  <2>2. CallOk(t)'
    BY <1>1, <1>2, <1>11 DEF CallOk
  <2>3. ~endgame => CallOk(a)'
    BY <1>1, <1>11 DEF CallOk
  <2> QED
    BY <1>14, <2>1, <2>2, <2>3 DEF FramesOk
<1>16. Links'
  <2>1. /\ \A q \in Peers : field'[q] = ann'[q]
        /\ \A q \in Peers \ peers' : field'[q] = {} /\ nwant'[q] = 0
        /\ got' \intersect busy' = {}
    BY <1>1, <1>7, Resting
  <2>2. \A q \in Peers \ peers' : reqs'[q] = {}
    BY <1>1, <1>5, <1>6, Resting
  <2>3. endgame' => got' \union busy' = Pieces
    BY <1>1 DEF HInv, Links
  <2>4. \A y \in Pieces \ (got' \union busy') : have'[y] # Blocks
    BY <1>1, <1>2, <1>9 DEF HInv, Links
  <2> QED
    BY <2>1, <2>2, <2>3, <2>4 DEF Links
<1>17. Saturated'
  <2> SUFFICES ASSUME ~endgame PROVE Saturated'
    BY <1>1 DEF Saturated
  <2>1. ~Detached'
    BY <1>11, <1>14 DEF Detached
  <2>2. PICK y \in Pieces : OpenPiece(y)
    BY <1>1, <1>2, Resting
  <2>3. OpenPiece(y)'
    BY <1>1, <1>10, <2>2 DEF OpenPiece
  <2> QED
    BY <2>1, <2>3 DEF Saturated
<1>18. Counts'
  <2>1. ASSUME NEW q \in Peers PROVE Wanted(q)' = Wanted(q)
    <3>1. Wanted(q) = {x \in ann[q] \ got : endgame \/ ~piece_full(x)}
      BY <1>1, NoDues DEF HInv, Idle
    <3>2. /\ AnnDue(q)' = {} /\ Due("dl_on_piece_full")' = {}
          /\ Due("dl_on_piece_unfull")' = {} /\ bad'[q] = {}
      BY <1>11, <1>14 DEF AnnDue, Due, NextCall, Clean
    <3>3. Wanted(q)' = {x \in ann[q] \ got : endgame \/ ~piece_full(x)'}
      BY <1>1, <3>2 DEF Wanted
    <3>4. ann[q] \in SUBSET Pieces
      BY DEF IInv, TypeOK
    <3> HIDE DEF Wanted
    <3>5. CASE endgame
      BY <3>1, <3>3, <3>5
    <3>6. CASE ~endgame
      BY <1>10, <3>1, <3>3, <3>4, <3>6
    <3> QED
      BY <3>5, <3>6
  <2> QED
    BY <1>1, <1>7, <2>1 DEF HInv, Counts, IInv, TypeOK
<1> QED
  BY <1>7, <1>8, <1>14, <1>15, <1>16, <1>17, <1>18 DEF HInv

------------------------------------------------------------------------------
(* The invariant holds *)

\* The invariant holds at the start.
LEMMA HInit == ASSUME Init, Honest PROVE HInv
<1>1. /\ agenda = <<>> /\ ~aborted /\ peers = {} /\ busy = {} /\ ~endgame
      /\ field = [p \in Peers |-> {}] /\ ann = [p \in Peers |-> {}]
      /\ reqs = [p \in Peers |-> {}] /\ nwant = [p \in Peers |-> 0]
      /\ iwant = {} /\ dounwant = {} /\ interest = {}
  BY DEF Init
<1>2. Frames = {} /\ Stacked
  BY <1>1, OrderedNone DEF Frames, Stacked
<1>3. FramesOk /\ ~Detached
  BY <1>2 DEF FramesOk, Detached
<1>4. Clean
  <2>1. corrupt = {}
    BY DEF Init, Honest
  <2> QED
    BY <2>1 DEF Init, Clean
<1>5. Links
  <2>1. \A pc \in Pieces \ got : have[pc] # Blocks
    BY DEF Init
  <2> QED
    BY <1>1, <2>1 DEF Links
<1>6. Saturated
  <2>1. got \in SUBSET Pieces
    BY DEF Init
  <2>2. \A pc \in Pieces \ got : OpenPiece(pc)
    BY <1>1 DEF OpenPiece
  <2> QED
    BY <1>3, <2>1, <2>2 DEF Saturated
<1>7. Counts /\ Flags
  BY <1>1 DEF Counts, Flags
<1> QED
  BY <1>1, <1>2, <1>3, <1>4, <1>5, <1>6, <1>7 DEF HInv

\* A step that changes nothing keeps it.
LEMMA HStutter == ASSUME HInv, UNCHANGED vars PROVE HInv'
<1> USE DEF vars, content, pieces, logs, wants, trust, remote
<1>1. /\ Stacked' /\ Frames' = Frames /\ ~aborted' /\ agenda' = agenda
  BY DEF HInv, Stacked, Ordered, Frames, Elems
<1>2. Clean'
  BY DEF HInv, Clean
<1>3. \A x : OpenPiece(x)' <=> OpenPiece(x)
  BY DEF OpenPiece, piece_full
<1>4. FramesOk'
  <2> SUFFICES ASSUME NEW f \in Frames PROVE CallOk(f)'
    BY <1>1 DEF FramesOk
  <2>1. CallOk(f)
    BY DEF HInv, FramesOk
  <2> QED
    BY <1>3, <2>1 DEF CallOk, piece_full, peer_laden
<1>5. Links'
  BY <1>1 DEF HInv, Links, Pending
<1>6. Saturated'
  BY <1>1, <1>3 DEF HInv, Saturated, Detached, NextCall
<1>7. Counts'
  <2>1. \A q : Wanted(q)' = Wanted(q)
    BY DEF Wanted, AnnDue, Due, NextCall, piece_full
  <2>2. peers' = peers /\ nwant' = nwant
    OBVIOUS
  <2> HIDE DEF Wanted
  <2> QED
    BY <2>1, <2>2 DEF HInv, Counts
<1>8. Flags'
  BY DEF HInv, Flags
<1> QED
  BY <1>1, <1>2, <1>4, <1>5, <1>6, <1>7, <1>8 DEF HInv

\* Every step keeps it.
LEMMA HNext == ASSUME IInv, HInv, Honest, Next PROVE HInv'
<1>1. Clean'
  BY CleanStep DEF HInv, Honest
<1>2. CASE Messages
  <2>1. PICK p \in Peers :
        \/ peer_on_shake(p) \/ net_refuse(p) \/ peer_kill(p)
        \/ peer_on_choke(p) \/ peer_on_unchoke(p)
        \/ \E pc \in Pieces : peer_on_have(p, pc)
        \/ \E f \in SUBSET Pieces : peer_on_bitfield(p, f)
        \/ \E x \in reqs[p], isbad \in {FALSE, BadData} :
                peer_on_piece(p, x[1], x[2], isbad)
    BY <1>2 DEF Messages
  <2>2. CASE net_refuse(p)
    BY <2>2, HStutter DEF net_refuse
  <2> QED
    BY <1>1, <2>1, <2>2, ShakeHonest, KillHonest, ChokeHonest, UnchokeHonest,
       HaveHonest, BitfieldHonest, PieceHonest
<1>3. CASE Calls
  <2>1. ~dl_on_bad_piece
    BY GoodNews DEF HInv, dl_on_bad_piece
  <2> QED
    BY <1>1, <1>3, <2>1, BitfieldLoopHonest, AnnounceHonest, DownloadHonest,
       AssignHonest, AssignLoopHonest, PieceAssignHonest, PieceFullHonest,
       EnterEndgameHonest, AssignEgHonest, UnassignHonest, UnassignEgHonest,
       PieceUnfullHonest, UnfullLoopHonest, OkHonest, LogGoodHonest,
       JudgeHonest, PieceFreeHonest, PeerFreeHonest
    DEF Calls
<1> QED
  BY <1>2, <1>3 DEF Next

\* The invariant holds throughout.
LEMMA HInvariance == ASSUME Honest PROVE Spec => []HInv
<1>1. Init => HInv
  BY HInit
<1>2. IInv /\ HInv /\ [Next]_vars => HInv'
  BY HNext, HStutter
<1> QED
  BY <1>1, <1>2, Invariance, PTL DEF Spec

\* With peers that send correct data, and their bitfield before they unchoke
\* us, no assert() of download.c, download_subr.c, peer.c or content.c that is
\* about the download state fails, whatever the number of peers, pieces and
\* blocks and however messages, chokes and lost connections interleave.
THEOREM AssertsHold == ASSUME Honest PROVE Spec => []NoAssertFails
<1>1. HInv => NoAssertFails
  BY DEF HInv, NoAssertFails
<1> QED
  BY <1>1, HInvariance, PTL

\* With such peers nwant always counts the missing, unfull pieces of the peer,
\* PF_I_WANT says whether there are any, and between handlers the peer has been
\* told INTEREST exactly when it is wanted or still owes us blocks (peer_want,
\* peer_unwant and peer_on_no_reqs in peer.c, called from download_subr.c).
THEOREM WantsCorrect == ASSUME Honest PROVE Spec => []WantedCount
<1>1. IInv /\ HInv => WantedCount
  <2> SUFFICES ASSUME IInv, HInv PROVE WantedCount
    OBVIOUS
  <2>1. Counts /\ Flags /\ peers \in SUBSET Peers
    BY DEF HInv, IInv, TypeOK
  <2>2. \A p \in peers : nwant[p] = Cardinality(Wanted(p))
    BY <2>1 DEF Counts
  <2>3. \A p \in peers : /\ p \in iwant <=> nwant[p] > 0
                         /\ p \in interest <=> nwant[p] > 0 \/ reqs[p] # {}
                         /\ p \in dounwant <=> nwant[p] = 0 /\ reqs[p] # {}
    BY <2>1 DEF Flags
  <2> QED
    BY <2>2, <2>3 DEF WantedCount
<1> QED
  BY <1>1, Invariance, HInvariance, PTL

\* With such peers end game sets in as soon as all missing blocks are
\* requested: between handlers a torrent that is neither complete nor in end
\* game has a piece with a block nobody was asked for (dl_on_piece_full and
\* dl_should_enter_endgame, download_subr.c).
THEOREM EndgameCorrect == ASSUME Honest PROVE Spec => []EndgameWhenSaturated
<1>1. IInv /\ HInv => EndgameWhenSaturated
  <2> SUFFICES ASSUME IInv, HInv, Idle, ~endgame, got # Pieces
               PROVE  \E pc \in Pieces \ got : pc \notin busy \/ ~piece_full(pc)
    BY DEF EndgameWhenSaturated
  <2>1. PICK pc \in Pieces : OpenPiece(pc)
    BY Resting
  <2> QED
    BY <2>1 DEF OpenPiece
<1> QED
  BY <1>1, Invariance, HInvariance, PTL

------------------------------------------------------------------------------
(* No peer is left idle *)

\* The calls by which a peer is served.
ServeFns == {"dl_on_download", "dl_assign_requests", "assign_loop",
             "dl_piece_assign_requests", "dl_on_piece_full",
             "dl_assign_requests_eg", "unfull_loop"}

\* Those that try every piece of the peer.
LoopFns == {"dl_on_download", "dl_assign_requests", "assign_loop"}

\* A step that makes no such call, and after which no peer is newly free or
\* lacks a request, serves as before.
LEMMA KeptServed ==
    ASSUME Served, endgame' = endgame,
           agenda = <<>> \/ Head(agenda).fn \notin ServeFns,
           \A f \in Frames : f.fn \in LoopFns => f \in Frames',
           \A q \in peers' : peer_leech_ok(q)' =>
              /\ q \in peers /\ peer_leech_ok(q)
              /\ endgame => /\ reqs[q] \subseteq reqs'[q]
                            /\ \A x \in ann'[q] \ (got' \union AnnDue(q)') :
                                 /\ x \in ann[q] \ (got \union AnnDue(q))
                                 /\ have[x] \subseteq have'[x]
    PROVE  Served'
<1> SUFFICES ASSUME NEW q \in peers', peer_leech_ok(q)'
             PROVE  IF endgame
                    THEN \A x \in ann'[q] \ (got' \union AnnDue(q)') :
                           \A b \in Blocks \ have'[x] : <<x, b>> \in reqs'[q]
                    ELSE Pending(LoopFns, q)'
  BY DEF Served, LoopFns
<1>1. /\ ~NextCall("dl_assign_requests_eg") /\ ~NextCall("dl_on_download")
      /\ ~NextCall("dl_on_piece_full") /\ ~NextCall("unfull_loop")
      /\ ~NextCall("dl_piece_assign_requests")
  BY DEF NextCall, ServeFns
<1>2. q \in peers /\ peer_leech_ok(q)
  OBVIOUS
<1>3. CASE endgame
  <2>1. \A x \in ann[q] \ (got \union AnnDue(q)) :
          \A b \in Blocks \ have[x] : <<x, b>> \in reqs[q]
    BY <1>1, <1>2, <1>3 DEF Served
  <2> QED
    BY <1>3, <2>1
<1>4. CASE ~endgame
  <2>1. Pending(LoopFns, q)
    BY <1>1, <1>2, <1>4 DEF Served, LoopFns
  <2>2. Pending(LoopFns, q)'
    BY <2>1 DEF Pending
  <2> QED
    BY <1>4, <2>2
<1> QED
  BY <1>3, <1>4

\* The pending calls of that kind stay when another call is made.
LEMMA RestFrames ==
    ASSUME IInv, HInv, agenda # <<>>, Head(agenda).fn \notin LoopFns,
           Rest \subseteq Frames'
    PROVE  \A f \in Frames : f.fn \in LoopFns => f \in Frames'
BY TopOk

\* A call that makes no further calls keeps the ones below it.
LEMMA PopKeeps ==
    ASSUME IInv, HInv, agenda # <<>>, Then(<<>>)
    PROVE  /\ Rest \subseteq Frames'
           /\ agenda' = <<>> \/ Head(agenda') \in Rest
BY TopOk, Pop

\* A new peer is choked.
LEMMA ShakeServed ==
    ASSUME IInv, HInv, HInv', Served, NEW p \in Peers, peer_on_shake(p)
    PROVE  Served'
<1>1. /\ Idle /\ agenda' = agenda /\ peers' = peers \union {p}
      /\ pchoke' = pchoke \union {p}
      /\ UNCHANGED <<ann, endgame, reqs, have, got, iwant, banned, suspect>>
  BY DEF peer_on_shake, content, pieces, wants, trust
<1>2. \A q : AnnDue(q)' = AnnDue(q)
  BY <1>1 DEF AnnDue, NextCall
<1>3. \A q \in peers' : peer_leech_ok(q)' => q \in peers /\ peer_leech_ok(q)
  BY <1>1 DEF peer_leech_ok, LeechOk, peer_laden
<1>4. agenda = <<>> /\ Frames = {}
  BY <1>1, Resting
<1> QED
  BY <1>1, <1>2, <1>3, <1>4, KeptServed

\* A lost peer is not asked.
LEMMA KillServed ==
    ASSUME IInv, HInv, HInv', Served, NEW p \in Peers, peer_kill(p)
    PROVE  Served'
<1>1. /\ Idle /\ peers' = peers \ {p}
      /\ UNCHANGED <<ann, endgame, reqs, have, got, iwant, banned, suspect,
                     pchoke>>
  BY DEF peer_kill, content, pieces, wants, trust
<1>2. \A q \in peers' : peer_leech_ok(q)' => q \in peers /\ peer_leech_ok(q)
  BY <1>1 DEF peer_leech_ok, LeechOk, peer_laden
<1>3. agenda = <<>> /\ Frames = {}
  BY <1>1, Resting
<1>4. \A q : AnnDue(q) = {}
  BY <1>3 DEF AnnDue, NextCall
<1> QED
  BY <1>1, <1>2, <1>3, <1>4, KeptServed

\* A peer that chokes us is not asked.
LEMMA ChokeServed ==
    ASSUME IInv, HInv, HInv', Served, NEW p \in Peers, peer_on_choke(p)
    PROVE  Served'
<1>1. /\ Idle /\ peers' = peers /\ pchoke' = pchoke \union {p}
      /\ UNCHANGED <<ann, endgame, reqs, have, got, iwant, banned, suspect>>
  BY DEF peer_on_choke, content, pieces, wants, trust
<1>2. \A q \in peers' : peer_leech_ok(q)' => q \in peers /\ peer_leech_ok(q)
  BY <1>1 DEF peer_leech_ok, LeechOk, peer_laden
<1>3. agenda = <<>> /\ Frames = {}
  BY <1>1, Resting
<1>4. \A q : AnnDue(q) = {}
  BY <1>3 DEF AnnDue, NextCall
<1> QED
  BY <1>1, <1>2, <1>3, <1>4, KeptServed

\* A piece just announced is due to dl_on_piece_ann.
LEMMA HaveServed ==
    ASSUME IInv, HInv, HInv', Served, NEW p \in Peers, NEW pc \in Pieces,
           peer_on_have(p, pc)
    PROVE  Served'
<1>1. /\ Idle /\ peers' = peers
      /\ ann' = [ann EXCEPT ![p] = @ \union {pc}]
      /\ UNCHANGED <<endgame, reqs, have, got, iwant, banned, suspect, pchoke>>
      /\ agenda' = Call("dl_on_piece_ann", {p}, {pc})
  BY DEF peer_on_have, content, pieces, wants, trust
<1>2. \A q \in peers' : peer_leech_ok(q)' => q \in peers /\ peer_leech_ok(q)
  BY <1>1 DEF peer_leech_ok, LeechOk, peer_laden
<1>3. agenda = <<>> /\ Frames = {}
  BY <1>1, Resting
<1>4. \A q : AnnDue(q) = {}
  BY <1>3 DEF AnnDue, NextCall
<1>5. AnnDue(p)' = {pc}
  <2> DEFINE f == [fn |-> "dl_on_piece_ann", ps |-> {p}, pcs |-> {pc}]
  <2>1. /\ f \in Frame /\ f.fn = "dl_on_piece_ann" /\ f.ps = {p}
        /\ f.pcs = {pc} /\ agenda' = <<f>>
    BY <1>1 DEF Frame, Fns, Call
  <2> HIDE DEF f
  <2>2. agenda' # <<>> /\ Head(agenda') = f
    BY <2>1, Start1
  <2> QED
    BY <2>1, <2>2 DEF AnnDue, NextCall
<1>6. \A q \in peers : \A x \in ann'[q] \ (got' \union AnnDue(q)') : x \in ann[q]
  BY <1>1, <1>5 DEF IInv, TypeOK
<1> QED
  BY <1>1, <1>2, <1>3, <1>4, <1>6, KeptServed

\* A bitfield just copied is due to the loop of peer_on_bitfield.
LEMMA BitfieldServed ==
    ASSUME IInv, HInv, HInv', Served, NEW p \in Peers, NEW s,
           peer_on_bitfield(p, s)
    PROVE  Served'
<1>1. /\ Idle /\ peers' = peers
      /\ UNCHANGED <<ann, endgame, reqs, have, got, iwant, banned, suspect,
                     pchoke>>
  BY DEF peer_on_bitfield, content, pieces, wants, trust
<1>2. \A q \in peers' : peer_leech_ok(q)' => q \in peers /\ peer_leech_ok(q)
  BY <1>1 DEF peer_leech_ok, LeechOk, peer_laden
<1>3. agenda = <<>> /\ Frames = {}
  BY <1>1, Resting
<1>4. \A q : AnnDue(q) = {}
  BY <1>3 DEF AnnDue, NextCall
<1> QED
  BY <1>1, <1>2, <1>3, <1>4, KeptServed

\* An unchoked peer that can be asked is handed to dl_on_download.
LEMMA UnchokeServed ==
    ASSUME IInv, HInv, HInv', Served, NEW p \in Peers, peer_on_unchoke(p)
    PROVE  Served'
<1>1. /\ Idle /\ peers' = peers /\ pchoke' = pchoke \ {p}
      /\ UNCHANGED <<ann, endgame, reqs, have, got, iwant, banned, suspect>>
      /\ agenda' = IF p \in iwant /\ p \notin banned \union suspect
                        /\ ~peer_laden(p)
                   THEN Call("dl_on_download", {p}, {}) ELSE <<>>
  BY DEF peer_on_unchoke, content, pieces, wants, trust
<1>2. agenda = <<>> /\ Frames = {}
  BY <1>1, Resting
<1>3. \A q : AnnDue(q) = {}
  BY <1>2 DEF AnnDue, NextCall
<1>4. \A q \in peers' \ {p} : peer_leech_ok(q)' => q \in peers /\ peer_leech_ok(q)
  BY <1>1 DEF peer_leech_ok, LeechOk, peer_laden
<1>5. CASE ~peer_leech_ok(p)'
  BY <1>1, <1>2, <1>3, <1>4, <1>5, KeptServed
<1>6. CASE peer_leech_ok(p)'
  <2> DEFINE f == [fn |-> "dl_on_download", ps |-> {p}, pcs |-> {}]
  <2>1. /\ f \in Frame /\ f.fn = "dl_on_download" /\ f.ps = {p}
        /\ agenda' = <<f>>
    BY <1>1, <1>6 DEF Frame, Fns, Call, peer_leech_ok, LeechOk, peer_laden
  <2> HIDE DEF f
  <2>2. agenda' # <<>> /\ Head(agenda') = f /\ Frames' = {f}
    BY <2>1, Start1
  <2>3. NextCall("dl_on_download")' /\ p \in Head(agenda').ps
        /\ Pending(LoopFns, p)'
    BY <2>1, <2>2 DEF NextCall, Pending, LoopFns
  <2> SUFFICES ASSUME NEW q \in peers', peer_leech_ok(q)', q # p
               PROVE  /\ endgame
                      /\ \A x \in ann'[q] \ (got' \union AnnDue(q)') :
                           \A b \in Blocks \ have'[x] : <<x, b>> \in reqs'[q]
    BY <1>1, <2>3 DEF Served, LoopFns
  <2>4. q \in peers /\ peer_leech_ok(q)
    BY <1>4
  <2>5. ~Pending(LoopFns, q) /\ \A fn : ~NextCall(fn)
    BY <1>2 DEF Pending, NextCall
  <2>6. endgame /\ \A x \in ann[q] \ (got \union AnnDue(q)) :
                     \A b \in Blocks \ have[x] : <<x, b>> \in reqs[q]
    BY <2>4, <2>5 DEF Served, LoopFns
  <2> QED
    BY <1>1, <1>3, <2>6
<1> QED
  BY <1>5, <1>6

\* peer_leech_ok when nobody is banned or suspect.
LEMMA LeechIs ==
    ASSUME Clean, NEW q
    PROVE  peer_leech_ok(q) <=> q \in iwant /\ q \notin pchoke /\ ~peer_laden(q)
BY DEF Clean, peer_leech_ok, LeechOk

\* The same after a step.
LEMMA LeechThen ==
    ASSUME Clean', NEW q
    PROVE  peer_leech_ok(q)' <=> /\ q \in iwant' /\ q \notin pchoke'
                                 /\ ~(Cardinality(reqs'[q]) >= MaxPiped)
BY DEF Clean, peer_leech_ok, LeechOk, peer_laden

\* A peer that can be asked after a step that gave it no reason could be asked
\* before.
LEMMA LeechKept ==
    ASSUME Clean, Clean', NEW q, reqs'[q] = reqs[q],
           q \in iwant' => q \in iwant, q \in pchoke => q \in pchoke',
           peer_leech_ok(q)'
    PROVE  peer_leech_ok(q)
BY LeechIs, LeechThen DEF peer_laden

\* PF_I_WANT says that some piece is wanted.
LEMMA StillWanted ==
    ASSUME HInv', IInv', NEW q \in peers', q \in iwant'
    PROVE  Wanted(q)' # {}
<1>1. q \in Peers /\ nwant'[q] = Cardinality(Wanted(q)')
  BY DEF HInv, Counts, IInv, TypeOK
<1>2. nwant'[q] > 0
  BY <1>1 DEF HInv, Flags
<1> SUFFICES ASSUME Wanted(q)' = {} PROVE FALSE
  OBVIOUS
<1>3. nwant'[q] = 0
  BY <1>1, FS_EmptySet
<1> QED
  BY <1>2, <1>3

\* Nothing is due unless dl_on_piece_ann is next.
LEMMA NothingDue ==
    ASSUME agenda = <<>> \/ Head(agenda).fn # "dl_on_piece_ann", NEW q
    PROVE  AnnDue(q) = {}
BY DEF AnnDue, NextCall

\* Calls above which no loop over the pieces of a peer waits.
LEMMA NoLoops ==
    ASSUME IInv, HInv, agenda # <<>>,
           Head(agenda).fn \in {"peer_on_bitfield", "dl_on_piece_ann",
              "dl_unassign_requests", "dl_unassign_requests_eg",
              "dl_on_piece_unfull", "unfull_loop", "peer_free"}
    PROVE  \A f \in Frames : f.fn \notin LoopFns
BY TopOk DEF Below, LoopFns

\* Outside end game nobody can be asked unless a call that serves is pending.
LEMMA NobodyFree ==
    ASSUME Served, ~endgame, \A f \in Frames : f.fn \notin LoopFns,
           agenda = <<>> \/ Head(agenda).fn \notin ServeFns
    PROVE  \A q \in peers : ~peer_leech_ok(q)
<1>1. /\ ~NextCall("dl_on_piece_full") /\ ~NextCall("unfull_loop")
      /\ ~NextCall("dl_piece_assign_requests")
  BY DEF NextCall, ServeFns
<1>2. \A q : ~Pending(LoopFns, q)
  BY DEF Pending
<1> QED
  BY <1>1, <1>2 DEF Served, LoopFns

\* Further calls keep the ones below.
LEMMA ThenKeeps ==
    ASSUME IInv, agenda # <<>>, NEW s \in Seq(Frame), Then(s)
    PROVE  Rest \subseteq Frames'
<1> DEFINE t == Tail(agenda)
           u == s \o t
<1>1. t \in Seq(Frame)
  BY DEF IInv, TypeOK
<1>2. agenda' = u /\ Rest = Elems(t)
  BY DEF Then, Rest
<1> HIDE DEF t
<1>3. /\ Len(u) = Len(s) + Len(t) /\ Len(s) \in Nat /\ Len(t) \in Nat
      /\ \A i \in 1..Len(u) : u[i] = IF i <= Len(s) THEN s[i] ELSE t[i - Len(s)]
  BY <1>1, Concat
<1> HIDE DEF u
<1>4. \A i \in 1..Len(t) : i + Len(s) \in 1..Len(u) /\ u[i + Len(s)] = t[i]
  <2> SUFFICES ASSUME NEW i \in 1..Len(t)
               PROVE  i + Len(s) \in 1..Len(u) /\ u[i + Len(s)] = t[i]
    OBVIOUS
  <2>1. /\ i + Len(s) \in 1..Len(u) /\ ~(i + Len(s) <= Len(s))
        /\ (i + Len(s)) - Len(s) = i
    BY <1>3
  <2> QED
    BY <1>3, <2>1
<1>5. ASSUME NEW f \in Elems(t) PROVE f \in Elems(u)
  <2>1. PICK i \in 1..Len(t) : f = t[i]
    BY DEF Elems
  <2>2. i + Len(s) \in 1..Len(u) /\ u[i + Len(s)] = f
    BY <1>4, <2>1
  <2> QED
    BY <2>2 DEF Elems
<1> QED
  BY <1>2, <1>5 DEF Frames, Elems

\* The next call is pending.
LEMMA HeadIn ==
    ASSUME IInv', agenda' # <<>>
    PROVE  Head(agenda') \in Frames'
<1>1. agenda' \in Seq(Frame)
  BY DEF IInv, TypeOK
<1>2. Head(agenda') = agenda'[1] /\ 1 \in 1..Len(agenda')
  BY <1>1
<1> QED
  BY <1>2 DEF Frames, Elems

\* The call just made is the next one.
LEMMA ThenHead ==
    ASSUME agenda \in Seq(Frame), agenda # <<>>,
           NEW f \in Frame, Then(<<f>>)
    PROVE  agenda' # <<>> /\ Head(agenda') = f
<1> DEFINE s == <<f>>
           t == Tail(agenda)
<1>1. s \in Seq(Frame) /\ t \in Seq(Frame) /\ Len(s) = 1 /\ s[1] = f
  OBVIOUS
<1>2. agenda' = s \o t
  BY DEF Then
<1> HIDE DEF s, t
<1>3. /\ s \o t \in Seq(Frame) /\ Len(s \o t) = 1 + Len(t)
      /\ Len(t) \in Nat /\ (s \o t)[1] = f
  <2>0. s \o t \in Seq(Frame) /\ Len(s \o t) = Len(s) + Len(t)
    BY <1>1, Concat
  <2>1. s \o t \in Seq(Frame) /\ Len(s \o t) = 1 + Len(t) /\ Len(t) \in Nat
    <3>1. Len(t) \in Nat
      BY <1>1
    <3> QED
      BY <1>1, <2>0, <3>1
  <2>2. 1 \in 1..Len(s \o t) /\ 1 <= Len(s)
    BY <1>1, <2>1
  <2>3. (s \o t)[1] = s[1]
    BY <1>1, <2>2, Concat
  <2> QED
    BY <1>1, <2>1, <2>3
<1> DEFINE u == s \o t
<1> HIDE DEF u
<1>4. u \in Seq(Frame) /\ Len(u) > 0 /\ u[1] = f
  BY <1>3 DEF u
<1>5. u # <<>> /\ Head(u) = u[1]
  BY <1>4
<1> QED
  BY <1>2, <1>4, <1>5 DEF u

\* The peer whose bitfield is announced chokes us.
LEMMA BitfieldLoopServed ==
    ASSUME IInv, HInv, HInv', Served, peer_on_bitfield_loop
    PROVE  Served'
<1>1. /\ agenda # <<>> /\ Head(agenda).fn = "peer_on_bitfield"
      /\ UNCHANGED <<peers, pchoke, endgame, reqs, have, got, iwant>>
  BY DEF peer_on_bitfield_loop, Running, content, pieces, wants
<1>2. PICK p \in peers \intersect pchoke : Head(agenda).ps = {p}
  BY <1>1, TopOk DEF CallOk
<1>3. PICK pc : ann' = [ann EXCEPT ![p] = @ \union {pc}]
  BY <1>2 DEF peer_on_bitfield_loop
<1>4. \A q \in Peers : q # p => ann'[q] = ann[q]
  BY <1>3 DEF IInv, TypeOK
<1>5. peers \in SUBSET Peers
  BY DEF IInv, TypeOK
<1>6. \A q \in peers' : peer_leech_ok(q)' =>
                          q \in peers /\ peer_leech_ok(q) /\ q # p
  BY <1>1, <1>2, LeechIs, LeechThen DEF HInv, peer_laden
<1>7. \A f \in Frames : f.fn \notin LoopFns
  BY <1>1, NoLoops
<1>8. \A q : AnnDue(q) = {}
  BY <1>1, NothingDue
<1> QED
  BY <1>1, <1>4, <1>5, <1>6, <1>7, <1>8, KeptServed DEF ServeFns

\* Requests are taken back from a peer that is lost or chokes us.
LEMMA UnassignServed ==
    ASSUME IInv, HInv, HInv', Served, dl_unassign_requests
    PROVE  Served'
<1>1. /\ agenda # <<>> /\ Head(agenda).fn = "dl_unassign_requests"
      /\ UNCHANGED <<peers, pchoke, endgame, ann, have, got>>
  BY DEF dl_unassign_requests, Running, content, remote
<1>2. PICK p \in (Peers \ peers) \union pchoke : Head(agenda).ps = {p}
  BY <1>1, TopOk DEF CallOk
<1>3. ~endgame
  BY <1>1, TopOk DEF CallOk
<1>4. PICK s : iwant' = iwant /\ reqs' = [reqs EXCEPT ![p] = s]
  BY <1>2 DEF dl_unassign_requests, peer_on_no_reqs
<1>5. p \in Peers /\ peers \in SUBSET Peers
  BY <1>2 DEF IInv, TypeOK
<1>6. \A q \in Peers : q # p => reqs'[q] = reqs[q]
  BY <1>4 DEF IInv, TypeOK
<1>7. \A q \in peers' : peer_leech_ok(q)' => q # p
  BY <1>1, <1>2, LeechThen DEF HInv
<1>8. \A q \in peers' : peer_leech_ok(q)' => q \in peers /\ peer_leech_ok(q)
  BY <1>1, <1>4, <1>5, <1>6, <1>7, LeechKept DEF HInv
<1>9. \A f \in Frames : f.fn \notin LoopFns
  BY <1>1, NoLoops
<1> QED
  BY <1>1, <1>3, <1>8, <1>9, KeptServed DEF ServeFns

\* Likewise in end game.
LEMMA UnassignEgServed ==
    ASSUME IInv, HInv, HInv', Served, dl_unassign_requests_eg
    PROVE  Served'
<1>1. /\ agenda # <<>> /\ Head(agenda).fn = "dl_unassign_requests_eg"
      /\ UNCHANGED <<peers, pchoke, endgame, ann, have, got>>
  BY DEF dl_unassign_requests_eg, Running, content, pieces, remote
<1>2. PICK p \in (Peers \ peers) \union pchoke : Head(agenda).ps = {p}
  BY <1>1, TopOk DEF CallOk
<1>3. iwant' = iwant /\ reqs' = [reqs EXCEPT ![p] = {}]
  BY <1>2 DEF dl_unassign_requests_eg, peer_on_no_reqs
<1>4. p \in Peers /\ peers \in SUBSET Peers
  BY <1>2 DEF IInv, TypeOK
<1>5. \A q \in Peers : q # p => reqs'[q] = reqs[q]
  BY <1>3 DEF IInv, TypeOK
<1>6. \A q \in peers' : peer_leech_ok(q)' => q # p
  BY <1>1, <1>2, LeechThen DEF HInv
<1>7. \A q \in peers' : peer_leech_ok(q)' => q \in peers /\ peer_leech_ok(q)
  BY <1>1, <1>3, <1>4, <1>5, <1>6, LeechKept DEF HInv
<1>8. \A f \in Frames : f.fn \notin LoopFns
  BY <1>1, NoLoops
<1>9. \A q : AnnDue(q) = {}
  BY <1>1, NothingDue
<1> QED
  BY <1>1, <1>4, <1>5, <1>6, <1>7, <1>8, <1>9, KeptServed DEF ServeFns

\* A downloaded piece gives nobody a reason to be asked.
LEMMA OkServed ==
    ASSUME IInv, HInv, HInv', Served, dl_on_ok_piece
    PROVE  Served'
<1>1. /\ agenda # <<>> /\ Head(agenda).fn = "cm_test_piece"
      /\ UNCHANGED <<peers, pchoke, endgame, reqs, ann, have>>
  BY DEF dl_on_ok_piece, Running, pieces, remote
<1>2. PICK pc \in Head(agenda).pcs :
        /\ got' = got \union {pc}
        /\ IF endgame THEN peer_unwant(Holders(pc)) ELSE UNCHANGED wants
        /\ Then(Call("piece_log_good", Senders(log[pc]) \intersect peers, {pc})
                \o Call("judge_logs", {}, {pc})
                \o Call("piece_free", {}, {pc}))
  BY DEF dl_on_ok_piece
<1>3. iwant' \subseteq iwant
  BY <1>2 DEF peer_unwant, wants
<1>4. Rest \subseteq Frames'
  <2> DEFINE a == Call("piece_log_good", Senders(log[pc]) \intersect peers, {pc})
             b == Call("judge_logs", {}, {pc})
             c == Call("piece_free", {}, {pc})
  <2>1. {pc} \in SUBSET Pieces
    BY <1>1, TopOk
  <2>2. Senders(log[pc]) \intersect peers \in SUBSET Peers
    BY DEF Senders
  <2>3. a \in Seq(Frame)
    BY <2>1, <2>2, CallType DEF Fns
  <2>4. b \in Seq(Frame) /\ c \in Seq(Frame)
    BY <2>1, CallType DEF Fns
  <2>5. Then((a \o b) \o c)
    BY <1>2
  <2> HIDE DEF a, b, c
  <2>6. (a \o b) \o c \in Seq(Frame)
    BY <2>3, <2>4
  <2> QED
    BY <1>1, <2>5, <2>6, ThenKeeps
<1>5. \A q \in peers' : peer_leech_ok(q)' => q \in peers /\ peer_leech_ok(q)
  BY <1>1, <1>3, LeechKept DEF HInv
<1>6. \A q : AnnDue(q) = {}
  BY <1>1, NothingDue
<1>7. \A f \in Frames : f.fn \in LoopFns => f \in Frames'
  BY <1>1, <1>4, RestFrames DEF LoopFns
<1> QED
  BY <1>1, <1>2, <1>5, <1>6, <1>7, KeptServed DEF ServeFns

\* Neither do the good marks.
LEMMA LogGoodServed ==
    ASSUME IInv, HInv, HInv', Served, piece_log_good
    PROVE  Served'
<1>1. /\ agenda # <<>> /\ Head(agenda).fn = "piece_log_good"
      /\ UNCHANGED <<peers, pchoke, endgame, reqs, ann, have, got, iwant>>
  BY DEF piece_log_good, Running, content, pieces, remote
<1>2. PICK s \in Seq(Frame) : Then(s)
  <2>1. PICK pc \in Head(agenda).pcs :
       \/ Then(<<>>)
       \/ \E p \in Head(agenda).ps :
            Then((IF p \in suspect /\ p \in iwant
                     /\ p \notin banned \union pchoke /\ ~peer_laden(p)
                  THEN Call("dl_on_download", {p}, {}) ELSE <<>>)
                 \o Call("piece_log_good", Head(agenda).ps \ {p}, {pc}))
    BY DEF piece_log_good
  <2>2. CASE Then(<<>>)
    BY <2>2, OrderedNone
  <2>3. ASSUME NEW p \in Head(agenda).ps,
               Then((IF p \in suspect /\ p \in iwant
                        /\ p \notin banned \union pchoke /\ ~peer_laden(p)
                     THEN Call("dl_on_download", {p}, {}) ELSE <<>>)
                    \o Call("piece_log_good", Head(agenda).ps \ {p}, {pc}))
        PROVE  \E s \in Seq(Frame) : Then(s)
    <3> DEFINE c == Call("piece_log_good", Head(agenda).ps \ {p}, {pc})
    <3>1. p \notin suspect
      BY DEF HInv, Clean
    <3>2. Then(<<>> \o c)
      BY <2>3, <3>1
    <3>3. c \in Seq(Frame)
      <4>1. Head(agenda).ps \ {p} \in SUBSET Peers /\ {pc} \in SUBSET Pieces
        BY <1>1, TopOk
      <4> QED
        BY <4>1, CallType DEF Fns
    <3> HIDE DEF c
    <3>4. <<>> \o c \in Seq(Frame)
      BY <3>3
    <3> QED
      BY <3>2, <3>4
  <2> QED
    BY <2>1, <2>2, <2>3
<1>3. Rest \subseteq Frames'
  BY <1>1, <1>2, ThenKeeps
<1>4. \A q \in peers' : peer_leech_ok(q)' => q \in peers /\ peer_leech_ok(q)
  BY <1>1, LeechKept DEF HInv
<1>5. \A q : AnnDue(q) = {}
  BY <1>1, NothingDue
<1>6. \A f \in Frames : f.fn \in LoopFns => f \in Frames'
  BY <1>1, <1>3, RestFrames DEF LoopFns
<1> QED
  BY <1>1, <1>4, <1>5, <1>6, KeptServed DEF ServeFns

\* Nor the older logs.
LEMMA JudgeServed ==
    ASSUME IInv, HInv, HInv', Served, judge_logs
    PROVE  Served'
<1>1. /\ agenda # <<>> /\ Head(agenda).fn = "judge_logs"
      /\ UNCHANGED <<peers, pchoke, endgame, reqs, ann, have, got, iwant>>
  BY DEF judge_logs, Running, content, pieces, remote, wants
<1>2. Then(<<>>)
  <2>1. \A pc \in Head(agenda).pcs : badlogs[pc] = {}
    BY <1>1, TopOk DEF HInv, Clean
  <2> QED
    BY <2>1 DEF judge_logs
<1>3. Rest \subseteq Frames'
  BY <1>1, <1>2, PopKeeps
<1>4. \A q \in peers' : peer_leech_ok(q)' => q \in peers /\ peer_leech_ok(q)
  BY <1>1, LeechKept DEF HInv
<1>5. \A q : AnnDue(q) = {}
  BY <1>1, NothingDue
<1>6. \A f \in Frames : f.fn \in LoopFns => f \in Frames'
  BY <1>1, <1>3, RestFrames DEF LoopFns
<1> QED
  BY <1>1, <1>4, <1>5, <1>6, KeptServed DEF ServeFns

\* Nor the release of the piece.
LEMMA PieceFreeServed ==
    ASSUME IInv, HInv, HInv', Served, piece_free
    PROVE  Served'
<1>1. /\ agenda # <<>> /\ Head(agenda).fn = "piece_free" /\ Then(<<>>)
      /\ UNCHANGED <<peers, pchoke, endgame, reqs, ann, have, got, iwant>>
  BY DEF piece_free, Running, content, remote, wants
<1>2. Rest \subseteq Frames'
  BY <1>1, PopKeeps
<1>3. \A q \in peers' : peer_leech_ok(q)' => q \in peers /\ peer_leech_ok(q)
  BY <1>1, LeechKept DEF HInv
<1>4. \A q : AnnDue(q) = {}
  BY <1>1, NothingDue
<1>5. \A f \in Frames : f.fn \in LoopFns => f \in Frames'
  BY <1>1, <1>2, RestFrames DEF LoopFns
<1> QED
  BY <1>1, <1>3, <1>4, <1>5, KeptServed DEF ServeFns

\* Nor the release of a peer.
LEMMA PeerFreeServed ==
    ASSUME IInv, HInv, HInv', Served, peer_free
    PROVE  Served'
<1>1. /\ agenda # <<>> /\ Head(agenda).fn = "peer_free"
      /\ UNCHANGED <<peers, endgame, reqs, have, got>>
  BY DEF peer_free, Running, content, pieces
<1>2. PICK p \in Peers \ peers : Head(agenda).ps = {p}
  BY <1>1, TopOk DEF CallOk
<1>3. /\ ann' = [q \in Peers |-> IF q \in {p} THEN {} ELSE ann[q]]
      /\ iwant' = iwant \ {p} /\ pchoke' = pchoke \ {p}
  BY <1>2 DEF peer_free
<1>4. peers \in SUBSET Peers
  BY DEF IInv, TypeOK
<1>5. \A q \in peers : ann'[q] = ann[q] /\ (q \in pchoke => q \in pchoke')
  BY <1>2, <1>3, <1>4
<1>6. \A q \in peers' : peer_leech_ok(q)' => q \in peers /\ peer_leech_ok(q)
  BY <1>1, <1>3, <1>5, LeechKept DEF HInv
<1>7. \A q : AnnDue(q) = {}
  BY <1>1, NothingDue
<1>8. \A f \in Frames : f.fn \notin LoopFns
  BY <1>1, NoLoops
<1> QED
  BY <1>1, <1>5, <1>6, <1>7, <1>8, KeptServed DEF ServeFns

\* A peer that becomes wanted by an announcement is asked at once.
LEMMA AnnounceServed ==
    ASSUME IInv, HInv, IInv', HInv', Served, dl_on_piece_ann
    PROVE  Served'
<1>1. /\ agenda # <<>> /\ Head(agenda).fn = "dl_on_piece_ann"
      /\ UNCHANGED <<peers, pchoke, field, ann, endgame, reqs, have, down,
                     busy, got>>
  BY DEF dl_on_piece_ann, Running, content, pieces, remote
<1>2. PICK p \in peers : \E x \in ann[p] :
         Head(agenda).ps = {p} /\ Head(agenda).pcs = {x}
  BY <1>1, TopOk DEF CallOk
<1>3. PICK pc \in ann[p] : Head(agenda).ps = {p} /\ Head(agenda).pcs = {pc}
  BY <1>2
<1>4. peers \in SUBSET Peers /\ pc \in field[p] /\ pc \in Pieces
  BY <1>3 DEF IInv, TypeOK, HInv, Links
<1>5. \A q \in Peers : AnnDue(q) = IF q = p THEN {pc} ELSE {}
  BY <1>1, <1>3 DEF AnnDue, NextCall
<1>6. \A f \in Frames : f.fn \notin LoopFns
  BY <1>1, NoLoops
<1>7. CASE pc \in got \/ (~endgame /\ pc \in busy /\ piece_full(pc))
  <2>1. UNCHANGED iwant
    BY <1>3, <1>7 DEF dl_on_piece_ann, wants
  <2>2. \A q \in peers' : peer_leech_ok(q)' => q \in peers /\ peer_leech_ok(q)
    BY <1>1, <2>1, LeechKept DEF HInv
  <2>3. endgame => \A q \in peers : \A x \in ann[q] \ got : x \notin AnnDue(q)
    BY <1>4, <1>5, <1>7
  <2> QED
    BY <1>1, <1>6, <2>2, <2>3, KeptServed DEF ServeFns
<1>8. CASE ~(pc \in got \/ (~endgame /\ pc \in busy /\ piece_full(pc)))
  <2>1. {p} \intersect Holders(pc) = {p}
    BY <1>4 DEF Holders, peer_requestable, HInv, Clean, IInv, TypeOK
  <2>2. /\ peer_want(Once({p}))
        /\ Then(IF ~LeechOk(p, iwant') THEN <<>>
                ELSE IF endgame
                THEN Call("dl_assign_requests_eg", {p}, {})
                ELSE Call("dl_piece_assign_requests", {p}, {pc}))
    BY <1>3, <1>8, <2>1 DEF dl_on_piece_ann
  <2>3. \A q \in peers : (q # p /\ q \in iwant') => q \in iwant
    BY <1>4, <2>2 DEF peer_want, Once
  <2>4. \A q \in peers' : (q # p /\ peer_leech_ok(q)') =>
                             q \in peers /\ peer_leech_ok(q)
    BY <1>1, <2>3, LeechKept DEF HInv
  <2>5. CASE ~peer_leech_ok(p)'
    <3>1. \A q \in peers' : peer_leech_ok(q)' =>
                              q \in peers /\ peer_leech_ok(q) /\ AnnDue(q) = {}
      BY <1>1, <1>4, <1>5, <2>4, <2>5
    <3> QED
      BY <1>1, <1>6, <3>1, KeptServed DEF ServeFns
  <2>6. CASE peer_leech_ok(p)'
    <3>1. p \in iwant' /\ p \notin pchoke /\ ~peer_laden(p)
      BY <1>1, <2>6, LeechThen DEF HInv, peer_laden
    <3>2. LeechOk(p, iwant')
      BY <3>1 DEF LeechOk, HInv, Clean
    <3>3. CASE endgame
      <4> DEFINE f == [fn |-> "dl_assign_requests_eg", ps |-> {p}, pcs |-> {}]
      <4>1. /\ f \in Frame /\ f.fn = "dl_assign_requests_eg" /\ f.ps = {p}
        BY <1>4 DEF Frame, Fns
      <4>2. Then(<<f>>)
        BY <2>2, <3>2, <3>3 DEF Call
      <4> HIDE DEF f
      <4>3. agenda' # <<>> /\ Head(agenda') = f
        BY <1>1, <4>1, <4>2, ThenHead DEF IInv, TypeOK
      <4>4. NextCall("dl_assign_requests_eg")' /\ p \in Head(agenda').ps
        BY <4>1, <4>3 DEF NextCall
      <4> SUFFICES ASSUME NEW q \in peers', peer_leech_ok(q)', q # p
                   PROVE  \A x \in ann'[q] \ (got' \union AnnDue(q)') :
                           \A b \in Blocks \ have'[x] : <<x, b>> \in reqs'[q]
        BY <1>1, <3>3, <4>4 DEF Served
      <4>5. q \in peers /\ peer_leech_ok(q) /\ AnnDue(q) = {}
        BY <1>1, <1>4, <1>5, <2>4
      <4>6. ~NextCall("dl_assign_requests_eg") /\ ~NextCall("dl_on_download")
        BY <1>1 DEF NextCall
      <4>7. \A x \in ann[q] \ (got \union AnnDue(q)) :
              \A b \in Blocks \ have[x] : <<x, b>> \in reqs[q]
        BY <3>3, <4>5, <4>6 DEF Served
      <4> QED
        BY <1>1, <4>5, <4>7
    <3>4. CASE ~endgame
      <4> DEFINE f == [fn |-> "dl_piece_assign_requests", ps |-> {p},
                       pcs |-> {pc}]
      <4>1. /\ f \in Frame /\ f.fn = "dl_piece_assign_requests" /\ f.ps = {p}
            /\ f.pcs = {pc}
        BY <1>4 DEF Frame, Fns
      <4>2. Then(<<f>>)
        BY <2>2, <3>2, <3>4 DEF Call
      <4> HIDE DEF f
      <4>3. agenda' # <<>> /\ Head(agenda') = f
        BY <1>1, <4>1, <4>2, ThenHead DEF IInv, TypeOK
      <4>4. f \in Frames'
        BY <1>1, <4>3, HeadIn DEF IInv, TypeOK
      <4>5. \A q \in peers : ~peer_leech_ok(q)
        BY <1>1, <1>6, <3>4, NobodyFree DEF ServeFns
      <4>6. Wanted(p) = {}
        <5>1. p \notin iwant
          BY <3>1, <4>5, LeechIs DEF HInv
        <5> QED
          BY <5>1, NoneWanted
      <4>7. Wanted(p)' = {pc}
        <5>1. /\ AnnDue(p)' = {} /\ Due("dl_on_piece_full")' = {}
              /\ Due("dl_on_piece_unfull")' = {}
          BY <4>1, <4>3 DEF AnnDue, Due, NextCall
        <5>2. /\ AnnDue(p) = {pc} /\ Due("dl_on_piece_full") = {}
              /\ Due("dl_on_piece_unfull") = {}
          BY <1>1, <1>4, <1>5 DEF Due, NextCall
        <5>3. bad[p] = {} /\ bad'[p] = {}
          BY <1>4 DEF HInv, Clean
        <5>4. Wanted(p)' \subseteq Wanted(p) \union {pc}
          BY <1>1, <5>1, <5>2, <5>3 DEF Wanted, piece_full
        <5>5. Wanted(p)' # {}
          BY <1>1, <3>1, StillWanted
        <5> HIDE DEF Wanted
        <5> QED
          BY <4>6, <5>4, <5>5
      <4>8. /\ NextCall("dl_piece_assign_requests")'
            /\ Pending({"unfull_loop", "dl_piece_assign_requests"}, p)'
        BY <4>1, <4>3, <4>4 DEF NextCall, Pending
      <4>9. \A q \in peers' : peer_leech_ok(q)' => q = p
        BY <2>4, <4>5
      <4>10. Head(agenda').pcs = {pc}
        BY <4>1, <4>3
      <4> HIDE DEF Wanted
      <4> QED
        BY <1>1, <3>4, <4>7, <4>8, <4>9, <4>10 DEF Served
    <3> QED
      BY <3>3, <3>4
  <2> QED
    BY <2>5, <2>6
<1> QED
  BY <1>7, <1>8

\* dl_on_download passes its peer on.
LEMMA DownloadServed ==
    ASSUME IInv, HInv, IInv', HInv', Served, dl_on_download
    PROVE  Served'
<1>1. /\ agenda # <<>> /\ Head(agenda).fn = "dl_on_download"
      /\ UNCHANGED <<peers, pchoke, ann, endgame, reqs, have, got, iwant>>
  BY DEF dl_on_download, Running, content, pieces, remote, wants
<1>2. Frames = {Head(agenda)}
  BY <1>1, TopOk DEF Below
<1>3. PICK f \in Frame :
        /\ f.fn = (IF endgame THEN "dl_assign_requests_eg"
                   ELSE "dl_assign_requests")
        /\ f.ps = Head(agenda).ps /\ Then(<<f>>)
  <2> DEFINE fn == IF endgame THEN "dl_assign_requests_eg"
                   ELSE "dl_assign_requests"
             f == [fn |-> fn, ps |-> Head(agenda).ps, pcs |-> {}]
  <2>1. f \in Frame /\ f.fn = fn /\ f.ps = Head(agenda).ps
    BY <1>1, TopOk DEF Frame, Fns
  <2>2. Then(<<f>>)
    BY DEF dl_on_download, Call
  <2> QED
    BY <2>1, <2>2
<1>4. agenda' # <<>> /\ Head(agenda') = f
  BY <1>1, <1>3, ThenHead DEF IInv, TypeOK
<1>5. f \in Frames'
  BY <1>4, HeadIn
<1>6. \A q : AnnDue(q) = {}
  BY <1>1, NothingDue
<1> SUFFICES ASSUME NEW q \in peers', peer_leech_ok(q)'
             PROVE  IF endgame
                    THEN \/ NextCall("dl_assign_requests_eg")'
                            /\ q \in Head(agenda').ps
                         \/ \A x \in ann'[q] \ (got' \union AnnDue(q)') :
                              \A b \in Blocks \ have'[x] : <<x, b>> \in reqs'[q]
                    ELSE Pending(LoopFns, q)'
  BY <1>1 DEF Served, LoopFns
<1>7. q \in peers /\ peer_leech_ok(q)
  BY <1>1, LeechKept DEF HInv
<1>8. CASE endgame
  <2>1. \/ q \in Head(agenda).ps
        \/ \A x \in ann[q] \ (got \union AnnDue(q)) :
             \A b \in Blocks \ have[x] : <<x, b>> \in reqs[q]
    BY <1>7, <1>8 DEF Served
  <2>2. CASE q \in Head(agenda).ps
    BY <1>3, <1>4, <1>8, <2>2 DEF NextCall
  <2>3. CASE \A x \in ann[q] \ (got \union AnnDue(q)) :
               \A b \in Blocks \ have[x] : <<x, b>> \in reqs[q]
    BY <1>1, <1>6, <1>8, <2>3
  <2> QED
    BY <2>1, <2>2, <2>3
<1>9. CASE ~endgame
  <2>1. Pending(LoopFns, q)
    <3>1. /\ ~NextCall("dl_on_piece_full") /\ ~NextCall("unfull_loop")
          /\ ~NextCall("dl_piece_assign_requests")
      BY <1>1 DEF NextCall
    <3> QED
      BY <1>7, <1>9, <3>1 DEF Served, LoopFns
  <2>2. q \in Head(agenda).ps
    BY <1>2, <2>1 DEF Pending
  <2> QED
    BY <1>3, <1>5, <1>9, <2>2 DEF Pending, LoopFns
<1> QED
  BY <1>8, <1>9

\* Outside end game the loop of dl_assign_requests is entered for its peer.
LEMMA OnlyOne ==
    ASSUME IInv, HInv, Served, ~endgame, agenda # <<>>,
           Head(agenda).fn \in {"dl_assign_requests", "assign_loop"},
           NEW q \in peers, peer_leech_ok(q)
    PROVE  q \in Head(agenda).ps
<1>1. Frames = {Head(agenda)}
  BY TopOk DEF Below
<1>2. /\ ~NextCall("dl_on_piece_full") /\ ~NextCall("unfull_loop")
      /\ ~NextCall("dl_piece_assign_requests")
  BY DEF NextCall
<1>3. Pending(LoopFns, q)
  BY <1>2 DEF Served, LoopFns
<1> QED
  BY <1>1, <1>3 DEF Pending

\* dl_assign_requests passes a peer that can be asked on to its loop.
LEMMA AssignServed ==
    ASSUME IInv, HInv, IInv', HInv', Served, dl_assign_requests
    PROVE  Served'
<1>1. /\ agenda # <<>> /\ Head(agenda).fn = "dl_assign_requests"
      /\ UNCHANGED <<peers, pchoke, ann, endgame, reqs, have, got, iwant>>
  BY DEF dl_assign_requests, Running, content, pieces, remote, wants
<1>2. ~endgame
  BY <1>1, TopOk DEF CallOk
<1>3. PICK p \in peers : Head(agenda).ps = {p}
  BY <1>1, TopOk DEF CallOk
<1>4. Then(IF peer_leech_ok(p) THEN Call("assign_loop", {p}, {}) ELSE <<>>)
  BY <1>3 DEF dl_assign_requests
<1> SUFFICES ASSUME NEW q \in peers', peer_leech_ok(q)'
             PROVE  Pending(LoopFns, q)'
  BY <1>1, <1>2 DEF Served, LoopFns
<1>5. q \in peers /\ peer_leech_ok(q)
  BY <1>1, LeechKept DEF HInv
<1>6. q = p
  BY <1>1, <1>2, <1>3, <1>5, OnlyOne
<1> DEFINE f == [fn |-> "assign_loop", ps |-> {p}, pcs |-> {}]
<1>7. f \in Frame /\ f.fn = "assign_loop" /\ f.ps = {p}
  BY DEF Frame, Fns, IInv, TypeOK
<1>8. Then(<<f>>)
  BY <1>4, <1>5, <1>6 DEF Call
<1> HIDE DEF f
<1>9. agenda' # <<>> /\ Head(agenda') = f
  BY <1>1, <1>7, <1>8, ThenHead DEF IInv, TypeOK
<1>10. f \in Frames'
  BY <1>9, HeadIn
<1> QED
  BY <1>6, <1>7, <1>10 DEF Pending, LoopFns

\* Facts about sequences and numbers.
Facts == INSTANCE SeqFacts

\* When a piece can be started there is a rarest one.
LEMMA RarestExists ==
    ASSUME IInv, NEW p \in Peers, NEW x \in Pieces, dl_piece_startable(p, x)
    PROVE  dl_choose_rarest(p) # {}
<1> DEFINE S == {pc \in Pieces : dl_piece_startable(p, pc)}
           T == {piece_count(pc) : pc \in S}
<1>1. \A pc \in Pieces : piece_count(pc) \in Nat
  <2> SUFFICES ASSUME NEW pc \in Pieces PROVE piece_count(pc) \in Nat
    OBVIOUS
  <2>1. {q \in peers : pc \in ann[q]} \in SUBSET Peers /\ IsFiniteSet(Peers)
    BY DownloadAssumption DEF IInv, TypeOK, DownloadAssumption
  <2>2. IsFiniteSet({q \in peers : pc \in ann[q]})
    BY <2>1, FS_Subset
  <2> QED
    BY <2>2, FS_CardinalityType DEF piece_count
<1>2. T \in SUBSET Nat /\ T # {}
  BY <1>1
<1>3. \E m \in T : \A k \in T : m <= k
  <2> HIDE DEF T
  <2> QED
    BY <1>2, Facts!LeastElement
<1>4. PICK pc \in S : \A k \in T : piece_count(pc) <= k
  BY <1>3
<1>5. pc \in dl_choose_rarest(p)
  BY <1>4 DEF dl_choose_rarest
<1> QED
  BY <1>5

\* The loop of dl_assign_requests ends only when its peer is laden or no piece
\* it has is open; otherwise there is a piece to choose.
LEMMA AssignLoopServed ==
    ASSUME IInv, HInv, IInv', HInv', Served, assign_loop
    PROVE  Served'
<1>1. /\ agenda # <<>> /\ Head(agenda).fn = "assign_loop"
      /\ UNCHANGED <<peers, pchoke, ann, endgame, reqs, have, got, iwant>>
  BY DEF assign_loop, Running, content, pieces, remote, wants
<1>2. PICK p \in peers : Head(agenda).ps = {p}
  BY <1>1, TopOk DEF CallOk
<1>3. p \in Peers /\ field[p] = ann[p] /\ ann[p] \in SUBSET Pieces /\ bad[p] = {}
  BY <1>1, Announced DEF IInv, TypeOK, HInv, Clean
<1>4. \A q : AnnDue(q) = {}
  BY <1>1, NothingDue
<1>5. \A q \in peers' : peer_leech_ok(q)' => q \in peers /\ peer_leech_ok(q)
  BY <1>1, LeechKept DEF HInv
<1>6. CASE endgame
  <2> SUFFICES ASSUME NEW q \in peers', peer_leech_ok(q)'
               PROVE  \A x \in ann'[q] \ (got' \union AnnDue(q)') :
                        \A b \in Blocks \ have'[x] : <<x, b>> \in reqs'[q]
    BY <1>1, <1>6 DEF Served
  <2>1. ~NextCall("dl_assign_requests_eg") /\ ~NextCall("dl_on_download")
    BY <1>1 DEF NextCall
  <2>2. \A x \in ann[q] \ (got \union AnnDue(q)) :
          \A b \in Blocks \ have[x] : <<x, b>> \in reqs[q]
    BY <1>5, <1>6, <2>1 DEF Served
  <2> QED
    BY <1>1, <1>4, <2>2
<1>7. CASE ~endgame
  <2> SUFFICES ASSUME NEW q \in peers', peer_leech_ok(q)'
               PROVE  Pending(LoopFns, q)'
    BY <1>1, <1>7 DEF Served, LoopFns
  <2>1. q \in peers /\ peer_leech_ok(q)
    BY <1>5
  <2>2. q = p
    BY <1>1, <1>2, <1>7, <2>1, OnlyOne
  <2>3. p \in iwant /\ ~peer_laden(p)
    BY <2>1, <2>2 DEF peer_leech_ok, LeechOk
  <2>4. PICK x \in Wanted(p) : TRUE
    BY <2>3, NoneWanted
  <2>5. x \in field[p] \ got /\ ~piece_full(x) /\ x \in Pieces
    <3>1. Wanted(p) = {pc \in ann[p] \ got : endgame \/ ~piece_full(pc)}
      BY <1>1, <1>3, NoDues DEF HInv, DueFns
    <3> HIDE DEF Wanted
    <3> QED
      BY <1>3, <1>7, <2>4, <3>1
  <2> DEFINE started == {pc \in busy : ~piece_full(pc)
                                       /\ peer_requestable(p, pc)}
             choice == IF started # {} THEN started ELSE dl_choose_rarest(p)
  <2>6. choice # {}
    <3>1. CASE x \in busy
      BY <1>3, <2>5, <3>1 DEF peer_requestable
    <3>2. CASE x \notin busy
      <4>1. dl_piece_startable(p, x)
        BY <1>3, <2>5, <3>2 DEF dl_piece_startable, peer_requestable
      <4> QED
        BY <1>3, <2>5, <4>1, RarestExists
    <3> QED
      BY <3>1, <3>2
  <2>7. PICK pc \in choice : Then(Call("dl_piece_assign_requests", {p}, {pc})
                                  \o Call("assign_loop", {p}, {}))
    BY <1>2, <1>7, <2>3, <2>6 DEF assign_loop
  <2>8. pc \in Pieces
    BY <2>7 DEF dl_choose_rarest, IInv, TypeOK
  <2> HIDE DEF started, choice
  <2> DEFINE f == [fn |-> "dl_piece_assign_requests", ps |-> {p}, pcs |-> {pc}]
             g == [fn |-> "assign_loop", ps |-> {p}, pcs |-> {}]
  <2>9. /\ f \in Frame /\ g \in Frame /\ Below(f, g)
        /\ g.fn = "assign_loop" /\ g.ps = {p}
    BY <1>3, <2>8 DEF Frame, Fns, Below
  <2>10. Then(<<f>> \o <<g>>)
    BY <2>7 DEF Call
  <2> HIDE DEF f, g
  <2>11. Rest = {}
    BY <1>1, TopOk DEF Below
  <2>12. g \in Frames'
    BY <1>1, <2>9, <2>10, <2>11, TopOk, Push2
  <2> QED
    BY <2>2, <2>9, <2>12 DEF Pending, LoopFns
<1> QED
  BY <1>6, <1>7

\* dl_enter_endgame has every peer visited.
LEMMA EnterEndgameServed ==
    ASSUME IInv, HInv, IInv', HInv', Served, dl_enter_endgame
    PROVE  Served'
<1>1. /\ agenda # <<>> /\ endgame' = TRUE /\ peers' = peers
      /\ Then(Call("dl_assign_requests_eg", peers, {}))
  BY DEF dl_enter_endgame, Running, remote
<1>2. PICK f \in Frame :
         f = [fn |-> "dl_assign_requests_eg", ps |-> peers, pcs |-> {}]
  BY DEF Frame, Fns, IInv, TypeOK
<1>3. f.fn = "dl_assign_requests_eg" /\ f.ps = peers /\ Then(<<f>>)
  BY <1>1, <1>2 DEF Call
<1>4. agenda' # <<>> /\ Head(agenda') = f
  BY <1>1, <1>2, <1>3, ThenHead DEF IInv, TypeOK
<1> QED
  BY <1>1, <1>3, <1>4 DEF Served, NextCall

\* The only piece that can still be wanted of a wanted peer is wanted.
LEMMA OnlyWanted ==
    ASSUME HInv', IInv', NEW q \in peers', q \in iwant', NEW pc,
           \A y \in Wanted(q)' : y = pc
    PROVE  Wanted(q)' = {pc}
<1>1. Wanted(q)' # {}
  BY StillWanted
<1> HIDE DEF Wanted
<1> QED
  BY <1>1

\* Every call on the stack but the next one may lie below it.
LEMMA TopThen ==
    ASSUME IInv', HInv', agenda' # <<>>, NEW g \in Frames'
    PROVE  g = Head(agenda') \/ Below(Head(agenda'), g)
<1>1. agenda' \in Seq(Frame) /\ Ordered(agenda')
  BY DEF IInv, TypeOK, HInv, Stacked
<1>2. /\ Elems(agenda') = {Head(agenda')} \union Elems(Tail(agenda'))
      /\ \A h \in Elems(Tail(agenda')) : Below(Head(agenda'), h)
  BY <1>1, OrderedTail
<1>3. g \in Elems(agenda')
  BY DEF Frames, Elems
<1> QED
  BY <1>2, <1>3

\* dl_on_piece_full: who wanted nothing but the piece is no longer wanted.
LEMMA PieceFullServed ==
    ASSUME IInv, HInv, IInv', HInv', Served, dl_on_piece_full
    PROVE  Served'
<1>1. /\ agenda # <<>> /\ Head(agenda).fn = "dl_on_piece_full"
      /\ UNCHANGED <<peers, pchoke, ann, endgame, reqs, have, down, got>>
  BY DEF dl_on_piece_full, Running, content, pieces, remote
<1>2. PICK pc \in busy \ got :
        Head(agenda).pcs = {pc} /\ piece_full(pc) /\ ~endgame
  BY <1>1, TopOk DEF CallOk
<1>3. /\ peer_unwant(Holders(pc))
      /\ Then(IF dl_should_enter_endgame
              THEN Call("dl_enter_endgame", {}, {}) ELSE <<>>)
  BY <1>2 DEF dl_on_piece_full
<1>4. iwant' \subseteq iwant
  BY <1>3 DEF peer_unwant
<1>5. \A g \in Rest : g.fn # "dl_on_piece_full"
  BY <1>1, TopOk DEF Below
<1>6. Rest \subseteq Frames' /\ ~NextCall("dl_on_piece_full")'
  <2>1. CASE dl_should_enter_endgame
    <3> DEFINE f == [fn |-> "dl_enter_endgame", ps |-> {}, pcs |-> {}]
    <3>1. f \in Frame /\ f.fn = "dl_enter_endgame"
      BY DEF Frame, Fns
    <3>2. Then(<<f>>)
      BY <1>3, <2>1 DEF Call
    <3> HIDE DEF f
    <3>3. agenda' # <<>> /\ Head(agenda') = f
      BY <1>1, <3>1, <3>2, ThenHead DEF IInv, TypeOK
    <3>4. <<f>> \in Seq(Frame)
      BY <3>1, OrderedOne
    <3> QED
      BY <1>1, <3>1, <3>2, <3>3, <3>4, ThenKeeps DEF NextCall
  <2>2. CASE ~dl_should_enter_endgame
    <3>1. Then(<<>>)
      BY <1>3, <2>2
    <3> QED
      BY <1>1, <1>5, <3>1, PopKeeps DEF NextCall
  <2> QED
    BY <2>1, <2>2
<1> SUFFICES ASSUME NEW q \in peers', peer_leech_ok(q)'
             PROVE  Pending(LoopFns, q)'
  BY <1>1, <1>2 DEF Served, LoopFns
<1>7. q \in peers /\ peer_leech_ok(q) /\ q \in iwant' /\ q \in Peers
  BY <1>1, <1>4, LeechKept, LeechThen DEF HInv, IInv, TypeOK
<1>8. Pending(LoopFns, q) \/ Wanted(q) = {pc}
  BY <1>2, <1>7 DEF Served, LoopFns
<1>9. CASE Pending(LoopFns, q)
  <2>1. \A f \in Frames : f.fn \in LoopFns => f \in Frames'
    BY <1>1, <1>6, RestFrames DEF LoopFns
  <2> QED
    BY <1>9, <2>1 DEF Pending
<1>10. CASE Wanted(q) = {pc}
  <2>1. \A y \in Wanted(q)' : y \in ann[q] \ got /\ ~piece_full(y)
    BY <1>1, <1>2, <1>6 DEF Wanted, Due, piece_full
  <2>2. AnnDue(q) = {} /\ bad[q] = {} /\ Due("dl_on_piece_unfull") = {}
    BY <1>1, <1>7 DEF AnnDue, NextCall, Due, HInv, Clean
  <2>3. \A y \in ann[q] \ got : ~piece_full(y) => y \in Wanted(q)
    BY <2>2 DEF Wanted
  <2>4. Wanted(q)' = {}
    <3> HIDE DEF Wanted
    <3> QED
      BY <1>2, <1>10, <2>1, <2>3
  <2> QED
    BY <1>7, <2>4, StillWanted
<1> QED
  BY <1>8, <1>9, <1>10

\* dl_on_piece_unfull: who is wanted again is wanted for that piece alone, and
\* the loop that follows will reach it.
LEMMA PieceUnfullServed ==
    ASSUME IInv, HInv, IInv', HInv', Served, dl_on_piece_unfull
    PROVE  Served'
<1>1. /\ agenda # <<>> /\ Head(agenda).fn = "dl_on_piece_unfull"
      /\ UNCHANGED <<peers, pchoke, ann, endgame, reqs, have, down, got>>
  BY DEF dl_on_piece_unfull, Running, content, pieces, remote
<1>2. PICK pc \in busy \ got : Head(agenda).pcs = {pc} /\ ~endgame
  BY <1>1, TopOk DEF CallOk
<1>3. Then(Call("unfull_loop", peers, {pc}))
  BY <1>2 DEF dl_on_piece_unfull
<1>4. PICK f \in Frame : f = [fn |-> "unfull_loop", ps |-> peers, pcs |-> {pc}]
  BY <1>2 DEF Frame, Fns, IInv, TypeOK
<1>5. f.fn = "unfull_loop" /\ f.ps = peers /\ f.pcs = {pc} /\ Then(<<f>>)
  BY <1>3, <1>4 DEF Call
<1>6. agenda' # <<>> /\ Head(agenda') = f /\ f \in Frames'
  BY <1>1, <1>4, <1>5, ThenHead, HeadIn DEF IInv, TypeOK
<1> SUFFICES ASSUME NEW q \in peers', peer_leech_ok(q)'
             PROVE  /\ NextCall("unfull_loop")'
                    /\ Pending({"unfull_loop", "dl_piece_assign_requests"}, q)'
                    /\ Wanted(q)' = Head(agenda').pcs
  BY <1>1, <1>2 DEF Served
<1>7. NextCall("unfull_loop")' /\ Due("dl_on_piece_full")' = {}
      /\ Pending({"unfull_loop", "dl_piece_assign_requests"}, q)'
  BY <1>1, <1>5, <1>6 DEF NextCall, Pending, Due
<1>8. q \in peers /\ q \in iwant' /\ q \in Peers
  BY <1>1, LeechThen DEF HInv, IInv, TypeOK
<1>9. ~peer_leech_ok(q)
  BY <1>1, <1>2, <1>8, NobodyFree, NoLoops DEF ServeFns
<1>10. q \notin iwant
  BY <1>1, <1>9, LeechIs, LeechThen DEF HInv, peer_laden
<1>11. Wanted(q) = {}
  BY <1>8, <1>10, NoneWanted
<1>12. \A y \in Wanted(q)' : y \in ann[q] \ got /\ ~piece_full(y)
  BY <1>1, <1>2, <1>7 DEF Wanted, piece_full
<1>13. /\ AnnDue(q) = {} /\ bad[q] = {}
       /\ Due("dl_on_piece_unfull") = {pc}
  BY <1>1, <1>2, <1>8 DEF AnnDue, NextCall, Due, HInv, Clean
<1>14. \A y \in ann[q] \ got : ~piece_full(y) => y = pc \/ y \in Wanted(q)
  BY <1>13 DEF Wanted
<1>15. Wanted(q)' = {pc}
  <2> HIDE DEF Wanted
  <2> QED
    BY <1>8, <1>11, <1>12, <1>14, OnlyWanted
<1> QED
  BY <1>5, <1>6, <1>7, <1>15

\* One turn of the loop after dl_on_piece_unfull: a peer that can be asked has
\* the piece, so it is asked now or stays among the peers still to be visited.
LEMMA UnfullLoopServed ==
    ASSUME IInv, HInv, IInv', HInv', Served, unfull_loop
    PROVE  Served'
<1>1. /\ agenda # <<>> /\ Head(agenda).fn = "unfull_loop"
      /\ UNCHANGED <<peers, pchoke, ann, endgame, reqs, have, down, got, iwant>>
  BY DEF unfull_loop, Running, content, pieces, remote, wants
<1>2. PICK pc \in busy \ got : Head(agenda).pcs = {pc} /\ ~endgame
  BY <1>1, TopOk DEF CallOk
<1>3. \A g \in Rest : g.fn \in {"dl_unassign_requests", "peer_free"}
  BY <1>1, TopOk DEF Below
<1> SUFFICES ASSUME NEW q \in peers', peer_leech_ok(q)'
             PROVE  /\ NextCall("unfull_loop")'
                       \/ NextCall("dl_piece_assign_requests")'
                    /\ Pending({"unfull_loop", "dl_piece_assign_requests"}, q)'
                    /\ Wanted(q)' = Head(agenda').pcs
  BY <1>1, <1>2 DEF Served
<1>4. q \in peers /\ peer_leech_ok(q) /\ q \in iwant' /\ q \in Peers
  BY <1>1, LeechKept, LeechThen DEF HInv, IInv, TypeOK
<1>5. q \in Head(agenda).ps /\ Wanted(q) = {pc}
  <2>1. ~Pending(LoopFns, q)
    BY <1>1, NoLoops DEF Pending
  <2>2. ~NextCall("dl_on_piece_full")
    BY <1>1 DEF NextCall
  <2>3. Pending({"unfull_loop", "dl_piece_assign_requests"}, q)
        /\ Wanted(q) = {pc}
    BY <1>2, <1>4, <2>1, <2>2 DEF Served, LoopFns
  <2> QED
    BY <1>1, <1>3, <2>3, TopOk DEF Pending
<1>6. Wanted(q) = {y \in ann[q] \ got : ~piece_full(y)}
  BY <1>1, <1>2, <1>4, NoDues DEF HInv, DueFns
<1>7. ~piece_full(pc) /\ pc \in ann[q]
  <2> HIDE DEF Wanted
  <2> QED
    BY <1>5, <1>6
<1>8. PICK p \in Head(agenda).ps :
        Then((IF peer_leech_ok(p) /\ peer_requestable(p, pc)
              THEN Call("dl_piece_assign_requests", {p}, {pc})
              ELSE <<>>)
             \o Call("unfull_loop", Head(agenda).ps \ {p}, {pc}))
  BY <1>2, <1>5, <1>7 DEF unfull_loop
<1>9. p \in Peers /\ Head(agenda).ps \in SUBSET Peers /\ pc \in Pieces
  BY <1>1, <1>2, TopOk
<1>10. PICK g \in Frame :
         g = [fn |-> "unfull_loop", ps |-> Head(agenda).ps \ {p}, pcs |-> {pc}]
  BY <1>9 DEF Frame, Fns
<1>11. /\ g.fn = "unfull_loop" /\ g.ps = Head(agenda).ps \ {p} /\ g.pcs = {pc}
       /\ <<g>> = Call("unfull_loop", Head(agenda).ps \ {p}, {pc})
  BY <1>10 DEF Call
<1>12. \A h \in Rest : Below(g, h)
  BY <1>3, <1>11 DEF Below
<1>13. /\ agenda' # <<>> /\ Head(agenda').pcs = {pc}
       /\ Head(agenda').fn \in {"unfull_loop", "dl_piece_assign_requests"}
       /\ Pending({"unfull_loop", "dl_piece_assign_requests"}, q)'
  <2>1. CASE peer_leech_ok(p) /\ peer_requestable(p, pc)
    <3> DEFINE f == [fn |-> "dl_piece_assign_requests", ps |-> {p},
                     pcs |-> {pc}]
    <3>1. /\ f \in Frame /\ f.fn = "dl_piece_assign_requests" /\ f.ps = {p}
          /\ f.pcs = {pc}
      BY <1>9 DEF Frame, Fns
    <3>2. Then(<<f>> \o <<g>>)
      BY <1>8, <1>11, <2>1 DEF Call
    <3> HIDE DEF f
    <3>3. Below(f, g) /\ \A h \in Rest : Below(f, h)
      BY <1>3, <1>11, <3>1, TopOk, <1>1 DEF Below
    <3>4. Frames' = {f, g} \union Rest /\ agenda' # <<>> /\ Head(agenda') = f
      BY <1>1, <1>12, <3>1, <3>2, <3>3, TopOk, Push2
    <3>5. q \in f.ps \/ q \in g.ps
      BY <1>5, <1>11, <3>1
    <3> QED
      BY <1>11, <3>1, <3>4, <3>5 DEF Pending
  <2>2. CASE ~(peer_leech_ok(p) /\ peer_requestable(p, pc))
    <3>1. Then(<<g>>)
      BY <1>8, <1>11, <2>2, NoneFirst
    <3>2. Frames' = {g} \union Rest /\ agenda' # <<>> /\ Head(agenda') = g
      BY <1>1, <1>12, <3>1, TopOk, Push1
    <3>3. q # p
      <4>1. field[q] = ann[q] /\ bad[q] = {}
        BY <1>1, <1>4, Announced DEF HInv, Clean
      <4> QED
        BY <1>4, <1>7, <2>2, <4>1 DEF peer_requestable
    <3> QED
      BY <1>5, <1>11, <3>2, <3>3 DEF Pending
  <2> QED
    BY <2>1, <2>2
<1>14. Due("dl_on_piece_full")' = {}
  BY <1>13 DEF Due, NextCall
<1>15. \A y \in Wanted(q)' : y \in ann[q] \ got /\ ~piece_full(y)
  BY <1>1, <1>2, <1>14 DEF Wanted, piece_full
<1>16. Wanted(q)' = {pc}
  <2> HIDE DEF Wanted
  <2> QED
    BY <1>4, <1>5, <1>6, <1>15, OnlyWanted
<1> QED
  BY <1>13, <1>16 DEF NextCall

\* A block arrives: its sender, and in end game everybody else it had been
\* requested from, has room for another request and is given the chance.
LEMMA PieceServed ==
    ASSUME IInv, HInv, IInv', HInv', Served, NEW p \in Peers, NEW pc, NEW b,
           NEW isbad, peer_on_piece(p, pc, b, isbad)
    PROVE  Served'
<1>1. /\ Idle /\ p \in peers /\ <<pc, b>> \in reqs[p] /\ pc \in Pieces
      /\ UNCHANGED <<peers, pchoke, ann, endgame, got, iwant>>
  <2>1. Idle /\ p \in peers /\ <<pc, b>> \in reqs[p]
        /\ UNCHANGED <<peers, pchoke, ann, endgame, got, iwant>>
    BY DEF peer_on_piece, remote, peer_on_no_reqs
  <2>2. <<pc, b>> \in Pieces \X Blocks
    BY <2>1 DEF IInv, TypeOK
  <2> QED
    BY <2>1, <2>2
<1>2. PICK as \in SUBSET Peers : as = Askers(p, pc, b)
  <2>1. Askers(p, pc, b) \in SUBSET Peers
    BY DEF Askers
  <2> QED
    BY <2>1
<1> DEFINE test == IF Completes(pc, b) THEN Call("cm_test_piece", {}, {pc})
                   ELSE <<>>
<1>3. /\ reqs' = [q \in Peers |-> IF q \in as THEN reqs[q] \ {<<pc, b>>}
                                  ELSE reqs[q]]
      /\ have' = [have EXCEPT ![pc] = @ \union {b}]
      /\ agenda' = IF endgame
                   THEN Call("dl_assign_requests_eg", as, {}) \o test
                   ELSE test \o Call("dl_assign_requests", {p}, {})
  BY <1>2 DEF peer_on_piece
<1> DEFINE e == [fn |-> "dl_assign_requests_eg", ps |-> as, pcs |-> {}]
           t == [fn |-> "cm_test_piece", ps |-> {}, pcs |-> {pc}]
           a == [fn |-> "dl_assign_requests", ps |-> {p}, pcs |-> {}]
<1>4. /\ e \in Frame /\ e.fn = "dl_assign_requests_eg" /\ e.ps = as
      /\ t \in Frame /\ t.fn = "cm_test_piece"
      /\ a \in Frame /\ a.fn = "dl_assign_requests" /\ a.ps = {p}
  BY <1>1 DEF Frame, Fns
<1>5. \/ endgame /\ agenda' = <<e>>
      \/ endgame /\ agenda' = <<e>> \o <<t>>
      \/ ~endgame /\ agenda' = <<a>>
      \/ ~endgame /\ agenda' = <<t>> \o <<a>>
  <2>1. <<e>> \o <<>> = <<e>> /\ <<>> \o <<a>> = <<a>>
    BY <1>4, NoneFirst, NoneLast
  <2> QED
    BY <1>3, <2>1 DEF Call
<1> HIDE DEF e, t, a, test
<1>6. Below(e, t) /\ Below(t, a)
  BY <1>4 DEF Below
<1>7. /\ endgame => agenda' # <<>> /\ Head(agenda') = e
      /\ ~endgame => a \in Frames'
  <2>1. CASE endgame /\ agenda' = <<e>>
    BY <1>4, <2>1, Start1
  <2>2. CASE endgame /\ agenda' = <<e>> \o <<t>>
    BY <1>4, <1>6, <2>2, Start2
  <2>3. CASE ~endgame /\ agenda' = <<a>>
    BY <1>4, <2>3, Start1
  <2>4. CASE ~endgame /\ agenda' = <<t>> \o <<a>>
    <3>1. Frames' = {t, a}
      BY <1>4, <1>6, <2>4, Start2
    <3> QED
      BY <2>4, <3>1
  <2> QED
    BY <1>5, <2>1, <2>2, <2>3, <2>4
<1>8. Frames = {} /\ agenda = <<>>
  BY <1>1, Resting
<1>9. \A q : AnnDue(q) = {}
  BY <1>8 DEF AnnDue, NextCall
<1> SUFFICES ASSUME NEW q \in peers', peer_leech_ok(q)'
             PROVE  IF endgame
                    THEN \/ NextCall("dl_assign_requests_eg")'
                            /\ q \in Head(agenda').ps
                         \/ \A x \in ann'[q] \ (got' \union AnnDue(q)') :
                              \A c \in Blocks \ have'[x] : <<x, c>> \in reqs'[q]
                    ELSE Pending(LoopFns, q)'
  BY <1>1 DEF Served, LoopFns
<1>10. q \in peers /\ q \in Peers
  BY <1>1 DEF IInv, TypeOK
<1>11. q \notin as => reqs'[q] = reqs[q] /\ peer_leech_ok(q)
  BY <1>1, <1>3, <1>10, LeechKept DEF HInv
<1>12. CASE endgame
  <2>1. CASE q \in as
    BY <1>4, <1>7, <1>12, <2>1 DEF NextCall
  <2>2. CASE q \notin as
    <3>1. \A x \in ann[q] \ got :
            \A c \in Blocks \ have[x] : <<x, c>> \in reqs[q]
      BY <1>8, <1>9, <1>10, <1>11, <1>12, <2>2 DEF Served, NextCall
    <3>2. \A x \in Pieces : have[x] \subseteq have'[x]
      BY <1>1, <1>3 DEF IInv, TypeOK
    <3>3. ann[q] \in SUBSET Pieces
      BY <1>10 DEF IInv, TypeOK
    <3> QED
      BY <1>1, <1>11, <1>12, <2>2, <3>1, <3>2, <3>3
  <2> QED
    BY <2>1, <2>2
<1>13. CASE ~endgame
  <2>1. \A x \in peers : ~peer_leech_ok(x)
    BY <1>8, <1>13, NobodyFree
  <2>2. q = p
    BY <1>2, <1>10, <1>11, <1>13, <2>1 DEF Askers
  <2> QED
    BY <1>4, <1>7, <1>13, <2>2 DEF Pending, LoopFns
<1> QED
  BY <1>12, <1>13

\* A peer whose pipe was filled is laden.
LEMMA PipeFull ==
    ASSUME IInv, NEW p \in Peers, NEW s \in SUBSET (Pieces \X Blocks),
           s \intersect reqs[p] = {},
           Cardinality(reqs[p]) + Cardinality(s) = MaxPiped
    PROVE  Cardinality(reqs[p] \union s) >= MaxPiped
<1>1. IsFiniteSet(Pieces \X Blocks)
  BY DownloadAssumption, FS_Product DEF DownloadAssumption
<1>2. reqs[p] \in SUBSET (Pieces \X Blocks)
  BY DEF IInv, TypeOK
<1> DEFINE r == reqs[p]
<1> HIDE DEF r
<1>3. IsFiniteSet(r) /\ IsFiniteSet(s)
  BY <1>1, <1>2, FS_Subset DEF r
<1>4. Cardinality(r \intersect s) = 0
  <2>1. r \intersect s = {}
    BY DEF r
  <2> QED
    BY <2>1, FS_EmptySet
<1>5. /\ Cardinality(r \union s) =
           Cardinality(r) + Cardinality(s) - Cardinality(r \intersect s)
      /\ Cardinality(r) \in Nat /\ Cardinality(s) \in Nat
  BY <1>3, FS_Union, FS_CardinalityType
<1>6. Cardinality(r) + Cardinality(s) = MaxPiped
  BY DEF r
<1>7. Cardinality(r \union s) >= MaxPiped
  BY <1>4, <1>5, <1>6
<1> QED
  BY <1>7 DEF r

\* The blocks of one piece that are requested count once each.
LEMMA BlocksOf ==
    ASSUME NEW pc, NEW s \in SUBSET Blocks
    PROVE  Cardinality({pc} \X s) = Cardinality(s)
<1>1. IsFiniteSet(s) /\ IsFiniteSet({pc}) /\ Cardinality({pc}) = 1
  BY DownloadAssumption, FS_Subset, FS_Singleton DEF DownloadAssumption
<1>2. /\ Cardinality({pc} \X s) = Cardinality({pc}) * Cardinality(s)
      /\ Cardinality(s) \in Nat
  BY <1>1, FS_Product, FS_CardinalityType
<1> QED
  BY <1>1, <1>2

\* dl_piece_assign_requests: the peer takes all that was free of the piece, or
\* is laden; the peers that wait for the same piece are still to be visited.
LEMMA PieceAssignServed ==
    ASSUME IInv, HInv, IInv', HInv', Served, dl_piece_assign_requests
    PROVE  Served'
<1>1. /\ agenda # <<>> /\ Head(agenda).fn = "dl_piece_assign_requests"
      /\ UNCHANGED <<peers, pchoke, ann, endgame, have, got, iwant>>
  BY DEF dl_piece_assign_requests, Running, content, remote, wants
<1>2. PICK p \in peers : \E x \in field[p] \ got :
         Head(agenda).ps = {p} /\ Head(agenda).pcs = {x} /\ ~endgame
  BY <1>1, TopOk DEF CallOk
<1>3. PICK pc \in field[p] \ got :
         Head(agenda).ps = {p} /\ Head(agenda).pcs = {pc} /\ ~endgame
  BY <1>2
<1>4. p \in Peers /\ pc \in Pieces /\ peers \in SUBSET Peers
  BY <1>3 DEF IInv, TypeOK
<1> DEFINE free == Blocks \ (have[pc] \union down[pc])
<1>5. PICK s \in SUBSET free :
        /\ Takes(p, s, free)
        /\ reqs' = [reqs EXCEPT ![p] = @ \union ({pc} \X s)]
        /\ down' = [down EXCEPT ![pc] = @ \union s]
        /\ Then(IF s = free THEN Call("dl_on_piece_full", {}, {pc})
                ELSE <<>>)
  <2>1. PICK x \in Head(agenda).ps, y \in Head(agenda).pcs :
          \E s \in SUBSET (Blocks \ (have[y] \union down[y])) :
            /\ Takes(x, s, Blocks \ (have[y] \union down[y]))
            /\ reqs' = [reqs EXCEPT ![x] = @ \union ({y} \X s)]
            /\ down' = [down EXCEPT ![y] = @ \union s]
            /\ Then(IF s = Blocks \ (have[y] \union down[y])
                    THEN Call("dl_on_piece_full", {}, {y}) ELSE <<>>)
    BY DEF dl_piece_assign_requests
  <2>2. x = p /\ y = pc
    BY <1>3
  <2> QED
    BY <2>1, <2>2
<1>6. \A x \in Pieces : down[x] \subseteq down'[x] /\ down[x] \subseteq Blocks
                        /\ have[x] \subseteq Blocks
                        /\ (x # pc => down'[x] = down[x])
  BY <1>4, <1>5 DEF IInv, TypeOK
<1>7. \A x \in Pieces : ~piece_full(x)' => ~piece_full(x)
  <2>1. \A x \in Pieces : down'[x] \subseteq Blocks
    BY DEF IInv, TypeOK
  <2> QED
    BY <1>1, <1>6, <2>1 DEF piece_full
<1>8. \A q \in Peers : reqs'[q] = IF q = p THEN reqs[q] \union ({pc} \X s)
                                  ELSE reqs[q]
  BY <1>4, <1>5 DEF IInv, TypeOK
<1>9. s # free => Cardinality(reqs'[p]) >= MaxPiped
  <2> SUFFICES ASSUME s # free PROVE Cardinality(reqs'[p]) >= MaxPiped
    OBVIOUS
  <2>1. Cardinality(reqs[p]) + Cardinality(s) = MaxPiped
    BY <1>5 DEF Takes
  <2>2. s \in SUBSET Blocks /\ s \intersect down[pc] = {}
    OBVIOUS
  <2>3. {pc} \X s \in SUBSET (Pieces \X Blocks)
    BY <1>4, <2>2
  <2>4. ({pc} \X s) \intersect reqs[p] = {}
    <3>1. \A b \in Blocks : <<pc, b>> \in reqs[p] => b \in down[pc]
      BY <1>3, <1>4 DEF IInv, Accounted, HInv
    <3> QED
      BY <2>2, <3>1
  <2>5. Cardinality({pc} \X s) = Cardinality(s)
    BY <2>2, BlocksOf
  <2> DEFINE m == {pc} \X s
  <2> HIDE DEF m
  <2>6. Cardinality(reqs[p] \union m) >= MaxPiped
    BY <1>4, <2>1, <2>3, <2>4, <2>5, PipeFull DEF m
  <2> QED
    BY <1>4, <1>8, <2>6 DEF m
<1> HIDE DEF free
<1>10. /\ Rest \subseteq Frames'
       /\ s = free => NextCall("dl_on_piece_full")' /\ Head(agenda').pcs = {pc}
       /\ s # free => Frames' = Rest
       /\ s # free => (agenda' = <<>> \/ Head(agenda') \in Rest)
  <2>1. CASE s = free
    <3> DEFINE f == [fn |-> "dl_on_piece_full", ps |-> {}, pcs |-> {pc}]
    <3>1. f \in Frame /\ f.fn = "dl_on_piece_full" /\ f.pcs = {pc}
      BY <1>4 DEF Frame, Fns
    <3>2. Then(<<f>>)
      BY <1>5, <2>1 DEF Call
    <3> HIDE DEF f
    <3>3. agenda' # <<>> /\ Head(agenda') = f
      BY <1>1, <3>1, <3>2, ThenHead DEF IInv, TypeOK
    <3>4. <<f>> \in Seq(Frame)
      BY <3>1, OrderedOne
    <3>5. Rest \subseteq Frames'
      BY <1>1, <3>2, <3>4, ThenKeeps
    <3> QED
      BY <2>1, <3>1, <3>3, <3>5 DEF NextCall
  <2>2. CASE s # free
    <3>1. Then(<<>>)
      BY <1>5, <2>2
    <3>2. Frames' = Rest /\ (agenda' = <<>> \/ Head(agenda') \in Rest)
      BY <1>1, <3>1, TopOk, Pop
    <3> QED
      BY <2>2, <3>2
  <2> QED
    BY <2>1, <2>2
<1>11. \A g \in Rest :
         \/ g.fn \in {"assign_loop", "dl_unassign_requests", "peer_free"}
         \/ g.fn = "unfull_loop" /\ g.pcs = {pc}
  BY <1>1, <1>3, TopOk DEF Below
<1> SUFFICES ASSUME NEW q \in peers', peer_leech_ok(q)'
             PROVE  \/ Pending(LoopFns, q)'
                    \/ NextCall("dl_on_piece_full")'
                       /\ Wanted(q)' = Head(agenda').pcs
                    \/ /\ NextCall("unfull_loop")'
                       /\ Pending({"unfull_loop", "dl_piece_assign_requests"}, q)'
                       /\ Wanted(q)' = Head(agenda').pcs
  BY <1>1, <1>3 DEF Served, LoopFns
<1>12. q \in peers /\ q \in Peers /\ q \in iwant' /\ q \notin pchoke
       /\ ~(Cardinality(reqs'[q]) >= MaxPiped)
  BY <1>1, <1>4, LeechThen DEF HInv
<1>13. peer_leech_ok(q)
  <2>1. CASE q # p
    BY <1>1, <1>8, <1>12, <2>1, LeechIs DEF HInv, peer_laden
  <2>2. CASE q = p
    <3>1. ~peer_laden(p)
      BY <1>1, TopOk, <1>3 DEF CallOk
    <3> QED
      BY <1>1, <1>12, <2>2, <3>1, LeechIs DEF HInv
  <2> QED
    BY <2>1, <2>2
<1>14. CASE Pending(LoopFns, q)
  <2>1. \A f \in Frames : f.fn \in LoopFns => f \in Frames'
    BY <1>1, <1>10, RestFrames DEF LoopFns
  <2> QED
    BY <1>14, <2>1 DEF Pending
<1>15. CASE ~Pending(LoopFns, q)
  <2>1. Pending({"unfull_loop", "dl_piece_assign_requests"}, q)
        /\ Wanted(q) = {pc}
    <3>1. ~NextCall("dl_on_piece_full")
      BY <1>1 DEF NextCall
    <3> QED
      BY <1>3, <1>12, <1>13, <1>15, <3>1 DEF Served, LoopFns
  <2>2. Wanted(q) = {y \in ann[q] \ got : ~piece_full(y)}
    BY <1>1, <1>3, <1>12, NoDues DEF HInv, DueFns
  <2>3. Due("dl_on_piece_full")' \subseteq {pc}
    <3>1. s # free => ~NextCall("dl_on_piece_full")'
      BY <1>10, <1>11 DEF NextCall
    <3> QED
      BY <1>10, <3>1 DEF Due
  <2>4. \A y \in Wanted(q)' : y \in ann[q] \ got /\ (y = pc \/ ~piece_full(y)')
    BY <1>1, <1>3, <2>3 DEF Wanted
  <2>5. ann[q] \in SUBSET Pieces
    BY <1>12 DEF IInv, TypeOK
  <2>6. Wanted(q)' = {pc}
    <3> HIDE DEF Wanted
    <3>1. \A y \in Wanted(q)' : y = pc
      BY <1>7, <2>1, <2>2, <2>4, <2>5
    <3> QED
      BY <1>12, <3>1, OnlyWanted
  <2>7. CASE s = free
    BY <1>10, <2>6, <2>7
  <2>8. CASE s # free
    <3>1. q # p
      BY <1>9, <1>12, <2>8
    <3>2. PICK f \in Frames :
            /\ f.fn \in {"unfull_loop", "dl_piece_assign_requests"}
            /\ q \in f.ps
      BY <2>1 DEF Pending
    <3>3. f \in Rest
      BY <1>1, <1>3, <3>1, <3>2, TopOk
    <3>4. f.fn = "unfull_loop" /\ f.pcs = {pc} /\ f \in Frames'
      BY <1>10, <1>11, <3>2, <3>3
    <3>5. agenda' # <<>>
      BY <3>4, OrderedNone DEF Frames, Elems
    <3>6. Head(agenda') = f
      <4>1. Head(agenda') = f \/ Below(Head(agenda'), f)
        BY <3>4, <3>5, TopThen
      <4>2. Head(agenda') \in Rest
        BY <1>10, <2>8, <3>5
      <4> QED
        BY <1>11, <3>4, <4>1, <4>2 DEF Below
    <3> QED
      BY <2>6, <3>2, <3>4, <3>5, <3>6 DEF NextCall, Pending
  <2> QED
    BY <2>7, <2>8
<1> QED
  BY <1>14, <1>15

\* dl_assign_requests_eg: the peer visited takes every block it can serve, or
\* is laden; the others are still to be visited or have nothing to be asked.
LEMMA AssignEgServed ==
    ASSUME IInv, HInv, IInv', HInv', Served, dl_assign_requests_eg
    PROVE  Served'
<1>1. /\ agenda # <<>> /\ Head(agenda).fn = "dl_assign_requests_eg"
      /\ UNCHANGED <<peers, pchoke, ann, endgame, have, got, iwant>>
  BY DEF dl_assign_requests_eg, Running, content, pieces, remote, wants
<1>2. endgame /\ got \union busy = Pieces
  BY <1>1, HeadFrame DEF IInv, HInv, AgendaOk, FrameOk, EgFns, Links
<1>3. \A q \in Peers : AnnDue(q) = {}
  BY <1>1, NothingDue
<1>4. \A q \in Peers : field[q] = ann[q] /\ bad[q] = {}
                       /\ ann[q] \in SUBSET Pieces
  BY <1>1, Announced DEF HInv, Clean, IInv, TypeOK
<1>5. peers \in SUBSET Peers
  BY DEF IInv, TypeOK
<1> DEFINE open(p) == {x \in busy \X Blocks :
                          /\ peer_requestable(p, x[1])
                          /\ x[2] \notin have[x[1]]
                          /\ x \notin reqs[p]}
<1>6. PICK ps \in SUBSET Peers :
        /\ ps = {p \in Head(agenda).ps : peer_leech_ok(p)}
        /\ \/ ps = {} /\ Then(<<>>) /\ UNCHANGED reqs
           \/ \E p \in ps : \E s \in SUBSET open(p) :
                /\ Takes(p, s, open(p))
                /\ reqs' = [reqs EXCEPT ![p] = @ \union s]
                /\ Then(IF ps = {p} THEN <<>>
                        ELSE Call("dl_assign_requests_eg", ps \ {p}, {}))
  <2> DEFINE ps == {p \in Head(agenda).ps : peer_leech_ok(p)}
  <2>1. ps \in SUBSET Peers
    BY <1>1, TopOk
  <2>2. \/ ps = {} /\ Then(<<>>) /\ UNCHANGED reqs
        \/ \E p \in ps : \E s \in SUBSET open(p) :
             /\ Takes(p, s, open(p))
             /\ reqs' = [reqs EXCEPT ![p] = @ \union s]
             /\ Then(IF ps = {p} THEN <<>>
                     ELSE Call("dl_assign_requests_eg", ps \ {p}, {}))
    BY DEF dl_assign_requests_eg
  <2> QED
    BY <2>1, <2>2
<1> DEFINE Asked(q) == \A x \in ann[q] \ got :
                         \A b \in Blocks \ have[x] : <<x, b>> \in reqs[q]
<1>7. \A q \in peers : peer_leech_ok(q) => q \in ps \/ Asked(q)
  <2>1. ~NextCall("dl_on_download")
    BY <1>1 DEF NextCall
  <2> QED
    BY <1>2, <1>3, <1>5, <1>6, <2>1 DEF Served
<1> SUFFICES ASSUME NEW q \in peers', peer_leech_ok(q)'
             PROVE  \/ NextCall("dl_assign_requests_eg")'
                       /\ q \in Head(agenda').ps
                    \/ \A x \in ann[q] \ got :
                         \A b \in Blocks \ have[x] : <<x, b>> \in reqs'[q]
  BY <1>1, <1>2 DEF Served
<1>8. /\ q \in peers /\ q \in Peers /\ q \in iwant /\ q \notin pchoke
      /\ ~(Cardinality(reqs'[q]) >= MaxPiped)
  BY <1>1, <1>5, LeechThen DEF HInv
<1>9. reqs'[q] = reqs[q] => peer_leech_ok(q)
  BY <1>8, LeechIs DEF HInv, peer_laden
<1>10. CASE ps = {} /\ UNCHANGED reqs
  BY <1>7, <1>8, <1>9, <1>10
<1>11. ASSUME NEW p \in ps, NEW s \in SUBSET open(p), Takes(p, s, open(p)),
              reqs' = [reqs EXCEPT ![p] = @ \union s],
              Then(IF ps = {p} THEN <<>>
                   ELSE Call("dl_assign_requests_eg", ps \ {p}, {}))
       PROVE  \/ NextCall("dl_assign_requests_eg")' /\ q \in Head(agenda').ps
              \/ \A x \in ann[q] \ got :
                   \A b \in Blocks \ have[x] : <<x, b>> \in reqs'[q]
  <2>1. \A z \in Peers : reqs'[z] = IF z = p THEN reqs[p] \union s ELSE reqs[z]
    BY <1>11 DEF IInv, TypeOK
  <2>2. CASE q = p
    <3>1. CASE s = open(p)
      <4>1. ASSUME NEW x \in ann[p] \ got, NEW b \in Blocks \ have[x]
            PROVE  <<x, b>> \in reqs[p] \union s
        <5>1. x \in busy /\ peer_requestable(p, x)
          BY <1>2, <1>4 DEF peer_requestable
        <5>2. <<x, b>> \in busy \X Blocks /\ <<x, b>>[1] = x /\ <<x, b>>[2] = b
          BY <5>1
        <5> QED
          BY <3>1, <5>1, <5>2
      <4>2. reqs'[q] = reqs[p] \union s
        BY <1>8, <2>1, <2>2
      <4> QED
        BY <2>2, <4>1, <4>2
    <3>2. CASE s # open(p)
      <4>1. Cardinality(reqs[p]) + Cardinality(s) = MaxPiped
        BY <1>11, <3>2 DEF Takes
      <4>2. s \in SUBSET (busy \X Blocks) /\ s \intersect reqs[p] = {}
        OBVIOUS
      <4>3. s \in SUBSET (Pieces \X Blocks)
        BY <1>2, <4>2
      <4> HIDE DEF open
      <4>4. Cardinality(reqs[p] \union s) >= MaxPiped
        BY <4>1, <4>2, <4>3, PipeFull
      <4> QED
        BY <1>8, <2>1, <2>2, <4>4
    <3> QED
      BY <3>1, <3>2
  <2> HIDE DEF open
  <2>3. CASE q # p
    <3>1. reqs'[q] = reqs[q] /\ peer_leech_ok(q)
      BY <1>8, <1>9, <2>1, <2>3
    <3>2. CASE Asked(q)
      BY <3>1, <3>2
    <3>3. CASE q \in ps
      <4>1. Then(Call("dl_assign_requests_eg", ps \ {p}, {}))
        BY <1>11, <2>3, <3>3
      <4> DEFINE f == [fn |-> "dl_assign_requests_eg", ps |-> ps \ {p},
                       pcs |-> {}]
      <4>2. f \in Frame /\ f.fn = "dl_assign_requests_eg" /\ f.ps = ps \ {p}
        BY DEF Frame, Fns
      <4>3. Then(<<f>>)
        BY <4>1 DEF Call
      <4> HIDE DEF f
      <4>4. agenda' # <<>> /\ Head(agenda') = f
        BY <1>1, <4>2, <4>3, ThenHead DEF IInv, TypeOK
      <4> QED
        BY <2>3, <3>3, <4>2, <4>4 DEF NextCall
    <3> QED
      BY <1>7, <1>8, <3>1, <3>2, <3>3
  <2> QED
    BY <2>2, <2>3
<1> HIDE DEF open
<1> QED
  BY <1>6, <1>10, <1>11

------------------------------------------------------------------------------
(* The invariant holds *)

\* No peer is attached at the start.
LEMMA SInit == ASSUME Init PROVE Served
BY DEF Init, Served

\* A step that changes nothing keeps it.
LEMMA SStutter == ASSUME Served, UNCHANGED vars PROVE Served'
<1> USE DEF vars, content, pieces, logs, wants, trust, remote
<1>1. Frames' = Frames
  BY DEF Frames, Elems
<1>2. \A q : peer_leech_ok(q)' <=> peer_leech_ok(q)
  BY DEF peer_leech_ok, LeechOk, peer_laden
<1>3. \A fn : NextCall(fn)' <=> NextCall(fn)
  BY DEF NextCall
<1>4. \A q : AnnDue(q)' = AnnDue(q) /\ Wanted(q)' = Wanted(q)
  BY DEF AnnDue, NextCall, Wanted, Due, piece_full
<1>5. \A fns, q : Pending(fns, q)' <=> Pending(fns, q)
  BY <1>1 DEF Pending
<1> QED
  BY <1>2, <1>3, <1>4, <1>5 DEF Served

\* Every step keeps it.
LEMMA SNext == ASSUME IInv, HInv, IInv', HInv', Served, Next PROVE Served'
<1>1. CASE Messages
  <2>1. PICK p \in Peers :
        \/ peer_on_shake(p) \/ net_refuse(p) \/ peer_kill(p)
        \/ peer_on_choke(p) \/ peer_on_unchoke(p)
        \/ \E pc \in Pieces : peer_on_have(p, pc)
        \/ \E f \in SUBSET Pieces : peer_on_bitfield(p, f)
        \/ \E x \in reqs[p], isbad \in {FALSE, BadData} :
                peer_on_piece(p, x[1], x[2], isbad)
    BY <1>1 DEF Messages
  <2>2. CASE net_refuse(p)
    BY <2>2, SStutter DEF net_refuse
  <2> QED
    BY <2>1, <2>2, ShakeServed, KillServed, ChokeServed, UnchokeServed,
       HaveServed, BitfieldServed, PieceServed
<1>2. CASE Calls
  <2>1. ~dl_on_bad_piece
    BY GoodNews DEF HInv, dl_on_bad_piece
  <2> QED
    BY <1>2, <2>1, BitfieldLoopServed, AnnounceServed, DownloadServed,
       AssignServed, AssignLoopServed, PieceAssignServed, PieceFullServed,
       EnterEndgameServed, AssignEgServed, UnassignServed, UnassignEgServed,
       PieceUnfullServed, UnfullLoopServed, OkServed, LogGoodServed,
       JudgeServed, PieceFreeServed, PeerFreeServed
    DEF Calls
<1> QED
  BY <1>1, <1>2 DEF Next

\* It holds throughout.
LEMMA SInvariance == ASSUME Honest PROVE Spec => []Served
<1>1. Init => Served
  BY SInit
<1>2. /\ IInv /\ IInv' /\ HInv /\ HInv' /\ Served /\ [Next]_vars
      => Served'
  BY SNext, SStutter
<1> QED
  BY <1>1, <1>2, Invariance, HInvariance, PTL DEF Spec

\* Between handlers no peer that could be asked for a block is left unasked.
THEOREM NoIdleCorrect == ASSUME Honest PROVE Spec => []NoIdlePeer
<1>1. IInv /\ HInv /\ Served => NoIdlePeer
  <2> SUFFICES ASSUME IInv, HInv, Served, Idle, NEW p \in peers,
                      peer_leech_ok(p), NEW pc \in field[p] \ bad[p],
                      pc \notin got
               PROVE  IF endgame
                      THEN pc \in busy
                           /\ \A b \in Blocks \ have[pc] : <<pc, b>> \in reqs[p]
                      ELSE pc \in busy /\ piece_full(pc)
    BY DEF NoIdlePeer
  <2>1. agenda = <<>> /\ Frames = {} /\ field[p] = ann[p] /\ pc \in Pieces
    BY Resting DEF IInv, TypeOK
  <2>2. \A fn : ~NextCall(fn)
    BY <2>1 DEF NextCall
  <2>3. CASE endgame
    <3>1. AnnDue(p) = {} /\ pc \in busy
      BY <2>1, <2>2, <2>3 DEF AnnDue, HInv, Links
    <3>2. \A x \in ann[p] \ (got \union AnnDue(p)) :
             \A b \in Blocks \ have[x] : <<x, b>> \in reqs[p]
      BY <2>2, <2>3 DEF Served
    <3> QED
      BY <2>1, <2>3, <3>1, <3>2
  <2>4. CASE ~endgame
    BY <2>1, <2>4, NobodyFree
  <2> QED
    BY <2>3, <2>4
<1> QED
  BY <1>1, Invariance, HInvariance, SInvariance, PTL

=============================================================================
