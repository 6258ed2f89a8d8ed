--------------------------- MODULE AnnounceProofs ---------------------------
(***************************************************************************)
(* Proofs about an announcement by HTTP.  Resolver: no wakeup is lost,     *)
(* every context is held in one place until it is freed once, and the      *)
(* steps of the two threads are steps of Connect, for any number of        *)
(* requests and addresses.  HttpClient: whatever the answer is and however *)
(* it is cut, the request is freed once and the tier is told once.         *)
(***************************************************************************)
EXTENDS Announce, SeqFacts

\* The queues and the thread hold different contexts: what the sum of lengths
\* in HeldOnce says, in a form that a step preserves.
Apart ==
    /\ Distinct(aiq) /\ Distinct(cbs) /\ Distinct(tmpq)
    /\ Range(aiq) \intersect Range(cbs) = {}
    /\ Range(aiq) \intersect Range(tmpq) = {}
    /\ Range(cbs) \intersect Range(tmpq) = {}
    /\ tctx \notin Range(aiq) \union Range(cbs) \union Range(tmpq)

\* Where the threads are tells what they hold.
Places ==
    /\ tctx # None <=> tpc \in {"resolve", "post"}
    /\ tmpq # <<>> => mpc = "run"
    /\ mreq # None => Running

\* The nameconn waits for exactly the context that will call back.
Paired == \A r \in Reqs :
    /\ nc[r].st = "ai" <=> ctx[r].live /\ ~ctx[r].cancel
    /\ nc[r].st = "none" => ~ctx[r].live /\ ~ctx[r].cancel

LiveHeld == {r \in Reqs : ctx[r].live} = Queued

\* The inductive invariant.
IInv == TypeOK /\ ~fault /\ LiveHeld /\ Apart /\ Places /\ Paired /\ NoLostWakeup

------------------------------------------------------------------------------
\* The queues hold what HeldOnce says they hold.
LEMMA HeldOnceFollows == IInv => HeldOnce
<1> SUFFICES ASSUME IInv PROVE HeldOnce
  OBVIOUS
<1>1. TypeOK /\ ~fault /\ LiveHeld /\ Apart
  BY DEF IInv
<1> DEFINE A == Range(aiq)
           B == Range(cbs)
           C == Range(tmpq)
           D == {tctx} \ {None}
<1>2. /\ IsFiniteSet(A) /\ Cardinality(A) = Len(aiq)
      /\ IsFiniteSet(B) /\ Cardinality(B) = Len(cbs)
      /\ IsFiniteSet(C) /\ Cardinality(C) = Len(tmpq)
  BY <1>1, LenIsCardinality DEF TypeOK, Apart
<1>3. /\ IsFiniteSet(D)
      /\ Cardinality(D) = IF tctx = None THEN 0 ELSE 1
  <2>1. CASE tctx = None
    <3>1. D = {} BY <2>1
    <3> QED BY <3>1, <2>1, FS_EmptySet
  <2>2. CASE tctx # None
    <3>1. D = {tctx} BY <2>2
    <3> QED BY <3>1, <2>2, FS_Singleton
  <2> QED BY <2>1, <2>2
<1>4. /\ A \intersect B = {} /\ (A \union B) \intersect C = {}
      /\ (A \union B \union C) \intersect D = {}
  BY <1>1 DEF Apart
<1> HIDE DEF A, B, C, D
<1>5. /\ IsFiniteSet(A \union B)
      /\ Cardinality(A \union B) = Cardinality(A) + Cardinality(B)
  BY <1>2, <1>4, DisjointUnion, Zenon
<1>6. /\ IsFiniteSet(A \union B \union C)
      /\ Cardinality(A \union B \union C) = Cardinality(A \union B) + Cardinality(C)
  BY <1>2, <1>4, <1>5, DisjointUnion, Zenon
<1>7. Cardinality(A \union B \union C \union D)
        = Cardinality(A \union B \union C) + Cardinality(D)
  BY <1>3, <1>4, <1>6, DisjointUnion, Zenon
<1>8. Queued = A \union B \union C \union D
  BY DEF Queued, A, B, C, D
<1>9. Len(aiq) + Len(cbs) + Len(tmpq) + (IF tctx = None THEN 0 ELSE 1)
        = Cardinality(Queued)
  BY <1>2, <1>3, <1>5, <1>6, <1>7, <1>8
<1> QED BY <1>1, <1>9 DEF HeldOnce, LiveHeld

------------------------------------------------------------------------------
(* The steps of the resolver thread *)

\* addrinfo_td takes the next request, or waits.
LEMMA StepCheck == IInv /\ td_check => IInv'
<1> SUFFICES ASSUME IInv, td_check PROVE IInv'
  OBVIOUS
<1>1. CASE aiq = <<>>
  BY <1>1 DEF IInv, TypeOK, LiveHeld, Queued, Apart, Places, Running, Paired,
              NoLostWakeup, td_check, addrinfo_td_next
<1>2. CASE aiq # <<>>
  <2> DEFINE r == Head(aiq)
             t == Tail(aiq)
  <2>1. /\ r \in Reqs /\ t \in Seq(Reqs) /\ Range(aiq) = Range(t) \union {r}
        /\ r \notin Range(t) /\ Distinct(t)
    BY <1>2, TailQueue DEF IInv, TypeOK, Apart
  <2>2. /\ tpc = "check" /\ tpc' = "resolve" /\ tctx' = r /\ aiq' = t
        /\ UNCHANGED <<ctx, nc, cbs, pipe, mpc, mreq, tmpq, fault>>
    BY <1>2 DEF td_check, addrinfo_td_next
  <2>3. r # None /\ tctx = None
    BY <2>1, <2>2, ResolverAssumption DEF IInv, Places
  <2> HIDE DEF r, t
  <2>4. TypeOK'
    BY <2>1, <2>2 DEF IInv, TypeOK
  <2>5. Apart' /\ LiveHeld'
    BY <2>1, <2>2, <2>3 DEF IInv, Apart, LiveHeld, Queued
  <2>6. Places' /\ Paired' /\ NoLostWakeup' /\ ~fault'
    BY <2>2, <2>3 DEF IInv, Places, Running, Paired, NoLostWakeup
  <2> QED BY <2>4, <2>5, <2>6 DEF IInv
<1> QED BY <1>1, <1>2

\* A wait that ends by itself.
LEMMA StepSpurious == IInv /\ td_spurious => IInv'
BY DEF IInv, TypeOK, LiveHeld, Queued, Apart, Places, Running, Paired,
       NoLostWakeup, td_spurious

\* getaddrinfo returns.
LEMMA StepResolve == IInv /\ td_resolve => IInv'
<1> SUFFICES ASSUME IInv, td_resolve PROVE IInv'
  OBVIOUS
<1>1. PICK n \in 0..MaxAddrs : ctx' = [ctx EXCEPT ![tctx].addrs = n]
  BY DEF td_resolve
<1>2. tctx \in Reqs
  BY DEF IInv, Places, TypeOK, td_resolve
<1>3. /\ ctx' \in [Reqs -> Ctx]
      /\ \A r \in Reqs : ctx'[r].live = ctx[r].live /\ ctx'[r].cancel = ctx[r].cancel
  BY <1>1, <1>2 DEF IInv, TypeOK, Ctx
<1> QED
  BY <1>3 DEF IInv, TypeOK, LiveHeld, Queued, Apart, Places, Running, Paired,
              NoLostWakeup, td_resolve

\* The result is put on the queue of the main thread.
LEMMA StepPost == IInv /\ td_post => IInv'
<1> SUFFICES ASSUME IInv, td_post PROVE IInv'
  OBVIOUS
<1> DEFINE t == Append(cbs, tctx)
<1>1. /\ tpc = "post" /\ tpc' = "write" /\ tctx' = None /\ cbs' = t
      /\ UNCHANGED <<ctx, nc, aiq, pipe, mpc, mreq, tmpq, fault>>
  BY DEF td_post
<1>2. tctx \in Reqs
  BY <1>1 DEF IInv, Places, TypeOK
<1>3. /\ t \in Seq(Reqs) /\ Range(t) = Range(cbs) \union {tctx} /\ Distinct(t)
  BY <1>2, AppendQueue DEF IInv, TypeOK, Apart
<1>4. None \notin Range(aiq) \union Range(cbs) \union Range(tmpq)
  BY ResolverAssumption, RangeSeq DEF IInv, TypeOK
<1> HIDE DEF t
<1>5. TypeOK'
  BY <1>1, <1>3 DEF IInv, TypeOK
<1>6. Apart' /\ LiveHeld'
  BY <1>1, <1>2, <1>3, <1>4, ResolverAssumption DEF IInv, Apart, LiveHeld, Queued
<1>7. Places' /\ Paired' /\ NoLostWakeup' /\ ~fault'
  BY <1>1 DEF IInv, Places, Running, Paired, NoLostWakeup
<1> QED BY <1>5, <1>6, <1>7 DEF IInv

\* The byte that follows it.
LEMMA StepPostEnd == IInv /\ td_post_end => IInv'
BY DEF IInv, TypeOK, LiveHeld, Queued, Apart, Places, Running, Paired,
       NoLostWakeup, td_post_end, td_write

------------------------------------------------------------------------------
(* The steps of the main thread *)

\* A new request.
LEMMA StepConnect ==
    ASSUME NEW r \in Reqs, IInv, btpd_name_connect(r) PROVE IInv'
<1> DEFINE t == Append(aiq, r)
<1>1. /\ mreq' = r /\ mreq = None /\ Running /\ nc[r].st = "none" /\ aiq' = t
      /\ UNCHANGED <<tpc, tctx, cbs, pipe, mpc, tmpq, fault>>
      /\ nc' = [nc EXCEPT ![r].st = "ai"]
      /\ ctx' = [ctx EXCEPT ![r].live = TRUE]
  BY DEF btpd_name_connect
<1>2. ~ctx[r].live /\ ~ctx[r].cancel
  BY <1>1 DEF IInv, Paired
<1>3. r \notin Queued
  BY <1>2 DEF IInv, LiveHeld
<1>4. t \in Seq(Reqs) /\ t # <<>> /\ Range(t) = Range(aiq) \union {r} /\ Distinct(t)
  BY <1>3, AppendQueue DEF IInv, TypeOK, Apart, Queued
<1>5. r # None
  BY ResolverAssumption
<1> HIDE DEF t
<1>6. TypeOK'
  BY <1>1, <1>4 DEF IInv, TypeOK, Ctx, Nc
<1>7. Apart'
  BY <1>1, <1>3, <1>4, <1>5 DEF IInv, Apart, Queued
<1>8. \A q \in Reqs : /\ ctx'[q].live <=> (q = r \/ ctx[q].live)
                      /\ ctx'[q].cancel <=> ctx[q].cancel
                      /\ nc'[q].st = IF q = r THEN "ai" ELSE nc[q].st
  BY <1>1 DEF IInv, TypeOK, Ctx, Nc
<1>9. LiveHeld'
  <2>1. Queued' = Queued \union {r}
    BY <1>1, <1>4 DEF Queued
  <2>2. \A q \in Queued : q \in Reqs /\ ctx[q].live
    BY DEF IInv, LiveHeld
  <2> QED BY <1>8, <2>1, <2>2 DEF IInv, LiveHeld
<1>11. Paired'
  BY <1>2, <1>8 DEF IInv, Paired
<1>10. Places' /\ NoLostWakeup' /\ ~fault'
  BY <1>1, <1>4, <1>5 DEF IInv, Places, Running, NoLostWakeup
<1> QED BY <1>6, <1>7, <1>9, <1>10, <1>11 DEF IInv

\* The signal that follows it.
LEMMA StepSignal == IInv /\ addrinfo_signal => IInv'
BY DEF IInv, TypeOK, LiveHeld, Queued, Apart, Places, Running, Paired,
       NoLostWakeup, addrinfo_signal, signalled

\* td_cb reads the pipe.
LEMMA StepRead == IInv /\ td_cb_read => IInv'
BY DEF IInv, TypeOK, LiveHeld, Queued, Apart, Places, Running, Paired,
       NoLostWakeup, td_cb_read

\* td_cb takes over the queue.
LEMMA StepMove == IInv /\ td_cb_move => IInv'
<1> SUFFICES ASSUME IInv, td_cb_move PROVE IInv'
  OBVIOUS
<1>1. tmpq = <<>> /\ Range(tmpq) = {}
  BY DEF IInv, Places, td_cb_move, Range
<1>2. Distinct(<<>>) /\ <<>> \in Seq(Reqs)
  BY DEF Distinct
<1> QED
  BY <1>1, <1>2 DEF IInv, TypeOK, LiveHeld, Queued, Apart, Places, Running, Paired,
                    NoLostWakeup, td_cb_move

\* td_cb is done.
LEMMA StepCbEnd == IInv /\ td_cb_end => IInv'
BY DEF IInv, TypeOK, LiveHeld, Queued, Apart, Places, Running, Paired,
       NoLostWakeup, td_cb_end

\* What nc_connect and nc_ai_cb leave: a nameconn that does not wait for the
\* thread, with fewer addresses.
LEMMA ConnectResults ==
    ASSUME NEW n \in 0..MaxAddrs
    PROVE  \A m \in nc_connect(n) \union nc_ai_cb(n) :
              m \in Nc /\ m.st \in {"failed", "done", "conn"}
<1>1. n \in Nat /\ MaxAddrs \in Nat
  BY ResolverAssumption
<1>2. [st |-> "failed", left |-> 0, sd |-> FALSE] \in Nc
  BY <1>1 DEF Nc
<1>3. [st |-> "done", left |-> 0, sd |-> TRUE] \in Nc
  BY <1>1 DEF Nc
<1>4. ASSUME NEW i \in 1..n
      PROVE  [st |-> "conn", left |-> i - 1, sd |-> TRUE] \in Nc
  <2>1. i - 1 \in 0..MaxAddrs
    BY <1>1
  <2> QED BY <2>1 DEF Nc
<1>5. ASSUME NEW m \in nc_connect(n)
      PROVE  m \in Nc /\ m.st \in {"failed", "done", "conn"}
  <2>1. \/ m = [st |-> "failed", left |-> 0, sd |-> FALSE]
        \/ m = [st |-> "done", left |-> 0, sd |-> TRUE]
        \/ \E i \in 1..n : m = [st |-> "conn", left |-> i - 1, sd |-> TRUE]
    BY <1>5 DEF nc_connect
  <2>2. m \in Nc
    BY <1>2, <1>3, <1>4, <2>1
  <2>3. m.st \in {"failed", "done", "conn"}
    BY <2>1
  <2> QED BY <2>2, <2>3
<1>6. ASSUME NEW m \in nc_ai_cb(n)
      PROVE  m \in Nc /\ m.st \in {"failed", "done", "conn"}
  <2>1. m = [st |-> "failed", left |-> 0, sd |-> FALSE] \/ m \in nc_connect(n)
    BY <1>6 DEF nc_ai_cb
  <2>2. CASE m = [st |-> "failed", left |-> 0, sd |-> FALSE]
    <3>1. m.st = "failed"
      BY <2>2
    <3> QED BY <1>2, <2>2, <3>1
  <2> QED BY <1>5, <2>1, <2>2
<1> QED BY <1>5, <1>6

\* A context that is freed.
LEMMA FreedType ==
    ASSUME NEW c \in Ctx
    PROVE  freed(c) \in Ctx /\ freed(c).live = FALSE
<1> DEFINE d == [c EXCEPT !.live = FALSE]
<1>1. d \in Ctx /\ d.live = FALSE
  BY DEF Ctx
<1>2. freed(c) = [d EXCEPT !.addrs = 0]
  BY DEF freed
<1>3. 0 \in 0..MaxAddrs
  BY ResolverAssumption
<1> HIDE DEF d
<1> QED BY <1>1, <1>2, <1>3 DEF Ctx

\* A result is handed over and its context freed.
LEMMA StepTdCb == IInv /\ addrinfo_td_cb => IInv'
<1> SUFFICES ASSUME IInv, addrinfo_td_cb PROVE IInv'
  OBVIOUS
<1> DEFINE r == Head(tmpq)
           t == Tail(tmpq)
<1>1. /\ mpc = "run" /\ mreq = None /\ tmpq # <<>> /\ tmpq' = t
      /\ UNCHANGED <<aiq, tpc, tctx, cbs, pipe, mpc, mreq>>
      /\ ctx' = [ctx EXCEPT ![r] = freed(@)]
  BY DEF addrinfo_td_cb
<1>2. /\ r \in Reqs /\ t \in Seq(Reqs) /\ Range(tmpq) = Range(t) \union {r}
      /\ r \notin Range(t) /\ Distinct(t)
  BY <1>1, TailQueue DEF IInv, TypeOK, Apart
<1>3. r \in Queued /\ ctx[r].live
  BY <1>2 DEF IInv, LiveHeld, Queued
<1>4. /\ nc' \in [Reqs -> Nc] /\ fault' = FALSE
      /\ \A q \in Reqs : q # r => nc'[q] = nc[q]
      /\ nc'[r].st \notin {"ai", "none"}
  <2>1. CASE calls_back(ctx[r])
    <3>1. nc[r].st = "ai"
      BY <1>2, <1>3, <2>1 DEF IInv, Paired, calls_back
    <3>2. ctx[r].addrs \in 0..MaxAddrs
      BY <1>2 DEF IInv, TypeOK, Ctx
    <3>3. PICK m \in nc_ai_cb(ctx[r].addrs) : nc' = [nc EXCEPT ![r] = m]
      BY <2>1 DEF addrinfo_td_cb
    <3>4. m \in Nc /\ m.st \in {"failed", "done", "conn"}
      BY <3>2, <3>3, ConnectResults
    <3>5. fault' = (~ctx[r].live \/ nc[r].st # "ai")
      BY <2>1 DEF addrinfo_td_cb
    <3> HIDE DEF r
    <3> QED BY <1>2, <1>3, <3>1, <3>3, <3>4, <3>5 DEF IInv, TypeOK
  <2>2. CASE ~calls_back(ctx[r])
    <3>1. nc[r].st \notin {"ai", "none"}
      BY <1>2, <1>3, <2>2 DEF IInv, Paired, calls_back
    <3>2. UNCHANGED nc /\ fault' = ~ctx[r].live
      BY <2>2 DEF addrinfo_td_cb
    <3> QED BY <1>3, <3>1, <3>2 DEF IInv, TypeOK
  <2> QED BY <2>1, <2>2
<1> HIDE DEF r, t
<1>5. /\ ctx' \in [Reqs -> Ctx]
      /\ \A q \in Reqs : ctx'[q].live <=> (q # r /\ ctx[q].live)
      /\ \A q \in Reqs : q # r => ctx'[q] = ctx[q]
  <2>1. ctx \in [Reqs -> Ctx]
    BY DEF IInv, TypeOK
  <2>2. freed(ctx[r]) \in Ctx /\ freed(ctx[r]).live = FALSE
    BY <1>2, <2>1, FreedType
  <2>3. ctx' = [ctx EXCEPT ![r] = freed(ctx[r])]
    BY <1>1
  <2> QED BY <1>2, <2>1, <2>2, <2>3
<1>6. TypeOK'
  BY <1>1, <1>2, <1>4, <1>5 DEF IInv, TypeOK
<1>7. Apart'
  BY <1>1, <1>2 DEF IInv, Apart
<1>8. LiveHeld'
  <2>1. Queued' = Queued \ {r}
    BY <1>1, <1>2 DEF IInv, Apart, Queued
  <2>2. \A q : q \in Queued <=> q \in Reqs /\ ctx[q].live
    BY DEF IInv, LiveHeld
  <2> QED BY <1>5, <2>1, <2>2 DEF LiveHeld
<1>9. Paired'
  <2> SUFFICES ASSUME NEW q \in Reqs
               PROVE  /\ nc'[q].st = "ai" <=> ctx'[q].live /\ ~ctx'[q].cancel
                      /\ nc'[q].st = "none" => ~ctx'[q].live /\ ~ctx'[q].cancel
    BY DEF Paired
  <2>1. CASE q = r
    BY <1>4, <1>5, <2>1
  <2>2. CASE q # r
    BY <1>4, <1>5, <2>2 DEF IInv, Paired
  <2> QED BY <2>1, <2>2
<1>10. Places' /\ NoLostWakeup'
  BY <1>1 DEF IInv, Places, Running, NoLostWakeup
<1> QED BY <1>4, <1>6, <1>7, <1>8, <1>9, <1>10 DEF IInv

\* An attempt to connect ends.
LEMMA StepWriteCb ==
    ASSUME NEW r \in Reqs, IInv, nc_write_cb(r) PROVE IInv'
<1>1. /\ nc' \in [Reqs -> Nc] /\ nc'[r].st \notin {"ai", "none"}
      /\ \A q \in Reqs : q # r => nc'[q] = nc[q]
  <2>1. CASE nc' = [nc EXCEPT ![r] = [st |-> "done", left |-> 0, sd |-> TRUE]]
    <3>1. [st |-> "done", left |-> 0, sd |-> TRUE] \in Nc
      BY ResolverAssumption DEF Nc
    <3> QED BY <2>1, <3>1 DEF IInv, TypeOK
  <2>2. CASE \E m \in nc_connect(nc[r].left) : nc' = [nc EXCEPT ![r] = m]
    <3>1. nc[r].left \in 0..MaxAddrs
      BY DEF IInv, TypeOK, Nc
    <3>2. PICK m \in nc_connect(nc[r].left) : nc' = [nc EXCEPT ![r] = m]
      BY <2>2
    <3>3. m \in Nc /\ m.st \in {"failed", "done", "conn"}
      BY <3>1, <3>2, ConnectResults
    <3> QED BY <3>2, <3>3 DEF IInv, TypeOK
  <2> QED BY <2>1, <2>2 DEF nc_write_cb
<1>2. /\ nc[r].st = "conn"
      /\ UNCHANGED <<ctx, aiq, tpc, tctx, cbs, pipe, mpc, mreq, tmpq, fault>>
  BY DEF nc_write_cb
<1>3. Paired'
  <2> SUFFICES ASSUME NEW q \in Reqs
               PROVE  /\ nc'[q].st = "ai" <=> ctx[q].live /\ ~ctx[q].cancel
                      /\ nc'[q].st = "none" => ~ctx[q].live /\ ~ctx[q].cancel
    BY <1>2 DEF Paired
  <2> QED BY <1>1, <1>2 DEF IInv, Paired
<1> QED BY <1>1, <1>2, <1>3 DEF IInv, TypeOK, LiveHeld, Queued, Apart, Places, Running, NoLostWakeup

\* The caller withdraws a request that is not answered yet.
LEMMA StepCancel ==
    ASSUME NEW r \in Reqs, IInv, btpd_name_connect_cancel(r) PROVE IInv'
<1>1. /\ UNCHANGED <<aiq, tpc, tctx, cbs, pipe, mpc, mreq, tmpq>>
      /\ nc[r].st \in {"ai", "conn"}
      /\ nc' = [nc EXCEPT ![r] = [st |-> "cancelled", left |-> 0, sd |-> FALSE]]
  BY DEF btpd_name_connect_cancel
<1>2. /\ nc' \in [Reqs -> Nc] /\ nc'[r].st = "cancelled"
      /\ \A q \in Reqs : q # r => nc'[q] = nc[q]
  <2>1. [st |-> "cancelled", left |-> 0, sd |-> FALSE] \in Nc
    BY ResolverAssumption DEF Nc
  <2> QED BY <1>1, <2>1 DEF IInv, TypeOK
<1>3. /\ ctx' \in [Reqs -> Ctx]
      /\ \A q \in Reqs : ctx'[q].live <=> ctx[q].live
      /\ \A q \in Reqs : q # r => ctx'[q] = ctx[q]
      /\ ~(ctx'[r].live /\ ~ctx'[r].cancel)
  <2>1. CASE nc[r].st = "ai"
    <3>1. ctx' = [ctx EXCEPT ![r] = cancelled(@)]
      BY <2>1 DEF btpd_name_connect_cancel
    <3> QED BY <3>1 DEF IInv, TypeOK, Ctx, cancelled
  <2>2. CASE nc[r].st # "ai"
    <3>1. ctx' = ctx
      BY <2>2 DEF btpd_name_connect_cancel
    <3> QED BY <2>2, <3>1 DEF IInv, TypeOK, Paired
  <2> QED BY <2>1, <2>2
<1>4. fault' = FALSE
  BY DEF IInv, Paired, btpd_name_connect_cancel
<1>5. Paired'
  <2> SUFFICES ASSUME NEW q \in Reqs
               PROVE  /\ nc'[q].st = "ai" <=> ctx'[q].live /\ ~ctx'[q].cancel
                      /\ nc'[q].st = "none" => ~ctx'[q].live /\ ~ctx'[q].cancel
    BY DEF Paired
  <2>1. CASE q = r
    BY <1>2, <1>3, <2>1
  <2>2. CASE q # r
    BY <1>2, <1>3, <2>2 DEF IInv, Paired
  <2> QED BY <2>1, <2>2
<1>6. LiveHeld'
  BY <1>1, <1>3 DEF IInv, LiveHeld, Queued
<1> QED BY <1>1, <1>2, <1>3, <1>4, <1>5, <1>6 DEF IInv, TypeOK, Apart, Places, Running, NoLostWakeup

------------------------------------------------------------------------------
\* The invariant holds initially and every step preserves it.
LEMMA Inductive == Spec => []IInv
<1>1. Init => IInv
  <2> SUFFICES ASSUME Init PROVE IInv
    OBVIOUS
  <2>1. /\ aiq = <<>> /\ cbs = <<>> /\ tmpq = <<>> /\ tctx = None /\ mreq = None
        /\ pipe = 0 /\ tpc = "check" /\ mpc = "idle" /\ fault = FALSE
    BY DEF Init
  <2>2. /\ ctx \in [Reqs -> Ctx] /\ nc \in [Reqs -> Nc]
        /\ \A r \in Reqs : ~ctx[r].live /\ ~ctx[r].cancel /\ nc[r].st = "none"
    BY ResolverAssumption DEF Init, Ctx, Nc
  <2>3. Range(<<>>) = {} /\ Distinct(<<>>) /\ <<>> \in Seq(Reqs)
    BY DEF Range, Distinct
  <2> QED
    BY <2>1, <2>2, <2>3 DEF IInv, TypeOK, LiveHeld, Queued, Apart, Places, Paired, NoLostWakeup
<1>2. IInv /\ [Next]_vars => IInv'
  <2> SUFFICES ASSUME IInv, [Next]_vars PROVE IInv'
    OBVIOUS
  <2>1. CASE Thread \/ td_spurious
    BY <2>1, StepCheck, StepSpurious, StepResolve, StepPost, StepPostEnd DEF Thread
  <2>2. CASE Main
    BY <2>2, StepSignal, StepRead, StepMove, StepCbEnd, StepTdCb DEF Main
  <2>3. ASSUME NEW r \in Reqs,
               btpd_name_connect(r) \/ btpd_name_connect_cancel(r) \/ nc_write_cb(r)
        PROVE  IInv'
    BY <2>3, StepConnect, StepCancel, StepWriteCb
  <2>4. CASE UNCHANGED vars
    BY <2>4 DEF vars, IInv, TypeOK, LiveHeld, Queued, Apart, Places, Running, Paired,
                NoLostWakeup
  <2> QED BY <2>1, <2>2, <2>3, <2>4 DEF Next
<1> QED BY <1>1, <1>2, PTL DEF Spec

\* addrinfo_td never sleeps on a queued request without a signal to come, and
\* td_cb never leaves a result behind without a byte to come: the order of
\* insertion, unlocking and signal in btpd_addrinfo and in td_post_end is safe.
THEOREM WakeupsCorrect == Spec => []NoLostWakeup
<1>1. IInv => NoLostWakeup
  BY DEF IInv
<1> QED BY <1>1, Inductive, PTL

\* Every ai_ctx is held by one queue or by the thread from btpd_addrinfo to the
\* one addrinfo_td_cb that frees it, cancelled or not.
THEOREM ContextsCorrect == Spec => []HeldOnce
BY Inductive, HeldOnceFollows, PTL

------------------------------------------------------------------------------
(* Connect *)

\* What the caller has been told, given the state of the nameconn.
Told(st) ==
    CASE st = "none" -> "none"
      [] st \in {"ai", "conn"} -> "pending"
      [] st = "done" -> "socket"
      [] st = "failed" -> "error"
      [] st = "cancelled" -> "cancelled"

Answers == [r \in Reqs |-> Told(nc[r].st)]

\* A step that changes one nameconn shows as a change of one answer.
LEMMA OneAnswer ==
    ASSUME TypeOK, NEW r \in Reqs, NEW m, nc' = [nc EXCEPT ![r] = m]
    PROVE  Answers' = [Answers EXCEPT ![r] = Told(m.st)] /\ Answers[r] = Told(nc[r].st)
BY DEF Answers, TypeOK

\* Steps of the two threads are steps of Connect or leave its state alone.
LEMMA StepsMap == IInv /\ [Next]_vars => [Abs!Next]_(Abs!vars)
<1> SUFFICES ASSUME IInv, [Next]_vars, ~UNCHANGED Answers
             PROVE  \E r \in Reqs :
                \/ Answers[r] = "none" /\ Answers' = [Answers EXCEPT ![r] = "pending"]
                \/ \E a \in {"socket", "error", "cancelled"} :
                      Answers[r] = "pending" /\ Answers' = [Answers EXCEPT ![r] = a]
  BY DEF Abs!Next, Abs!vars, Abs!Ask, Abs!Answer, Answers, Told
<1>1. CASE UNCHANGED nc
  BY <1>1 DEF Answers
<1>2. ASSUME NEW r \in Reqs, NEW m, nc' = [nc EXCEPT ![r] = m],
             nc[r].st \in {"ai", "conn"},
             m.st \in {"conn", "done", "failed", "cancelled"}
      PROVE  \E a \in {"socket", "error", "cancelled"} :
                Answers[r] = "pending" /\ Answers' = [Answers EXCEPT ![r] = a]
  <2>1. Answers' = [Answers EXCEPT ![r] = Told(m.st)] /\ Answers[r] = "pending"
    BY <1>2, OneAnswer DEF IInv, Told
  <2>2. CASE m.st = "conn"
    <3>1. Answers' = [Answers EXCEPT ![r] = Answers[r]]
      BY <2>1, <2>2 DEF Told
    <3> QED BY <3>1 DEF Answers
  <2>3. CASE m.st # "conn"
    BY <1>2, <2>1, <2>3 DEF Told
  <2> QED BY <2>2, <2>3
<1>3. CASE addrinfo_td_cb
  <2>1. tmpq # <<>> /\ Head(tmpq) \in Reqs
    BY <1>3, TailQueue DEF IInv, TypeOK, Apart, addrinfo_td_cb
  <2> DEFINE r == Head(tmpq)
  <2>2. CASE calls_back(ctx[r])
    <3>1. ctx[r].addrs \in 0..MaxAddrs
      BY <2>1 DEF IInv, TypeOK, Ctx
    <3>2. PICK m \in nc_ai_cb(ctx[r].addrs) : nc' = [nc EXCEPT ![r] = m]
      BY <1>3, <2>2 DEF addrinfo_td_cb
    <3>3. m.st \in {"failed", "done", "conn"}
      BY <3>1, <3>2, ConnectResults
    <3>4. r \in Queued
      BY <2>1, TailQueue DEF IInv, TypeOK, Apart, Queued
    <3>5. nc[r].st = "ai"
      BY <2>1, <2>2, <3>4 DEF IInv, LiveHeld, Paired, calls_back
    <3> QED BY <1>2, <2>1, <3>2, <3>3, <3>5
  <2>3. CASE ~calls_back(ctx[r])
    <3>1. UNCHANGED nc
      BY <1>3, <2>3 DEF addrinfo_td_cb
    <3> QED BY <1>1, <3>1
  <2> QED BY <2>2, <2>3
<1>4. ASSUME NEW r \in Reqs, btpd_name_connect(r)
      PROVE  Answers[r] = "none" /\ Answers' = [Answers EXCEPT ![r] = "pending"]
  <2>1. nc[r].st = "none" /\ nc' = [nc EXCEPT ![r] = [nc[r] EXCEPT !.st = "ai"]]
    BY <1>4 DEF btpd_name_connect
  <2>2. [nc[r] EXCEPT !.st = "ai"].st = "ai"
    BY DEF IInv, TypeOK, Nc
  <2> QED BY <2>1, <2>2, OneAnswer DEF IInv, Told
<1>5. ASSUME NEW r \in Reqs, btpd_name_connect_cancel(r)
      PROVE  \E a \in {"socket", "error", "cancelled"} :
                Answers[r] = "pending" /\ Answers' = [Answers EXCEPT ![r] = a]
  BY <1>2, <1>5 DEF btpd_name_connect_cancel
<1>6. ASSUME NEW r \in Reqs, nc_write_cb(r)
      PROVE  \E a \in {"socket", "error", "cancelled"} :
                Answers[r] = "pending" /\ Answers' = [Answers EXCEPT ![r] = a]
  <2>1. nc[r].st = "conn" /\ nc[r].left \in 0..MaxAddrs
    BY <1>6 DEF nc_write_cb, IInv, TypeOK, Nc
  <2>2. CASE nc' = [nc EXCEPT ![r] = [st |-> "done", left |-> 0, sd |-> TRUE]]
    BY <1>2, <2>1, <2>2
  <2>3. CASE \E m \in nc_connect(nc[r].left) : nc' = [nc EXCEPT ![r] = m]
    <3>1. PICK m \in nc_connect(nc[r].left) : nc' = [nc EXCEPT ![r] = m]
      BY <2>3
    <3>2. m.st \in {"failed", "done", "conn"}
      BY <2>1, <3>1, ConnectResults
    <3> QED BY <1>2, <2>1, <3>1, <3>2
  <2> QED BY <1>6, <2>2, <2>3 DEF nc_write_cb
<1>7. CASE Thread \/ td_spurious \/ addrinfo_signal \/ td_cb_read \/ td_cb_move \/ td_cb_end
  BY <1>1, <1>7 DEF Thread, td_check, td_resolve, td_post, td_post_end, td_spurious,
                    addrinfo_signal, td_cb_read, td_cb_move, td_cb_end
<1>8. CASE UNCHANGED vars
  BY <1>1, <1>8 DEF vars
<1> QED BY <1>3, <1>4, <1>5, <1>6, <1>7, <1>8 DEF Next, Main

\* The safety part of ImplementsConnect: whatever the threads do, a request is
\* answered at most once, only after it was made, and never after
\* btpd_name_connect_cancel.
THEOREM ConnectImplemented == Spec => Abs!Init /\ [][Abs!Next]_(Abs!vars)
<1>1. Init => Abs!Init
  BY DEF Init, Abs!Init
<1> QED BY <1>1, StepsMap, Inductive, PTL DEF Spec

------------------------------------------------------------------------------
(* The exchange: HttpClient *)

\* The bytes of an answer.
Octets == {<<p, j, k>> : p \in {"head", "data", "newline", "trail"}, j \in Nat, k \in Nat}
            \union {<<"line", j, k>> : j \in Nat \ {0}, k \in Nat}

\* f joins the texts in X, one after the other.
Joins(f, n, X) == f = [j \in 0..n |-> IF j = 0 THEN <<>> ELSE f[j - 1] \o X[j]]

LEMMA JoinExists ==
    ASSUME NEW n \in Nat, NEW X
    PROVE  \E f : Joins(f, n, X)
<1> DEFINE Some(k) == \E f : Joins(f, k, X)
<1>1. \A k \in 0..n : Some(k)
  <2> DEFINE T == {k \in 0..n : ~Some(k)}
  <2> SUFFICES T = {}
    OBVIOUS
  <2> SUFFICES ASSUME T # {} PROVE FALSE
    OBVIOUS
  <2>0. T \in SUBSET Nat
    OBVIOUS
  <2>1. PICK m \in T : \A i \in T : m <= i
    <3> HIDE DEF T
    <3> QED BY <2>0, LeastElement
  <2>2. m \in 0..n /\ ~Some(m)
    OBVIOUS
  <2>3. CASE m = 0
    <3> DEFINE g == [i \in 0..0 |-> <<>>]
    <3>1. Joins(g, 0, X)
      <4>1. \A i \in 0..0 : i = 0
        OBVIOUS
      <4> QED BY <4>1 DEF Joins
    <3> QED BY <2>2, <2>3, <3>1
  <2>4. CASE m # 0
    <3>1. m - 1 \in 0..n /\ m - 1 \notin T
      BY <2>1, <2>2, <2>4
    <3>2. PICK f : Joins(f, m - 1, X)
      BY <3>1
    <3> DEFINE g == [i \in 0..m |-> IF i = m THEN f[m - 1] \o X[m] ELSE f[i]]
    <3>3. \A i \in 0..m : i # m => i \in 0..(m - 1) /\ g[i] = f[i]
      BY <2>2
    <3>4. \A i \in 0..m : g[i] = IF i = 0 THEN <<>> ELSE g[i - 1] \o X[i]
      <4> TAKE i \in 0..m
      <4>1. CASE i = m
        <5>1. m - 1 \in 0..m /\ m - 1 # m /\ m # 0 /\ m \in 0..m
          BY <2>2, <2>4
        <5>2. g[m] = f[m - 1] \o X[m] /\ g[m - 1] = f[m - 1]
          BY <5>1
        <5> QED BY <4>1, <5>1, <5>2
      <4>2. CASE i # m
        <5>1. g[i] = f[i] /\ f[i] = IF i = 0 THEN <<>> ELSE f[i - 1] \o X[i]
          BY <3>2, <3>3, <4>2 DEF Joins
        <5>2. i # 0 => i - 1 \in 0..m /\ i - 1 # m /\ g[i - 1] = f[i - 1]
          BY <2>2, <4>2
        <5> QED BY <5>1, <5>2
      <4> QED BY <4>1, <4>2
    <3>5. Joins(g, m, X)
      BY <3>4 DEF Joins
    <3> QED BY <2>2, <3>5
  <2> QED BY <2>3, <2>4
<1> QED BY <1>1

LEMMA JoinSeq ==
    ASSUME NEW n \in Nat, NEW T, NEW X, \A j \in 1..n : X[j] \in Seq(T), NEW f, Joins(f, n, X)
    PROVE  f[n] \in Seq(T)
<1>1. f[0] = <<>>
  BY DEF Joins
<1>2. \A i \in 1..n : f[i] = f[i - 1] \o X[i]
  <2> TAKE i \in 1..n
  <2>1. i \in 0..n /\ i # 0
    OBVIOUS
  <2> QED BY <2>1 DEF Joins
<1> DEFINE S == [i \in 0..n |-> Seq(T)]
<1>3. f[0] \in S[0]
  BY <1>1
<1>4. \A i \in 1..n : f[i - 1] \in S[i - 1] => f[i] \in S[i]
  <2> TAKE i \in 1..n
  <2>1. S[i - 1] = Seq(T) /\ S[i] = Seq(T)
    OBVIOUS
  <2>2. f[i] = f[i - 1] \o X[i] /\ X[i] \in Seq(T)
    BY <1>2
  <2> HIDE DEF S
  <2> QED BY <2>1, <2>2
<1>5. S[n] = Seq(T) /\ n \in 0..n
  OBVIOUS
<1> HIDE DEF S
<1>6. \A i \in 0..n : f[i] \in S[i]
  BY <1>3, <1>4, Inductively
<1> QED BY <1>5, <1>6

LEMMA BytesSeq ==
    ASSUME NEW n \in Nat, NEW j \in Nat,
           NEW p \in {"head", "data", "newline", "trail", "line"}, p = "line" => j # 0
    PROVE  Http!Bytes(p, j, n) \in Seq(Octets)
<1>1. \A k \in 1..n : <<p, j, k>> \in Octets
  BY DEF Octets
<1> QED BY <1>1 DEF Http!Bytes

LEMMA WireSeq ==
    ASSUME NEW r \in Replies
    PROVE  Http!Wire(r) \in Seq(Octets) /\ Http!Data(r) \in Seq(Octets)
<1> DEFINE n == Len(r.chunks)
<1>1. /\ r.head \in Nat /\ r.line \in Nat /\ r.trail \in Nat /\ r.newline \in Nat
      /\ r.chunks \in Seq(Nat) /\ n \in Nat
  BY RepliesAssumption
<1>2. ASSUME NEW j \in 1..n
      PROVE  /\ Http!Bytes("data", j, r.chunks[j]) \in Seq(Octets)
             /\ Http!Chunk(r, j) \in Seq(Octets)
  <2>1. j \in Nat /\ j # 0 /\ r.chunks[j] \in Nat
    BY <1>1
  <2>2. /\ Http!Bytes("data", j, r.chunks[j]) \in Seq(Octets)
        /\ Http!Bytes("line", j, r.line) \in Seq(Octets)
        /\ Http!Bytes("newline", j, r.newline) \in Seq(Octets)
    BY <1>1, <2>1, BytesSeq
  <2> QED BY <2>2 DEF Http!Chunk
<1>3. Http!Data(r) \in Seq(Octets)
  <2> DEFINE X == [j \in 1..n |-> Http!Bytes("data", j, r.chunks[j])]
  <2>1. \A j \in 1..n : X[j] \in Seq(Octets) /\ X[j] = Http!Bytes("data", j, r.chunks[j])
    BY <1>2
  <2> HIDE DEF X
  <2>2. PICK f : Joins(f, n, X)
    BY <1>1, JoinExists
  <2>3. \E g : /\ g = [j \in 0..n |-> IF j = 0 THEN <<>>
                                      ELSE g[j - 1] \o Http!Bytes("data", j, r.chunks[j])]
               /\ Http!Data(r) = g[n]
    <3>1. f = [j \in 0..n |-> IF j = 0 THEN <<>>
                              ELSE f[j - 1] \o Http!Bytes("data", j, r.chunks[j])]
      BY <2>1, <2>2 DEF Joins
    <3> QED BY <3>1 DEF Http!Data
  <2>4. PICK g : /\ g = [j \in 0..n |-> IF j = 0 THEN <<>>
                                      ELSE g[j - 1] \o Http!Bytes("data", j, r.chunks[j])]
                 /\ Http!Data(r) = g[n]
    BY <2>3
  <2>5. Joins(g, n, X)
    <3>1. \A j \in 0..n : j # 0 => j \in 1..n
      BY <1>1
    <3>2. \A j \in 0..n : (IF j = 0 THEN <<>> ELSE g[j - 1] \o X[j])
                           = (IF j = 0 THEN <<>> ELSE g[j - 1] \o Http!Bytes("data", j, r.chunks[j]))
      BY <2>1, <3>1
    <3> QED BY <2>4, <3>2 DEF Joins
  <2> QED BY <1>1, <2>1, <2>4, <2>5, JoinSeq
<1>4. Http!Chunks(r) \in Seq(Octets)
  <2> DEFINE X == [j \in 1..n |-> Http!Chunk(r, j)]
  <2>1. \A j \in 1..n : X[j] \in Seq(Octets) /\ X[j] = Http!Chunk(r, j)
    BY <1>2
  <2> HIDE DEF X
  <2>2. PICK f : Joins(f, n, X)
    BY <1>1, JoinExists
  <2>3. \E g : /\ g = [j \in 0..n |-> IF j = 0 THEN <<>> ELSE g[j - 1] \o Http!Chunk(r, j)]
               /\ Http!Chunks(r) = g[n] \o Http!Bytes("line", n + 1, r.line)
    <3>1. f = [j \in 0..n |-> IF j = 0 THEN <<>> ELSE f[j - 1] \o Http!Chunk(r, j)]
      BY <2>1, <2>2 DEF Joins
    <3> QED BY <3>1 DEF Http!Chunks
  <2>4. PICK g : /\ g = [j \in 0..n |-> IF j = 0 THEN <<>> ELSE g[j - 1] \o Http!Chunk(r, j)]
                 /\ Http!Chunks(r) = g[n] \o Http!Bytes("line", n + 1, r.line)
    BY <2>3
  <2>5. Joins(g, n, X)
    <3>1. \A j \in 0..n : j # 0 => j \in 1..n
      BY <1>1
    <3>2. \A j \in 0..n : (IF j = 0 THEN <<>> ELSE g[j - 1] \o X[j])
                           = (IF j = 0 THEN <<>> ELSE g[j - 1] \o Http!Chunk(r, j))
      BY <2>1, <3>1
    <3> QED BY <2>4, <3>2 DEF Joins
  <2>6. g[n] \in Seq(Octets)
    BY <1>1, <2>1, <2>5, JoinSeq
  <2>7. Http!Bytes("line", n + 1, r.line) \in Seq(Octets)
    <3>1. n + 1 \in Nat /\ n + 1 # 0 /\ r.line \in Nat
      BY <1>1
    <3> QED BY <3>1, BytesSeq
  <2> QED BY <2>4, <2>6, <2>7
<1>5. /\ Http!Bytes("head", 0, r.head) \in Seq(Octets)
      /\ Http!Bytes("trail", 0, r.trail) \in Seq(Octets)
  BY <1>1, BytesSeq
<1> QED BY <1>3, <1>4, <1>5 DEF Http!Wire

\* The data in the buffer fits.
Buffers == {b \in [size : Nat, skip : Nat, data : Seq(Octets)] : b.skip + Len(b.data) <= b.size}

\* Whose the request is: the caller's part and the client's are freed together,
\* but for a callback that cancels; then the parser frees the request, and it is
\* at a piece of content.  The tier was told when the caller's part was freed,
\* unless it gave up.
Owned ==
    /\ treq = "none" => req = "none" /\ ~parsing /\ ~cancel /\ got = 0
    /\ treq \in {"connect", "open"} => req = "live" /\ ~cancel
    /\ parsing /\ ~cancel => treq = "open"
    /\ parsing /\ cancel => treq = "freed" /\ req = "live" /\ last > 0 /\ pstate \in {"chunk", "data"}
    /\ ~parsing /\ treq = "freed" => req = "freed"
    /\ gaveup => treq = "freed"
    /\ Len(results) = IF treq = "freed" /\ ~gaveup THEN 1 ELSE 0

Typed ==
    /\ reply \in Replies /\ rbuf \in Buffers
    /\ got \in 0..Len(Http!Wire(reply)) /\ length \in Int /\ last \in 0..READ
    /\ unsent \in BOOLEAN /\ parsing \in BOOLEAN /\ cancel \in BOOLEAN /\ gaveup \in BOOLEAN
    /\ moved \in BOOLEAN /\ misuse = FALSE
    /\ req \in {"none", "live", "freed"} /\ treq \in {"none", "connect", "open", "freed"}
    /\ results \in Seq({"conn", "bad", "done"})

\* The inductive invariant of HttpClient.
ExInv == Typed /\ Owned

------------------------------------------------------------------------------
\* iobuf_accommodate and iobuf_consumed.
LEMMA RoomOk ==
    ASSUME NEW b \in Buffers, NEW n \in Nat, NEW c, c = Http!accommodated(b, n)
    PROVE  c \in Buffers /\ c.data = b.data /\ Http!Free(c) >= n
<1>1. /\ b \in [size : Nat, skip : Nat, data : Seq(Octets)] /\ Len(b.data) \in Nat
      /\ b.size \in Nat /\ b.skip \in Nat /\ b.skip + Len(b.data) <= b.size
  BY DEF Buffers
<1>2. CASE Http!Free(b) >= n
  <2>1. c = b
    BY <1>2 DEF Http!accommodated
  <2> QED BY <1>2, <2>1
<1>3. CASE ~(Http!Free(b) >= n) /\ ~Http!Grows(b, n)
  <2>1. c = [b EXCEPT !.skip = 0]
    BY <1>3 DEF Http!accommodated
  <2>2. c.size = b.size /\ c.skip = 0 /\ c.data = b.data
        /\ c \in [size : Nat, skip : Nat, data : Seq(Octets)]
    BY <1>1, <2>1
  <2>3. Http!Free(c) >= n
    BY <1>1, <1>3, <2>2 DEF Http!Free, Http!Grows
  <2> QED BY <1>1, <2>2, <2>3 DEF Buffers
<1>4. CASE ~(Http!Free(b) >= n) /\ Http!Grows(b, n)
  <2>1. c = [b EXCEPT !.size = @ + n]
    BY <1>4 DEF Http!accommodated
  <2>2. c.size = b.size + n /\ c.skip = b.skip /\ c.data = b.data
        /\ c \in [size : Nat, skip : Nat, data : Seq(Octets)]
    BY <1>1, <2>1
  <2>3. Http!Free(c) >= n
    BY <1>1, <2>2 DEF Http!Free
  <2> QED BY <1>1, <2>2, <2>3 DEF Buffers
<1> QED BY <1>2, <1>3, <1>4

LEMMA ConsumedOk ==
    ASSUME NEW b \in Buffers, NEW n \in 0..Len(b.data)
    PROVE  Http!iobuf_consumed(b, n) \in Buffers
<1>1. /\ b \in [size : Nat, skip : Nat, data : Seq(Octets)] /\ Len(b.data) \in Nat
      /\ b.size \in Nat /\ b.skip \in Nat /\ b.skip + Len(b.data) <= b.size
  BY DEF Buffers
<1>2. PICK d : d = SubSeq(b.data, n + 1, Len(b.data))
  OBVIOUS
<1>3. d \in Seq(Octets) /\ Len(d) = Len(b.data) - n
  <2>1. n + 1 \in 1..(Len(b.data) + 1) /\ Len(b.data) \in ((n + 1) - 1)..Len(b.data)
        /\ b.data \in Seq(Octets) /\ Len(b.data) - (n + 1) + 1 = Len(b.data) - n
    BY <1>1
  <2> QED BY <1>2, <2>1, SubSeqSeq
<1>4. PICK c : c = Http!iobuf_consumed(b, n)
  OBVIOUS
<1>5. /\ c.size = b.size /\ c.skip = b.skip + n /\ c.data = d
      /\ c \in [size : Nat, skip : Nat, data : Seq(Octets)]
  <2>1. c = [b EXCEPT !.skip = @ + n, !.data = d]
    BY <1>2, <1>4 DEF Http!iobuf_consumed
  <2>2. b = [size |-> b.size, skip |-> b.skip, data |-> b.data]
    BY <1>1
  <2>3. c = [size |-> b.size, skip |-> b.skip + n, data |-> d]
    BY <2>1, <2>2
  <2>4. b.size \in Nat /\ b.skip + n \in Nat /\ d \in Seq(Octets)
    BY <1>1, <1>3
  <2> QED BY <2>3, <2>4
<1> QED BY <1>1, <1>3, <1>4, <1>5 DEF Buffers

\* Find returns a position in the buffer, of the part.
LEMMA FindOk ==
    ASSUME rbuf \in Buffers, NEW part, NEW k, NEW i, i = Http!Find(part, k)
    PROVE  i \in 0..Len(rbuf.data) /\ (i > 0 => rbuf.data[i][1] = part)
<1> DEFINE is == {j \in 1..Len(rbuf.data) : rbuf.data[j][1] = part /\ rbuf.data[j][3] = k}
<1>1. Len(rbuf.data) \in Nat /\ is \in SUBSET Nat
  BY DEF Buffers
<1>2. CASE is = {}
  BY <1>1, <1>2 DEF Http!Find
<1>3. CASE is # {}
  <2>1. \E m \in is : \A j \in is : m <= j
    <3> HIDE DEF is
    <3> QED BY <1>1, <1>3, LeastElement
  <2>2. i \in is
    BY <1>3, <2>1 DEF Http!Find
  <2> QED BY <1>1, <2>2
<1> QED BY <1>2, <1>3

\* The numbers in the answer are numbers.
LEMMA SizesOk ==
    ASSUME reply \in Replies, rbuf \in Buffers
    PROVE  /\ Http!declared \in Int /\ reply.newline \in 0..2
           /\ \A i \in 1..Len(rbuf.data) :
                rbuf.data[i][1] = "line" => Http!SizeOf(reply, rbuf.data[i][2]) \in Nat
<1>1. Len(Http!Data(reply)) \in Nat
  BY WireSeq
<1>2. reply.chunks \in Seq(Nat) /\ reply.newline \in 0..2
  BY RepliesAssumption
<1>3. ASSUME NEW i \in 1..Len(rbuf.data), rbuf.data[i][1] = "line"
      PROVE  Http!SizeOf(reply, rbuf.data[i][2]) \in Nat
  <2>1. rbuf.data \in Seq(Octets)
    BY DEF Buffers
  <2>2. rbuf.data[i] \in Octets
    BY <2>1
  <2>3. rbuf.data[i][2] \in Nat \ {0}
    <3>1. PICK o : o = rbuf.data[i]
      OBVIOUS
    <3>2. o \in Octets /\ o[1] = "line"
      BY <1>3, <2>2, <3>1
    <3>3. PICK j \in Nat \ {0}, k \in Nat : o = <<"line", j, k>>
      BY <3>2 DEF Octets
    <3> QED BY <3>1, <3>3
  <2> QED BY <1>2, <2>3 DEF Http!SizeOf
<1> QED BY <1>1, <1>2, <1>3 DEF Http!declared

------------------------------------------------------------------------------
\* What was told already, in each place.
LEMMA Arrives ==
    ASSUME ExInv
    PROVE  /\ treq \in {"none", "connect", "open"} => results = <<>>
           /\ \A x \in {"conn", "bad", "done"} :
                Append(results, x) \in Seq({"conn", "bad", "done"})
                /\ Len(Append(results, x)) = Len(results) + 1
<1>1. results \in Seq({"conn", "bad", "done"})
  BY DEF ExInv, Typed
<1>2. treq \in {"none", "connect", "open"} => Len(results) = 0
  BY DEF ExInv, Owned
<1> QED BY <1>1, <1>2

\* The request is answered, or ended by the caller, once.
LEMMA EndOk ==
    ASSUME ExInv, treq \in {"connect", "open"}, ~cancel,
           reply' = reply, rbuf' \in Buffers, got' \in 0..Len(Http!Wire(reply)), length' \in Int,
           last' \in 0..READ, unsent' \in BOOLEAN, moved' \in BOOLEAN, misuse' = FALSE,
           treq' = "freed", req' = "freed", parsing' = FALSE, cancel' = FALSE,
           \/ gaveup' = gaveup /\ \E x \in {"conn", "bad", "done"} : results' = Append(results, x)
           \/ gaveup' = TRUE /\ results' = results
    PROVE  ExInv'
<1>1. gaveup = FALSE /\ gaveup \in BOOLEAN /\ Len(results) = 0 /\ results \in Seq({"conn", "bad", "done"})
      /\ reply \in Replies
  BY DEF ExInv, Typed, Owned
<1>2. results' \in Seq({"conn", "bad", "done"}) /\ gaveup' \in BOOLEAN
      /\ Len(results') = IF gaveup' THEN 0 ELSE 1
  <2>1. CASE gaveup' = TRUE /\ results' = results
    BY <1>1, <2>1
  <2>2. CASE gaveup' = gaveup /\ \E x \in {"conn", "bad", "done"} : results' = Append(results, x)
    <3>1. PICK x \in {"conn", "bad", "done"} : results' = Append(results, x)
      BY <2>2
    <3>2. results' \in Seq({"conn", "bad", "done"}) /\ Len(results') = Len(results) + 1
      BY <3>1, Arrives
    <3> QED BY <1>1, <2>2, <3>2
  <2> QED BY <2>1, <2>2
<1>3. Typed'
  BY <1>1, <1>2 DEF Typed
<1>4. Owned'
  BY <1>2 DEF Owned
<1> QED BY <1>3, <1>4 DEF ExInv

LEMMA ExBegins ==
    ASSUME ExInv, Http!httptr_req
    PROVE  ExInv'
<1>1. /\ treq = "none" /\ reply' \in Replies /\ pstate' = "head" /\ unsent' = TRUE
      /\ req' = "live" /\ treq' = "connect"
      /\ UNCHANGED <<got, length, rbuf, last, parsing, cancel, content, results, gaveup, moved,
                     misuse>>
  BY DEF Http!httptr_req
<1>2. got = 0 /\ ~parsing /\ ~gaveup /\ Len(results) = 0
  BY <1>1 DEF ExInv, Owned
<1>3. got' \in 0..Len(Http!Wire(reply'))
  BY <1>1, <1>2, WireSeq
<1>4. Typed'
  BY <1>1, <1>3 DEF ExInv, Typed
<1> QED BY <1>1, <1>2, <1>4 DEF ExInv, Owned

\* What is so when the client is at rest, and when it parses.
LEMMA AtRest ==
    ASSUME ExInv, treq \in {"connect", "open"}
    PROVE  /\ req = "live" /\ cancel = FALSE /\ gaveup = FALSE
           /\ Len(results) = 0 /\ parsing \in BOOLEAN
           /\ rbuf \in Buffers /\ length \in Int /\ got \in 0..Len(Http!Wire(reply))
           /\ last \in 0..READ /\ unsent \in BOOLEAN /\ moved \in BOOLEAN /\ misuse = FALSE
           /\ reply \in Replies
BY DEF ExInv, Typed, Owned

LEMMA ExConnects ==
    ASSUME ExInv, Http!httptr_nc_cb
    PROVE  ExInv'
<1>1. /\ parsing = FALSE /\ treq = "connect" /\ misuse = FALSE
      /\ UNCHANGED <<reply, got, pstate, length, rbuf, last, parsing, unsent, content, gaveup,
                     moved>>
  BY DEF Http!httptr_nc_cb, Http!Idle, Http!http, ExInv, Typed
<1>2. CASE treq' = "open" /\ UNCHANGED <<req, cancel, results, misuse>>
  BY <1>1, <1>2 DEF ExInv, Typed, Owned
<1>3. CASE results' = Append(results, "conn") /\ Http!httptr_cancel
  <2>1. req = "live" /\ cancel = FALSE
    BY <1>1, AtRest
  <2>2. treq' = "freed" /\ req' = "freed" /\ cancel' = FALSE /\ misuse' = FALSE
    BY <1>1, <1>3, <2>1 DEF Http!httptr_cancel, Http!http_cancel, Http!Freed
  <2> QED BY <1>1, <1>3, <2>1, <2>2, AtRest, EndOk
<1> QED BY <1>2, <1>3 DEF Http!httptr_nc_cb

LEMMA ExGivesUp ==
    ASSUME ExInv, Http!timeout \/ Http!req_cancel
    PROVE  ExInv'
<1>1. /\ parsing = FALSE /\ treq \in {"connect", "open"} /\ misuse = FALSE /\ Http!httptr_cancel
      /\ UNCHANGED <<reply, got, pstate, length, rbuf, last, parsing, unsent, content, moved>>
      /\ \/ gaveup' = gaveup /\ results' = Append(results, "conn")
         \/ gaveup' = TRUE /\ results' = results
  BY DEF Http!timeout, Http!req_cancel, Http!Idle, Http!http, ExInv, Typed
<1>2. req = "live" /\ cancel = FALSE
  BY <1>1, AtRest
<1>3. treq' = "freed" /\ req' = "freed" /\ cancel' = FALSE /\ misuse' = FALSE
  BY <1>1, <1>2 DEF Http!httptr_cancel, Http!http_cancel, Http!Freed
<1> QED BY <1>1, <1>2, <1>3, AtRest, EndOk

\* Both parts are freed by the client, with a result.
LEMMA FreesBoth ==
    ASSUME ExInv, treq \in {"connect", "open"}, Http!both_freed
    PROVE  treq' = "freed" /\ req' = "freed" /\ misuse' = FALSE
<1>1. req = "live"
  BY AtRest
<1> QED BY <1>1 DEF Http!both_freed, Http!Freed

LEMMA ExWrites ==
    ASSUME ExInv, Http!http_write
    PROVE  ExInv'
<1>1. /\ parsing = FALSE /\ treq = "open" /\ misuse = FALSE
      /\ UNCHANGED <<reply, got, pstate, length, rbuf, last, parsing, cancel, content, gaveup,
                     moved>>
  BY DEF Http!http_write, Http!Idle, Http!http, ExInv, Typed
<1>2. CASE unsent' \in BOOLEAN /\ UNCHANGED <<req, treq, results, misuse>>
  BY <1>1, <1>2 DEF ExInv, Typed, Owned
<1>3. CASE Http!http_error /\ UNCHANGED unsent
  <2>1. treq' = "freed" /\ req' = "freed" /\ misuse' = FALSE /\ results' = Append(results, "bad")
    BY <1>1, <1>3, FreesBoth DEF Http!http_error
  <2>2. cancel' = FALSE /\ parsing' = FALSE
    BY <1>1, AtRest
  <2> QED BY <1>1, <1>3, <2>1, <2>2, AtRest, EndOk
<1> QED BY <1>2, <1>3 DEF Http!http_write

LEMMA ExReads ==
    ASSUME ExInv, Http!http_read
    PROVE  ExInv'
<1>1. /\ parsing = FALSE /\ treq = "open" /\ misuse = FALSE
      /\ UNCHANGED <<reply, pstate, length, unsent, cancel, content, gaveup, moved>>
  BY DEF Http!http_read, Http!Idle, ExInv, Typed
<1>2. ASSUME NEW n \in 0..Http!Least(READ, Len(Http!Wire(reply)) - got),
             NEW b, b = Http!accommodated(rbuf, READ),
             rbuf' = [b EXCEPT !.data = @ \o SubSeq(Http!Wire(reply), got + 1, got + n)],
             got' = got + n, last' = n, parsing' = TRUE, misuse' = (n > Http!Free(b)),
             UNCHANGED <<req, treq, results>>
      PROVE  ExInv'
  <2>1. /\ rbuf \in Buffers /\ reply \in Replies /\ READ \in Nat
        /\ Http!Wire(reply) \in Seq(Octets) /\ Len(Http!Wire(reply)) \in Nat
        /\ got \in 0..Len(Http!Wire(reply))
    BY <1>1, AtRest, WireSeq, RepliesAssumption
  <2>2. n \in Nat /\ n <= READ /\ got + n \in 0..Len(Http!Wire(reply))
    BY <2>1, <1>2 DEF Http!Least
  <2>3. b \in Buffers /\ b.data = rbuf.data /\ Http!Free(b) >= READ
    BY <2>1, <1>2, RoomOk
  <2>4. /\ b \in [size : Nat, skip : Nat, data : Seq(Octets)] /\ Len(b.data) \in Nat
        /\ b.size \in Nat /\ b.skip \in Nat /\ b.skip + Len(b.data) + READ <= b.size
        /\ Http!Free(b) \in Int
    BY <2>1, <2>3 DEF Buffers, Http!Free
  <2>5. PICK d : d = SubSeq(Http!Wire(reply), got + 1, got + n)
    OBVIOUS
  <2>6. d \in Seq(Octets) /\ Len(d) = n
    <3>1. /\ got + 1 \in 1..(Len(Http!Wire(reply)) + 1)
          /\ got + n \in ((got + 1) - 1)..Len(Http!Wire(reply)) /\ (got + n) - (got + 1) + 1 = n
      BY <2>1, <2>2
    <3> QED BY <2>1, <2>5, <3>1, SubSeqSeq
  <2>7. PICK e : e = b.data \o d
    OBVIOUS
  <2>8. e \in Seq(Octets) /\ Len(e) = Len(b.data) + n
    BY <2>4, <2>6, <2>7, ConcatSeq
  <2>9. rbuf' = [size |-> b.size, skip |-> b.skip, data |-> e]
    <3>1. b = [size |-> b.size, skip |-> b.skip, data |-> b.data]
      BY <2>4
    <3>2. rbuf' = [b EXCEPT !.data = e]
      BY <1>2, <2>5, <2>7
    <3> QED BY <3>1, <3>2
  <2>10. rbuf' \in Buffers
    <3>1. rbuf' \in [size : Nat, skip : Nat, data : Seq(Octets)]
      BY <2>4, <2>8, <2>9
    <3>2. rbuf'.skip + Len(rbuf'.data) <= rbuf'.size
      BY <2>1, <2>2, <2>4, <2>8, <2>9
    <3> QED BY <3>1, <3>2 DEF Buffers
  <2>11. misuse' = FALSE /\ last' \in 0..READ
    <3>1. ~(n > Http!Free(b)) /\ n \in 0..READ
      BY <2>1, <2>2, <2>3, <2>4
    <3>2. (n > Http!Free(b)) = FALSE
      BY <3>1
    <3> QED BY <1>2, <3>1, <3>2, Zenon
  <2>12. Typed'
    BY <1>1, <1>2, <2>1, <2>2, <2>10, <2>11 DEF ExInv, Typed
  <2>13. Owned'
    BY <1>1, <1>2 DEF ExInv, Owned
  <2> QED BY <2>12, <2>13 DEF ExInv
<1>3. CASE Http!http_error /\ UNCHANGED <<got, rbuf, last, parsing>>
  <2>1. treq' = "freed" /\ req' = "freed" /\ misuse' = FALSE /\ results' = Append(results, "bad")
    BY <1>1, <1>3, FreesBoth DEF Http!http_error
  <2>2. cancel' = FALSE /\ parsing' = FALSE
    BY <1>1, <1>3, AtRest
  <2> QED BY <1>1, <1>3, <2>1, <2>2, AtRest, EndOk
<1> QED BY <1>2, <1>3 DEF Http!http_read

------------------------------------------------------------------------------
(* http_parse *)

\* What is so while the parser runs, and has not been cancelled.
LEMMA Parsing ==
    ASSUME ExInv, parsing, ~cancel
    PROVE  /\ treq = "open" /\ req = "live" /\ cancel = FALSE /\ gaveup = FALSE
           /\ Len(results) = 0 /\ rbuf \in Buffers /\ length \in Int
           /\ got \in 0..Len(Http!Wire(reply)) /\ last \in 0..READ /\ unsent \in BOOLEAN
           /\ moved \in BOOLEAN /\ misuse = FALSE /\ reply \in Replies /\ Len(rbuf.data) \in Nat
<1>1. treq = "open"
  BY DEF ExInv, Owned
<1>2. rbuf \in Buffers
  BY <1>1, AtRest
<1>3. Len(rbuf.data) \in Nat
  BY <1>2 DEF Buffers
<1> QED BY <1>1, <1>3, AtRest

\* The parser waits for more, or goes on; or it ends the request.
LEMMA ParsedOk ==
    ASSUME ExInv, parsing, ~cancel, Http!Elsewhere,
           rbuf' \in Buffers, length' \in Int, moved' \in BOOLEAN,
           Http!waits \/ Http!again \/ Http!error \/ Http!done
    PROVE  ExInv'
<1>1. UNCHANGED <<reply, got, last, unsent, gaveup>>
  BY DEF Http!Elsewhere
<1>2. CASE Http!waits \/ Http!again
  <2>1. /\ UNCHANGED <<req, treq, results, cancel, content, misuse>>
        /\ parsing' \in BOOLEAN
    BY <1>2, Parsing DEF Http!waits, Http!again, ExInv, Typed
  <2>2. treq' = "open" /\ req' = "live" /\ cancel' = FALSE /\ gaveup' = FALSE /\ Len(results') = 0
    BY <1>1, <2>1, Parsing
  <2>3. Typed'
    BY <1>1, <2>1 DEF ExInv, Typed
  <2>4. Owned'
    BY <2>2 DEF Owned
  <2> QED BY <2>3, <2>4 DEF ExInv
<1>3. CASE Http!error \/ Http!done
  <2>1. /\ Http!both_freed /\ parsing' = FALSE /\ cancel' = cancel
        /\ \E x \in {"conn", "bad", "done"} : results' = Append(results, x)
    BY <1>3 DEF Http!error, Http!done, Http!http_error
  <2>2. treq \in {"connect", "open"} /\ cancel = FALSE
    BY Parsing
  <2>3. treq' = "freed" /\ req' = "freed" /\ misuse' = FALSE
    BY <2>1, <2>2, FreesBoth
  <2> QED BY <1>1, <2>1, <2>2, <2>3, Parsing, EndOk
<1> QED BY <1>2, <1>3

\* Only at a piece of content the parser may have been cancelled.
LEMMA Uncancelled ==
    ASSUME ExInv, parsing, pstate \notin {"chunk", "data"} \/ last = 0
    PROVE  ~cancel
BY DEF ExInv, Owned, Typed

LEMMA ExHead ==
    ASSUME ExInv, Http!parse_head
    PROVE  ExInv'
<1>1. parsing /\ ~cancel /\ Http!Elsewhere
  BY Uncancelled DEF Http!parse_head, Http!Parses
<1>2. PICK end : end = Http!Find("head", reply.head)
  OBVIOUS
<1>3. PICK b : b = Http!accommodated(rbuf, 1)
  OBVIOUS
<1>4. b \in Buffers /\ b.data = rbuf.data
  BY <1>1, <1>3, Parsing, RoomOk
<1>5. end \in 0..Len(b.data)
  BY <1>1, <1>2, <1>4, Parsing, FindOk
<1>6. Http!iobuf_consumed(b, end) \in Buffers
  BY <1>4, <1>5, ConsumedOk
<1>7. Http!declared \in Int
  BY <1>1, Parsing, SizesOk
<1>8. /\ rbuf' = rbuf \/ rbuf' = Http!iobuf_consumed(b, end)
      /\ length' = length \/ length' = Http!declared \/ length' = -1
      /\ moved' = moved \/ moved' = TRUE
      /\ Http!waits \/ Http!again \/ Http!error
  BY <1>2, <1>3 DEF Http!parse_head
<1>9. rbuf' \in Buffers /\ length' \in Int /\ moved' \in BOOLEAN
  <2>1. rbuf \in Buffers /\ length \in Int /\ moved \in BOOLEAN
    BY <1>1, Parsing
  <2>2. rbuf' \in Buffers
    BY <1>6, <1>8, <2>1
  <2>3. length' \in Int
    BY <1>7, <1>8, <2>1
  <2>4. moved' \in BOOLEAN
    BY <1>8, <2>1
  <2> QED BY <2>2, <2>3, <2>4
<1> QED BY <1>1, <1>8, <1>9, ParsedOk

LEMMA ExSize ==
    ASSUME ExInv, Http!parse_size
    PROVE  ExInv'
<1>1. parsing /\ ~cancel /\ Http!Elsewhere /\ moved' = moved
  BY Uncancelled DEF Http!parse_size, Http!Parses
<1>2. PICK end : end = Http!Find("line", reply.line)
  OBVIOUS
<1>3. end \in 0..Len(rbuf.data) /\ (end > 0 => rbuf.data[end][1] = "line")
  BY <1>1, <1>2, Parsing, FindOk
<1>4. Http!iobuf_consumed(rbuf, end) \in Buffers
  BY <1>1, <1>3, Parsing, ConsumedOk
<1>5. end > 0 => Http!SizeOf(reply, rbuf.data[end][2]) \in Nat
  <2>1. end > 0 => end \in 1..Len(rbuf.data)
    BY <1>1, <1>3, Parsing
  <2> QED BY <1>1, <1>3, <2>1, Parsing, SizesOk
<1>6. /\ rbuf' = rbuf \/ rbuf' = Http!iobuf_consumed(rbuf, end)
      /\ length' = length \/ (end > 0 /\ length' = Http!SizeOf(reply, rbuf.data[end][2]))
      /\ Http!waits \/ Http!again \/ Http!error \/ Http!done
  BY <1>2 DEF Http!parse_size
<1>7. rbuf' \in Buffers /\ length' \in Int /\ moved' \in BOOLEAN
  BY <1>1, <1>4, <1>5, <1>6, Parsing
<1> QED BY <1>1, <1>6, <1>7, ParsedOk

LEMMA ExNewline ==
    ASSUME ExInv, Http!parse_newline
    PROVE  ExInv'
<1>1. parsing /\ ~cancel /\ Http!Elsewhere /\ moved' = moved /\ length' = length
  BY Uncancelled DEF Http!parse_newline, Http!Parses
<1>2. Len(rbuf.data) >= 2 => Http!iobuf_consumed(rbuf, reply.newline) \in Buffers
  <2>1. reply.newline \in 0..2
    BY <1>1, Parsing, SizesOk
  <2>2. Len(rbuf.data) >= 2 => reply.newline \in 0..Len(rbuf.data)
    BY <1>1, <2>1, Parsing
  <2> QED BY <1>1, <2>2, Parsing, ConsumedOk
<1>3. /\ \/ rbuf' = rbuf
         \/ Len(rbuf.data) >= 2 /\ rbuf' = Http!iobuf_consumed(rbuf, reply.newline)
      /\ Http!waits \/ Http!again \/ Http!error
  BY DEF Http!parse_newline
<1>4. rbuf' \in Buffers /\ length' \in Int /\ moved' \in BOOLEAN
  BY <1>1, <1>2, <1>3, Parsing
<1> QED BY <1>1, <1>3, <1>4, ParsedOk

LEMMA ExEof ==
    ASSUME ExInv, Http!parse_eof
    PROVE  ExInv'
<1>1. /\ parsing /\ ~cancel /\ Http!Elsewhere /\ moved' = moved /\ length' = length /\ rbuf' = rbuf
      /\ Http!error \/ Http!done
  BY Uncancelled DEF Http!parse_eof
<1> QED BY <1>1, Parsing, ParsedOk

LEMMA ExCancelled ==
    ASSUME ExInv, Http!parse_cancelled
    PROVE  ExInv'
<1>1. /\ parsing /\ cancel /\ Http!http_free /\ parsing' = FALSE
      /\ UNCHANGED <<treq, results, cancel, content, pstate, length, rbuf>>
      /\ UNCHANGED <<reply, got, last, unsent, gaveup, moved>>
  BY DEF Http!parse_cancelled, Http!Elsewhere
<1>2. treq = "freed" /\ req = "live"
  BY <1>1 DEF ExInv, Owned
<1>3. req' = "freed" /\ misuse' = FALSE
  BY <1>1, <1>2 DEF Http!http_free, Http!Freed
<1> QED BY <1>1, <1>2, <1>3 DEF ExInv, Typed, Owned

LEMMA ExData ==
    ASSUME ExInv, NEW ps, Http!parse_data(ps)
    PROVE  ExInv'
<1> DEFINE n == Http!Takes
<1>1. /\ parsing /\ ~cancel /\ Http!Elsewhere /\ moved' = moved /\ last > 0
      /\ ps \in {"chunk", "data"} /\ pstate = ps
  BY DEF Http!parse_data, Http!Parses
<1>2. n \in Int /\ (n > 0 => n \in 0..Len(rbuf.data)) /\ Http!left(n) \in Int
  BY <1>1, Parsing DEF Http!Takes, Http!Least, Http!left
<1> HIDE DEF n
<1>3. CASE n = 0 /\ Http!waits /\ UNCHANGED <<pstate, length, rbuf>>
  BY <1>1, <1>3, Parsing, ParsedOk
<1>4. CASE /\ results' = Append(results, "bad") /\ Http!httptr_cancel
           /\ UNCHANGED <<pstate, length, rbuf, content, parsing>>
  <2>1. /\ treq' = "freed" /\ req' = "live" /\ cancel' = TRUE /\ misuse' = FALSE
    BY <1>1, <1>4, Parsing DEF Http!httptr_cancel, Http!http_cancel, Http!Freed
  <2>2. /\ UNCHANGED <<reply, got, last, unsent, gaveup, moved, pstate, length, rbuf, parsing>>
        /\ gaveup = FALSE /\ Len(results) = 0
    BY <1>1, <1>4, Parsing DEF Http!Elsewhere
  <2>3. results' \in Seq({"conn", "bad", "done"}) /\ Len(results') = 1
    BY <1>4, <2>2, Arrives
  <2>4. Typed'
    BY <2>1, <2>2, <2>3 DEF ExInv, Typed
  <2>5. Owned'
    BY <1>1, <2>1, <2>2, <2>3 DEF Owned
  <2> QED BY <2>4, <2>5 DEF ExInv
<1>5. CASE /\ n > 0 /\ rbuf' = Http!iobuf_consumed(rbuf, n) /\ length' = Http!left(n)
           /\ parsing' \in BOOLEAN /\ cancel' = cancel
           /\ IF Http!left(n) = 0 /\ ps = "data"
              THEN results' = Append(results, "done") /\ Http!both_freed /\ parsing' = FALSE
              ELSE UNCHANGED <<results, req, treq, misuse>>
  <2>1. rbuf' \in Buffers /\ length' \in Int
    BY <1>1, <1>2, <1>5, Parsing, ConsumedOk
  <2>2. /\ UNCHANGED <<reply, got, last, unsent, gaveup, moved>>
    BY <1>1 DEF Http!Elsewhere
  <2>3. CASE results' = Append(results, "done") /\ Http!both_freed /\ parsing' = FALSE
    <3>1. treq \in {"connect", "open"} /\ cancel = FALSE
      BY <1>1, Parsing
    <3>2. treq' = "freed" /\ req' = "freed" /\ misuse' = FALSE
      BY <2>3, <3>1, FreesBoth
    <3> QED BY <1>1, <1>5, <2>1, <2>2, <2>3, <3>1, <3>2, Parsing, EndOk
  <2>4. CASE UNCHANGED <<results, req, treq, misuse>>
    <3>1. treq' = "open" /\ req' = "live" /\ cancel' = FALSE /\ gaveup' = FALSE /\ Len(results') = 0
      BY <1>1, <1>5, <2>2, <2>4, Parsing
    <3>2. Typed'
      BY <1>5, <2>1, <2>2, <2>4, <3>1 DEF ExInv, Typed
    <3>3. Owned'
      BY <3>1 DEF Owned
    <3> QED BY <3>2, <3>3 DEF ExInv
  <2> QED BY <1>5, <2>3, <2>4
<1>6. \/ n = 0 /\ Http!waits /\ UNCHANGED <<pstate, length, rbuf>>
      \/ /\ results' = Append(results, "bad") /\ Http!httptr_cancel
         /\ UNCHANGED <<pstate, length, rbuf, content, parsing>>
      \/ /\ n > 0 /\ rbuf' = Http!iobuf_consumed(rbuf, n) /\ length' = Http!left(n)
         /\ parsing' = (Http!left(n) = 0 /\ ps = "chunk")
         /\ IF Http!left(n) = 0 /\ ps = "data"
            THEN results' = Append(results, "done") /\ Http!both_freed
            ELSE UNCHANGED <<results, req, treq, misuse>>
         /\ cancel' = cancel
  BY DEF Http!parse_data, n
<1>7. ps = "data" => (Http!left(n) = 0 /\ ps = "chunk") = FALSE
  OBVIOUS
<1> QED BY <1>3, <1>4, <1>5, <1>6, <1>7

------------------------------------------------------------------------------
LEMMA ExStarts ==
    ASSUME Http!Init
    PROVE  ExInv
<1>1. /\ reply = (CHOOSE r \in Replies : TRUE) /\ got = 0 /\ length = -1
      /\ rbuf = [size |-> READ, skip |-> 0, data |-> <<>>]
      /\ unsent = FALSE /\ last = 0 /\ parsing = FALSE /\ cancel = FALSE
      /\ req = "none" /\ treq = "none" /\ results = <<>>
      /\ gaveup = FALSE /\ moved = FALSE /\ misuse = FALSE
  BY DEF Http!Init
<1>2. reply \in Replies /\ READ \in Nat
  BY <1>1, RepliesAssumption
<1>3. got \in 0..Len(Http!Wire(reply))
  BY <1>1, <1>2, WireSeq
<1>4. rbuf \in Buffers
  <2>1. rbuf \in [size : Nat, skip : Nat, data : Seq(Octets)]
    BY <1>1, <1>2
  <2>2. rbuf.skip + Len(rbuf.data) <= rbuf.size
    BY <1>1, <1>2
  <2> QED BY <2>1, <2>2 DEF Buffers
<1>5. Typed
  <2>1. length \in Int /\ last \in 0..READ
    BY <1>1, <1>2
  <2>2. results \in Seq({"conn", "bad", "done"})
    BY <1>1
  <2>3. /\ unsent \in BOOLEAN /\ parsing \in BOOLEAN /\ cancel \in BOOLEAN /\ gaveup \in BOOLEAN
        /\ moved \in BOOLEAN /\ misuse = FALSE
        /\ req \in {"none", "live", "freed"} /\ treq \in {"none", "connect", "open", "freed"}
    BY <1>1, Zenon
  <2> QED BY <1>2, <1>3, <1>4, <2>1, <2>2, <2>3 DEF Typed
<1>6. Owned
  BY <1>1 DEF Owned
<1> QED BY <1>5, <1>6 DEF ExInv

LEMMA ExSteps ==
    ASSUME ExInv, Http!Next
    PROVE  ExInv'
BY ExBegins, ExConnects, ExGivesUp, ExWrites, ExReads, ExHead, ExSize, ExNewline, ExEof,
   ExCancelled, ExData DEF Http!Next, Http!Parse

LEMMA ExFollows ==
    ASSUME ExInv
    PROVE  AnsweredOnce
<1>1. Typed /\ Owned
  BY DEF ExInv
<1>2. rbuf.size >= rbuf.skip + Len(rbuf.data)
  BY <1>1 DEF Typed, Buffers
<1>3. Http!TypeOK
  BY <1>1, <1>2 DEF Typed, Http!TypeOK
<1>4. ~parsing => (treq = "freed" <=> req = "freed")
  BY <1>1 DEF Typed, Owned
<1> QED BY <1>1, <1>3, <1>4 DEF AnsweredOnce, Http!AnsweredOnce, Typed, Owned

\* Whatever the server sends and however it arrives, and also when the callback
\* cancels the request it is called for: nothing is freed twice or overrun, the
\* two parts of a request are gone when the parser has returned, and the tier is
\* told once, not at all if it gave the request up (http_parse, http_cancel of
\* misc/http_client.c, and http_tr_if.c).
THEOREM AnswerCorrect == AnnounceSpec => []AnsweredOnce
<1>1. ExInv /\ [AnnounceNext]_<<stage, vars, httpvars>> => ExInv'
  <2> SUFFICES ASSUME ExInv, [AnnounceNext]_<<stage, vars, httpvars>> PROVE ExInv'
    OBVIOUS
  <2>1. CASE Http!Next
    BY <2>1, ExSteps
  <2>2. CASE UNCHANGED httpvars
    BY <2>2 DEF ExInv, Typed, Owned, httpvars
  <2> QED BY <2>1, <2>2 DEF AnnounceNext
<1> QED BY <1>1, ExStarts, ExFollows, PTL DEF AnnounceSpec

=============================================================================
