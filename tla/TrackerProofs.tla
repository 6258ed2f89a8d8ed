--------------------------- MODULE TrackerProofs ----------------------------
(***************************************************************************)
(* Proofs about Tracker, for any number of tiers and trackers and all      *)
(* delays: no tier falls silent and none is called after it was given up,  *)
(* requests are spaced, and stopping is final.                             *)
(***************************************************************************)
EXTENDS Tracker, SeqFacts

\* One tier: its parts, and the trackers it is made of.
Shape(t, s) ==
    /\ s \in Tier /\ s.timer >= NoTimer
    /\ Range(s.list) = Range(Announce[t]) /\ Len(s.list) = Len(Announce[t])
    /\ s.cur \in Range(s.list)

\* It waits for one thing, and as long as it is active it has somebody to ask.
Pending(s) ==
    /\ s.active => (s.req = "none" <=> s.timer # NoTimer) /\ ~all_failed(s)
    /\ ~s.active => s.req = "none" /\ s.timer = NoTimer

TierOk(t, s) == Shape(t, s) /\ Pending(s)

TiersOk == tier \in [Tiers -> Tier] /\ \A t \in Tiers : TierOk(t, tier[t])

\* What torrent.c has asked for last.
PhaseOk == \A t \in Tiers :
    /\ phase = "created" => ~tier[t].active
    /\ phase = "stopping" /\ tier[t].active => tier[t].event = "stopped"

OthersOk ==
    /\ phase \in {"created", "on", "stopping"}
    /\ recent \in BOOLEAN /\ next \in Nat
    /\ seeding \in BOOLEAN /\ failing = FALSE

\* The inductive invariant.
IInv == OthersOk /\ TiersOk /\ PhaseOk

\* The tiers and their trackers.
LEMMA Given ==
    /\ Len(Announce) \in Nat /\ IsFiniteSet(Tiers) /\ Tiers \subseteq Int
    /\ \A t \in Tiers : /\ Announce[t] \in Seq(Trackers) /\ Len(Announce[t]) \in Nat \ {0}
                        /\ Announce[t][1] \in Range(Announce[t])
<1>1. Len(Announce) \in Nat /\ \A t \in Tiers : Announce[t] \in Seq(Trackers)
  BY TrackerAssumption DEF Tiers
<1>2. IsFiniteSet(Tiers) /\ Tiers \subseteq Int
  BY <1>1, FS_Interval DEF Tiers
<1>3. ASSUME NEW t \in Tiers
      PROVE  Len(Announce[t]) \in Nat \ {0} /\ Announce[t][1] \in Range(Announce[t])
  <2>1. Announce[t] # <<>>
    BY TrackerAssumption
  <2> HIDE DEF Trackers
  <2>2. Len(Announce[t]) \in Nat \ {0} /\ 1 \in 1..Len(Announce[t])
    BY <1>1, <2>1
  <2> QED BY <1>1, <2>2, RangeSeq
<1> QED BY <1>1, <1>2, <1>3

\* Who is first in the list of a tier.
LEMMA First ==
    ASSUME NEW t \in Tiers, NEW s, Shape(t, s)
    PROVE  s.list[1] \in Range(s.list) /\ Range(s.list) # {}
<1>1. s.list \in Seq(Trackers) /\ Len(s.list) \in Nat \ {0}
  BY Given DEF Shape, Tier
<1> QED BY <1>1, RangeSeq

\* A tier with a tracker left finds one.
LEMMA Nonfailed ==
    ASSUME NEW t \in Tiers, NEW s, Shape(t, s), ~all_failed(s)
    PROVE  first_nonfailed(s) \in Range(s.list)
<1> DEFINE T == {i \in 1..Len(s.list) : s.list[i] \notin s.failed}
           P(i) == /\ s.list[i] \notin s.failed
                   /\ \A j \in 1..(i - 1) : s.list[j] \in s.failed
<1>1. s.list \in Seq(Trackers) /\ Len(s.list) \in Nat
  BY DEF Shape, Tier
<1>2. Range(s.list) = {s.list[i] : i \in 1..Len(s.list)}
  BY <1>1, RangeSeq
<1>3. T # {} /\ T \in SUBSET Nat
  BY <1>1, <1>2 DEF all_failed
<1>4. PICK m \in T : \A k \in T : m <= k
  <2> HIDE DEF T
  <2> QED BY <1>3, LeastElement
<1>5. m \in 1..Len(s.list) /\ P(m)
  BY <1>1, <1>4
<1>6. (CHOOSE i \in 1..Len(s.list) : P(i)) \in 1..Len(s.list)
  BY <1>5
<1> QED BY <1>2, <1>6 DEF first_nonfailed

\* Sending.
LEMMA SentOk ==
    ASSUME NEW t \in Tiers, NEW s, Shape(t, s), s.active, ~all_failed(s),
           NEW e \in Range(s.list), NEW ev \in Events
    PROVE  LET q == Sent(s, e, ev) IN
           TierOk(t, q) /\ q.active = s.active /\ q.event = ev
<1> DEFINE q == Sent(s, e, ev)
<1>1. s \in Tier /\ e \in Trackers /\ NoTimer \in Int
  BY RangeSeq DEF Shape, Tier, NoTimer
<1>2. /\ q.event = ev /\ q.cur = e /\ q.req = "connect" /\ q.timer = NoTimer
      /\ q.active = s.active /\ q.list = s.list /\ q.failed = s.failed
  BY <1>1 DEF Tier, Sent
<1>3. q \in Tier
  BY <1>1 DEF Tier, Sent
<1> HIDE DEF q
<1> QED BY <1>1, <1>2, <1>3 DEF TierOk, Shape, Pending, all_failed, q

\* Putting off.
LEMMA DelayedOk ==
    ASSUME NEW t \in Tiers, NEW s, Shape(t, s), s.active, ~all_failed(s),
           NEW e \in Range(s.list), NEW ev \in Events, NEW d \in Nat
    PROVE  LET q == Delayed(s, e, ev, d) IN
           TierOk(t, q) /\ q.active = s.active /\ q.event = ev /\ q.req = "none"
<1> DEFINE q == Delayed(s, e, ev, d)
<1>1. s \in Tier /\ e \in Trackers /\ d \in Int
  BY RangeSeq DEF Shape, Tier
<1>2. /\ q.event = ev /\ q.cur = e /\ q.req = "none" /\ q.timer = d
      /\ q.active = s.active /\ q.list = s.list /\ q.failed = s.failed
  BY <1>1 DEF Tier, Delayed
<1>3. q \in Tier
  BY <1>1 DEF Tier, Delayed
<1>4. d >= NoTimer /\ d # NoTimer
  BY DEF NoTimer
<1> HIDE DEF q
<1> QED BY <1>1, <1>2, <1>3, <1>4 DEF TierOk, Shape, Pending, all_failed, q

------------------------------------------------------------------------------
(* Several tiers at once *)

\* Of the tiers that call entry_send at most one is not queued, and none when a
\* request was sent in this second.
LEMMA QueuedOk ==
    ASSUME OthersOk, NEW ts \in SUBSET Tiers
    PROVE  /\ Queued(ts) \subseteq ts /\ Cardinality(Queued(ts)) \in Nat
           /\ \A t \in Tiers : Place(t, ts) \in Nat
           /\ \E m : \A t \in ts \ Queued(ts) : t = m /\ ~recent
<1>1. Queued(ts) \subseteq ts /\ IsFiniteSet(Queued(ts))
  BY Given, FS_Subset DEF Queued
<1>2. \A t \in Tiers : IsFiniteSet({o \in Queued(ts) : o <= t})
  BY <1>1, FS_Subset
<1>3. next \in Nat
  BY DEF OthersOk
<1>4. \A t \in Tiers : Place(t, ts) \in Nat
  BY <1>2, <1>3, FS_CardinalityType DEF Place
<1>5. \A t, o \in ts \ Queued(ts) : t = o /\ ~recent
  BY Given DEF Queued
<1>6. \E m : \A t \in ts \ Queued(ts) : t = m /\ ~recent
  BY <1>5
<1> QED BY <1>1, <1>4, <1>6, FS_CardinalityType

\* A tier that is not changed, or has no connection, is not sending.
LEMMA Silent ==
    ASSUME NEW t \in Tiers, tier'[t] = tier[t] \/ tier'[t].req # "connect"
    PROVE  ~Requests(t)
BY DEF Requests

\* The step of Spaced and of StopIsFinal.
SpacedStep == Cardinality({t \in Tiers : Requests(t)}) <= IF recent THEN 0 ELSE 1
FinalStep == \A t \in Tiers :
    phase = "stopping" /\ phase' = "stopping" =>
        (tier'[t].active => tier[t].active /\ tier'[t].event = "stopped")

\* One tier at most sends.
LEMMA SpacedByOne ==
    ASSUME OthersOk, NEW m, \A t \in Tiers : Requests(t) => t = m /\ ~recent
    PROVE  SpacedStep
<1> DEFINE R == {t \in Tiers : Requests(t)}
<1>1. CASE R = {}
  <2>1. Cardinality(R) = 0
    BY <1>1, FS_EmptySet
  <2> HIDE DEF R
  <2>2. Cardinality(R) <= IF recent THEN 0 ELSE 1
    BY <2>1
  <2> QED BY <2>2 DEF SpacedStep, R
<1>2. CASE R # {}
  <2>1. R = {m} /\ ~recent
    BY <1>2
  <2>2. Cardinality(R) = 1
    BY <2>1, FS_Singleton
  <2> HIDE DEF R
  <2>3. Cardinality(R) <= IF recent THEN 0 ELSE 1
    BY <2>1, <2>2
  <2> QED BY <2>3 DEF SpacedStep, R
<1> QED BY <1>1, <1>2

\* What every step keeps.
Kept == IInv' /\ SpacedStep /\ FinalStep

\* The tiers ts send or are queued with the event ev; s is what they are made
\* ready as, e the tracker that they turn to; the others do not send.
LEMMA ManySend ==
    ASSUME IInv, NEW ts \in SUBSET Tiers, NEW ev \in Events, NEW S, NEW E,
           \A t \in ts : /\ Shape(t, S[t]) /\ S[t].active /\ ~all_failed(S[t])
                         /\ E[t] \in Range(S[t].list),
           \A t \in Tiers \ ts : /\ TierOk(t, tier'[t])
                                 /\ tier'[t] = tier[t] \/ tier'[t].req # "connect",
           DOMAIN tier' = Tiers, tier' = [t \in Tiers |-> tier'[t]],
           \A t \in ts : tier'[t] = IF t \in Queued(ts)
                                    THEN Delayed(S[t], E[t], ev, Place(t, ts))
                                    ELSE Sent(S[t], E[t], ev)
    PROVE  /\ TiersOk' /\ SpacedStep
           /\ \A t \in ts : tier'[t].active /\ tier'[t].event = ev
<1>1. /\ Queued(ts) \subseteq ts /\ \A t \in Tiers : Place(t, ts) \in Nat
      /\ \E m : \A t \in ts \ Queued(ts) : t = m /\ ~recent
  BY QueuedOk DEF IInv
<1>2. ASSUME NEW t \in ts
      PROVE  /\ TierOk(t, tier'[t]) /\ tier'[t].active /\ tier'[t].event = ev
             /\ t \in Queued(ts) => tier'[t].req = "none"
  <2>1. t \in Tiers /\ Place(t, ts) \in Nat
    BY <1>1
  <2>2. CASE t \in Queued(ts)
    <3>1. tier'[t] = Delayed(S[t], E[t], ev, Place(t, ts))
      BY <2>2
    <3> QED BY <2>1, <2>2, <3>1, DelayedOk
  <2>3. CASE t \notin Queued(ts)
    <3>1. tier'[t] = Sent(S[t], E[t], ev)
      BY <2>3
    <3> QED BY <2>1, <2>3, <3>1, SentOk
  <2> QED BY <2>2, <2>3
<1>3. \A t \in Tiers : TierOk(t, tier'[t])
  BY <1>2
<1>4. TiersOk'
  <2>1. \A t \in Tiers : tier'[t] \in Tier
    BY <1>3 DEF TierOk, Shape
  <2>2. tier' \in [Tiers -> Tier]
    BY <2>1
  <2>3. \A t \in Tiers : TierOk(t, tier[t])'
    BY <1>3 DEF TierOk, Shape, Pending, all_failed
  <2> QED BY <2>2, <2>3 DEF TiersOk
<1>5. PICK m : \A t \in ts \ Queued(ts) : t = m /\ ~recent
  BY <1>1
<1>6. \A t \in Tiers : Requests(t) => t \in ts \ Queued(ts)
  BY <1>2, Silent
<1>7. SpacedStep
  BY <1>5, <1>6, SpacedByOne DEF IInv
<1> QED BY <1>2, <1>4, <1>7

------------------------------------------------------------------------------
(* Calls from torrent.c *)

\* Starting.
LEMMA StepStart == ASSUME IInv, tr_start PROVE Kept
<1> DEFINE fresh(t) == [tier[t] EXCEPT !.failed = {}, !.has_responded = FALSE,
                                       !.bad_conns = 0, !.active = TRUE]
           S == [t \in Tiers |-> fresh(t)]
           E == [t \in Tiers |-> tier[t].list[1]]
<1>1. /\ phase = "created" /\ phase' = "on" /\ UNCHANGED seeding
      /\ failing' = \E t \in Tiers : tier[t].active /\ tier[t].event # "stopped"
      /\ next' = next + Cardinality(Queued(Tiers)) /\ recent' = TRUE
      /\ tier' = [t \in Tiers |->
                    IF t \in Queued(Tiers)
                    THEN Delayed(fresh(t), E[t], "started", Place(t, Tiers))
                    ELSE Sent(fresh(t), E[t], "started")]
  BY DEF tr_start
<1>2. ASSUME NEW t \in Tiers
      PROVE  /\ Shape(t, S[t]) /\ S[t].active /\ ~all_failed(S[t])
             /\ E[t] \in Range(S[t].list)
  <2> DEFINE q == fresh(t)
  <2>1. Shape(t, tier[t]) /\ tier[t] \in Tier /\ 0 \in 0..Cap
    BY DEF IInv, TiersOk, TierOk, Shape, Cap
  <2>2. /\ q.failed = {} /\ q.active = TRUE /\ q.list = tier[t].list /\ q.cur = tier[t].cur
        /\ q.timer = tier[t].timer
    BY <2>1 DEF Tier
  <2>3. q \in Tier
    BY <2>1 DEF Tier
  <2>4. S[t] = q /\ E[t] = tier[t].list[1]
    OBVIOUS
  <2> HIDE DEF q, S, E
  <2>5. Shape(t, q)
    BY <2>1, <2>2, <2>3 DEF Shape
  <2> QED BY <2>1, <2>2, <2>4, <2>5, First DEF all_failed
<1>3. \A t \in Tiers : S[t] = fresh(t)
  OBVIOUS
<1> HIDE DEF S, E, fresh
<1>4. /\ DOMAIN tier' = Tiers /\ tier' = [t \in Tiers |-> tier'[t]]
      /\ \A t \in Tiers : tier'[t] = IF t \in Queued(Tiers)
                                     THEN Delayed(S[t], E[t], "started", Place(t, Tiers))
                                     ELSE Sent(S[t], E[t], "started")
  BY <1>1, <1>3
<1>5. /\ TiersOk' /\ SpacedStep
      /\ \A t \in Tiers : tier'[t].active /\ tier'[t].event = "started"
  BY <1>2, <1>4, ManySend DEF Events
<1>6. OthersOk'
  <2>1. failing' = FALSE
    BY <1>1 DEF IInv, PhaseOk
  <2>2. Cardinality(Queued(Tiers)) \in Nat
    BY QueuedOk DEF IInv
  <2> QED BY <1>1, <2>1, <2>2 DEF IInv, OthersOk
<1> QED BY <1>1, <1>5, <1>6 DEF Kept, IInv, PhaseOk, FinalStep

\* Stopping.
LEMMA StepStop == ASSUME IInv, tr_stop PROVE Kept
<1> DEFINE ts == {t \in Tiers : tier[t].active /\ tier[t].event # "stopped"}
           drop == {t \in ts : GivesUp(tier[t])}
           tell == ts \ drop
           dropped(t) == [tier[t] EXCEPT !.active = FALSE, !.req = "none",
                                         !.timer = NoTimer]
           E == [t \in Tiers |-> first_nonfailed(tier[t])]
<1>1. \A t \in Tiers : TierOk(t, tier[t]) /\ Shape(t, tier[t]) /\ tier[t] \in Tier
  BY DEF IInv, TiersOk, TierOk, Shape
<1>2. ~(\E t \in tell : all_failed(tier[t]))
  BY <1>1 DEF TierOk, Pending
<1>3. /\ phase = "on" /\ phase' = "stopping" /\ UNCHANGED <<seeding, failing>>
      /\ next' = next + Cardinality(Queued(tell)) /\ recent' = (recent \/ tell # {})
      /\ tier' = [t \in Tiers |->
            IF t \in drop THEN dropped(t)
            ELSE IF t \notin tell THEN tier[t]
            ELSE IF t \in Queued(tell)
            THEN Delayed(tier[t], first_nonfailed(tier[t]), "stopped", Place(t, tell))
            ELSE Sent(tier[t], first_nonfailed(tier[t]), "stopped")]
  BY <1>2 DEF tr_stop
<1>4. ASSUME NEW t \in drop
      PROVE  /\ TierOk(t, dropped(t)) /\ dropped(t).req # "connect" /\ ~dropped(t).active
  <2> DEFINE q == dropped(t)
  <2>1. t \in Tiers /\ Shape(t, tier[t]) /\ tier[t] \in Tier /\ NoTimer \in Int
    BY <1>1 DEF NoTimer
  <2>2. /\ q.active = FALSE /\ q.req = "none" /\ q.timer = NoTimer /\ q.list = tier[t].list
        /\ q.cur = tier[t].cur /\ q.failed = tier[t].failed
    BY <2>1 DEF Tier
  <2>3. q \in Tier
    BY <2>1 DEF Tier
  <2> HIDE DEF q
  <2>4. NoTimer >= NoTimer
    BY <2>1
  <2> QED BY <2>1, <2>2, <2>3, <2>4 DEF TierOk, Shape, Pending, q
<1>5. \A t \in tell : /\ tier[t].active /\ ~all_failed(tier[t])
                      /\ E[t] \in Range(tier[t].list) /\ E[t] = first_nonfailed(tier[t])
  BY <1>1, <1>2, Nonfailed
<1>6. /\ tell \in SUBSET Tiers /\ drop \intersect tell = {}
      /\ \A t \in Tiers : t \notin drop \union tell =>
            (tier[t].active => tier[t].event = "stopped")
  OBVIOUS
<1> HIDE DEF drop, ts, tell, E, dropped
<1>7. /\ DOMAIN tier' = Tiers /\ tier' = [t \in Tiers |-> tier'[t]]
      /\ \A t \in tell : tier'[t] = IF t \in Queued(tell)
                                    THEN Delayed(tier[t], E[t], "stopped", Place(t, tell))
                                    ELSE Sent(tier[t], E[t], "stopped")
      /\ \A t \in Tiers : t \in drop => tier'[t] = dropped(t)
      /\ \A t \in Tiers : t \notin drop \union tell => tier'[t] = tier[t]
  BY <1>3, <1>5, <1>6
<1>8. \A t \in Tiers \ tell : /\ TierOk(t, tier'[t])
                              /\ tier'[t] = tier[t] \/ tier'[t].req # "connect"
                              /\ tier'[t].active => tier'[t].event = "stopped"
  BY <1>1, <1>4, <1>6, <1>7
<1>9. /\ TiersOk' /\ SpacedStep
      /\ \A t \in tell : tier'[t].active /\ tier'[t].event = "stopped"
  BY <1>1, <1>5, <1>6, <1>7, <1>8, ManySend DEF Events
<1>10. OthersOk'
  <2>1. Cardinality(Queued(tell)) \in Nat
    BY <1>6, QueuedOk DEF IInv
  <2>2. (recent \/ tell # {}) \in BOOLEAN
    BY DEF IInv, OthersOk
  <2> QED BY <1>3, <2>1, <2>2 DEF IInv, OthersOk
<1> QED BY <1>3, <1>8, <1>9, <1>10 DEF Kept, IInv, PhaseOk, FinalStep

\* entry_send for some active tiers.
LEMMA EntrySends ==
    ASSUME IInv, NEW ts \in SUBSET Tiers, NEW e, NEW ev \in Events,
           \A t \in ts : tier[t].active /\ e[t] \in Range(tier[t].list),
           entry_sends(ts, e, ev)
    PROVE  /\ TiersOk' /\ SpacedStep /\ next' \in Nat /\ recent' \in BOOLEAN
           /\ \A t \in ts : tier'[t].active /\ tier'[t].event = ev
           /\ \A t \in Tiers \ ts : tier'[t] = tier[t]
<1>1. /\ DOMAIN tier' = Tiers /\ tier' = [t \in Tiers |-> tier'[t]]
      /\ \A t \in ts : tier'[t] = IF t \in Queued(ts)
                                  THEN Delayed(tier[t], e[t], ev, Place(t, ts))
                                  ELSE Sent(tier[t], e[t], ev)
      /\ \A t \in Tiers \ ts : tier'[t] = tier[t]
      /\ next' = next + Cardinality(Queued(ts)) /\ recent' = (recent \/ ts # {})
  BY DEF entry_sends
<1>2. \A t \in Tiers : TierOk(t, tier[t])
  BY DEF IInv, TiersOk
<1>3. \A t \in ts : Shape(t, tier[t]) /\ ~all_failed(tier[t])
  BY <1>2 DEF TierOk, Pending
<1>4. /\ TiersOk' /\ SpacedStep
      /\ \A t \in ts : tier'[t].active /\ tier'[t].event = ev
  BY <1>1, <1>2, <1>3, ManySend
<1>5. Cardinality(Queued(ts)) \in Nat /\ (recent \/ ts # {}) \in BOOLEAN
  BY QueuedOk DEF IInv, OthersOk
<1> QED BY <1>1, <1>4, <1>5 DEF IInv, OthersOk

\* The download is complete.
LEMMA StepComplete == ASSUME IInv, tr_complete PROVE Kept
<1> DEFINE ts == {t \in Tiers : tier[t].active /\ tier[t].event = "empty"}
           e == [t \in Tiers |-> tier[t].list[1]]
<1>1. /\ entry_sends(ts, e, "completed") /\ seeding' = TRUE
      /\ phase = "on" /\ UNCHANGED <<phase, failing>>
  BY DEF tr_complete
<1>2. \A t \in ts : tier[t].active /\ e[t] \in Range(tier[t].list)
  BY First DEF IInv, TiersOk, TierOk
<1>3. ts \in SUBSET Tiers
  OBVIOUS
<1> HIDE DEF ts, e
<1>4. TiersOk' /\ SpacedStep /\ next' \in Nat /\ recent' \in BOOLEAN
  BY <1>1, <1>2, <1>3, EntrySends DEF Events
<1> QED BY <1>1, <1>4 DEF Kept, IInv, OthersOk, PhaseOk, FinalStep

\* A tier as it is made.
LEMMA Created ==
    ASSUME NEW t \in Tiers
    PROVE  LET q == tier_create(t) IN TierOk(t, q) /\ ~q.active /\ q.req = "none"
<1> DEFINE q == tier_create(t)
<1>1. /\ Announce[t] \in Seq(Trackers) /\ Announce[t][1] \in Range(Announce[t])
      /\ Announce[t][1] \in Trackers
  BY Given, RangeSeq
<1>2. NoTimer \in Int /\ 0 \in 0..Cap /\ NoTimer >= NoTimer
  BY DEF NoTimer, Cap
<1>3. q \in Tier
  BY <1>1, <1>2 DEF Tier, tier_create, Events
<1>4. /\ q.active = FALSE /\ q.req = "none" /\ q.timer = NoTimer /\ q.list = Announce[t]
      /\ q.cur = Announce[t][1]
  BY DEF tier_create
<1> HIDE DEF q
<1> QED BY <1>1, <1>2, <1>3, <1>4 DEF TierOk, Shape, Pending, q

\* The torrent is released.
LEMMA StepKill == ASSUME IInv, tr_kill PROVE Kept
<1>1. /\ tier' = [t \in Tiers |-> tier_create(t)] /\ phase' = "created"
      /\ seeding' = FALSE /\ UNCHANGED <<recent, next, failing>>
  BY DEF tr_kill
<1>2. \A t \in Tiers : /\ tier'[t] = tier_create(t) /\ TierOk(t, tier'[t])
                       /\ ~tier'[t].active /\ tier'[t].req # "connect"
  BY <1>1, Created
<1>3. tier' \in [Tiers -> Tier]
  BY <1>1, <1>2 DEF TierOk, Shape
<1>4. TiersOk'
  BY <1>2, <1>3 DEF TiersOk, TierOk, Shape, Pending, all_failed
<1>5. SpacedStep
  BY <1>2, SpacedByOne, Silent DEF IInv
<1> QED BY <1>1, <1>2, <1>4, <1>5 DEF Kept, IInv, OthersOk, PhaseOk, FinalStep

------------------------------------------------------------------------------
(* Callbacks *)

\* The timer of a tier.
LEMMA StepTimer ==
    ASSUME IInv, NEW t \in Tiers, tier_timer_cb(t) PROVE Kept
<1> DEFINE e == [o \in Tiers |-> first_nonfailed(tier[t])]
<1>1. TierOk(t, tier[t]) /\ tier[t] \in Tier
  BY DEF IInv, TiersOk
<1>2. tier[t].timer = 0 /\ UNCHANGED <<phase, seeding>>
  BY DEF tier_timer_cb
<1>3. tier[t].active /\ ~all_failed(tier[t])
  BY <1>1, <1>2 DEF TierOk, Pending, NoTimer
<1>4. entry_sends({t}, e, tier[t].event) /\ UNCHANGED failing
  BY <1>3 DEF tier_timer_cb
<1>5. e[t] \in Range(tier[t].list) /\ tier[t].event \in Events
  BY <1>1, <1>3, Nonfailed DEF TierOk, Tier
<1> HIDE DEF e
<1>6. /\ TiersOk' /\ SpacedStep /\ next' \in Nat /\ recent' \in BOOLEAN
      /\ tier'[t].event = tier[t].event
      /\ \A o \in Tiers \ {t} : tier'[o] = tier[o]
  <2>1. {t} \in SUBSET Tiers /\ \A o \in {t} : tier[o].active /\ e[o] \in Range(tier[o].list)
    BY <1>3, <1>5
  <2> QED BY <1>4, <1>5, <2>1, EntrySends
<1> QED BY <1>2, <1>3, <1>4, <1>6 DEF Kept, IInv, OthersOk, PhaseOk, FinalStep

\* A step that changes one tier, which does not begin to be active.
LEMMA OneTier ==
    ASSUME IInv, NEW t \in Tiers, NEW q, tier' = [tier EXCEPT ![t] = q],
           TierOk(t, q), q.active => (tier[t].active /\ q.event = tier[t].event) \/ phase # "stopping",
           q.active => phase # "created", Requests(t) => ~recent,
           next' \in Nat, recent' \in BOOLEAN, UNCHANGED <<phase, seeding, failing>>
    PROVE  Kept
<1>1. /\ tier \in [Tiers -> Tier] /\ q \in Tier
      /\ \A o \in Tiers : TierOk(o, tier[o])
  BY DEF IInv, TiersOk, TierOk, Shape
<1>2. tier' \in [Tiers -> Tier] /\ tier'[t] = q /\ \A o \in Tiers : o # t => tier'[o] = tier[o]
  BY <1>1
<1>3. TiersOk'
  BY <1>1, <1>2 DEF TiersOk, TierOk, Shape, Pending, all_failed
<1>4. SpacedStep
  BY <1>2, Silent, SpacedByOne DEF IInv
<1>5. PhaseOk' /\ FinalStep
  BY <1>2 DEF IInv, PhaseOk, FinalStep
<1> QED BY <1>3, <1>4, <1>5 DEF Kept, IInv, OthersOk

\* A tier whose request has ended.
LEMMA DoneOk ==
    ASSUME IInv, NEW t \in Tiers, tier[t].req # "none"
    PROVE  LET s == Done(t) IN
           /\ Shape(t, s) /\ s.active /\ tier[t].active /\ s.req = "none" /\ s.timer = NoTimer
           /\ ~all_failed(s) /\ s.event = tier[t].event /\ s.cur = tier[t].cur
           /\ s.list = tier[t].list /\ s.failed = tier[t].failed
<1> DEFINE s == Done(t)
<1>1. TierOk(t, tier[t]) /\ tier[t] \in Tier
  BY DEF IInv, TiersOk
<1>2. tier[t].active /\ tier[t].timer = NoTimer /\ ~all_failed(tier[t])
  BY <1>1 DEF TierOk, Pending
<1>3. /\ s.req = "none" /\ s.active = tier[t].active /\ s.event = tier[t].event
      /\ s.timer = tier[t].timer /\ s.list = tier[t].list /\ s.cur = tier[t].cur
      /\ s.failed = tier[t].failed
  BY <1>1 DEF Done, Tier
<1>4. s \in Tier
  BY <1>1 DEF Done, Tier
<1> HIDE DEF s
<1> QED BY <1>1, <1>2, <1>3, <1>4 DEF TierOk, Shape, all_failed, s

\* Trying the next tracker, the whole tier again, or giving up.
LEMMA ConnOk ==
    ASSUME IInv, NEW t \in Tiers, NEW s, Shape(t, s), s.active, tier[t].active,
           s.req = "none", s.timer = NoTimer, ~all_failed(s), s.event = tier[t].event,
           result_conn(t, s), UNCHANGED <<phase, seeding, failing>>
    PROVE  Kept
<1> DEFINE bad == IF s.bad_conns = Cap THEN Cap ELSE s.bad_conns + 1
           r == [s EXCEPT !.bad_conns = bad]
           send(q, e) ==
            /\ tier' = [tier EXCEPT ![t] =
                  IF recent THEN Delayed(q, e, q.event, next + 1)
                  ELSE Sent(q, e, q.event)]
            /\ next' = IF recent THEN next + 1 ELSE next
            /\ recent' = TRUE
           keep(q) == tier' = [tier EXCEPT ![t] = q] /\ UNCHANGED <<next, recent>>
<1>1. \/ Later(s) # {} /\ send(s, s.list[Min(Later(s))])
      \/ keep([r EXCEPT !.active = FALSE])
      \/ send(r, s.list[1])
      \/ keep([r EXCEPT !.timer = Delay])
  BY DEF result_conn
<1>2. s \in Tier /\ phase # "created" /\ next \in Nat /\ recent \in BOOLEAN
      /\ s.event \in Events
  BY DEF Shape, IInv, PhaseOk, OthersOk, Tier
<1>3. bad \in 0..Cap
  BY <1>2 DEF Tier, Cap
<1> HIDE DEF bad
<1>4. /\ r.active = s.active /\ r.req = s.req /\ r.timer = s.timer /\ r.event = s.event
      /\ r.list = s.list /\ r.cur = s.cur /\ r.failed = s.failed
  BY <1>2 DEF Tier
<1>5. r \in Tier
  BY <1>2, <1>3 DEF Tier
<1> HIDE DEF r
<1>6. Shape(t, r) /\ ~all_failed(r)
  BY <1>4, <1>5 DEF Shape, all_failed
<1>7. ASSUME NEW q, Shape(t, q), q.active, ~all_failed(q), q.event = s.event,
             NEW e \in Range(q.list), send(q, e)
      PROVE  Kept
  <2> DEFINE x == IF recent THEN Delayed(q, e, q.event, next + 1) ELSE Sent(q, e, q.event)
  <2>1. /\ tier' = [tier EXCEPT ![t] = x] /\ recent' = TRUE
        /\ next' = IF recent THEN next + 1 ELSE next
    BY <1>7
  <2>2. /\ TierOk(t, x) /\ x.event = s.event /\ (recent => x.req = "none")
    <3>1. q.event \in Events /\ next + 1 \in Nat
      BY <1>2, <1>7
    <3>2. CASE recent
      BY <1>7, <3>1, <3>2, DelayedOk
    <3>3. CASE ~recent
      BY <1>7, <3>1, <3>3, SentOk
    <3> QED BY <3>2, <3>3
  <2> HIDE DEF x
  <2>3. tier'[t] = x
    BY <2>1 DEF IInv, TiersOk
  <2>4. Requests(t) => ~recent
    BY <2>2, <2>3 DEF Requests
  <2>5. next' \in Nat /\ recent' \in BOOLEAN
    BY <1>2, <2>1
  <2> QED BY <1>2, <2>1, <2>2, <2>4, <2>5, OneTier
<1>8. ASSUME NEW q, TierOk(t, q), q.req = "none", q.event = s.event, keep(q)
      PROVE  Kept
  <2>1. tier' = [tier EXCEPT ![t] = q] /\ UNCHANGED <<next, recent>>
    BY <1>8
  <2>2. tier'[t] = q
    BY <2>1 DEF IInv, TiersOk
  <2>3. ~Requests(t)
    BY <1>8, <2>2 DEF Requests
  <2> QED BY <1>2, <1>8, <2>1, <2>3, OneTier
<1>9. CASE Later(s) # {} /\ send(s, s.list[Min(Later(s))])
  <2>1. s.list \in Seq(Trackers) /\ Range(s.list) = {s.list[i] : i \in 1..Len(s.list)}
    BY <1>2, RangeSeq DEF Tier
  <2>2. Later(s) \subseteq 1..Len(s.list) /\ Later(s) \in SUBSET Nat
    BY <2>1 DEF Later
  <2>3. PICK m \in Later(s) : \A k \in Later(s) : m <= k
    BY <1>9, <2>2, LeastElement
  <2>4. Min(Later(s)) \in Later(s)
    BY <2>3 DEF Min
  <2>5. s.list[Min(Later(s))] \in Range(s.list)
    BY <2>1, <2>2, <2>4
  <2> HIDE DEF send
  <2> QED BY <1>7, <1>9, <2>5
<1>10. CASE send(r, s.list[1])
  <2>1. s.list[1] \in Range(r.list)
    BY <1>4, First
  <2> HIDE DEF send
  <2> QED BY <1>4, <1>6, <1>7, <1>10, <2>1
<1>11. CASE keep([r EXCEPT !.active = FALSE])
  <2> DEFINE q == [r EXCEPT !.active = FALSE]
  <2>1. /\ q.active = FALSE /\ q.req = r.req /\ q.timer = r.timer /\ q.event = r.event
        /\ q.list = r.list /\ q.cur = r.cur
    BY <1>5 DEF Tier
  <2>2. q \in Tier
    BY <1>5 DEF Tier
  <2>3. keep(q)
    BY <1>11
  <2> HIDE DEF q, keep
  <2>4. TierOk(t, q)
    BY <1>4, <1>6, <2>1, <2>2 DEF TierOk, Shape, Pending
  <2> QED BY <1>4, <1>8, <2>1, <2>3, <2>4
<1>12. CASE keep([r EXCEPT !.timer = Delay])
  <2> DEFINE q == [r EXCEPT !.timer = Delay]
  <2>1. Delay \in Int /\ Delay >= NoTimer /\ Delay # NoTimer
    BY TrackerAssumption DEF NoTimer
  <2>2. /\ q.active = r.active /\ q.req = r.req /\ q.timer = Delay /\ q.event = r.event
        /\ q.list = r.list /\ q.cur = r.cur /\ q.failed = r.failed
    BY <1>5 DEF Tier
  <2>3. q \in Tier
    BY <1>5, <2>1 DEF Tier
  <2>4. keep(q)
    BY <1>12
  <2> HIDE DEF q, keep
  <2>5. TierOk(t, q)
    BY <1>4, <1>6, <2>1, <2>2, <2>3 DEF TierOk, Shape, Pending, all_failed
  <2> QED BY <1>4, <1>8, <2>2, <2>4, <2>5
<1> HIDE DEF send, keep
<1> QED BY <1>1, <1>9, <1>10, <1>11, <1>12

\* The connection fails, or nothing comes.
LEMMA StepLost ==
    ASSUME IInv, NEW t \in Tiers, conn_lost(t) PROVE Kept
<1>1. tier[t].req # "none" /\ result_conn(t, Done(t)) /\ UNCHANGED <<phase, seeding, failing>>
  BY DEF conn_lost
<1> QED BY <1>1, DoneOk, ConnOk

\* The connection is made.
LEMMA StepConnected ==
    ASSUME IInv, NEW t \in Tiers, httptr_nc_cb(t) PROVE Kept
<1> DEFINE q == [tier[t] EXCEPT !.req = "talk"]
<1>1. TierOk(t, tier[t]) /\ tier[t] \in Tier /\ tier \in [Tiers -> Tier]
  BY DEF IInv, TiersOk
<1>2. /\ tier[t].req = "connect" /\ tier' = [tier EXCEPT ![t] = q]
      /\ UNCHANGED <<phase, recent, next, seeding, failing>>
  BY DEF httptr_nc_cb
<1>3. /\ q.req = "talk" /\ q.active = tier[t].active /\ q.event = tier[t].event
      /\ q.timer = tier[t].timer /\ q.list = tier[t].list /\ q.cur = tier[t].cur
      /\ q.failed = tier[t].failed
  BY <1>1 DEF Tier
<1>4. q \in Tier
  BY <1>1 DEF Tier
<1> HIDE DEF q
<1>5. TierOk(t, q)
  BY <1>1, <1>2, <1>3, <1>4 DEF TierOk, Shape, Pending, all_failed
<1>6. tier'[t] = q
  BY <1>1, <1>2
<1>7. ~Requests(t)
  BY <1>3, <1>6 DEF Requests
<1>8. next' \in Nat /\ recent' \in BOOLEAN /\ (q.active => phase # "created")
  BY <1>2, <1>3 DEF IInv, OthersOk, PhaseOk
<1> QED BY <1>2, <1>3, <1>5, <1>7, <1>8, OneTier

\* The tracker answers.
LEMMA StepAnswer ==
    ASSUME IInv, NEW t \in Tiers, http_cb(t) PROVE Kept
<1> DEFINE s == Done(t)
<1>1. tier[t].req = "talk" /\ UNCHANGED <<phase, seeding, failing>>
      /\ (result_ok(t) \/ result_fail(t))
  BY DEF http_cb
<1>2. /\ Shape(t, s) /\ s.active /\ tier[t].active /\ s.req = "none" /\ s.timer = NoTimer
      /\ ~all_failed(s) /\ s.event = tier[t].event /\ s.cur = tier[t].cur
      /\ s.list = tier[t].list /\ s.failed = tier[t].failed
  BY <1>1, DoneOk
<1>3. s \in Tier /\ phase # "created" /\ next \in Nat /\ recent \in BOOLEAN
  BY <1>2 DEF Shape, IInv, PhaseOk, OthersOk
<1>4. s = Done(t)
  OBVIOUS
<1> HIDE DEF s
<1>5. ASSUME NEW q, TierOk(t, q), q.req = "none",
             q.active => q.event = tier[t].event \/ phase # "stopping",
             tier' = [tier EXCEPT ![t] = q], UNCHANGED <<next, recent>>
      PROVE  Kept
  <2>1. tier'[t] = q
    BY <1>5 DEF IInv, TiersOk
  <2>2. ~Requests(t)
    BY <1>5, <2>1 DEF Requests
  <2> QED BY <1>1, <1>2, <1>3, <1>5, <2>2, OneTier
<1>6. CASE result_ok(t)
  <2> DEFINE u == cur_first(tier[t])
             v == Answered(t)
  <2>1. u \in Seq(Trackers) /\ Range(u) = Range(s.list) /\ Len(u) = Len(s.list)
    <3>1. s.list \in Seq(Trackers) /\ s.cur \in Range(s.list)
      BY <1>2, <1>3 DEF Tier, Shape
    <3> QED BY <1>2, <3>1, MoveFirst DEF cur_first
  <2> HIDE DEF u
  <2>2. v = [s EXCEPT !.bad_conns = 0, !.has_responded = TRUE, !.list = u]
    BY <1>4 DEF Answered, u
  <2> HIDE DEF v
  <2>3. /\ v.active = s.active /\ v.req = s.req /\ v.timer = s.timer /\ v.event = s.event
        /\ v.list = u /\ v.cur = s.cur /\ v.failed = s.failed
    BY <1>3, <2>2 DEF Tier
  <2>4. v \in Tier
    <3>1. 0 \in 0..Cap
      BY DEF Cap
    <3> QED BY <1>3, <2>1, <2>2, <3>1 DEF Tier
  <2>5. Shape(t, v) /\ ~all_failed(v)
    BY <1>2, <2>1, <2>3, <2>4 DEF Shape, all_failed
  <2>6. CASE tier[t].event = "stopped"
    <3> DEFINE q == [v EXCEPT !.active = FALSE]
    <3>1. tier' = [tier EXCEPT ![t] = q] /\ UNCHANGED <<next, recent>>
      BY <1>6, <2>6 DEF result_ok, v
    <3>2. /\ q.active = FALSE /\ q.req = v.req /\ q.timer = v.timer /\ q.list = v.list
          /\ q.cur = v.cur
      BY <2>4 DEF Tier
    <3>3. q \in Tier
      BY <2>4 DEF Tier
    <3> HIDE DEF q
    <3>4. TierOk(t, q)
      BY <1>2, <2>3, <2>5, <3>2, <3>3 DEF TierOk, Shape, Pending
    <3> QED BY <1>2, <1>5, <2>3, <3>1, <3>2, <3>4
  <2>7. CASE tier[t].event # "stopped"
    <3> DEFINE q == [v EXCEPT !.event = "empty", !.timer = Delay]
    <3>1. tier' = [tier EXCEPT ![t] = q] /\ UNCHANGED <<next, recent>>
      BY <1>6, <2>7 DEF result_ok, v
    <3>2. Delay \in Int /\ Delay >= NoTimer /\ Delay # NoTimer /\ "empty" \in Events
      BY TrackerAssumption DEF NoTimer, Events
    <3>3. /\ q.active = v.active /\ q.req = v.req /\ q.timer = Delay /\ q.list = v.list
          /\ q.cur = v.cur /\ q.failed = v.failed
      BY <2>4 DEF Tier
    <3>4. q \in Tier
      BY <2>4, <3>2 DEF Tier
    <3> HIDE DEF q
    <3>5. TierOk(t, q)
      BY <1>2, <2>3, <2>5, <3>2, <3>3, <3>4 DEF TierOk, Shape, Pending, all_failed
    <3>6. phase # "stopping"
      BY <1>2, <2>7 DEF IInv, PhaseOk
    <3> QED BY <1>2, <1>5, <2>3, <3>1, <3>3, <3>5, <3>6
  <2> QED BY <2>6, <2>7
<1>7. CASE result_fail(t)
  <2> DEFINE f == s.failed \union {tier[t].cur}
             v == [s EXCEPT !.failed = f]
  <2>1. f \in SUBSET Trackers
    BY <1>2, <1>3 DEF Tier
  <2>2. v = [Done(t) EXCEPT !.failed = @ \union {tier[t].cur}]
    BY <1>4
  <2> HIDE DEF f
  <2>3. /\ v.active = s.active /\ v.req = s.req /\ v.timer = s.timer /\ v.event = s.event
        /\ v.list = s.list /\ v.cur = s.cur /\ v.failed = f
    BY <1>3 DEF Tier
  <2>4. v \in Tier
    BY <1>3, <2>1 DEF Tier
  <2> HIDE DEF v
  <2>5. Shape(t, v)
    BY <1>2, <2>3, <2>4 DEF Shape
  <2>6. CASE all_failed(v)
    <3> DEFINE q == [v EXCEPT !.active = FALSE]
    <3>1. tier' = [tier EXCEPT ![t] = q] /\ UNCHANGED <<next, recent>>
      BY <1>7, <2>2, <2>6 DEF result_fail
    <3>2. /\ q.active = FALSE /\ q.req = v.req /\ q.timer = v.timer /\ q.list = v.list
          /\ q.cur = v.cur
      BY <2>4 DEF Tier
    <3>3. q \in Tier
      BY <2>4 DEF Tier
    <3> HIDE DEF q
    <3>4. TierOk(t, q)
      BY <1>2, <2>3, <2>5, <3>2, <3>3 DEF TierOk, Shape, Pending
    <3> QED BY <1>2, <1>5, <2>3, <3>1, <3>2, <3>4
  <2>7. CASE ~all_failed(v)
    <3>1. result_conn(t, v)
      BY <1>7, <2>2, <2>7 DEF result_fail
    <3> QED BY <1>1, <1>2, <2>3, <2>5, <2>7, <3>1, ConnOk
  <2> QED BY <2>6, <2>7
<1> QED BY <1>1, <1>6, <1>7

\* A second passes.
LEMMA StepSecond == ASSUME IInv, heartbeat_cb PROVE Kept
<1> DEFINE N(t) == [tier[t] EXCEPT !.timer = IF @ > 0 THEN @ - 1 ELSE @]
<1>1. /\ recent' = FALSE /\ next' = IF next > 0 THEN next - 1 ELSE 0
      /\ tier' = [t \in Tiers |-> N(t)] /\ UNCHANGED <<phase, seeding, failing>>
  BY DEF heartbeat_cb
<1>2. ASSUME NEW t \in Tiers
      PROVE  /\ TierOk(t, N(t)) /\ N(t).active = tier[t].active
             /\ N(t).event = tier[t].event /\ N(t).req = tier[t].req /\ N(t).cur = tier[t].cur
             /\ N(t).bad_conns = tier[t].bad_conns
  <2> DEFINE d == IF tier[t].timer > 0 THEN tier[t].timer - 1 ELSE tier[t].timer
             q == [tier[t] EXCEPT !.timer = d]
  <2>1. TierOk(t, tier[t]) /\ tier[t] \in Tier
    BY DEF IInv, TiersOk
  <2>2. q = N(t)
    BY <2>1 DEF Tier
  <2>3. d \in Int /\ d >= NoTimer /\ (d = NoTimer <=> tier[t].timer = NoTimer)
    BY <2>1 DEF TierOk, Shape, Tier, NoTimer
  <2> HIDE DEF d, N
  <2>4. /\ q.active = tier[t].active /\ q.req = tier[t].req /\ q.timer = d
        /\ q.event = tier[t].event /\ q.list = tier[t].list /\ q.cur = tier[t].cur
        /\ q.failed = tier[t].failed /\ q.bad_conns = tier[t].bad_conns
    BY <2>1 DEF Tier
  <2>5. q \in Tier
    BY <2>1, <2>3 DEF Tier
  <2> HIDE DEF q
  <2>6. TierOk(t, q)
    BY <2>1, <2>3, <2>4, <2>5 DEF TierOk, Shape, Pending, all_failed
  <2> QED BY <2>2, <2>4, <2>6
<1> HIDE DEF N
<1>3. \A t \in Tiers : /\ tier'[t] = N(t) /\ TierOk(t, tier'[t]) /\ tier'[t] \in Tier
  BY <1>1, <1>2 DEF TierOk, Shape
<1>4. tier' \in [Tiers -> Tier]
  BY <1>1, <1>3
<1>5. TiersOk'
  BY <1>3, <1>4 DEF TiersOk, TierOk, Shape, Pending, all_failed
<1>6. \A t \in Tiers : ~Requests(t)
  BY <1>2, <1>3 DEF Requests
<1>7. SpacedStep
  BY <1>6, SpacedByOne DEF IInv
<1>8. OthersOk'
  <2>1. next' \in Nat
    BY <1>1 DEF IInv, OthersOk
  <2> QED BY <1>1, <2>1 DEF IInv, OthersOk
<1> QED BY <1>1, <1>2, <1>3, <1>5, <1>7, <1>8 DEF Kept, IInv, PhaseOk, FinalStep

\* Another torrent's tier asks.
LEMMA StepOthers == ASSUME IInv, others_send PROVE Kept
<1>1. /\ UNCHANGED <<tier, phase, seeding, failing>> /\ recent' = TRUE
      /\ next' = IF recent THEN next + 1 ELSE next
  BY DEF others_send
<1>2. TiersOk' /\ PhaseOk'
  BY <1>1 DEF IInv, TiersOk, TierOk, Shape, Pending, all_failed, PhaseOk
<1>3. SpacedStep
  BY <1>1, SpacedByOne, Silent DEF IInv
<1>4. FinalStep
  BY <1>1 DEF IInv, PhaseOk, FinalStep
<1>5. next' \in Nat
  BY <1>1 DEF IInv, OthersOk
<1> QED BY <1>1, <1>2, <1>3, <1>4, <1>5 DEF Kept, IInv, OthersOk

------------------------------------------------------------------------------
(* The theorems *)

\* The initial state.
LEMMA InitOk == Init => IInv
<1> SUFFICES ASSUME Init PROVE IInv
  OBVIOUS
<1>1. \A t \in Tiers : tier[t] = tier_create(t) /\ TierOk(t, tier[t]) /\ ~tier[t].active
  BY Created DEF Init
<1>2. tier \in [Tiers -> Tier]
  BY <1>1 DEF Init, TierOk, Shape
<1> QED BY <1>1, <1>2 DEF Init, IInv, OthersOk, TiersOk, PhaseOk

\* Every step.
LEMMA StepOk == ASSUME IInv, [Next]_vars PROVE IInv' /\ [SpacedStep /\ FinalStep]_vars
<1>1. CASE Next
  <2>1. CASE Callbacks
    BY <2>1, StepTimer, StepLost, StepConnected, StepAnswer DEF Callbacks, Kept
  <2> QED BY <1>1, <2>1, StepStart, StepStop, StepComplete, StepKill, StepSecond, StepOthers
          DEF Next, Kept
<1>2. CASE UNCHANGED vars
  BY <1>2 DEF vars, IInv, OthersOk, TiersOk, TierOk, Shape, Pending, all_failed, PhaseOk
<1> QED BY <1>1, <1>2

\* The inductive invariant, and with it what steps do.
LEMMA Inductive == Spec => []IInv /\ [][SpacedStep /\ FinalStep]_vars
<1>1. Init => IInv
  BY InitOk
<1>2. IInv /\ [Next]_vars => IInv' /\ [SpacedStep /\ FinalStep]_vars
  BY StepOk
<1> QED BY <1>1, <1>2, PTL DEF Spec

\* An active tier waits for exactly one thing, the answer to a request or its
\* timer, an inactive one for nothing, and no assert() or abort() of
\* tracker_req.c is reached, whatever the trackers answer, for any number of
\* tiers and trackers.
THEOREM PendingCorrect == Spec => []OneThingPending
<1>1. IInv => OneThingPending
  <2> SUFFICES ASSUME IInv PROVE OneThingPending
    OBVIOUS
  <2>1. TypeOK
    BY DEF IInv, OthersOk, TiersOk, TierOk, Shape, TypeOK
  <2>2. ASSUME NEW t \in Tiers
        PROVE  /\ tier[t].active => (tier[t].req = "none") # (tier[t].timer = NoTimer)
               /\ ~tier[t].active => tier[t].req = "none" /\ tier[t].timer = NoTimer
    BY DEF IInv, TiersOk, TierOk, Pending
  <2> QED BY <2>1, <2>2 DEF OneThingPending, IInv, OthersOk
<1> QED BY <1>1, Inductive, PTL

\* At most one request is sent in a second, of all tiers together.
THEOREM SpacingCorrect == Spec => Spaced
<1>1. SpacedStep /\ FinalStep =>
        Cardinality({t \in Tiers : Requests(t)}) <= IF recent THEN 0 ELSE 1
  BY DEF SpacedStep
<1> QED BY <1>1, Inductive, PTL DEF Spaced

\* Once the torrent is stopped nothing but "stopped" is announced, and no tier
\* comes back.
THEOREM StopCorrect == Spec => StopIsFinal
<1>1. SpacedStep /\ FinalStep =>
        \A t \in Tiers :
          phase = "stopping" /\ phase' = "stopping" =>
            (tier'[t].active => tier[t].active /\ tier'[t].event = "stopped")
  BY DEF FinalStep
<1> QED BY <1>1, Inductive, PTL DEF StopIsFinal

=============================================================================
