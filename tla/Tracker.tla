------------------------------ MODULE Tracker ------------------------------
(***************************************************************************)
(* The announcements of one torrent to its trackers (btpd/tracker_req.c)   *)
(* and the life of one HTTP request (btpd/http_tr_if.c).  The trackers of  *)
(* a torrent come in tiers; a tier talks to one of its trackers at a time. *)
(*                                                                         *)
(* Time is relative.  A request may not be sent in the second in which the *)
(* previous one was sent, by any tier of any torrent; `recent' says that   *)
(* it is that second, and `next' is how many seconds ahead m_tnext_req     *)
(* lies.  A timer is the number of seconds until it is due.                *)
(***************************************************************************)
EXTENDS Integers, Sequences, FiniteSets, SequencesExt

CONSTANTS
    Announce,   \* the URLs of each tier: a sequence of sequences
    Delay,      \* the announce interval and the retry timeouts, in seconds
    MaxAhead    \* bound: the torrent is started, and other torrents ask, only
                \* while next is at most this

Tiers == 1..Len(Announce)
Trackers == UNION {Range(Announce[t]) : t \in Tiers}
Events == {"started", "stopped", "completed", "empty"}

ASSUME TrackerAssumption ==
    /\ Announce \in Seq(Seq(Trackers))
    /\ \A t \in Tiers : Announce[t] # <<>> /\ IsInjective(Announce[t])
    /\ Delay \in Nat \ {0}
    /\ MaxAhead \in Nat

NoTimer == -1

VARIABLES
    tier,     \* struct tr_tier, one record per tier
    phase,    \* what torrent.c has done: "created", "on" or "stopping"
    recent,   \* m_tlast_req > btpd_seconds - REQ_DELAY
    next,     \* max(0, m_tnext_req - btpd_seconds)
    seeding,  \* tr_complete was called
    failing   \* an assert() or abort() was reached

vars == <<tier, phase, recent, next, seeding, failing>>

------------------------------------------------------------------------------
(* A tier.  req is "none", "connect" while the name is looked up and the   *)
(* connection is made, or "talk"; list is the order in which the trackers  *)
(* are tried.                                                              *)

tier_create(t) ==
    [active |-> FALSE, event |-> "stopped", req |-> "none",
     timer |-> NoTimer, list |-> Announce[t], cur |-> Announce[t][1],
     failed |-> {}, bad_conns |-> 0, has_responded |-> FALSE]

all_failed(s) == Range(s.list) \subseteq s.failed

first_nonfailed(s) ==
    LET i == CHOOSE i \in 1..Len(s.list) :
                /\ s.list[i] \notin s.failed
                /\ \A j \in 1..(i - 1) : s.list[j] \in s.failed
    IN s.list[i]

\* The places after cur in the list of trackers that have not failed.
Later(s) ==
    {i \in 1..Len(s.list) : /\ s.list[i] \notin s.failed
                            /\ \E j \in 1..(i - 1) : s.list[j] = s.cur}

\* entry_send when the request may go out now, and when it may not.
Sent(s, e, ev) ==
    [s EXCEPT !.event = ev, !.cur = e, !.req = "connect", !.timer = NoTimer]
Bug_Delayed(s, e, ev, d) ==
    [s EXCEPT !.event = ev, !.cur = e, !.timer = d]
Delayed(s, e, ev, d) ==
    [s EXCEPT !.event = ev, !.cur = e, !.req = "none", !.timer = d]

\* Each of the tiers ts calls entry_send, in the order of the list: at most
\* the first sends, the others are put one second apart.
Bug_Queued(ts) == IF recent THEN ts ELSE {}
Queued(ts) == IF recent THEN ts ELSE {t \in ts : \E o \in ts : o < t}

Place(t, ts) ==
    next + Cardinality({o \in Queued(ts) : o <= t})

entry_sends(ts, e, ev) ==
    /\ tier' = [t \in Tiers |->
                  IF t \notin ts THEN tier[t]
                  ELSE IF t \in Queued(ts)
                  THEN Delayed(tier[t], e[t], ev, Place(t, ts))
                  ELSE Sent(tier[t], e[t], ev)]
    /\ next' = next + Cardinality(Queued(ts))
    /\ recent' = (recent \/ ts # {})

------------------------------------------------------------------------------
Init ==
    /\ tier = [t \in Tiers |-> tier_create(t)]
    /\ phase = "created" /\ recent = TRUE /\ next = 0
    /\ seeding = FALSE /\ failing = FALSE

------------------------------------------------------------------------------
(* Calls from torrent.c *)

\* The failures of an earlier start are forgotten.
tr_start ==
    /\ phase = "created" /\ next <= MaxAhead
    /\ phase' = "on"
    /\ LET fresh(t) == [tier[t] EXCEPT !.failed = {}, !.has_responded = FALSE,
                                       !.bad_conns = 0, !.active = TRUE]
           first(t) == tier[t].list[1]
           ts == Tiers IN
       /\ failing' = \E t \in Tiers : tier[t].active /\ tier[t].event # "stopped"
       /\ tier' = [t \in Tiers |->
                     IF t \in Queued(ts)
                     THEN Delayed(fresh(t), first(t), "started", Place(t, ts))
                     ELSE Sent(fresh(t), first(t), "started")]
       /\ next' = next + Cardinality(Queued(ts))
       /\ recent' = TRUE
    /\ UNCHANGED seeding

\* A tier that never got an answer is dropped at once, the others announce
\* the end.
GivesUp(s) == ~s.has_responded /\ s.bad_conns > 1

tr_active == \E t \in Tiers : tier[t].active

tr_stop ==
    /\ phase = "on" /\ ~failing
    /\ phase' = "stopping"
    /\ LET ts == {t \in Tiers : tier[t].active /\ tier[t].event # "stopped"}
           drop == {t \in ts : GivesUp(tier[t])}
           tell == ts \ drop IN
       IF \E t \in tell : all_failed(tier[t])
       THEN failing' = TRUE /\ UNCHANGED <<tier, next, recent>>
       ELSE /\ tier' = [t \in Tiers |->
                  IF t \in drop
                  THEN [tier[t] EXCEPT !.active = FALSE, !.req = "none",
                                       !.timer = NoTimer]
                  ELSE IF t \notin tell THEN tier[t]
                  ELSE IF t \in Queued(tell)
                  THEN Delayed(tier[t], first_nonfailed(tier[t]), "stopped",
                               Place(t, tell))
                  ELSE Sent(tier[t], first_nonfailed(tier[t]), "stopped")]
            /\ next' = next + Cardinality(Queued(tell))
            /\ recent' = (recent \/ tell # {})
            /\ UNCHANGED failing
    /\ UNCHANGED seeding

\* The download is finished.
tr_complete ==
    /\ phase = "on" /\ ~seeding /\ ~failing
    /\ seeding' = TRUE
    /\ entry_sends({t \in Tiers : tier[t].active /\ tier[t].event = "empty"},
                   [t \in Tiers |-> tier[t].list[1]], "completed")
    /\ UNCHANGED <<phase, failing>>

\* torrent_kill: when no tier is active, or when the torrent is started again
\* before that.  The next start makes new tiers.
tr_kill ==
    /\ phase = "stopping" /\ ~failing
    /\ tier' = [t \in Tiers |-> tier_create(t)]
    /\ phase' = "created" /\ seeding' = FALSE
    /\ UNCHANGED <<recent, next, failing>>

------------------------------------------------------------------------------
(* Callbacks *)

tier_timer_cb(t) ==
    /\ ~failing /\ tier[t].timer = 0
    /\ IF ~tier[t].active \/ all_failed(tier[t])
       THEN failing' = TRUE /\ UNCHANGED <<tier, next, recent>>
       ELSE /\ entry_sends({t}, [o \in Tiers |-> first_nonfailed(tier[t])],
                           tier[t].event)
            /\ UNCHANGED failing
    /\ UNCHANGED <<phase, seeding>>

\* The tier's state while tr_result runs: t->req is NULL.
Done(t) == [tier[t] EXCEPT !.req = "none"]

\* The tracker that answered is tried first next time.
cur_first(s) == <<s.cur>> \o RemoveFirst(s.list, s.cur)

\* TR_RES_OK and TR_RES_BAD.
Answered(t) == [Done(t) EXCEPT !.bad_conns = 0, !.has_responded = TRUE,
                               !.list = cur_first(tier[t])]

Bug_result_ok(t) ==
    /\ tier' = [tier EXCEPT ![t] =
                  [Answered(t) EXCEPT !.event = "empty", !.timer = Delay]]
    /\ UNCHANGED <<next, recent>>
result_ok(t) ==
    /\ tier' = [tier EXCEPT ![t] =
                  IF tier[t].event = "stopped"
                  THEN [Answered(t) EXCEPT !.active = FALSE]
                  ELSE [Answered(t) EXCEPT !.event = "empty", !.timer = Delay]]
    /\ UNCHANGED <<next, recent>>

\* bad_conns matters only up to 2: both retry timeouts are Delay.
Cap == 2

\* A tier that is being stopped does not wait for unreachable trackers.
Bug_stop_hopeless(s, bad) == FALSE
stop_hopeless(s, bad) == s.event = "stopped" /\ bad > 1

\* TR_RES_CONN for the tier record s: the next tracker of the tier, or the
\* whole tier again, at once the first time and later after a timeout.
result_conn(t, s) ==
    LET bad == IF s.bad_conns = Cap THEN Cap ELSE s.bad_conns + 1
        r == [s EXCEPT !.bad_conns = bad]
        send(q, e) ==
            /\ tier' = [tier EXCEPT ![t] =
                  IF recent THEN Delayed(q, e, q.event, next + 1)
                  ELSE Sent(q, e, q.event)]
            /\ next' = IF recent THEN next + 1 ELSE next
            /\ recent' = TRUE
        keep(q) == tier' = [tier EXCEPT ![t] = q] /\ UNCHANGED <<next, recent>>
    IN CASE Later(s) # {} -> send(s, s.list[Min(Later(s))])
         [] Later(s) = {} /\ stop_hopeless(s, bad) ->
                keep([r EXCEPT !.active = FALSE])
         [] Later(s) = {} /\ bad = 1 -> send(r, s.list[1])
         [] OTHER -> keep([r EXCEPT !.timer = Delay])

\* TR_RES_FAIL: the tracker is not tried again, and a tier of which all
\* trackers failed is given up.
result_fail(t) ==
    LET s == [Done(t) EXCEPT !.failed = @ \union {tier[t].cur}] IN
    IF all_failed(s)
    THEN /\ tier' = [tier EXCEPT ![t] = [s EXCEPT !.active = FALSE]]
         /\ UNCHANGED <<next, recent>>
    ELSE result_conn(t, s)

\* The lookup or the connection fails, or takes more than 60 seconds; or the
\* connected tracker is silent for 30.
conn_lost(t) ==
    /\ ~failing /\ tier[t].req \in {"connect", "talk"}
    /\ result_conn(t, Done(t))
    /\ UNCHANGED <<phase, seeding, failing>>

httptr_nc_cb(t) ==
    /\ ~failing /\ tier[t].req = "connect"
    /\ tier' = [tier EXCEPT ![t].req = "talk"]
    /\ UNCHANGED <<phase, recent, next, seeding, failing>>

\* The reply to "stopped" is not looked at.
http_cb(t) ==
    /\ ~failing /\ tier[t].req = "talk"
    /\ \/ result_ok(t)
       \/ tier[t].event # "stopped" /\ result_fail(t)
    /\ UNCHANGED <<phase, seeding, failing>>

\* heartbeat_cb: btpd_seconds goes up by one.
heartbeat_cb ==
    /\ ~failing
    /\ recent \/ next > 0 \/ \E t \in Tiers : tier[t].timer > 0
    /\ recent' = FALSE
    /\ next' = IF next > 0 THEN next - 1 ELSE 0
    /\ tier' = [t \in Tiers |->
                  [tier[t] EXCEPT !.timer = IF @ > 0 THEN @ - 1 ELSE @]]
    /\ UNCHANGED <<phase, seeding, failing>>

\* entry_send for a tier of another torrent: m_tlast_req and m_tnext_req are
\* those of the process.
others_send ==
    /\ ~failing /\ next <= MaxAhead
    /\ recent' = TRUE
    /\ next' = IF recent THEN next + 1 ELSE next
    /\ UNCHANGED <<tier, phase, seeding, failing>>

Callbacks == \E t \in Tiers : tier_timer_cb(t) \/ conn_lost(t)
                              \/ httptr_nc_cb(t) \/ http_cb(t)

Next == \/ tr_start \/ tr_stop \/ tr_complete \/ tr_kill
        \/ Callbacks \/ heartbeat_cb \/ others_send

Spec == Init /\ [][Next]_vars

\* Timers that are due fire, requests end by an answer or by their own
\* timeout, and the clock goes on.  Other torrents need not ask.
Fairness ==
    /\ WF_vars(heartbeat_cb)
    /\ \A t \in Tiers :
          /\ WF_vars(tier_timer_cb(t))
          /\ WF_vars(conn_lost(t) \/ httptr_nc_cb(t) \/ http_cb(t))

FairSpec == Spec /\ Fairness

------------------------------------------------------------------------------
(* Properties *)

Tier == [active : BOOLEAN, event : Events, req : {"none", "connect", "talk"},
         timer : Int, list : Seq(Trackers), cur : Trackers,
         failed : SUBSET Trackers, bad_conns : 0..Cap,
         has_responded : BOOLEAN]

\* Every tier has its type; the order of its trackers changes, not the set.
TypeOK ==
    /\ tier \in [Tiers -> Tier]
    /\ \A t \in Tiers : /\ tier[t].timer >= NoTimer
                        /\ Range(tier[t].list) = Range(Announce[t])
                        /\ Len(tier[t].list) = Len(Announce[t])
                        /\ tier[t].cur \in Range(tier[t].list)
    /\ phase \in {"created", "on", "stopping"}
    /\ recent \in BOOLEAN /\ next \in Nat
    /\ seeding \in BOOLEAN /\ failing \in BOOLEAN

\* An active tier always waits for exactly one thing, the answer to a request
\* or its timer, and an inactive one for nothing: no tier falls silent, and
\* none is called back after it was given up.  No assert() or abort() of
\* tracker_req.c is reached: a tier that is still active has a tracker left to
\* turn to.
OneThingPending == TypeOK /\ ~failing /\ \A t \in Tiers :
    /\ tier[t].active =>
          (tier[t].req = "none") # (tier[t].timer = NoTimer)
    /\ ~tier[t].active => tier[t].req = "none" /\ tier[t].timer = NoTimer

\* A step makes a new request for tier t: from a tier that had none, for
\* another tracker or event, or for the same ones, the whole tier again.
Requests(t) ==
    /\ tier'[t].req = "connect"
    /\ \/ tier[t].req = "none"
       \/ tier'[t].cur # tier[t].cur
       \/ tier'[t].event # tier[t].event
       \/ tier'[t].bad_conns # tier[t].bad_conns

\* REQ_DELAY: of all tiers together, and those of other torrents, at most one
\* request is sent in a second, also when starting and stopping, where every
\* tier has one to send.
Spaced ==
    [][Cardinality({t \in Tiers : Requests(t)}) <= IF recent THEN 0 ELSE 1]_vars

\* After tr_stop no request but "stopped" is ever sent, and a tier that has
\* announced its end or was given up does not become active again.
StopIsFinal ==
    [][\A t \in Tiers :
         phase = "stopping" /\ phase' = "stopping" =>
            (tier'[t].active => tier[t].active /\ tier'[t].event = "stopped")]_vars

\* A request of this torrent is put off, as another was sent in this second.
PutOff == next' > next /\ \E t \in Tiers : tier'[t] # tier[t]

\* A stopped torrent is rid of its trackers in the end, whatever they answer or
\* do not answer, unless its requests are put off again and again.  They can
\* be: the timer of a tier that was put off turns to the first tracker that has
\* not failed, not to the one it was put off for, and bad_conns is counted only
\* at the last.  A tracker that refuses in the second in which it was asked,
\* two tiers that refuse in turn, or the requests of other torrents do it.
StopEnds ==
    <>[][~PutOff]_vars =>
        (phase = "stopping" ~> (~tr_active \/ phase # "stopping"))

=============================================================================
