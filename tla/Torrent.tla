------------------------------ MODULE Torrent ------------------------------
(***************************************************************************)
(* The life of torrents in a btpd process and across restarts: the torrent *)
(* library (btpd/tlib.c), the active torrents (btpd/torrent.c), the file   *)
(* `active' that remembers them (btpd/active.c), the commands of btcli     *)
(* (btpd/cli_if.c) and shutting down (btpd/btpd.c).                        *)
(*                                                                         *)
(* A library entry (struct tlib) and an active torrent (struct torrent)    *)
(* point at each other and are allocated and freed separately.  Both are   *)
(* in one record per info hash: `ptr' is tl->tp, and `back' says whether   *)
(* tp->tl is the entry in the library or one that was freed.  The tracker  *)
(* and content modules appear as far as torrent.c sees them.               *)
(***************************************************************************)
EXTENDS Integers, Sequences, FiniteSets, SequencesExt

CONSTANTS
    Hashes,     \* the info hashes of the torrents
    Scenarios,  \* what may happen besides adding, starting and stopping
    MaxActive   \* bound: the greatest length of the file `active'

Options == {"del",        \* btcli del on a torrent that is not a ghost
            "del_ghost",  \* btcli del on a stopped torrent not yet released
            "readd",      \* btcli add of a deleted torrent not yet released
            "io_error",   \* the content of a torrent cannot be read or written
            "damage",     \* a torrent's directory becomes unreadable
            "cut"}        \* a crash in the middle of an edit of `active'

ASSUME TorrentAssumption ==
    IsFiniteSet(Hashes) /\ Scenarios \subseteq SUBSET Options /\ MaxActive \in Nat

VARIABLES
    t,        \* library entry and torrent of each hash
    dir,      \* the hashes that have a directory under torrents/
    broken,   \* the ones whose directory cannot be loaded
    active,   \* the file `active': a sequence of hashes
    proc,     \* "down", "boot", "up" or "preexit" (m_shutdown)
    boot,     \* active_start: the position in the file and the variable pos
    was,      \* history: the torrents the user has started and not stopped
    fault,    \* "none", "freed", "assert" or "exit"
    may       \* which of the Scenarios this is; it never changes

state == <<t, dir, broken, active, proc, boot, was, fault>>
vars == <<state, may>>

States == {"none", "starting", "leech", "seed", "ghost"}

\* No library entry and no torrent.
Absent == [known |-> FALSE, ptr |-> "null", back |-> TRUE, state |-> "none",
           delete |-> FALSE, tr |-> "off", cm |-> "inactive", error |-> FALSE]

Live(r) == r.state # "none"
Running(r) == r.state \in {"starting", "leech", "seed"}

Torrents == {h \in Hashes : Live(t[h])}
Ghosts == {h \in Hashes : t[h].state = "ghost"}

torrent_active(h) == t[h].ptr = "tp" /\ t[h].state # "ghost"
torrent_haunting(h) == t[h].ptr = "tp" /\ t[h].delete /\ t[h].state = "ghost"
torrent_startable(h) ==
    t[h].ptr = "null" \/ (t[h].state = "ghost" /\ ~t[h].delete)

------------------------------------------------------------------------------
(* What the functions of torrent.c do to the record of one torrent *)

\* With a stale tp->tl the write tl->tp = NULL hits freed memory, and the
\* library entry keeps pointing at the torrent.
Bug_torrent_kill(r) == [Absent EXCEPT !.known = r.known, !.ptr = r.ptr]
torrent_kill(r) ==
    [Absent EXCEPT
        !.known = r.known /\ ~r.delete,
        !.ptr = IF r.back THEN "null" ELSE "dangling"]

\* cm_stop works at once, so that T_STOPPING is left before torrent_stop
\* returns, and a process that shuts down has ghosts only.  tr_stop may drop
\* all trackers at once.
stopped(r) == [r EXCEPT !.state = "ghost", !.cm = "inactive"]

torrent_stop(r, del) ==
    LET q == [r EXCEPT !.delete = @ \/ del]
        g == stopped(q) IN
    IF ~Running(r) THEN {q}
    ELSE {torrent_kill([g EXCEPT !.tr = "off"])}
         \union (IF r.tr = "on" THEN {[g EXCEPT !.tr = "stop"]} ELSE {})

\* become_ghost: tlib_del removes the directory of a deleted torrent.
Bug_removed_dir(r, del) == FALSE
removed_dir(r, del) == Running(r) /\ (r.delete \/ del)

\* A start makes a new torrent, after releasing a ghost.  cm_start may find
\* that nothing is to be tested, or fail.
torrent_start(h) ==
    IF h \in broken THEN {[t[h] EXCEPT !.ptr = "null", !.state = "none",
                                       !.tr = "off", !.error = FALSE]}
    ELSE {[Absent EXCEPT !.known = TRUE, !.ptr = "tp", !.state = "starting",
                         !.cm = c, !.error = (c = "inactive")] :
            c \in {"starting", "active"}
                  \union (IF "io_error" \in may THEN {"inactive"} ELSE {})}

\* torrent_on_tick without the error check.
Ticked(r) ==
    CASE r.state = "starting" /\ r.cm \in {"active", "full"} ->
            {[r EXCEPT !.state = IF r.cm = "full" THEN "seed" ELSE "leech",
                       !.tr = x] : x \in {"on", "off"}}
      [] r.state = "leech" /\ r.cm = "full" -> {[r EXCEPT !.state = "seed"]}
      [] r.state = "ghost" /\ r.tr = "off" -> {torrent_kill(r)}
      [] OTHER -> {r}

\* On an error the torrent is stopped first; torrent_stop may release it.
torrent_on_tick(r) ==
    IF Running(r) /\ r.error THEN torrent_stop(r, FALSE) ELSE Ticked(r)

\* torrent_on_tick reads tp->state after torrent_stop has freed tp.
ReadsFreed(r, r2) == Running(r) /\ r.error /\ ~Live(r2)

------------------------------------------------------------------------------
Init ==
    /\ t = [h \in Hashes |-> Absent]
    /\ dir = {} /\ broken = {} /\ active = <<>>
    /\ proc = "up" /\ boot = [rd |-> 1, pos |-> 1]
    /\ was = {} /\ fault = "none" /\ may \in Scenarios

Serving == fault = "none" /\ proc = "up"

\* Using a torrent through a dangling tl->tp.
Dangles(h) == t[h].ptr = "dangling"

------------------------------------------------------------------------------
(* Commands *)

\* tlib_add: mkdir fails when the directory is still there, and btpd exits.
cmd_add(h) ==
    /\ Serving /\ ~Dangles(h)
    /\ \/ /\ ~t[h].known
          /\ t' = [t EXCEPT ![h].known = TRUE]
       \/ /\ "readd" \in may /\ t[h].known /\ torrent_haunting(h)
          /\ t' = [t EXCEPT ![h].delete = FALSE, ![h].back = FALSE]
    /\ fault' = IF h \in dir THEN "exit" ELSE "none"
    /\ dir' = dir \union {h}
    /\ broken' = broken \ {h}
    /\ UNCHANGED <<active, proc, boot, was>>

\* The names of deleted torrents stay in the file `active'.
cmd_del(h) ==
    /\ Serving /\ t[h].known /\ ~Dangles(h) /\ ~torrent_haunting(h)
    /\ (IF t[h].state = "ghost" THEN "del_ghost" ELSE "del") \in may
    /\ IF t[h].ptr = "null"
       THEN t' = [t EXCEPT ![h] = Absent] /\ dir' = dir \ {h}
       ELSE /\ \E r \in torrent_stop(t[h], TRUE) : t' = [t EXCEPT ![h] = r]
            /\ dir' = IF removed_dir(t[h], TRUE) THEN dir \ {h} ELSE dir
    /\ was' = was \ {h}
    /\ UNCHANGED <<broken, active, proc, boot, fault>>

active_add(h) == active' = Append(active, h)

cmd_start(h) ==
    /\ Serving /\ t[h].known /\ ~Dangles(h)
    /\ torrent_startable(h) /\ Len(active) < MaxActive
    /\ \E r \in torrent_start(h) : t' = [t EXCEPT ![h] = r]
    /\ IF h \in broken THEN UNCHANGED <<active, was>>
       ELSE active_add(h) /\ was' = was \union {h}
    /\ UNCHANGED <<dir, broken, proc, boot, fault>>

\* torrent_start on a dangling tl->tp releases the torrent a second time.
cmd_start_dangling(h) ==
    /\ Serving /\ Dangles(h)
    /\ fault' = IF Torrents = {} THEN "assert" ELSE "freed"
    /\ UNCHANGED <<t, dir, broken, active, proc, boot, was>>

\* A torrent that cannot be started makes btpd exit here.
cmd_start_all ==
    /\ Serving /\ \A h \in Hashes : ~Dangles(h)
    /\ LET hs == {h \in Hashes : t[h].known /\ torrent_startable(h)} IN
       /\ hs # {} /\ Len(active) + Cardinality(hs) <= MaxActive
       /\ IF hs \intersect broken # {}
          THEN fault' = "exit" /\ UNCHANGED <<t, active, was>>
          ELSE /\ \E f \in [hs -> UNION {torrent_start(h) : h \in hs}] :
                    t' = [h \in Hashes |-> IF h \in hs THEN f[h] ELSE t[h]]
               /\ \E s \in SetToSeqs(hs) : active' = active \o s
               /\ was' = was \union hs
               /\ UNCHANGED fault
    /\ UNCHANGED <<dir, broken, proc, boot>>

\* The last name takes the place of the one at position i; a position past
\* the end (see active_start_loop) only shortens the file.
active_del_pos(s, i) ==
    [j \in 1..(Len(s) - 1) |-> IF j = i THEN s[Len(s)] ELSE s[j]]

\* Half of this: the last name is written, the file not yet truncated.
overwritten(s, i) ==
    IF i > Len(s) THEN Append(s, Last(s)) ELSE [s EXCEPT ![i] = Last(s)]

\* The first occurrence of h is deleted.
first_pos(h) == SelectInSeq(active, LAMBDA x : x = h)

Bug_active_del(h) == UNCHANGED active
active_del(h) ==
    active' = IF Contains(active, h) THEN active_del_pos(active, first_pos(h))
              ELSE active

cmd_stop(h) ==
    /\ Serving /\ t[h].known /\ ~Dangles(h) /\ torrent_active(h)
    /\ active_del(h)
    /\ \E r \in torrent_stop(t[h], FALSE) : t' = [t EXCEPT ![h] = r]
    /\ dir' = IF removed_dir(t[h], FALSE) THEN dir \ {h} ELSE dir
    /\ was' = was \ {h}
    /\ UNCHANGED <<broken, proc, boot, fault>>

\* All torrents in the list are stopped, each with its own outcome.
StopAll ==
    /\ \E f \in [Torrents -> UNION {torrent_stop(t[h], FALSE) : h \in Torrents}] :
         /\ \A h \in Torrents : f[h] \in torrent_stop(t[h], FALSE)
         /\ t' = [h \in Hashes |-> IF h \in Torrents THEN f[h] ELSE t[h]]
    /\ dir' = dir \ {h \in Torrents : removed_dir(t[h], FALSE)}

cmd_stop_all ==
    /\ Serving /\ Torrents # {}
    /\ active' = <<>>
    /\ StopAll
    /\ was' = {}
    /\ UNCHANGED <<broken, proc, boot, fault>>

\* What death_procedure makes of the process when ts are the torrents left,
\* all of them ghosts.
death_procedure(ts) == IF ts = {} THEN "down" ELSE "preexit"

\* btcli kill or a signal: btpd_shutdown.
btpd_shutdown ==
    /\ Serving
    /\ StopAll
    /\ proc' = death_procedure({h \in Hashes : Live(t'[h])})
    /\ UNCHANGED <<broken, active, boot, was, fault>>

------------------------------------------------------------------------------
(* The passing of time *)

Useful(r) == Ticked(r) # {r} \/ (Running(r) /\ r.error)

Bug_heartbeat_exit(ts) == proc
heartbeat_exit(ts) ==
    IF proc = "preexit" /\ ts = {} THEN "down" ELSE proc

\* heartbeat_cb: torrent_on_tick_all, then death_procedure when shutting down.
heartbeat_cb ==
    /\ fault = "none" /\ proc \in {"up", "preexit"}
    /\ (\E h \in Hashes : Useful(t[h])) \/ (proc = "preexit" /\ Torrents = {})
    /\ \E f \in [Hashes -> UNION {torrent_on_tick(t[h]) : h \in Hashes}] :
         /\ \A h \in Hashes : f[h] \in torrent_on_tick(t[h])
         /\ t' = f
    /\ fault' = IF \E h \in Hashes : ReadsFreed(t[h], t'[h]) THEN "freed"
                ELSE "none"
    /\ dir' = dir \ {h \in Hashes : t[h].error /\ removed_dir(t[h], FALSE)}
    /\ proc' = heartbeat_exit({h \in Hashes : Live(t'[h])})
    /\ UNCHANGED <<broken, active, boot, was>>

InProcess == fault = "none" /\ proc \in {"up", "preexit"}

\* The start-up test ends, and the last piece arrives.
cm_ready(h) ==
    /\ InProcess /\ Running(t[h])
    /\ \/ t[h].cm = "starting" /\ \E c \in {"active", "full"} :
            t' = [t EXCEPT ![h].cm = c]
       \/ t[h].cm = "active" /\ t[h].state = "leech"
          /\ t' = [t EXCEPT ![h].cm = "full"]
    /\ UNCHANGED <<dir, broken, active, proc, boot, was, fault>>

\* cm_on_error.
cm_on_error(h) ==
    /\ InProcess /\ "io_error" \in may
    /\ Running(t[h]) /\ t[h].cm # "inactive"
    /\ t' = [t EXCEPT ![h].cm = "inactive", ![h].error = TRUE]
    /\ UNCHANGED <<dir, broken, active, proc, boot, was, fault>>

\* All trackers have failed or have been told that the torrent stops.
tr_done(h) ==
    /\ InProcess /\ t[h].tr # "off"
    /\ t' = [t EXCEPT ![h].tr = "off"]
    /\ UNCHANGED <<dir, broken, active, proc, boot, was, fault>>

------------------------------------------------------------------------------
(* Crash and restart *)

\* The process is killed: memory is lost, the files stay.
crash ==
    /\ fault = "none" /\ proc \in {"boot", "up"}
    /\ proc' = "down"
    /\ t' = [h \in Hashes |-> Absent]
    /\ UNCHANGED <<dir, broken, active, boot, was, fault>>

damage(h) ==
    /\ fault = "none" /\ proc = "down" /\ "damage" \in may
    /\ h \in dir \ broken
    /\ broken' = broken \union {h}
    /\ UNCHANGED <<t, dir, active, proc, boot, was, fault>>

\* tlib_init, and the choice of --empty-start.
btpd_init ==
    /\ fault = "none" /\ proc = "down"
    /\ t' = [h \in Hashes |-> [Absent EXCEPT !.known = h \in dir]]
    /\ boot' = [rd |-> 1, pos |-> 1]
    /\ \/ proc' = "boot" /\ UNCHANGED <<active, was>>
       \/ proc' = "up" /\ active' = <<>> /\ was' = {}
    /\ UNCHANGED <<dir, broken, fault>>

\* One turn of the loop of active_start.  A torrent that does not start is
\* deleted from the file; the file is read on from pos, and pos is advanced
\* nevertheless.
to_start(h) == t[h].known /\ t[h].ptr = "null"

active_start_loop ==
    /\ fault = "none" /\ proc = "boot" /\ boot.rd <= Len(active)
    /\ LET h == active[boot.rd]
           fails == to_start(h) /\ h \in broken IN
       /\ IF to_start(h)
          THEN \E r \in torrent_start(h) : t' = [t EXCEPT ![h] = r]
          ELSE UNCHANGED t
       /\ active' = IF fails THEN active_del_pos(active, boot.pos) ELSE active
       /\ boot' = [rd |-> IF fails THEN boot.pos ELSE boot.rd + 1,
                   pos |-> boot.pos + 1]
    /\ UNCHANGED <<dir, broken, proc, was, fault>>

\* The event loop is entered.
booted ==
    /\ fault = "none" /\ proc = "boot" /\ boot.rd > Len(active)
    /\ proc' = "up" /\ boot' = [rd |-> 1, pos |-> 1]
    /\ UNCHANGED <<t, dir, broken, active, was, fault>>

\* The process is killed between the write and the ftruncate of
\* active_del_pos, in btcli stop or in active_start.  A stop that was cut off
\* counts when the name is gone.
cut_stop(h) ==
    /\ Serving /\ torrent_active(h) /\ t[h].known /\ Contains(active, h)
    /\ active' = overwritten(active, first_pos(h))
    /\ was' = IF Contains(active', h) THEN was ELSE was \ {h}

cut_start ==
    /\ fault = "none" /\ proc = "boot" /\ boot.rd <= Len(active)
    /\ to_start(active[boot.rd]) /\ active[boot.rd] \in broken
    /\ active' = overwritten(active, boot.pos)
    /\ UNCHANGED was

crash_in_edit ==
    /\ "cut" \in may
    /\ cut_start \/ \E h \in Hashes : cut_stop(h)
    /\ Len(active') <= MaxActive
    /\ proc' = "down"
    /\ t' = [h \in Hashes |-> Absent]
    /\ UNCHANGED <<dir, broken, boot, fault>>

Commands ==
    \/ \E h \in Hashes : \/ cmd_add(h) \/ cmd_del(h) \/ cmd_start(h)
                         \/ cmd_start_dangling(h) \/ cmd_stop(h)
    \/ cmd_start_all \/ cmd_stop_all \/ btpd_shutdown

Environment == \E h \in Hashes : \/ cm_ready(h) \/ cm_on_error(h)
                                 \/ tr_done(h) \/ damage(h)

Next == /\ \/ Commands \/ Environment \/ heartbeat_cb
           \/ crash \/ crash_in_edit \/ btpd_init \/ active_start_loop \/ booted
        /\ UNCHANGED may

Spec == Init /\ [][Next]_vars

\* The heartbeat goes on.
Fairness == WF_state(heartbeat_cb)

------------------------------------------------------------------------------
(* Properties *)

Entry == [known : BOOLEAN, ptr : {"null", "tp", "dangling"}, back : BOOLEAN,
          state : States, delete : BOOLEAN, tr : {"off", "on", "stop"},
          cm : {"inactive", "starting", "active", "full"}, error : BOOLEAN]

\* Types; what is not running has no open content, and what does not exist
\* has no trackers either.
TypeOK ==
    /\ t \in [Hashes -> Entry]
    /\ \A h \in Hashes : /\ ~Running(t[h]) => t[h].cm = "inactive"
                         /\ ~Live(t[h]) => t[h].tr = "off" /\ ~t[h].delete
    /\ dir \in SUBSET Hashes /\ broken \in SUBSET Hashes
    /\ active \in Seq(Hashes) /\ Len(active) <= MaxActive
    /\ proc \in {"down", "boot", "up", "preexit"}
    /\ boot \in [rd : Nat, pos : Nat]
    /\ was \in SUBSET Hashes
    /\ fault \in {"none", "freed", "assert", "exit"}
    /\ may \in Scenarios

\* Library entry and torrent point at each other: tl->tp is NULL exactly when
\* there is no torrent, and then the torrent's tp->tl is the entry.  Adding a
\* torrent that was deleted and is not yet released breaks this (tlib_readd).
Linked == TypeOK /\ ("readd" \notin may => \A h \in Hashes :
    /\ t[h].ptr = "null" <=> ~Live(t[h])
    /\ Live(t[h]) => t[h].known /\ t[h].back)

\* The directories are those a restart should find.  A torrent that is not
\* being deleted keeps its own, however often it is stopped and started, and
\* while it runs it is in the file `active', even when other entries of it
\* cannot be loaded.  "The command will remove the torrent and its associated
\* data from btpd": what is no longer in the library has none, unless it was
\* deleted as a ghost.
Kept == \A h \in Hashes :
    /\ Live(t[h]) /\ ~t[h].delete => h \in dir
    /\ proc = "up" /\ Running(t[h]) => Contains(active, h)
    /\ proc = "up" /\ ~t[h].known /\ "del_ghost" \notin may => h \notin dir

Restarts == proc = "boot" /\ proc' = "up"
RunningNow == {h \in Hashes : torrent_active(h)}

\* "btpd starts with the same set of active torrents as it had the last time
\* it was shut down", after a crash too: none is lost if all can be loaded,
\* even when an edit of the file was cut off and left a name in it twice; and
\* if no edit was cut off and none is deleted, no other starts.
StartsAsBefore ==
    [][Restarts => /\ "damage" \notin may => was \subseteq RunningNow
                   /\ may = {} => RunningNow \subseteq was]_vars

\* The same without exception (README.md:102-103).
StartsNoMore == [][Restarts => RunningNow = was]_vars

\* Shutting down ends: the ghosts are released and the process exits, if each
\* torrent gets rid of its trackers (when it does, StopEnds of Tracker says).
ShutdownEnds ==
    (\A h \in Hashes : []<>(t[h].tr # "stop")) =>
        (proc = "preexit" ~> proc = "down" \/ fault # "none")

=============================================================================
