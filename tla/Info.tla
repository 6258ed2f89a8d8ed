-------------------------------- MODULE Info --------------------------------
(***************************************************************************)
(* The info files of the torrent library (btpd/tlib.c): what btpd keeps on *)
(* disk about each torrent, its totals in particular.  They are written    *)
(* when a torrent is added and stopped, and by the heartbeat, which saves  *)
(* one running torrent after the other (m_savetp of btpd/torrent.c).       *)
(*                                                                         *)
(* A handler is atomic but for a crash: it goes through some states of the *)
(* disk, and may die in each of them.  A write that fails ends btpd and is *)
(* such a death.  A file that is cut off is not a valid info file; what    *)
(* fsync has written and rename has put in place survives.  Stopping all   *)
(* torrents, for a shutdown too, is stopping one after the other here; a   *)
(* torrent deleted or added again while its trackers are still being told  *)
(* is a matter of Torrent.                                                 *)
(***************************************************************************)
EXTENDS Integers, Sequences, FiniteSets, SequencesExt

CONSTANTS
    Hashes,     \* the info hashes of the torrents
    None,       \* NULL; no file; no directory
    MaxBytes    \* bound: what is transferred of a torrent while it is known

VARIABLES
    mem,        \* the memory of the process
    disk,       \* the directory of each torrent: info, and if info.write exists
    truth,      \* history: what was transferred since the torrent was added
    floor,      \* history: what of it was saved by a call that returned
    added,      \* history: the torrents that were added and not deleted
    fault       \* freed memory was used, or a directory was not as expected

vars == <<mem, disk, truth, floor, added, fault>>

\* An info file is its total, or cut off.
Cut == -1

NoEntry == [known |-> FALSE, ok |-> FALSE, tot |-> 0]
Down == [up |-> FALSE,
         lib |-> [h \in Hashes |-> NoEntry],       \* ok: name and dir are known
         st |-> [h \in Hashes |-> "none"],         \* tp->state
         del |-> {},                               \* tp->delete
         sess |-> [h \in Hashes |-> 0],            \* tp->net->downloaded
         torrents |-> <<>>, savetp |-> None, due |-> FALSE]

Init ==
    /\ mem = [Down EXCEPT !.up = TRUE] /\ disk = [h \in Hashes |-> None]
    /\ truth = [h \in Hashes |-> 0] /\ floor = truth
    /\ added = {} /\ fault = FALSE

Up == mem.up /\ ~fault

\* A handler leaves m in memory and d[h] on disk, or dies on the way.
Runs(h, m, via, d) ==
    \/ mem' = m /\ disk' = [disk EXCEPT ![h] = d]
    \/ mem' = Down /\ \E x \in via \union {d} : disk' = [disk EXCEPT ![h] = x]

------------------------------------------------------------------------------
(* The disk *)

\* save_info: the states on the way, while info.write grows and is synced, and
\* the last one, after the rename.  Nobody reads info.write.
Bug_save_via(d) == {[d EXCEPT !.info = Cut]}
save_via(d) == {d, [d EXCEPT !.write = TRUE]}
saved(v) == [info |-> v, write |-> FALSE]

\* tlib_del removes the files in any order, then the directory.
del_via(d) == {[info |-> i, write |-> w] : i \in {d.info, None}, w \in {d.write, FALSE}}

load_info(d) ==
    IF d = None THEN NoEntry
    ELSE IF d.info \in {None, Cut} THEN [NoEntry EXCEPT !.known = TRUE]
    ELSE [known |-> TRUE, ok |-> TRUE, tot |-> d.info]

------------------------------------------------------------------------------
(* The list of torrents *)

\* The one after h in the list, or the first.
After(list, h, rest) ==
    LET i == SelectInSeq(list, LAMBDA x : x = h) IN
    IF i < Len(list) THEN list[i + 1] ELSE IF rest = <<>> THEN None ELSE Head(rest)

Bug_torrent_kill(m, h) ==
    [m EXCEPT !.torrents = RemoveFirst(@, h), !.st[h] = "none",
              !.sess[h] = 0, !.del = @ \ {h}]
torrent_kill(m, h) ==
    LET rest == RemoveFirst(m.torrents, h) IN
    [m EXCEPT !.torrents = rest, !.st[h] = "none", !.sess[h] = 0, !.del = @ \ {h},
              !.lib[h] = IF h \in m.del THEN NoEntry ELSE @,
              !.savetp = IF @ = h THEN After(m.torrents, h, rest) ELSE @]

\* A torrent that has become a ghost is released at once if its trackers are
\* inactive.
Ghost(m, h) == LET g == [m EXCEPT !.st[h] = "ghost"] IN {g, torrent_kill(g, h)}

torrent_active(h) == mem.st[h] \in {"starting", "on"}

\* What tlib_update_info writes, and leaves in the entry.
Bug_update_info(m, h, only_file) == [m EXCEPT !.lib[h].tot = @ + m.sess[h]]
update_info(m, h, only_file) ==
    IF only_file THEN m ELSE [m EXCEPT !.lib[h].tot = @ + m.sess[h]]
Total(h) == mem.lib[h].tot + mem.sess[h]

------------------------------------------------------------------------------
(* The handlers *)

cmd_add(h) ==
    /\ Up /\ ~mem.lib[h].known
    /\ LET new == [info |-> None, write |-> FALSE] IN
       Runs(h, [mem EXCEPT !.lib[h] = [known |-> TRUE, ok |-> TRUE, tot |-> 0]],
            {None} \union save_via(new), saved(0))
    /\ truth' = [truth EXCEPT ![h] = 0] /\ floor' = [floor EXCEPT ![h] = 0]
    /\ added' = IF mem'.up THEN added \union {h} ELSE added
    /\ fault' = (disk[h] # None)

cmd_del(h) ==
    /\ Up /\ mem.lib[h].known /\ mem.st[h] # "ghost" /\ disk[h] # None
    /\ LET dead == [mem EXCEPT !.lib[h] = NoEntry] IN
       \E m \in IF torrent_active(h)
                 THEN Ghost([mem EXCEPT !.del = @ \union {h}], h) ELSE {dead} :
         Runs(h, m, del_via(disk[h]), None)
    /\ added' = added \ {h}
    /\ UNCHANGED <<truth, floor, fault>>

\* A ghost is released first.  An entry without a name or directory is refused,
\* and so is one whose metainfo file cannot be loaded.
torrent_start(m, h) ==
    LET k == IF m.st[h] = "ghost" THEN torrent_kill(m, h) ELSE m
        s == [k EXCEPT !.torrents = Append(@, h), !.st[h] = "starting"] IN
    {k} \union (IF ~k.lib[h].ok THEN {}
                ELSE IF Len(s.torrents) > 1 THEN {s}
                ELSE {[s EXCEPT !.savetp = h, !.due = FALSE]})

cmd_start(h) ==
    /\ Up /\ mem.lib[h].known /\ ~torrent_active(h) /\ h \notin mem.del
    /\ mem' \in torrent_start(mem, h)
    /\ UNCHANGED <<disk, truth, floor, added, fault>>

\* become_ghost writes to the directory of the torrent.
torrent_stop(h) ==
    /\ Up /\ torrent_active(h)
    /\ IF disk[h] = None THEN fault' = TRUE /\ UNCHANGED <<mem, disk, floor>>
       ELSE /\ \E m \in Ghost(update_info(mem, h, FALSE), h) :
                 Runs(h, m, save_via(disk[h]), saved(Total(h)))
            /\ floor' = IF mem'.up THEN [floor EXCEPT ![h] = Total(h)] ELSE floor
            /\ UNCHANGED fault
    /\ UNCHANGED <<truth, added>>

\* Data is transferred.
transfer(h) ==
    /\ Up /\ mem.st[h] = "on" /\ truth[h] < MaxBytes
    /\ mem' = [mem EXCEPT !.sess[h] = @ + 1]
    /\ truth' = [truth EXCEPT ![h] = @ + 1]
    /\ UNCHANGED <<disk, floor, added, fault>>

\* SAVE_INTERVAL, divided by the number of torrents, passes.
pass ==
    /\ Up /\ mem.savetp # None /\ ~mem.due
    /\ mem' = [mem EXCEPT !.due = TRUE]
    /\ UNCHANGED <<disk, truth, floor, added, fault>>

\* torrent_on_tick for every torrent: tests that have ended, and ghosts whose
\* trackers are inactive.
ticked(ready, gone) ==
    LET tp == mem.torrents
        after[i \in 0..Len(tp)] ==
          IF i = 0
          THEN [mem EXCEPT !.st = [h \in Hashes |-> IF h \in ready THEN "on" ELSE @[h]]]
          ELSE IF tp[i] \in gone THEN torrent_kill(after[i - 1], tp[i]) ELSE after[i - 1]
    IN after[Len(tp)]

\* torrent_on_tick_all saves the torrent whose turn it is, if it runs.
Saves(m) == m.savetp # None /\ m.due /\ m.st[m.savetp] = "on"

heartbeat_cb ==
    /\ Up
    /\ \E ready \in SUBSET {h \in Hashes : mem.st[h] = "starting"},
          gone \in SUBSET {h \in Hashes : mem.st[h] = "ghost"} :
         LET m == ticked(ready, gone)
             h == m.savetp
             v == Total(h) IN
         IF m.savetp # None /\ ~Contains(m.torrents, m.savetp)
         THEN fault' = TRUE /\ UNCHANGED <<mem, disk, floor>>
         ELSE IF ~Saves(m)
         THEN mem' = m /\ UNCHANGED <<disk, floor, fault>>
         ELSE IF disk[h] = None
         THEN fault' = TRUE /\ UNCHANGED <<mem, disk, floor>>
         ELSE /\ Runs(h, [update_info(m, h, TRUE) EXCEPT
                            !.savetp = After(m.torrents, h, m.torrents), !.due = FALSE],
                      save_via(disk[h]), saved(v))
              /\ floor' = IF mem'.up THEN [floor EXCEPT ![h] = v] ELSE floor
              /\ UNCHANGED fault
    /\ UNCHANGED <<truth, added>>

\* The process ends, and starts again: tlib_init.
crash ==
    /\ Up /\ mem' = Down
    /\ UNCHANGED <<disk, truth, floor, added, fault>>
btpd_init ==
    /\ ~mem.up /\ ~fault
    /\ mem' = [Down EXCEPT !.up = TRUE, !.lib = [h \in Hashes |-> load_info(disk[h])]]
    /\ UNCHANGED <<disk, truth, floor, added, fault>>

Next ==
    \/ \E h \in Hashes : \/ cmd_add(h) \/ cmd_del(h) \/ cmd_start(h)
                         \/ torrent_stop(h) \/ transfer(h)
    \/ pass \/ heartbeat_cb \/ crash \/ btpd_init

Spec == Init /\ [][Next]_vars

------------------------------------------------------------------------------
(* Properties *)

TypeOK ==
    /\ mem.up \in BOOLEAN /\ mem.due \in BOOLEAN
    /\ mem.lib \in [Hashes -> [known : BOOLEAN, ok : BOOLEAN, tot : Nat]]
    /\ mem.st \in [Hashes -> {"none", "starting", "on", "ghost"}]
    /\ mem.del \in SUBSET Hashes /\ mem.sess \in [Hashes -> Nat]
    /\ truth \in [Hashes -> Nat] /\ floor \in [Hashes -> Nat]
    /\ added \in SUBSET Hashes /\ fault \in BOOLEAN

\* What btpd says it has transferred of a torrent, as it is saved and shown.
\* (While a stopped torrent is not yet released btcli shows tot + sess, which
\* counts what was transferred since its start twice.)
Said(h) == mem.lib[h].tot + (IF torrent_active(h) THEN mem.sess[h] ELSE 0)

\* A torrent that was added is known by name after every crash, what btpd says
\* it has transferred is never less than what a completed call has saved and
\* never more than what was transferred, and the torrent whose turn it is to be
\* saved (m_savetp) is one of the list.
InfoSurvives ==
    /\ TypeOK /\ ~fault
    /\ mem.savetp = None <=> mem.torrents = <<>>
    /\ mem.savetp # None => Contains(mem.torrents, mem.savetp)
    /\ mem.up => \A h \in added :
         /\ mem.lib[h].known /\ mem.lib[h].ok
         /\ floor[h] <= Said(h) /\ Said(h) <= truth[h]

=============================================================================
