--------------------------- MODULE TorrentProofs ----------------------------
(***************************************************************************)
(* Proofs about Torrent, for any set of torrents and every scenario: the   *)
(* library and the active torrents stay linked, directories and the file   *)
(* `active' are kept, and a restart finds the torrents it should find.     *)
(* And about Info, as MCTorrent has it: the totals in the info files, and  *)
(* the turn to be saved, outlive the death of any handler on its way.      *)
(***************************************************************************)
EXTENDS MCTorrent, SeqFacts

\* One entry: what it may look like, and how its parts go together.
EntryOk(r) ==
    /\ r \in Entry
    /\ ~Running(r) => r.cm = "inactive"
    /\ ~Live(r) => r.tr = "off" /\ ~r.delete
    /\ r.ptr = "tp" <=> Live(r)
    /\ Live(r) => r.known
    /\ Running(r) => ~r.delete
    /\ "readd" \notin may => r.back /\ r.ptr # "dangling"

\* The rest of TypeOK.
OthersOk ==
    /\ dir \in SUBSET Hashes /\ broken \in SUBSET Hashes
    /\ active \in Seq(Hashes) /\ Len(active) <= MaxActive
    /\ proc \in {"down", "boot", "up", "preexit"}
    /\ boot \in [rd : Nat \ {0}, pos : Nat \ {0}]
    /\ was \in SUBSET Hashes
    /\ fault \in {"none", "freed", "assert", "exit"}
    /\ may \in Scenarios

EntriesOk == t \in [Hashes -> Entry] /\ \A h \in Hashes : EntryOk(t[h])

\* An entry that is in the library and will stay there.
Stays(r) == r.known /\ ~r.delete

\* Directories, for one entry.
DirOk(h) ==
    /\ Stays(t[h]) => h \in dir
    /\ proc \in {"boot", "up"} /\ "del_ghost" \notin may /\ ~Stays(t[h]) => h \notin dir

\* The part of the file that active_start has read.
Read(h) == \E j \in 1..Len(active) : j < boot.rd /\ active[j] = h

\* The file, for one entry: deletions in the loop of active_start spare what
\* it has read.
FileOk(h) ==
    /\ proc = "up" /\ Running(t[h]) => Contains(active, h)
    /\ proc = "boot" => /\ Live(t[h]) => Read(h)
                        /\ t[h].state \in {"none", "starting"}

DiskOk == /\ \A h \in Hashes : DirOk(h) /\ FileOk(h)
          /\ proc = "boot" => boot.rd <= boot.pos

\* When nothing but starting and stopping happens the file is what the user
\* asked for.
HistoryOk == may = {} =>
    /\ broken = {} /\ Distinct(active) /\ Range(active) = was /\ was \subseteq dir
    /\ \A h \in Hashes : /\ ~t[h].delete /\ ~t[h].error
                         /\ proc = "up" => (h \in was <=> torrent_active(h))
                         /\ proc = "boot" => (torrent_active(h) <=> Read(h))
                         /\ proc = "boot" /\ h \in dir => t[h].known
    /\ proc = "boot" => boot.rd = boot.pos

\* Unless directories are damaged, what was started and not stopped is in the
\* file, perhaps twice, and in the library, and started when it is read.
KeptOk(h) ==
    /\ h \in was => Contains(active, h) /\ h \in dir
    /\ proc = "boot" => /\ h \in dir => t[h].known
                        /\ t[h].ptr # "dangling"
                        /\ h \in was /\ Read(h) => torrent_active(h)

StartedOk == "damage" \notin may => broken = {} /\ \A h \in Hashes : KeptOk(h)

\* The inductive invariant.
IInv == OthersOk /\ EntriesOk /\ DiskOk /\ HistoryOk /\ StartedOk

------------------------------------------------------------------------------
(* What the functions of torrent.c do to one entry *)

\* No entry and no torrent.
LEMMA AbsentOk == EntryOk(Absent) /\ ~Live(Absent) /\ ~Running(Absent) /\ ~Stays(Absent)
                  /\ ~Absent.error /\ Absent.ptr = "null" /\ Absent.state = "none"
BY DEF EntryOk, Entry, Absent, Live, Running, Stays, States

\* torrent_kill.
LEMMA KillOk ==
    ASSUME NEW r, EntryOk(r)
    PROVE  LET q == torrent_kill(r) IN
           /\ EntryOk(q) /\ ~Live(q) /\ ~Running(q) /\ ~q.error /\ ~q.delete
           /\ Stays(q) <=> Stays(r)
<1> DEFINE q == torrent_kill(r)
           k == r.known /\ ~r.delete
           p == IF r.back THEN "null" ELSE "dangling"
           d == [Absent EXCEPT !.known = k]
<1>1. /\ k \in BOOLEAN /\ p \in {"null", "dangling"} /\ (k <=> Stays(r))
      /\ "readd" \notin may => p = "null"
  BY DEF EntryOk, Entry, Stays
<1>2. q = [d EXCEPT !.ptr = p]
  BY DEF torrent_kill
<1> HIDE DEF k, p
<1>3. /\ Absent \in Entry /\ Absent.state = "none" /\ Absent.delete = FALSE
      /\ Absent.error = FALSE /\ Absent.tr = "off" /\ Absent.cm = "inactive"
      /\ Absent.back = TRUE
  BY DEF Absent, Entry, States
<1>4. /\ d \in Entry /\ d.known = k /\ d.state = "none" /\ d.delete = FALSE
      /\ d.error = FALSE /\ d.tr = "off" /\ d.cm = "inactive" /\ d.back = TRUE
  BY <1>1, <1>3 DEF Entry
<1> HIDE DEF d, q
<1>5. /\ q \in Entry /\ q.known = k /\ q.state = "none" /\ q.delete = FALSE
      /\ q.error = FALSE /\ q.tr = "off" /\ q.cm = "inactive" /\ q.back = TRUE
      /\ q.ptr = p
  BY <1>1, <1>2, <1>4 DEF Entry
<1> QED BY <1>1, <1>5 DEF EntryOk, Live, Running, Stays, q

\* What torrent_stop leaves: nothing that runs, and what stays in the library
\* unless it is to be deleted.
LEMMA StopOk ==
    ASSUME NEW r, EntryOk(r), Live(r), NEW del \in BOOLEAN, NEW q \in torrent_stop(r, del)
    PROVE  /\ EntryOk(q) /\ ~Running(q)
           /\ Stays(q) <=> Stays(r) /\ ~del
           /\ q.delete => r.delete \/ del
           /\ q.error => r.error
<1> DEFINE x == r.delete \/ del
           a == [r EXCEPT !.delete = x]
           b == [a EXCEPT !.state = "ghost"]
           g == [b EXCEPT !.cm = "inactive"]
           h(v) == [g EXCEPT !.tr = v]
<1>1. r \in Entry /\ r.known /\ x \in BOOLEAN /\ r.ptr = "tp"
      /\ ("readd" \notin may => r.back) /\ (x <=> r.delete \/ del)
  BY DEF EntryOk, Entry
<1>2. g = stopped(a)
  BY DEF stopped
<1>3. a = [r EXCEPT !.delete = @ \/ del]
  OBVIOUS
<1>4. \/ ~Running(r) /\ q = a
      \/ q = torrent_kill(h("off"))
      \/ q = h("stop")
  BY <1>2, <1>3 DEF torrent_stop
<1> HIDE DEF x
<1>5. /\ a \in Entry /\ a.delete = x /\ a.known = r.known /\ a.ptr = r.ptr /\ a.back = r.back
      /\ a.state = r.state /\ a.tr = r.tr /\ a.cm = r.cm /\ a.error = r.error
  BY <1>1 DEF Entry
<1> HIDE DEF a
<1>6. /\ b \in Entry /\ b.delete = x /\ b.known = r.known /\ b.ptr = r.ptr /\ b.back = r.back
      /\ b.state = "ghost" /\ b.error = r.error
  BY <1>5 DEF Entry, States
<1> HIDE DEF b
<1>7. /\ g \in Entry /\ g.delete = x /\ g.known = r.known /\ g.ptr = r.ptr /\ g.back = r.back
      /\ g.state = "ghost" /\ g.cm = "inactive" /\ g.error = r.error
  BY <1>6 DEF Entry
<1> HIDE DEF g
<1>8. ASSUME NEW v \in {"off", "stop"}
      PROVE  /\ EntryOk(h(v)) /\ h(v).delete = x /\ h(v).known = r.known
             /\ h(v).state = "ghost" /\ h(v).error = r.error
  <2>1. /\ h(v) \in Entry /\ h(v).delete = x /\ h(v).known = r.known /\ h(v).ptr = r.ptr
        /\ h(v).back = r.back /\ h(v).state = "ghost" /\ h(v).cm = "inactive"
        /\ h(v).error = r.error
    BY <1>7 DEF Entry
  <2> HIDE DEF h
  <2> QED BY <1>1, <2>1 DEF EntryOk, Live, Running
<1> HIDE DEF h
<1>9. CASE ~Running(r) /\ q = a
  <2>1. EntryOk(a) /\ ~Running(a)
    BY <1>1, <1>5, <1>9 DEF EntryOk, Live, Running
  <2> QED BY <1>1, <1>5, <1>9, <2>1 DEF Stays
<1>10. CASE q = torrent_kill(h("off"))
  BY <1>1, <1>8, <1>10, KillOk DEF Stays
<1>11. CASE q = h("stop")
  BY <1>1, <1>8, <1>11 DEF Stays, Running
<1> QED BY <1>4, <1>9, <1>10, <1>11

\* What torrent_start leaves.
LEMMA StartOk ==
    ASSUME NEW h \in Hashes, EntryOk(t[h]), t[h].known, torrent_startable(h),
           NEW r \in torrent_start(h)
    PROVE  /\ EntryOk(r) /\ Stays(r) /\ ~r.delete
           /\ h \in broken => ~Live(r)
           /\ h \notin broken => r.state = "starting" /\ r.ptr = "tp"
           /\ "io_error" \notin may => ~r.error
<1>1. ~Running(t[h]) /\ ~t[h].delete /\ t[h] \in Entry
  BY DEF EntryOk, torrent_startable, Live, Running
<1>2. CASE h \in broken
  <2> DEFINE a == [t[h] EXCEPT !.ptr = "null"]
             b == [a EXCEPT !.state = "none"]
             c == [b EXCEPT !.tr = "off"]
  <2>1. r = [c EXCEPT !.error = FALSE]
    BY <1>2 DEF torrent_start
  <2>2. /\ a \in Entry /\ a.ptr = "null" /\ a.known = t[h].known /\ a.delete = t[h].delete
        /\ a.back = t[h].back /\ a.cm = t[h].cm
    BY <1>1 DEF Entry
  <2> HIDE DEF a
  <2>3. /\ b \in Entry /\ b.ptr = "null" /\ b.known = t[h].known /\ b.delete = t[h].delete
        /\ b.back = t[h].back /\ b.cm = t[h].cm /\ b.state = "none"
    BY <2>2 DEF Entry, States
  <2> HIDE DEF b
  <2>4. /\ c \in Entry /\ c.ptr = "null" /\ c.known = t[h].known /\ c.delete = t[h].delete
        /\ c.back = t[h].back /\ c.cm = t[h].cm /\ c.state = "none" /\ c.tr = "off"
    BY <2>3 DEF Entry
  <2> HIDE DEF c
  <2>5. /\ r \in Entry /\ r.ptr = "null" /\ r.known = t[h].known /\ r.delete = t[h].delete
        /\ r.back = t[h].back /\ r.cm = t[h].cm /\ r.state = "none" /\ r.tr = "off"
        /\ r.error = FALSE
    BY <2>1, <2>4 DEF Entry
  <2> QED BY <1>1, <1>2, <2>5 DEF EntryOk, Live, Running, Stays
<1>3. CASE h \notin broken
  <2>1. PICK cm \in {"starting", "active", "inactive"} :
          /\ r = [Absent EXCEPT !.known = TRUE, !.ptr = "tp", !.state = "starting",
                                !.cm = cm, !.error = (cm = "inactive")]
          /\ cm = "inactive" => "io_error" \in may
    <3> DEFINE N(x) == [Absent EXCEPT !.known = TRUE, !.ptr = "tp", !.state = "starting",
                                      !.cm = x, !.error = (x = "inactive")]
    <3>1. r \in {N(x) : x \in {"starting", "active"}
                              \union (IF "io_error" \in may THEN {"inactive"} ELSE {})}
      BY <1>3 DEF torrent_start
    <3> HIDE DEF N
    <3>2. \E x \in {"starting", "active", "inactive"} :
            r = N(x) /\ (x = "inactive" => "io_error" \in may)
      BY <3>1
    <3> QED BY <3>2 DEF N
  <2> DEFINE e == cm = "inactive"
             a == [Absent EXCEPT !.known = TRUE]
             b == [a EXCEPT !.ptr = "tp"]
             c == [b EXCEPT !.state = "starting"]
             d == [c EXCEPT !.cm = cm]
  <2>2. e \in BOOLEAN /\ ("io_error" \notin may => e = FALSE)
    BY <2>1
  <2>3. r = [d EXCEPT !.error = e]
    BY <2>1
  <2> HIDE DEF e
  <2>4. Absent \in Entry /\ Absent.delete = FALSE /\ Absent.back = TRUE
    BY DEF Absent, Entry, States
  <2>5. a \in Entry /\ a.delete = FALSE /\ a.back = TRUE /\ a.known = TRUE
    BY <2>4 DEF Entry
  <2> HIDE DEF a
  <2>6. b \in Entry /\ b.delete = FALSE /\ b.back = TRUE /\ b.known = TRUE /\ b.ptr = "tp"
    BY <2>5 DEF Entry
  <2> HIDE DEF b
  <2>7. /\ c \in Entry /\ c.delete = FALSE /\ c.back = TRUE /\ c.known = TRUE /\ c.ptr = "tp"
        /\ c.state = "starting"
    BY <2>6 DEF Entry, States
  <2> HIDE DEF c
  <2>8. /\ d \in Entry /\ d.delete = FALSE /\ d.back = TRUE /\ d.known = TRUE /\ d.ptr = "tp"
        /\ d.state = "starting"
    BY <2>7 DEF Entry
  <2> HIDE DEF d
  <2>9. /\ r \in Entry /\ r.delete = FALSE /\ r.back = TRUE /\ r.known = TRUE /\ r.ptr = "tp"
        /\ r.state = "starting" /\ r.error = e
    BY <2>2, <2>3, <2>8 DEF Entry
  <2> QED BY <1>3, <2>2, <2>9 DEF EntryOk, Live, Running, Stays
<1> QED BY <1>2, <1>3

\* What a tick leaves: it stops what is in error, and nothing else.
LEMMA TickOk ==
    ASSUME NEW r, EntryOk(r), NEW q \in torrent_on_tick(r)
    PROVE  /\ EntryOk(q)
           /\ Stays(q) <=> Stays(r)
           /\ q.delete => r.delete
           /\ q.error => r.error
           /\ Running(q) => Running(r)
           /\ ~r.error /\ Running(r) => Running(q)
<1>1. CASE Running(r) /\ r.error
  <2>1. q \in torrent_stop(r, FALSE)
    BY <1>1 DEF torrent_on_tick
  <2> QED BY <1>1, <2>1, StopOk DEF Live, Running
<1>2. CASE ~(Running(r) /\ r.error)
  <2>1. q \in Ticked(r)
    BY <1>2 DEF torrent_on_tick
  <2>2. \/ q = r
        \/ r.state = "ghost" /\ q = torrent_kill(r)
        \/ r.state = "leech" /\ q = [r EXCEPT !.state = "seed"]
        \/ r.state = "starting" /\ \E x \in {"on", "off"}, y \in {"seed", "leech"} :
              q = [r EXCEPT !.state = y, !.tr = x]
    BY <2>1 DEF Ticked
  <2>3. CASE q = r
    BY <2>3
  <2>4. CASE r.state = "ghost" /\ q = torrent_kill(r)
    BY <2>4, KillOk DEF Running
  <2>5. CASE r.state = "leech" /\ q = [r EXCEPT !.state = "seed"]
    <3>1. r \in Entry /\ q = [r EXCEPT !.state = "seed"]
      BY <2>5 DEF EntryOk
    <3>2. /\ q \in Entry /\ q.delete = r.delete /\ q.known = r.known /\ q.ptr = r.ptr
          /\ q.back = r.back /\ q.state = "seed" /\ q.error = r.error
      BY <3>1 DEF Entry, States
    <3> QED BY <2>5, <3>2 DEF EntryOk, Live, Running, Stays
  <2>6. ASSUME r.state = "starting", NEW x \in {"on", "off"}, NEW y \in {"seed", "leech"},
               q = [r EXCEPT !.state = y, !.tr = x]
        PROVE  /\ EntryOk(q) /\ (Stays(q) <=> Stays(r)) /\ (q.delete => r.delete)
               /\ (q.error => r.error) /\ Running(r) /\ Running(q)
    <3> DEFINE a == [r EXCEPT !.state = y]
    <3>1. r \in Entry /\ q = [a EXCEPT !.tr = x]
      BY <2>6 DEF EntryOk
    <3>2. /\ a \in Entry /\ a.delete = r.delete /\ a.known = r.known /\ a.ptr = r.ptr
          /\ a.back = r.back /\ a.state = y /\ a.error = r.error
      BY <3>1 DEF Entry, States
    <3> HIDE DEF a
    <3>3. /\ q \in Entry /\ q.delete = r.delete /\ q.known = r.known /\ q.ptr = r.ptr
          /\ q.back = r.back /\ q.state = y /\ q.error = r.error
      BY <3>1, <3>2 DEF Entry
    <3> QED BY <2>6, <3>3 DEF EntryOk, Live, Running, Stays
  <2> QED BY <2>2, <2>3, <2>4, <2>5, <2>6
<1> QED BY <1>1, <1>2

------------------------------------------------------------------------------
(* The steps *)

\* Entries after a step.
LEMMA EntriesNext ==
    ASSUME may' = may, DOMAIN t' = Hashes, t' \in [Hashes -> Entry],
           \A h \in Hashes : EntryOk(t'[h])
    PROVE  EntriesOk'
BY DEF EntriesOk, EntryOk

\* Entries after a step that changes one of them.
LEMMA OneEntry ==
    ASSUME EntriesOk, may' = may, NEW h \in Hashes, NEW r, EntryOk(r), t' = [t EXCEPT ![h] = r]
    PROVE  /\ EntriesOk'
           /\ t'[h] = r /\ \A g \in Hashes : g # h => t'[g] = t[g]
<1>1. r \in Entry /\ t \in [Hashes -> Entry]
  BY DEF EntryOk, EntriesOk
<1>2. /\ t' \in [Hashes -> Entry] /\ DOMAIN t' = Hashes
      /\ t'[h] = r /\ \A g \in Hashes : g # h => t'[g] = t[g]
  BY <1>1
<1>3. \A g \in Hashes : EntryOk(t'[g])
  BY <1>2 DEF EntriesOk
<1> QED BY <1>2, <1>3, EntriesNext

\* btcli add.
LEMMA StepAdd ==
    ASSUME IInv, may' = may, NEW h \in Hashes, cmd_add(h) PROVE IInv'
<1>1. /\ dir' = dir \union {h} /\ broken' = broken \ {h} /\ proc = "up"
      /\ UNCHANGED <<active, proc, boot, was>> /\ fault' \in {"none", "exit"}
  BY DEF cmd_add, Serving
<1>2. EntryOk(t[h]) /\ t[h] \in Entry
  BY DEF IInv, EntriesOk
<1>3. /\ EntriesOk'
      /\ \A g \in Hashes : g # h => t'[g] = t[g]
      /\ t'[h].state = t[h].state /\ t'[h].ptr = t[h].ptr /\ t'[h].error = t[h].error
      /\ Stays(t'[h]) /\ t'[h].delete = FALSE
  <2>1. CASE ~t[h].known /\ t' = [t EXCEPT ![h].known = TRUE]
    <3> DEFINE r == [t[h] EXCEPT !.known = TRUE]
    <3>1. t' = [t EXCEPT ![h] = r]
      BY <2>1
    <3>2. /\ r \in Entry /\ r.known = TRUE /\ r.delete = t[h].delete /\ r.ptr = t[h].ptr
          /\ r.back = t[h].back /\ r.state = t[h].state /\ r.error = t[h].error
          /\ r.tr = t[h].tr /\ r.cm = t[h].cm
      BY <1>2 DEF Entry
    <3>3. ~Live(t[h]) /\ t[h].delete = FALSE
      BY <1>2, <2>1 DEF EntryOk, Entry
    <3> HIDE DEF r
    <3>4. EntryOk(r)
      BY <1>2, <3>2, <3>3 DEF EntryOk, Live, Running
    <3> QED BY <3>1, <3>2, <3>3, <3>4, OneEntry DEF IInv, Stays
  <2>2. CASE /\ "readd" \in may /\ t[h].known /\ torrent_haunting(h)
             /\ t' = [t EXCEPT ![h].delete = FALSE, ![h].back = FALSE]
    <3> DEFINE q == [t[h] EXCEPT !.delete = FALSE]
               r == [q EXCEPT !.back = FALSE]
    <3>1. t' = [t EXCEPT ![h] = r]
      BY <2>2 DEF IInv, EntriesOk
    <3>2. /\ q \in Entry /\ q.known = t[h].known /\ q.delete = FALSE /\ q.ptr = t[h].ptr
          /\ q.state = t[h].state /\ q.error = t[h].error
          /\ q.tr = t[h].tr /\ q.cm = t[h].cm
      BY <1>2 DEF Entry
    <3> HIDE DEF q
    <3>3. /\ r \in Entry /\ r.known = t[h].known /\ r.delete = FALSE /\ r.ptr = t[h].ptr
          /\ r.state = t[h].state /\ r.error = t[h].error
          /\ r.tr = t[h].tr /\ r.cm = t[h].cm
      BY <3>2 DEF Entry
    <3> HIDE DEF r
    <3>4. EntryOk(r)
      BY <1>2, <2>2, <3>3 DEF EntryOk, Live, Running
    <3> QED BY <2>2, <3>1, <3>3, <3>4, OneEntry DEF IInv, Stays
  <2> QED BY <2>1, <2>2 DEF cmd_add
<1>4. OthersOk'
  BY <1>1 DEF IInv, OthersOk
<1>5. DiskOk'
  <2>1. \A g \in Hashes : DirOk(g)'
    BY <1>1, <1>3 DEF IInv, DiskOk, DirOk
  <2>2. \A g \in Hashes : FileOk(g)'
    BY <1>1, <1>3 DEF IInv, DiskOk, FileOk, Running
  <2> QED BY <1>1, <2>1, <2>2 DEF DiskOk
<1>6. HistoryOk'
  BY <1>1, <1>3 DEF IInv, HistoryOk, torrent_active
<1>7. StartedOk'
  BY <1>1 DEF IInv, StartedOk, KeptOk
<1> QED BY <1>3, <1>4, <1>5, <1>6, <1>7 DEF IInv

\* btcli del.
LEMMA StepDel ==
    ASSUME IInv, may' = may, NEW h \in Hashes, cmd_del(h) PROVE IInv'
<1>1. /\ was' = was \ {h} /\ proc = "up" /\ may # {}
      /\ UNCHANGED <<broken, active, proc, boot, fault>>
      /\ t[h].state = "ghost" => "del_ghost" \in may
      /\ t[h].ptr \in {"null", "tp"}
  BY DEF cmd_del, Serving, Dangles, IInv, EntriesOk, Entry
<1>2. EntryOk(t[h])
  BY DEF IInv, EntriesOk
<1>3. /\ EntriesOk' /\ dir' \in SUBSET dir /\ dir \ {h} \subseteq dir'
      /\ \A g \in Hashes : g # h => t'[g] = t[g]
      /\ ~Stays(t'[h]) /\ ~Running(t'[h])
      /\ "del_ghost" \notin may => h \notin dir'
  <2>1. CASE t[h].ptr = "null"
    <3>1. t' = [t EXCEPT ![h] = Absent] /\ dir' = dir \ {h}
      BY <2>1 DEF cmd_del
    <3> QED BY <3>1, AbsentOk, OneEntry DEF IInv
  <2>2. CASE t[h].ptr = "tp"
    <3>1. PICK r \in torrent_stop(t[h], TRUE) : t' = [t EXCEPT ![h] = r]
      BY <2>2 DEF cmd_del
    <3>2. Live(t[h])
      BY <1>2, <2>2 DEF EntryOk
    <3>3. EntryOk(r) /\ ~Running(r) /\ ~Stays(r)
      BY <1>2, <3>1, <3>2, StopOk
    <3>4. dir' = IF Running(t[h]) THEN dir \ {h} ELSE dir
      BY <2>2 DEF cmd_del, removed_dir
    <3>5. "del_ghost" \notin may => Running(t[h])
      BY <1>1, <1>2, <3>2 DEF EntryOk, Entry, Live, Running, States
    <3> QED BY <3>1, <3>3, <3>4, <3>5, OneEntry DEF IInv
  <2> QED BY <1>1, <2>1, <2>2
<1>4. OthersOk'
  BY <1>1, <1>3 DEF IInv, OthersOk
<1>5. DiskOk'
  <2>1. \A g \in Hashes : DirOk(g)'
    BY <1>1, <1>3 DEF IInv, DiskOk, DirOk
  <2>2. \A g \in Hashes : FileOk(g)'
    BY <1>1, <1>3 DEF IInv, DiskOk, FileOk
  <2> QED BY <1>1, <2>1, <2>2 DEF DiskOk
<1>6. HistoryOk'
  BY <1>1 DEF HistoryOk
<1>7. StartedOk'
  BY <1>1, <1>3 DEF IInv, StartedOk, KeptOk
<1> QED BY <1>3, <1>4, <1>5, <1>6, <1>7 DEF IInv

\* btcli start.
LEMMA StepStart ==
    ASSUME IInv, may' = may, NEW h \in Hashes, cmd_start(h) PROVE IInv'
<1>1. /\ proc = "up" /\ t[h].known /\ torrent_startable(h) /\ Len(active) < MaxActive
      /\ UNCHANGED <<dir, broken, proc, boot, fault>>
  BY DEF cmd_start, Serving
<1>2. EntryOk(t[h])
  BY DEF IInv, EntriesOk
<1>3. PICK r \in torrent_start(h) : t' = [t EXCEPT ![h] = r]
  BY DEF cmd_start
<1>4. /\ EntryOk(r) /\ Stays(r) /\ ~r.delete
      /\ h \in broken => ~Live(r)
      /\ h \notin broken => r.state = "starting" /\ r.ptr = "tp"
      /\ "io_error" \notin may => ~r.error
  BY <1>1, <1>2, <1>3, StartOk
<1>5. EntriesOk' /\ t'[h] = r /\ \A g \in Hashes : g # h => t'[g] = t[g]
  BY <1>3, <1>4, OneEntry DEF IInv
<1>6. Stays(t[h])
  BY <1>1, <1>2 DEF Stays, torrent_startable, EntryOk
<1>7. \A g \in Hashes : DirOk(g)'
  BY <1>1, <1>4, <1>5, <1>6 DEF IInv, DiskOk, DirOk
<1>8. CASE h \in broken
  <2>1. UNCHANGED <<active, was>>
    BY <1>8 DEF cmd_start
  <2>2. OthersOk'
    BY <1>1, <2>1 DEF IInv, OthersOk
  <2>3. \A g \in Hashes : FileOk(g)'
    BY <1>1, <1>4, <1>5, <1>8, <2>1 DEF IInv, DiskOk, FileOk, Running, Live
  <2>4. HistoryOk' /\ StartedOk'
    BY <1>8 DEF IInv, HistoryOk, StartedOk
  <2> QED BY <1>1, <1>5, <1>7, <2>2, <2>3, <2>4 DEF IInv, DiskOk
<1>9. CASE h \notin broken
  <2>1. active' = Append(active, h) /\ was' = was \union {h}
    BY <1>9 DEF cmd_start, active_add
  <2>2. active \in Seq(Hashes) /\ MaxActive \in Nat
    BY TorrentAssumption DEF IInv, OthersOk
  <2>3. OthersOk'
    BY <1>1, <2>1, <2>2 DEF IInv, OthersOk
  <2>4. \A g \in Hashes : FileOk(g)'
    <3>1. Contains(active', h) /\ \A g : Contains(active, g) => Contains(active', g)
      BY <2>1, <2>2 DEF Contains
    <3> QED BY <1>1, <1>5, <3>1 DEF IInv, DiskOk, FileOk
  <2>5. HistoryOk'
    <3> SUFFICES ASSUME may = {} PROVE HistoryOk'
      BY DEF HistoryOk
    <3>1. h \notin was
      BY <1>1 DEF IInv, HistoryOk, torrent_active, torrent_startable
    <3>2. Distinct(active') /\ Range(active') = was'
      BY <2>1, <2>2, <3>1, AppendQueue DEF IInv, HistoryOk
    <3>3. h \in dir
      BY <1>6 DEF IInv, DiskOk, DirOk
    <3>4. \A g \in Hashes : /\ ~t'[g].delete /\ ~t'[g].error
                            /\ g \in was' <=> torrent_active(g)'
      BY <1>1, <1>4, <1>5, <1>9, <2>1 DEF IInv, HistoryOk, torrent_active
    <3> QED BY <1>1, <2>1, <3>2, <3>3, <3>4 DEF IInv, HistoryOk
  <2>6. StartedOk'
    <3>1. Contains(active', h) /\ \A g : Contains(active, g) => Contains(active', g)
      BY <2>1, <2>2 DEF Contains
    <3>2. h \in dir
      BY <1>6 DEF IInv, DiskOk, DirOk
    <3> QED BY <1>1, <2>1, <3>1, <3>2 DEF IInv, StartedOk, KeptOk
  <2> QED BY <1>1, <1>5, <1>7, <2>3, <2>4, <2>5, <2>6 DEF IInv, DiskOk
<1> QED BY <1>8, <1>9

\* btcli start on a torrent that was freed: the invariant says nothing more
\* of what follows.
LEMMA StepStartDangling ==
    ASSUME IInv, may' = may, NEW h \in Hashes, cmd_start_dangling(h) PROVE IInv'
<1>1. /\ fault' \in {"assert", "freed"}
      /\ UNCHANGED <<t, dir, broken, active, proc, boot, was>>
  BY DEF cmd_start_dangling
<1> QED
  BY <1>1 DEF IInv, OthersOk, EntriesOk, EntryOk, DiskOk, DirOk, FileOk, Read, HistoryOk,
              StartedOk, KeptOk, torrent_active

\* btcli start --all.
LEMMA StepStartAll == ASSUME IInv, may' = may, cmd_start_all PROVE IInv'
<1> DEFINE hs == {h \in Hashes : t[h].known /\ torrent_startable(h)}
<1>1. /\ proc = "up" /\ Len(active) + Cardinality(hs) <= MaxActive
      /\ UNCHANGED <<dir, broken, proc, boot>>
  BY DEF cmd_start_all, Serving
<1>2. CASE hs \intersect broken # {}
  <2>1. fault' = "exit" /\ UNCHANGED <<t, active, was>>
    BY <1>2 DEF cmd_start_all
  <2> QED
    BY <1>1, <2>1 DEF IInv, OthersOk, EntriesOk, EntryOk, DiskOk, DirOk, FileOk, Read,
                      HistoryOk, StartedOk, KeptOk, torrent_active
<1>3. CASE hs \intersect broken = {}
  <2>1. /\ was' = was \union hs /\ UNCHANGED fault
        /\ \E s \in SetToSeqs(hs) : active' = active \o s
        /\ \E f \in [hs -> UNION {torrent_start(h) : h \in hs}] :
              t' = [h \in Hashes |-> IF h \in hs THEN f[h] ELSE t[h]]
    BY <1>3 DEF cmd_start_all
  <2>2. PICK f \in [hs -> UNION {torrent_start(h) : h \in hs}] :
              t' = [h \in Hashes |-> IF h \in hs THEN f[h] ELSE t[h]]
    BY <2>1
  <2>3. PICK s \in SetToSeqs(hs) : active' = active \o s
    BY <2>1
  <2>4. IsFiniteSet(hs) /\ hs \subseteq Hashes
    BY TorrentAssumption, FS_Subset
  <2>5. s \in Seq(hs) /\ Len(s) = Cardinality(hs) /\ Range(s) = hs /\ Distinct(s)
    BY <2>4, Enumeration
  <2>6. s \in Seq(Hashes) /\ active \in Seq(Hashes)
    BY <2>4, <2>5 DEF IInv, OthersOk
  <2>7. \A h \in hs : /\ EntryOk(f[h]) /\ Stays(f[h]) /\ ~f[h].delete
                      /\ f[h].state = "starting" /\ f[h].ptr = "tp"
                      /\ "io_error" \notin may => ~f[h].error
    <3> SUFFICES ASSUME NEW h \in hs
                 PROVE  /\ EntryOk(f[h]) /\ Stays(f[h]) /\ ~f[h].delete
                        /\ f[h].state = "starting" /\ f[h].ptr = "tp"
                        /\ "io_error" \notin may => ~f[h].error
      OBVIOUS
    <3>1. PICK g \in hs : f[h] \in torrent_start(g)
      OBVIOUS
    <3>2. g \in Hashes /\ EntryOk(t[g]) /\ t[g].known /\ torrent_startable(g) /\ g \notin broken
      BY <1>3 DEF IInv, EntriesOk
    <3> QED BY <3>1, <3>2, StartOk
  <2>8. \A h \in hs : Stays(t[h])
    BY DEF IInv, EntriesOk, EntryOk, Stays, torrent_startable
  <2>9. \A h \in hs : ~torrent_active(h)
    BY DEF torrent_active, torrent_startable
  <2> HIDE DEF hs
  <2>10. \A h \in Hashes : t'[h] = IF h \in hs THEN f[h] ELSE t[h]
    BY <2>2
  <2>11. EntriesOk'
    <3>1. \A h \in Hashes : EntryOk(t'[h])
      BY <2>7, <2>10 DEF IInv, EntriesOk
    <3>2. t' \in [Hashes -> Entry] /\ DOMAIN t' = Hashes
      BY <2>2, <2>10, <3>1 DEF EntryOk
    <3> QED BY <3>1, <3>2, EntriesNext
  <2>12. active' \in Seq(Hashes) /\ Len(active') = Len(active) + Len(s)
         /\ \A i \in 1..Len(active') :
               active'[i] = IF i <= Len(active) THEN active[i] ELSE s[i - Len(active)]
    BY <2>3, <2>6
  <2>13. OthersOk'
    BY <1>1, <2>1, <2>4, <2>5, <2>12 DEF IInv, OthersOk
  <2>14. Range(active') = Range(active) \union hs
    <3>1. Range(active') = {active'[i] : i \in 1..Len(active')}
          /\ Range(active) = {active[i] : i \in 1..Len(active)}
          /\ hs = {s[i] : i \in 1..Len(s)}
      BY <2>5, <2>6, <2>12, RangeSeq
    <3>2. Len(active) \in Nat /\ Len(s) \in Nat
      BY <2>6
    <3>3. ASSUME NEW x \in Range(active') PROVE x \in Range(active) \union hs
      <4>1. PICK i \in 1..Len(active') : x = active'[i]
        BY <3>1
      <4>2. CASE i <= Len(active)
        BY <2>12, <3>1, <3>2, <4>1, <4>2
      <4>3. CASE ~(i <= Len(active))
        <5>1. i - Len(active) \in 1..Len(s)
          BY <2>12, <3>2, <4>1, <4>3
        <5> QED BY <2>12, <3>1, <4>1, <4>3, <5>1
      <4> QED BY <4>2, <4>3
    <3>4. ASSUME NEW x \in Range(active) PROVE x \in Range(active')
      BY <2>12, <3>1, <3>2
    <3>5. ASSUME NEW x \in hs PROVE x \in Range(active')
      <4>1. PICK i \in 1..Len(s) : x = s[i]
        BY <3>1
      <4>2. Len(active) + i \in 1..Len(active') /\ active'[Len(active) + i] = s[i]
        <5>1. PICK j, n, m : j = Len(active) + i /\ n = Len(active) /\ m = Len(active')
          OBVIOUS
        <5>2. j \in 1..m /\ ~(j <= n) /\ j - n = i
          BY <2>12, <3>2, <5>1
        <5> QED BY <2>12, <5>1, <5>2
      <4> QED BY <3>1, <4>1, <4>2
    <3> QED BY <3>3, <3>4, <3>5
  <2>15. \A g \in Hashes : Contains(active', g) <=> g \in Range(active')
    <3>1. active' \in Seq(Hashes)
      BY <2>12
    <3>2. Range(active') = {active'[i] : i \in 1..Len(active')}
      BY <3>1, RangeSeq
    <3> QED BY <3>2 DEF Contains
  <2>16. \A g \in Hashes : Contains(active, g) <=> g \in Range(active)
    BY <2>6, RangeSeq DEF Contains
  <2>17. DiskOk'
    <3>1. \A g \in Hashes : DirOk(g)'
      BY <1>1, <2>7, <2>8, <2>10 DEF IInv, DiskOk, DirOk
    <3>2. \A g \in Hashes : FileOk(g)'
      BY <1>1, <2>10, <2>14, <2>15, <2>16 DEF IInv, DiskOk, FileOk
    <3> QED BY <1>1, <3>1, <3>2 DEF DiskOk
  <2>18. HistoryOk'
    <3> SUFFICES ASSUME may = {} PROVE HistoryOk'
      BY DEF HistoryOk
    <3>1. hs \intersect was = {} /\ Range(active) = was /\ Distinct(active)
      BY <1>1, <2>4, <2>9 DEF IInv, HistoryOk
    <3>2. Distinct(active')
      <4> SUFFICES ASSUME NEW i \in 1..Len(active'), NEW j \in 1..Len(active'),
                          active'[i] = active'[j], i < j
                   PROVE  FALSE
        BY <2>12 DEF Distinct
      <4>1. Len(active) \in Nat /\ Len(s) \in Nat
        BY <2>6
      <4>2. CASE j <= Len(active)
        BY <2>12, <3>1, <4>1, <4>2 DEF Distinct
      <4>3. CASE i <= Len(active) /\ ~(j <= Len(active))
        <5>1. active'[i] \in Range(active)
          BY <2>6, <2>12, <4>3, RangeSeq
        <5>2. j - Len(active) \in 1..Len(s)
          BY <2>12, <4>1, <4>3
        <5>3. active'[j] \in hs
          BY <2>5, <2>12, <4>3, <5>2
        <5> QED BY <3>1, <5>1, <5>3
      <4>4. CASE ~(i <= Len(active))
        <5>1. i - Len(active) \in 1..Len(s) /\ j - Len(active) \in 1..Len(s)
          BY <2>12, <4>1, <4>4
        <5>2. s[i - Len(active)] = s[j - Len(active)]
          BY <2>12, <4>1, <4>4
        <5> QED BY <2>5, <4>1, <5>1, <5>2 DEF Distinct
      <4> QED BY <4>1, <4>2, <4>3, <4>4
    <3>3. hs \subseteq dir
      BY <2>4, <2>8 DEF IInv, DiskOk, DirOk
    <3>4. \A g \in Hashes : /\ ~t'[g].delete /\ ~t'[g].error
                            /\ g \in was' <=> torrent_active(g)'
      BY <1>1, <2>1, <2>7, <2>10 DEF IInv, HistoryOk, torrent_active
    <3> QED BY <1>1, <2>1, <2>14, <3>1, <3>2, <3>3, <3>4 DEF IInv, HistoryOk
  <2>19. StartedOk'
    <3>1. hs \subseteq dir
      BY <2>4, <2>8 DEF IInv, DiskOk, DirOk
    <3> QED BY <1>1, <2>1, <2>4, <2>14, <2>15, <2>16, <3>1 DEF IInv, StartedOk, KeptOk
  <2> QED BY <2>11, <2>13, <2>17, <2>18, <2>19 DEF IInv
<1> QED BY <1>2, <1>3

\* active_del_pos: nothing is lost but what is at the position, and the last
\* name when the position is past the end.
LEMMA DelPos ==
    ASSUME NEW S, NEW s \in Seq(S), s # <<>>, NEW i \in Nat \ {0}
    PROVE  LET u == active_del_pos(s, i) IN
           /\ u \in Seq(S) /\ Len(u) = Len(s) - 1
           /\ \A j \in 1..Len(u) : u[j] = IF j = i THEN s[Len(s)] ELSE s[j]
<1> DEFINE n == Len(s) - 1
           u == active_del_pos(s, i)
<1>1. n \in Nat /\ Len(s) \in Nat /\ \A j \in 1..Len(s) : s[j] \in S
  OBVIOUS
<1>2. u = [j \in 1..n |-> IF j = i THEN s[Len(s)] ELSE s[j]]
  BY DEF active_del_pos
<1>3. \A j \in 1..n : j \in 1..Len(s) /\ Len(s) \in 1..Len(s)
  BY <1>1
<1> HIDE DEF u
<1>4. u \in [1..n -> S]
  BY <1>1, <1>2, <1>3
<1>5. u \in Seq(S) /\ Len(u) = n
  BY <1>1, <1>4
<1> QED BY <1>2, <1>5 DEF u

\* active_del of a name that is in the file once removes that name only, and of
\* any name keeps all others.
LEMMA DelName ==
    ASSUME NEW h, active \in Seq(Hashes), active_del(h)
    PROVE  /\ active' \in Seq(Hashes) /\ Len(active') <= Len(active)
           /\ \A g \in Hashes \ {h} : Contains(active, g) => Contains(active', g)
           /\ Distinct(active) => /\ Distinct(active')
                                 /\ Range(active') = Range(active) \ {h}
<1>1. CASE ~Contains(active, h)
  <2>1. active' = active
    BY <1>1 DEF active_del
  <2>2. h \notin Range(active)
    BY <1>1, RangeSeq DEF Contains
  <2> QED BY <2>1, <2>2
<1>2. CASE Contains(active, h)
  <2> DEFINE i == first_pos(h)
             n == Len(active)
             u == active_del_pos(active, i)
  <2>1. i \in 1..n /\ active[i] = h
    BY <1>2, FirstPosition DEF first_pos
  <2>2. active' = u
    BY <1>2 DEF active_del
  <2> HIDE DEF i
  <2>3. n \in Nat \ {0} /\ active # <<>> /\ i \in Nat \ {0}
    BY <2>1
  <2>4. /\ u \in Seq(Hashes) /\ Len(u) = n - 1
        /\ \A j \in 1..(n - 1) : u[j] = IF j = i THEN active[n] ELSE active[j]
    BY <2>3, DelPos
  <2> HIDE DEF u
  <2>5. ASSUME NEW k \in 1..n, active[k] # h
        PROVE  \E j \in 1..(n - 1) : u[j] = active[k]
    <3>1. CASE k = n
      <4>1. i \in 1..(n - 1) /\ u[i] = active[n]
        BY <2>1, <2>3, <2>4, <2>5, <3>1
      <4> QED BY <3>1, <4>1
    <3>2. CASE k # n
      <4>1. k \in 1..(n - 1) /\ k # i
        BY <2>1, <2>3, <2>5, <3>2
      <4> QED BY <2>4, <4>1
    <3> QED BY <3>1, <3>2
  <2>6. ASSUME NEW g \in Hashes \ {h}, Contains(active, g) PROVE Contains(active', g)
    BY <2>2, <2>4, <2>5, <2>6 DEF Contains
  <2>7. ASSUME Distinct(active)
        PROVE  Distinct(u) /\ Range(u) = Range(active) \ {h}
    <3>1. \A j, k \in 1..n : active[j] = active[k] => j = k
      BY <2>7 DEF Distinct
    <3>2. Distinct(u)
      BY <2>1, <2>3, <2>4, <3>1 DEF Distinct
    <3>3. Range(u) = {u[j] : j \in 1..(n - 1)} /\ Range(active) = {active[j] : j \in 1..n}
      BY <2>4, RangeSeq
    <3>4. ASSUME NEW j \in 1..(n - 1) PROVE u[j] \in Range(active) /\ u[j] # h
      <4>1. j \in 1..n /\ n \in 1..n /\ j # n
        BY <2>3
      <4> QED BY <2>1, <2>4, <3>1, <3>3, <4>1
    <3>5. ASSUME NEW x \in Range(active), x # h PROVE x \in Range(u)
      BY <2>5, <3>3, <3>5
    <3> QED BY <3>2, <3>3, <3>4, <3>5
  <2> QED BY <2>2, <2>3, <2>4, <2>6, <2>7
<1> QED BY <1>1, <1>2

\* btcli stop.
LEMMA StepStop ==
    ASSUME IInv, may' = may, NEW h \in Hashes, cmd_stop(h) PROVE IInv'
<1>1. /\ proc = "up" /\ torrent_active(h) /\ active_del(h) /\ was' = was \ {h}
      /\ UNCHANGED <<broken, proc, boot, fault>>
  BY DEF cmd_stop, Serving
<1>2. EntryOk(t[h]) /\ Live(t[h])
  BY <1>1 DEF IInv, EntriesOk, EntryOk, torrent_active
<1>3. PICK r \in torrent_stop(t[h], FALSE) : t' = [t EXCEPT ![h] = r]
  BY DEF cmd_stop
<1>4. /\ EntryOk(r) /\ ~Running(r) /\ (Stays(r) <=> Stays(t[h]))
      /\ (r.delete => t[h].delete) /\ (r.error => t[h].error)
  BY <1>2, <1>3, StopOk
<1>5. EntriesOk' /\ t'[h] = r /\ \A g \in Hashes : g # h => t'[g] = t[g]
  BY <1>3, <1>4, OneEntry DEF IInv
<1>6. dir' = dir
  BY <1>2 DEF cmd_stop, removed_dir, EntryOk
<1>7. active \in Seq(Hashes) /\ Len(active) <= MaxActive
  BY DEF IInv, OthersOk
<1>8. /\ active' \in Seq(Hashes) /\ Len(active') <= Len(active)
      /\ \A g \in Hashes \ {h} : Contains(active, g) => Contains(active', g)
      /\ Distinct(active) => Distinct(active') /\ Range(active') = Range(active) \ {h}
  BY <1>1, <1>7, DelName
<1>9. OthersOk'
  <2>1. Len(active') <= MaxActive
    BY <1>7, <1>8, TorrentAssumption
  <2> QED BY <1>1, <1>6, <1>8, <2>1 DEF IInv, OthersOk
<1>10. DiskOk'
  <2>1. \A g \in Hashes : DirOk(g)'
    BY <1>1, <1>4, <1>5, <1>6 DEF IInv, DiskOk, DirOk
  <2>2. \A g \in Hashes : FileOk(g)'
    BY <1>1, <1>4, <1>5, <1>8 DEF IInv, DiskOk, FileOk
  <2> QED BY <1>1, <2>1, <2>2 DEF DiskOk
<1>11. HistoryOk'
  <2> SUFFICES ASSUME may = {} PROVE HistoryOk'
    BY DEF HistoryOk
  <2>1. ~torrent_active(h)'
    BY <1>4, <1>5 DEF EntryOk, Entry, torrent_active, Live, Running, States
  <2>2. \A g \in Hashes : /\ ~t'[g].delete /\ ~t'[g].error
                          /\ g \in was' <=> torrent_active(g)'
    BY <1>1, <1>4, <1>5, <2>1 DEF IInv, HistoryOk, torrent_active
  <2> QED BY <1>1, <1>6, <1>8, <2>2 DEF IInv, HistoryOk
<1>12. StartedOk'
  BY <1>1, <1>6, <1>8 DEF IInv, StartedOk, KeptOk
<1> QED BY <1>5, <1>9, <1>10, <1>11, <1>12 DEF IInv

\* Stopping all torrents.
LEMMA StopAllOk ==
    ASSUME IInv, may' = may, StopAll
    PROVE  /\ EntriesOk' /\ dir' = dir
           /\ \A h \in Hashes : /\ ~Running(t'[h]) /\ (Stays(t'[h]) <=> Stays(t[h]))
                                 /\ (t'[h].delete => t[h].delete)
                                 /\ (t'[h].error => t[h].error)
<1>1. PICK f \in [Torrents -> UNION {torrent_stop(t[h], FALSE) : h \in Torrents}] :
        /\ \A h \in Torrents : f[h] \in torrent_stop(t[h], FALSE)
        /\ t' = [h \in Hashes |-> IF h \in Torrents THEN f[h] ELSE t[h]]
  BY DEF StopAll
<1>2. \A h \in Hashes : EntryOk(t[h]) /\ (h \in Torrents <=> Live(t[h]))
  BY DEF IInv, EntriesOk, Torrents
<1>3. ASSUME NEW h \in Hashes
      PROVE  /\ EntryOk(t'[h]) /\ ~Running(t'[h]) /\ (Stays(t'[h]) <=> Stays(t[h]))
             /\ (t'[h].delete => t[h].delete) /\ (t'[h].error => t[h].error)
  <2>1. CASE h \in Torrents
    <3>1. t'[h] \in torrent_stop(t[h], FALSE)
      BY <1>1, <2>1
    <3> QED BY <1>2, <2>1, <3>1, StopOk
  <2>2. CASE h \notin Torrents
    BY <1>1, <1>2, <2>2 DEF Live, Running
  <2> QED BY <2>1, <2>2
<1>4. t' \in [Hashes -> Entry] /\ DOMAIN t' = Hashes
  <2>1. \A h \in Hashes : t'[h] \in Entry
    BY <1>3 DEF EntryOk
  <2> QED BY <1>1, <2>1
<1>5. EntriesOk'
  BY <1>3, <1>4, EntriesNext
<1>6. \A h \in Hashes : ~removed_dir(t[h], FALSE)
  BY <1>2 DEF EntryOk, removed_dir
<1>7. dir' = dir
  BY <1>6 DEF StopAll, Torrents
<1> QED BY <1>3, <1>5, <1>7

\* btcli stop --all.
LEMMA StepStopAll == ASSUME IInv, may' = may, cmd_stop_all PROVE IInv'
<1>1. /\ proc = "up" /\ active' = <<>> /\ was' = {} /\ StopAll
      /\ UNCHANGED <<broken, proc, boot, fault>>
  BY DEF cmd_stop_all, Serving
<1>2. /\ EntriesOk' /\ dir' = dir
      /\ \A h \in Hashes : /\ ~Running(t'[h]) /\ (Stays(t'[h]) <=> Stays(t[h]))
                            /\ (t'[h].delete => t[h].delete)
                            /\ (t'[h].error => t[h].error)
  BY <1>1, StopAllOk
<1>3. OthersOk'
  BY <1>1, <1>2, TorrentAssumption DEF IInv, OthersOk
<1>4. DiskOk'
  BY <1>1, <1>2 DEF IInv, DiskOk, DirOk, FileOk
<1>5. HistoryOk'
  <2>1. Distinct(<<>>) /\ Range(<<>>) = {}
    BY DEF Distinct, Range
  <2>2. \A h \in Hashes : ~torrent_active(h)'
    BY <1>2 DEF EntriesOk, EntryOk, Entry, torrent_active, Live, Running, States
  <2> QED BY <1>1, <1>2, <2>1, <2>2 DEF IInv, HistoryOk
<1>6. StartedOk'
  BY <1>1 DEF IInv, StartedOk, KeptOk
<1> QED BY <1>2, <1>3, <1>4, <1>5, <1>6 DEF IInv

\* btcli kill, or a signal.
LEMMA StepShutdown == ASSUME IInv, may' = may, btpd_shutdown PROVE IInv'
<1>1. /\ proc = "up" /\ proc' \in {"down", "preexit"} /\ StopAll
      /\ UNCHANGED <<broken, active, boot, was, fault>>
  BY DEF btpd_shutdown, Serving, death_procedure
<1>2. /\ EntriesOk' /\ dir' = dir
      /\ \A h \in Hashes : /\ ~Running(t'[h]) /\ (Stays(t'[h]) <=> Stays(t[h]))
                            /\ (t'[h].delete => t[h].delete)
                            /\ (t'[h].error => t[h].error)
  BY <1>1, StopAllOk
<1>3. OthersOk'
  BY <1>1, <1>2 DEF IInv, OthersOk
<1>4. DiskOk'
  BY <1>1, <1>2 DEF IInv, DiskOk, DirOk, FileOk
<1>5. HistoryOk'
  BY <1>1, <1>2 DEF IInv, HistoryOk
<1>6. StartedOk'
  BY <1>1, <1>2 DEF IInv, StartedOk, KeptOk
<1> QED BY <1>2, <1>3, <1>4, <1>5, <1>6 DEF IInv

\* The heartbeat.
LEMMA StepHeartbeat == ASSUME IInv, may' = may, heartbeat_cb PROVE IInv'
<1>1. /\ proc \in {"up", "preexit"} /\ proc' \in {proc, "down"}
      /\ fault' \in {"none", "freed"}
      /\ UNCHANGED <<broken, active, boot, was>>
  BY DEF heartbeat_cb, heartbeat_exit
<1>2. PICK f \in [Hashes -> UNION {torrent_on_tick(t[h]) : h \in Hashes}] :
        (\A h \in Hashes : f[h] \in torrent_on_tick(t[h])) /\ t' = f
  BY DEF heartbeat_cb
<1>3. \A h \in Hashes : EntryOk(t[h])
  BY DEF IInv, EntriesOk
<1>4. \A h \in Hashes :
        /\ EntryOk(t'[h]) /\ (Stays(t'[h]) <=> Stays(t[h]))
        /\ (t'[h].delete => t[h].delete) /\ (t'[h].error => t[h].error)
        /\ (Running(t'[h]) => Running(t[h]))
        /\ (~t[h].error /\ Running(t[h]) => Running(t'[h]))
  BY <1>2, <1>3, TickOk
<1>5. EntriesOk'
  <2>1. t' \in [Hashes -> Entry] /\ DOMAIN t' = Hashes
    BY <1>2, <1>4 DEF EntryOk
  <2> QED BY <1>4, <2>1, EntriesNext
<1>6. dir' = dir
  <2>1. \A h \in Hashes : ~removed_dir(t[h], FALSE)
    BY <1>3 DEF EntryOk, removed_dir
  <2> QED BY <2>1 DEF heartbeat_cb
<1>7. OthersOk'
  BY <1>1, <1>6 DEF IInv, OthersOk
<1>8. DiskOk'
  BY <1>1, <1>4, <1>6 DEF IInv, DiskOk, DirOk, FileOk
<1>9. HistoryOk'
  <2> SUFFICES ASSUME may = {} PROVE HistoryOk'
    BY DEF HistoryOk
  <2>1. \A h \in Hashes : torrent_active(h) <=> Running(t[h])
    BY <1>3 DEF EntryOk, Entry, torrent_active, Live, Running, States
  <2>2. \A h \in Hashes : torrent_active(h)' <=> Running(t'[h])
    BY <1>4 DEF EntryOk, Entry, torrent_active, Live, Running, States
  <2> QED BY <1>1, <1>4, <1>6, <2>1, <2>2 DEF IInv, HistoryOk
<1>10. StartedOk'
  BY <1>1, <1>6 DEF IInv, StartedOk, KeptOk
<1> QED BY <1>5, <1>7, <1>8, <1>9, <1>10 DEF IInv

\* A change of an entry that leaves all but its trackers and its content alone,
\* and records an error only where errors can happen.
LEMMA Detail ==
    ASSUME IInv, may' = may, NEW h \in Hashes, NEW r, t' = [t EXCEPT ![h] = r], EntryOk(r),
           r.state = t[h].state, r.ptr = t[h].ptr, r.known = t[h].known,
           r.delete = t[h].delete, "io_error" \notin may => r.error = t[h].error,
           UNCHANGED <<dir, broken, active, proc, boot, was, fault>>
    PROVE  IInv'
<1>1. /\ EntriesOk' /\ t'[h] = r
      /\ \A g \in Hashes : g # h => t'[g] = t[g]
  BY OneEntry DEF IInv
<1>2. \A g \in Hashes : /\ t'[g].state = t[g].state /\ t'[g].ptr = t[g].ptr
                        /\ t'[g].known = t[g].known /\ t'[g].delete = t[g].delete
                        /\ "io_error" \notin may => t'[g].error = t[g].error
  BY <1>1
<1>3. OthersOk'
  BY DEF IInv, OthersOk
<1>4. DiskOk'
  BY <1>2 DEF IInv, DiskOk, DirOk, FileOk, Read, Stays, Live, Running
<1>5. HistoryOk'
  BY <1>2 DEF IInv, HistoryOk, torrent_active, Read
<1>6. StartedOk'
  BY <1>2 DEF IInv, StartedOk, KeptOk, torrent_active, Read
<1> QED BY <1>1, <1>3, <1>4, <1>5, <1>6 DEF IInv

\* Content becomes ready or complete.
LEMMA StepReady == ASSUME IInv, may' = may, NEW h \in Hashes, cm_ready(h) PROVE IInv'
<1>1. EntryOk(t[h]) /\ t[h] \in Entry /\ Running(t[h]) /\ DOMAIN t = Hashes
  BY DEF IInv, EntriesOk, cm_ready
<1>2. PICK c \in {"active", "full"} : t' = [t EXCEPT ![h].cm = c]
  BY DEF cm_ready
<1> DEFINE r == [t[h] EXCEPT !.cm = c]
<1>3. t' = [t EXCEPT ![h] = r]
  BY <1>1, <1>2
<1>4. /\ r \in Entry /\ r.known = t[h].known /\ r.delete = t[h].delete /\ r.ptr = t[h].ptr
      /\ r.back = t[h].back /\ r.state = t[h].state /\ r.error = t[h].error
      /\ r.tr = t[h].tr
  BY <1>1 DEF Entry
<1> HIDE DEF r
<1>5. EntryOk(r)
  BY <1>1, <1>4 DEF EntryOk, Live, Running
<1>6. UNCHANGED <<dir, broken, active, proc, boot, was, fault>>
  BY DEF cm_ready
<1> QED BY <1>3, <1>4, <1>5, <1>6, Detail

\* The content fails.
LEMMA StepError == ASSUME IInv, may' = may, NEW h \in Hashes, cm_on_error(h) PROVE IInv'
<1>1. /\ EntryOk(t[h]) /\ t[h] \in Entry /\ Running(t[h]) /\ DOMAIN t = Hashes
      /\ "io_error" \in may
      /\ t' = [t EXCEPT ![h].cm = "inactive", ![h].error = TRUE]
      /\ UNCHANGED <<dir, broken, active, proc, boot, was, fault>>
  BY DEF IInv, EntriesOk, cm_on_error
<1> DEFINE q == [t[h] EXCEPT !.cm = "inactive"]
           r == [q EXCEPT !.error = TRUE]
<1>2. t' = [t EXCEPT ![h] = r]
  BY <1>1
<1>3. /\ q \in Entry /\ q.known = t[h].known /\ q.delete = t[h].delete /\ q.ptr = t[h].ptr
      /\ q.back = t[h].back /\ q.state = t[h].state /\ q.tr = t[h].tr
  BY <1>1 DEF Entry
<1> HIDE DEF q
<1>4. /\ r \in Entry /\ r.known = t[h].known /\ r.delete = t[h].delete /\ r.ptr = t[h].ptr
      /\ r.back = t[h].back /\ r.state = t[h].state /\ r.tr = t[h].tr
  BY <1>3 DEF Entry
<1> HIDE DEF r
<1>5. EntryOk(r)
  BY <1>1, <1>4 DEF EntryOk, Live, Running
<1> QED BY <1>1, <1>2, <1>4, <1>5, Detail

\* The trackers are done.
LEMMA StepTrDone == ASSUME IInv, may' = may, NEW h \in Hashes, tr_done(h) PROVE IInv'
<1>1. /\ EntryOk(t[h]) /\ t[h] \in Entry /\ DOMAIN t = Hashes
      /\ t' = [t EXCEPT ![h].tr = "off"]
      /\ UNCHANGED <<dir, broken, active, proc, boot, was, fault>>
  BY DEF IInv, EntriesOk, tr_done
<1> DEFINE r == [t[h] EXCEPT !.tr = "off"]
<1>2. t' = [t EXCEPT ![h] = r]
  BY <1>1
<1>3. /\ r \in Entry /\ r.known = t[h].known /\ r.delete = t[h].delete /\ r.ptr = t[h].ptr
      /\ r.back = t[h].back /\ r.state = t[h].state /\ r.error = t[h].error
      /\ r.cm = t[h].cm /\ r.tr = "off"
  BY <1>1 DEF Entry
<1> HIDE DEF r
<1>4. EntryOk(r)
  BY <1>1, <1>3 DEF EntryOk, Live, Running
<1> QED BY <1>1, <1>2, <1>3, <1>4, Detail

\* A directory is damaged while btpd is down.
LEMMA StepDamage == ASSUME IInv, may' = may, NEW h \in Hashes, damage(h) PROVE IInv'
<1>1. /\ "damage" \in may /\ broken' = broken \union {h} /\ proc = "down"
      /\ UNCHANGED <<t, dir, active, proc, boot, was, fault>>
  BY DEF damage
<1> QED
  BY <1>1 DEF IInv, OthersOk, EntriesOk, EntryOk, DiskOk, DirOk, FileOk, HistoryOk,
              StartedOk

\* The process is killed.
LEMMA StepCrash == ASSUME IInv, may' = may, crash PROVE IInv'
<1>1. /\ proc' = "down" /\ t' = [h \in Hashes |-> Absent]
      /\ UNCHANGED <<dir, broken, active, boot, was, fault>>
  BY DEF crash
<1>2. /\ t' \in [Hashes -> Entry] /\ DOMAIN t' = Hashes
      /\ \A h \in Hashes : t'[h] = Absent /\ EntryOk(t'[h])
  BY <1>1, AbsentOk DEF EntryOk
<1>3. EntriesOk'
  BY <1>2, EntriesNext
<1>4. \A h \in Hashes : ~Stays(t'[h]) /\ ~t'[h].delete /\ ~t'[h].error
  BY <1>2, AbsentOk DEF EntryOk
<1> QED
  BY <1>1, <1>3, <1>4 DEF IInv, OthersOk, DiskOk, DirOk, FileOk, HistoryOk, StartedOk, KeptOk

\* An edit that was cut off: nothing but h, at the position, is overwritten.
LEMMA Overwritten ==
    ASSUME NEW s \in Seq(Hashes), s # <<>>, NEW i \in Nat \ {0}, NEW h,
           i <= Len(s) => s[i] = h
    PROVE  LET u == overwritten(s, i) IN
           u \in Seq(Hashes) /\ \A g \in Hashes \ {h} : Contains(s, g) => Contains(u, g)
<1> DEFINE u == overwritten(s, i)
           n == Len(s)
<1>1. /\ n \in Nat \ {0} /\ n \in 1..n /\ Last(s) = s[n] /\ Last(s) \in Hashes
      /\ \A j \in 1..n : s[j] \in Hashes
  BY DEF Last
<1>2. CASE i > n
  <2>1. u = Append(s, Last(s))
    BY <1>2 DEF overwritten
  <2>2. u \in Seq(Hashes) /\ Len(u) = n + 1 /\ \A j \in 1..n : u[j] = s[j]
    BY <1>1, <2>1
  <2>3. \A j \in 1..n : j \in 1..(n + 1)
    BY <1>1
  <2>4. \A g : Contains(s, g) => Contains(u, g)
    <3> HIDE DEF u
    <3> QED BY <2>2, <2>3 DEF Contains
  <2> QED BY <2>2, <2>4
<1>3. CASE ~(i > n)
  <2>1. u = [s EXCEPT ![i] = Last(s)] /\ i \in 1..n
    BY <1>1, <1>3 DEF overwritten
  <2>2. u \in Seq(Hashes) /\ Len(u) = n /\ \A j \in 1..n : j # i => u[j] = s[j]
    BY <1>1, <2>1
  <2>3. \A g \in Hashes \ {h} : Contains(s, g) => Contains(u, g)
    <3>1. s[i] = h
      BY <2>1
    <3> HIDE DEF u
    <3> QED BY <1>1, <2>2, <3>1 DEF Contains
  <2> QED BY <2>2, <2>3
<1> QED BY <1>2, <1>3

\* The process is killed in the middle of an edit of the file.
LEMMA StepCut == ASSUME IInv, may' = may, crash_in_edit PROVE IInv'
<1>1. /\ "cut" \in may /\ proc' = "down" /\ t' = [h \in Hashes |-> Absent]
      /\ Len(active') <= MaxActive
      /\ UNCHANGED <<dir, broken, boot, fault>>
      /\ cut_start \/ \E h \in Hashes : cut_stop(h)
  BY DEF crash_in_edit
<1>2. /\ t' \in [Hashes -> Entry] /\ DOMAIN t' = Hashes
      /\ \A h \in Hashes : t'[h] = Absent /\ EntryOk(t'[h])
  BY <1>1, AbsentOk DEF EntryOk
<1>3. EntriesOk'
  BY <1>2, EntriesNext
<1>4. \A h \in Hashes : ~Stays(t'[h]) /\ ~t'[h].delete /\ ~t'[h].error
  BY <1>2, AbsentOk DEF EntryOk
<1>5. active \in Seq(Hashes)
  BY DEF IInv, OthersOk
<1>6. CASE cut_start
  <2>1. /\ proc = "boot" /\ boot.rd <= Len(active) /\ active[boot.rd] \in broken
        /\ active' = overwritten(active, boot.pos) /\ was' = was
    BY <1>6 DEF cut_start
  <2>2. boot.rd \in Nat \ {0} /\ boot.pos \in Nat \ {0} /\ active # <<>>
    BY <1>5, <2>1 DEF IInv, OthersOk
  <2>3. active' \in Seq(Hashes)
    <3>1. PICK h : h = active[boot.pos]
      OBVIOUS
    <3>2. overwritten(active, boot.pos) \in Seq(Hashes)
      BY <1>5, <2>2, <3>1, Overwritten
    <3> QED BY <2>1, <3>2
  <2>4. "damage" \in may
    BY <2>1 DEF IInv, StartedOk
  <2> QED BY <1>1, <1>3, <1>4, <2>1, <2>3, <2>4
          DEF IInv, OthersOk, DiskOk, DirOk, FileOk, HistoryOk, StartedOk
<1>7. ASSUME NEW h \in Hashes, cut_stop(h) PROVE IInv'
  <2>1. /\ proc = "up" /\ Contains(active, h) /\ active' = overwritten(active, first_pos(h))
        /\ was' = IF Contains(active', h) THEN was ELSE was \ {h}
    BY <1>7 DEF cut_stop, Serving
  <2> DEFINE i == first_pos(h)
  <2>2. active' = overwritten(active, i)
    BY <2>1
  <2>3. i \in 1..Len(active) /\ active[i] = h
    BY <1>5, <2>1, FirstPosition DEF first_pos
  <2> HIDE DEF i
  <2>4. active # <<>> /\ i \in Nat \ {0}
    BY <1>5, <2>3
  <2>5. /\ active' \in Seq(Hashes)
        /\ \A g \in Hashes \ {h} : Contains(active, g) => Contains(active', g)
    BY <1>5, <2>2, <2>3, <2>4, Overwritten
  <2> QED BY <1>1, <1>3, <1>4, <2>1, <2>5
          DEF IInv, OthersOk, DiskOk, DirOk, FileOk, HistoryOk, StartedOk, KeptOk
<1> QED BY <1>1, <1>6, <1>7

\* btpd starts.
LEMMA StepInit == ASSUME IInv, may' = may, btpd_init PROVE IInv'
<1> DEFINE N(h) == [Absent EXCEPT !.known = h \in dir]
<1>1. /\ t' = [h \in Hashes |-> N(h)] /\ proc = "down"
      /\ boot' = [rd |-> 1, pos |-> 1]
      /\ \/ proc' = "boot" /\ UNCHANGED <<active, was>>
         \/ proc' = "up" /\ active' = <<>> /\ was' = {}
      /\ UNCHANGED <<dir, broken, fault>>
  BY DEF btpd_init
<1>2. ASSUME NEW h \in Hashes
      PROVE  /\ EntryOk(N(h)) /\ (Stays(N(h)) <=> h \in dir) /\ ~N(h).delete /\ ~N(h).error
             /\ N(h).state = "none" /\ N(h).ptr = "null" /\ N(h) \in Entry
  <2> DEFINE k == h \in dir
             r == [Absent EXCEPT !.known = k]
  <2>1. k \in BOOLEAN /\ (k <=> h \in dir) /\ r = N(h)
    OBVIOUS
  <2>2. /\ Absent \in Entry /\ Absent.state = "none" /\ Absent.delete = FALSE
        /\ Absent.error = FALSE /\ Absent.tr = "off" /\ Absent.cm = "inactive"
        /\ Absent.back = TRUE /\ Absent.ptr = "null"
    BY DEF Absent, Entry, States
  <2> HIDE DEF k, N
  <2>3. /\ r \in Entry /\ r.known = k /\ r.state = "none" /\ r.delete = FALSE
        /\ r.error = FALSE /\ r.tr = "off" /\ r.cm = "inactive" /\ r.back = TRUE
        /\ r.ptr = "null"
    BY <2>1, <2>2 DEF Entry
  <2> HIDE DEF r
  <2> QED BY <2>1, <2>3 DEF EntryOk, Live, Running, Stays
<1> HIDE DEF N
<1>3. \A h \in Hashes : t'[h] = N(h)
  BY <1>1
<1>4. EntriesOk'
  <2>1. t' \in [Hashes -> Entry] /\ DOMAIN t' = Hashes
    BY <1>1, <1>2
  <2> QED BY <1>2, <1>3, <2>1, EntriesNext
<1>5. OthersOk'
  <2>1. boot' \in [rd : Nat \ {0}, pos : Nat \ {0}]
    BY <1>1
  <2>2. /\ active' \in Seq(Hashes) /\ Len(active') <= MaxActive
        /\ proc' \in {"boot", "up"} /\ was' \in SUBSET Hashes
    <3>1. CASE UNCHANGED <<active, was>>
      BY <1>1, <3>1 DEF IInv, OthersOk
    <3>2. CASE active' = <<>> /\ was' = {}
      <4>1. <<>> \in Seq(Hashes) /\ Len(<<>>) = 0 /\ 0 <= MaxActive
        BY TorrentAssumption
      <4> QED BY <1>1, <3>2, <4>1
    <3> QED BY <1>1, <3>1, <3>2
  <2> QED BY <1>1, <2>1, <2>2 DEF IInv, OthersOk
<1>6. DiskOk'
  BY <1>1, <1>2, <1>3 DEF DiskOk, DirOk, FileOk, Running, Live
<1>7. HistoryOk'
  <2> SUFFICES ASSUME may = {} PROVE HistoryOk'
    BY DEF HistoryOk
  <2>1. Distinct(<<>>) /\ Range(<<>>) = {}
    BY DEF Distinct, Range
  <2>2. \A h \in Hashes : ~torrent_active(h)' /\ (h \in dir => t'[h].known)
    BY <1>2, <1>3 DEF torrent_active, Stays
  <2>3. boot'.rd = 1 /\ boot'.pos = 1 /\ \A h \in Hashes : ~Read(h)'
    BY <1>1 DEF Read
  <2> QED BY <1>1, <1>2, <1>3, <2>1, <2>2, <2>3 DEF IInv, HistoryOk
<1>8. StartedOk'
  <2>1. \A h \in Hashes : ~Read(h)' /\ t'[h].ptr # "dangling" /\ (h \in dir => t'[h].known)
    BY <1>1, <1>2, <1>3 DEF Read, Stays
  <2> QED BY <1>1, <2>1 DEF IInv, StartedOk, KeptOk
<1> QED BY <1>4, <1>5, <1>6, <1>7, <1>8 DEF IInv

\* The event loop is entered.
LEMMA StepBooted == ASSUME IInv, may' = may, booted PROVE IInv'
<1>1. /\ proc = "boot" /\ boot.rd > Len(active) /\ proc' = "up"
      /\ boot' = [rd |-> 1, pos |-> 1]
      /\ UNCHANGED <<t, dir, broken, active, was, fault>>
  BY DEF booted
<1>2. active \in Seq(Hashes) /\ boot.rd \in Nat
  BY DEF IInv, OthersOk
<1>3. EntriesOk'
  BY <1>1 DEF IInv, EntriesOk, EntryOk
<1>4. OthersOk'
  <2>1. boot' \in [rd : Nat \ {0}, pos : Nat \ {0}]
    BY <1>1
  <2> QED BY <1>1, <2>1 DEF IInv, OthersOk
<1>5. \A h \in Hashes : (Read(h) <=> Contains(active, h)) /\ (Contains(active, h) <=> h \in Range(active))
  BY <1>1, <1>2, RangeSeq DEF Read, Contains
<1>6. DiskOk'
  BY <1>1, <1>5 DEF IInv, DiskOk, DirOk, FileOk, Live, Running
<1>7. HistoryOk'
  BY <1>1, <1>5 DEF IInv, HistoryOk, torrent_active
<1>8. StartedOk'
  BY <1>1 DEF IInv, StartedOk, KeptOk
<1> QED BY <1>3, <1>4, <1>6, <1>7, <1>8 DEF IInv

\* One turn of the loop of active_start.
LEMMA StepLoop == ASSUME IInv, may' = may, active_start_loop PROVE IInv'
<1> DEFINE h == active[boot.rd]
           fails == to_start(h) /\ h \in broken
<1>1. /\ proc = "boot" /\ boot.rd <= Len(active)
      /\ IF to_start(h) THEN \E r \in torrent_start(h) : t' = [t EXCEPT ![h] = r]
                        ELSE UNCHANGED t
      /\ active' = IF fails THEN active_del_pos(active, boot.pos) ELSE active
      /\ boot' = [rd |-> IF fails THEN boot.pos ELSE boot.rd + 1, pos |-> boot.pos + 1]
      /\ UNCHANGED <<dir, broken, proc, was, fault>>
  BY DEF active_start_loop
<1>2. /\ active \in Seq(Hashes) /\ Len(active) \in Nat /\ Len(active) <= MaxActive
      /\ boot.rd \in Nat \ {0} /\ boot.pos \in Nat \ {0} /\ boot.rd <= boot.pos
      /\ MaxActive \in Nat
  BY <1>1, TorrentAssumption DEF IInv, OthersOk, DiskOk
<1>3. h \in Hashes /\ boot.rd \in 1..Len(active) /\ EntryOk(t[h])
  BY <1>1, <1>2 DEF IInv, EntriesOk
<1> HIDE DEF h
<1>4. /\ EntriesOk'
      /\ \A g \in Hashes : g # h => t'[g] = t[g]
      /\ ~to_start(h) => t' = t
      /\ to_start(h) => /\ Stays(t[h]) /\ Stays(t'[h]) /\ ~t'[h].delete
                        /\ h \in broken => ~Live(t'[h])
                        /\ h \notin broken => t'[h].state = "starting" /\ t'[h].ptr = "tp"
                        /\ "io_error" \notin may => ~t'[h].error
  <2>1. CASE to_start(h)
    <3>1. t[h].known /\ torrent_startable(h) /\ Stays(t[h])
      BY <1>3, <2>1 DEF to_start, torrent_startable, EntryOk, Stays
    <3>2. PICK r \in torrent_start(h) : t' = [t EXCEPT ![h] = r]
      BY <1>1, <2>1
    <3>3. /\ EntryOk(r) /\ Stays(r) /\ ~r.delete
          /\ h \in broken => ~Live(r)
          /\ h \notin broken => r.state = "starting" /\ r.ptr = "tp"
          /\ "io_error" \notin may => ~r.error
      BY <1>3, <3>1, <3>2, StartOk
    <3>4. EntriesOk' /\ t'[h] = r /\ \A g \in Hashes : g # h => t'[g] = t[g]
      BY <1>3, <3>2, <3>3, OneEntry DEF IInv
    <3> QED BY <2>1, <3>1, <3>3, <3>4
  <2>2. CASE ~to_start(h)
    <3>1. t' = t
      BY <1>1, <2>2
    <3> QED BY <2>2, <3>1 DEF IInv, EntriesOk, EntryOk
  <2> QED BY <2>1, <2>2
<1>5. \A g \in Hashes : DirOk(g)'
  BY <1>1, <1>3, <1>4 DEF IInv, DiskOk, DirOk
<1>6. CASE fails
  <2>1. /\ boot' = [rd |-> boot.pos, pos |-> boot.pos + 1]
        /\ active' = active_del_pos(active, boot.pos)
    BY <1>1, <1>6
  <2>2. /\ active' \in Seq(Hashes) /\ Len(active') = Len(active) - 1
        /\ \A j \in 1..Len(active') :
              active'[j] = IF j = boot.pos THEN active[Len(active)] ELSE active[j]
    <3>1. active # <<>>
      BY <1>2, <1>3
    <3> QED BY <1>2, <2>1, <3>1, DelPos
  <2>3. boot'.rd = boot.pos /\ boot'.pos = boot.pos + 1
    BY <2>1
  <2>4. OthersOk'
    <3>1. boot' \in [rd : Nat \ {0}, pos : Nat \ {0}]
      BY <1>2, <2>1
    <3>2. Len(active') <= MaxActive
      BY <1>2, <2>2
    <3> QED BY <1>1, <2>2, <3>1, <3>2 DEF IInv, OthersOk
  <2>5. ASSUME NEW g \in Hashes, Read(g) PROVE Read(g)'
    <3>1. PICK j \in 1..Len(active) : j < boot.rd /\ active[j] = g
      BY <2>5 DEF Read
    <3>2. j \in 1..Len(active') /\ j # boot.pos /\ j < boot'.rd
      BY <1>1, <1>2, <2>2, <2>3, <3>1
    <3>3. active'[j] = g
      BY <2>2, <3>1, <3>2
    <3> QED BY <3>2, <3>3 DEF Read
  <2>6. \A g \in Hashes : FileOk(g)'
    BY <1>1, <1>4, <1>6, <2>5 DEF IInv, DiskOk, FileOk, Live
  <2>7. boot'.rd <= boot'.pos
    BY <1>2, <2>3
  <2>8. HistoryOk' /\ StartedOk'
    BY <1>1, <1>6 DEF IInv, HistoryOk, StartedOk
  <2> QED BY <1>4, <1>5, <2>4, <2>6, <2>7, <2>8 DEF IInv, DiskOk
<1>7. CASE ~fails
  <2>1. boot' = [rd |-> boot.rd + 1, pos |-> boot.pos + 1] /\ active' = active
    BY <1>1, <1>7
  <2>2. boot'.rd = boot.rd + 1 /\ boot'.pos = boot.pos + 1
    BY <2>1
  <2>3. OthersOk'
    <3>1. boot' \in [rd : Nat \ {0}, pos : Nat \ {0}]
      BY <1>2, <2>1
    <3> QED BY <1>1, <2>1, <3>1 DEF IInv, OthersOk
  <2>4. \A g \in Hashes : Read(g)' <=> Read(g) \/ g = h
    <3>1. \A j \in 1..Len(active) : j < boot'.rd <=> j < boot.rd \/ j = boot.rd
      BY <1>2, <2>2
    <3> QED BY <1>3, <2>1, <3>1 DEF Read, h
  <2>5. \A g \in Hashes : FileOk(g)'
    BY <1>1, <1>4, <1>7, <2>4 DEF IInv, DiskOk, FileOk, Live
  <2>6. boot'.rd <= boot'.pos
    BY <1>2, <2>2
  <2>7. HistoryOk'
    <3> SUFFICES ASSUME may = {} PROVE HistoryOk'
      BY DEF HistoryOk
    <3>1. h \in was
      BY <1>2, <1>3, RangeSeq DEF IInv, HistoryOk, h
    <3>2. t[h].known
      BY <1>1, <1>3, <3>1 DEF IInv, HistoryOk
    <3>3. t'[h].ptr = "tp" /\ t'[h].state # "ghost"
      <4>1. CASE to_start(h)
        BY <1>4, <1>7, <4>1
      <4>2. CASE ~to_start(h)
        <5>1. t[h].ptr = "tp" /\ t[h].state # "ghost"
          BY <1>1, <1>3, <3>2, <4>2 DEF to_start, EntryOk, Entry, IInv, DiskOk, FileOk
        <5> QED BY <1>4, <4>2, <5>1
      <4> QED BY <4>1, <4>2
    <3>4. \A g \in Hashes : /\ ~t'[g].delete /\ ~t'[g].error
                            /\ torrent_active(g)' <=> Read(g)'
                            /\ g \in dir => t'[g].known
      <4> SUFFICES ASSUME NEW g \in Hashes
                   PROVE  /\ ~t'[g].delete /\ ~t'[g].error
                          /\ torrent_active(g)' <=> Read(g)'
                          /\ g \in dir => t'[g].known
        OBVIOUS
      <4>1. CASE g = h
        BY <1>1, <1>3, <1>4, <2>4, <3>2, <3>3, <4>1 DEF IInv, HistoryOk, torrent_active, Stays
      <4>2. CASE g # h
        BY <1>1, <1>4, <2>4, <4>2 DEF IInv, HistoryOk, torrent_active
      <4> QED BY <4>1, <4>2
    <3>5. boot'.rd = boot'.pos
      BY <1>1, <2>2 DEF IInv, HistoryOk
    <3> QED BY <1>1, <2>1, <3>4, <3>5 DEF IInv, HistoryOk
  <2>8. StartedOk'
    <3>0. broken' = broken /\ ("damage" \notin may => broken = {})
      BY <1>1, <2>1 DEF IInv, StartedOk
    <3> SUFFICES ASSUME "damage" \notin may, NEW g \in Hashes
                 PROVE  KeptOk(g)'
      BY <3>0 DEF StartedOk
    <3>1. broken = {} /\ KeptOk(g) /\ KeptOk(h)
      BY <1>3 DEF IInv, StartedOk
    <3>2. t'[g].ptr # "dangling" /\ (g \in dir => t'[g].known)
      BY <1>1, <1>3, <1>4, <3>1 DEF KeptOk, Stays
    <3>3. ASSUME g \in was, Read(g)' PROVE torrent_active(g)'
      <4>1. CASE g = h /\ to_start(h)
        BY <1>4, <1>7, <4>1 DEF torrent_active
      <4>2. CASE g = h /\ ~to_start(h)
        <5>1. t[h].known /\ t[h].ptr = "tp"
          BY <1>1, <1>3, <3>1, <3>3, <4>2 DEF KeptOk, to_start, EntryOk, Entry
        <5>2. t[h].state # "ghost"
          BY <1>1, <1>3 DEF IInv, DiskOk, FileOk
        <5> QED BY <1>4, <4>2, <5>1, <5>2 DEF torrent_active
      <4>3. CASE g # h
        BY <1>1, <1>4, <2>4, <3>1, <3>3, <4>3 DEF KeptOk, torrent_active
      <4> QED BY <4>1, <4>2, <4>3
    <3> QED BY <1>1, <2>1, <3>1, <3>2, <3>3 DEF KeptOk
  <2> QED BY <1>4, <1>5, <2>3, <2>5, <2>6, <2>7, <2>8 DEF IInv, DiskOk
<1> QED BY <1>6, <1>7

------------------------------------------------------------------------------
(* The theorems *)

\* The initial state.
LEMMA InitOk == Init => IInv
<1> SUFFICES ASSUME Init PROVE IInv
  OBVIOUS
<1>1. /\ t = [h \in Hashes |-> Absent] /\ dir = {} /\ broken = {} /\ active = <<>>
      /\ proc = "up" /\ boot = [rd |-> 1, pos |-> 1]
      /\ was = {} /\ fault = "none" /\ may \in Scenarios
  BY DEF Init
<1>2. <<>> \in Seq(Hashes) /\ Len(<<>>) = 0 /\ 0 <= MaxActive
      /\ Distinct(<<>>) /\ Range(<<>>) = {}
  BY TorrentAssumption DEF Distinct, Range
<1>3. boot \in [rd : Nat \ {0}, pos : Nat \ {0}]
  BY <1>1
<1>4. OthersOk
  BY <1>1, <1>2, <1>3 DEF OthersOk
<1>5. \A h \in Hashes : t[h] = Absent
  BY <1>1
<1>6. EntriesOk
  BY <1>1, <1>5, AbsentOk DEF EntriesOk, EntryOk
<1>7. DiskOk
  BY <1>1, <1>5, AbsentOk DEF DiskOk, DirOk, FileOk
<1>8. HistoryOk
  BY <1>1, <1>2, <1>5, AbsentOk DEF HistoryOk, torrent_active, EntryOk
<1>9. StartedOk
  BY <1>1 DEF StartedOk, KeptOk
<1> QED BY <1>4, <1>6, <1>7, <1>8, <1>9 DEF IInv

\* Every step.
LEMMA StepOk == ASSUME IInv, [Next]_vars PROVE IInv'
<1>1. CASE Next
  <2>1. may' = may
    BY <1>1 DEF Next
  <2>2. CASE Commands
    BY <2>1, <2>2, StepAdd, StepDel, StepStart, StepStartDangling, StepStop, StepStartAll,
       StepStopAll, StepShutdown DEF Commands
  <2>3. CASE Environment
    BY <2>1, <2>3, StepReady, StepError, StepTrDone, StepDamage DEF Environment
  <2> QED BY <1>1, <2>1, <2>2, <2>3, StepHeartbeat, StepCrash, StepCut, StepInit, StepLoop,
             StepBooted DEF Next
<1>2. CASE UNCHANGED vars
  BY <1>2 DEF vars, state, IInv, OthersOk, EntriesOk, EntryOk, DiskOk, DirOk, FileOk,
              Read, HistoryOk, StartedOk, KeptOk, torrent_active
<1> QED BY <1>1, <1>2

\* The inductive invariant holds always.
LEMMA Inductive == Spec => []IInv
<1>1. Init => IInv
  BY InitOk
<1>2. IInv /\ [Next]_vars => IInv'
  BY StepOk
<1> QED BY <1>1, <1>2, PTL DEF Spec

\* Library entry and torrent point at each other in every state of btpd,
\* whatever is added, deleted, started and stopped, and however torrents fail
\* and the process is killed, unless a torrent is added again before its
\* deletion is complete (tlib.c, torrent.c).
THEOREM LinksCorrect == Spec => []Linked
<1>1. IInv => Linked
  <2> SUFFICES ASSUME IInv PROVE Linked
    OBVIOUS
  <2>1. boot \in [rd : Nat, pos : Nat]
    BY DEF IInv, OthersOk
  <2>2. TypeOK
    BY <2>1 DEF IInv, OthersOk, EntriesOk, EntryOk, TypeOK
  <2>3. ASSUME "readd" \notin may, NEW h \in Hashes
        PROVE  (t[h].ptr = "null" <=> ~Live(t[h])) /\ (Live(t[h]) => t[h].known /\ t[h].back)
    BY <2>3 DEF IInv, EntriesOk, EntryOk, Entry
  <2> QED BY <2>2, <2>3 DEF Linked
<1> QED BY <1>1, Inductive, PTL

\* A torrent that is not being deleted has its directory, a torrent that runs
\* is in the file `active', and what has left the library has no directory.
THEOREM DiskCorrect == Spec => []Kept
<1>1. IInv => Kept
  <2> SUFFICES ASSUME IInv, NEW h \in Hashes
               PROVE  /\ Live(t[h]) /\ ~t[h].delete => h \in dir
                      /\ proc = "up" /\ Running(t[h]) => Contains(active, h)
                      /\ proc = "up" /\ ~t[h].known /\ "del_ghost" \notin may => h \notin dir
    BY DEF Kept
  <2> QED BY DEF IInv, EntriesOk, EntryOk, DiskOk, DirOk, FileOk, Stays
<1> QED BY <1>1, Inductive, PTL

\* active_start ends with all the torrents that the user had started and not
\* stopped, after an orderly exit and after a crash at any step, the one in the
\* middle of active_start and the one between the two halves of an edit of the
\* file included, unless directories are damaged; and with no others if nothing
\* but starting, stopping and crashes outside such an edit has happened.
THEOREM RestartCorrect == Spec => StartsAsBefore
<1> DEFINE A == Restarts => /\ "damage" \notin may => was \subseteq RunningNow
                            /\ may = {} => RunningNow \subseteq was
<1>1. IInv /\ [Next]_vars => [A]_vars
  <2> SUFFICES ASSUME IInv, [Next]_vars, proc = "boot", proc' = "up"
               PROVE  /\ "damage" \notin may => was \subseteq RunningNow
                      /\ may = {} => RunningNow \subseteq was
    BY DEF Restarts
  <2>1. booted
    BY DEF Next, vars, state, Commands, Environment, cmd_add, cmd_del, cmd_start,
           cmd_start_dangling, cmd_start_all, cmd_stop, cmd_stop_all, btpd_shutdown, Serving,
           heartbeat_cb, cm_ready, cm_on_error, tr_done, InProcess, damage, crash,
           crash_in_edit, btpd_init, active_start_loop
  <2>2. active \in Seq(Hashes) /\ boot.rd > Len(active) /\ boot.rd \in Nat
    BY <2>1 DEF booted, IInv, OthersOk
  <2>3. \A h \in Hashes : (Read(h) <=> h \in Range(active)) /\ (Read(h) <=> Contains(active, h))
    BY <2>2, RangeSeq DEF Read, Contains
  <2>4. "damage" \notin may => was \subseteq RunningNow
    BY <2>3 DEF IInv, StartedOk, KeptOk, OthersOk, RunningNow
  <2>5. may = {} => RunningNow \subseteq was
    BY <2>3 DEF IInv, HistoryOk, RunningNow
  <2> QED BY <2>4, <2>5
<1> QED BY <1>1, Inductive, PTL DEF Spec, StartsAsBefore

------------------------------------------------------------------------------
(* The info files: Info *)

\* The instance has the library's operators under another name.
LEMMA LibraryNames ==
    ASSUME NEW s, NEW e
    PROVE  /\ Library!RemoveFirst(s, e) = RemoveFirst(s, e)
           /\ Library!SelectInSeq(s, LAMBDA x : x = e) = SelectInSeq(s, LAMBDA x : x = e)
           /\ Library!Contains(s, e) = Contains(s, e)
<1>1. Library!Contains(s, e) = Contains(s, e)
  BY DEF Contains, Library!Contains
<1>2. Library!SelectInSeq(s, LAMBDA x : x = e) = SelectInSeq(s, LAMBDA x : x = e)
  BY DEF SelectInSeq, Library!SelectInSeq, Min, Library!Min
<1>3. Library!RemoveFirst(s, e) = RemoveFirst(s, e)
  <2>1. \A i : Library!RemoveAt(s, i) = RemoveAt(s, i)
    BY DEF RemoveAt, Library!RemoveAt
  <2> QED BY <2>1, <1>2 DEF RemoveFirst, Library!RemoveFirst
<1> QED BY <1>1, <1>2, <1>3

Dirs == [info : Nat \union {None}, write : BOOLEAN]
Phases == {"none", "starting", "on", "ghost"}
Memory == [up : BOOLEAN, lib : [Hashes -> [known : BOOLEAN, ok : BOOLEAN, tot : Nat]],
           st : [Hashes -> Phases], del : SUBSET Hashes, sess : [Hashes -> Nat],
           torrents : Seq(Hashes), savetp : Hashes \union {None}, due : BOOLEAN]

\* The list has the torrents there are, and m_savetp is one of them.
ListOk(m) ==
    /\ Distinct(m.torrents)
    /\ \A h \in Hashes : h \in Range(m.torrents) <=> m.st[h] # "none"
    /\ m.torrents = <<>> => m.savetp = None
    /\ m.torrents # <<>> => m.savetp \in Range(m.torrents)

\* A torrent has an entry with a name; only ghosts are to be deleted.
KnownOk(m, h) ==
    /\ m.st[h] = "none" => m.sess[h] = 0
    /\ h \in m.del => m.st[h] = "ghost"
    /\ m.st[h] # "none" => m.lib[h].known /\ m.lib[h].ok

MemOk(m) == m \in Memory /\ ListOk(m) /\ \A h \in Hashes : KnownOk(m, h)

\* What the torrent h is said to have transferred (Said).
SaidBy(m, h) == m.lib[h].tot + (IF m.st[h] \in {"starting", "on"} THEN m.sess[h] ELSE 0)

\* The library agrees with the directory x of h and with what has happened:
\* whether h was added (in), and the bounds of what it has transferred.
Agrees(m, h, x, in, lo, hi) ==
    /\ IF h \in m.del THEN x = None ELSE m.lib[h].known <=> x # None
    /\ in => /\ m.lib[h].known /\ m.lib[h].ok
             /\ lo <= SaidBy(m, h) /\ SaidBy(m, h) <= hi

\* The file of a torrent that was added is whole, and no older than its floor.
Whole(x, in, lo, hi) ==
    in => x # None /\ x.info # None /\ lo <= x.info /\ x.info <= hi

Lib(m, d, a, lo, hi) ==
    /\ MemOk(m) /\ d \in [Hashes -> Dirs \union {None}] /\ a \in SUBSET Hashes
    /\ lo \in [Hashes -> Nat] /\ hi \in [Hashes -> Nat]
    /\ \A h \in Hashes : Whole(d[h], h \in a, lo[h], hi[h])
    /\ IF m.up THEN \A h \in Hashes : Agrees(m, h, d[h], h \in a, lo[h], hi[h])
       ELSE m = Library!Down

\* The inductive invariant of Info.
LibInv == Lib(mem, disk, added, floor, truth) /\ lost = FALSE

\* The turn passes to another torrent of the list, if there is one left.
LEMMA AfterOk ==
    ASSUME NEW list \in Seq(Hashes), Distinct(list), NEW h \in Range(list)
    PROVE  /\ Library!After(list, h, list) \in Range(list)
           /\ LET rest == RemoveFirst(list, h) IN
              IF rest = <<>> THEN Library!After(list, h, rest) = None
              ELSE Library!After(list, h, rest) \in Range(rest)
<1> DEFINE i == SelectInSeq(list, LAMBDA x : x = h)
           rest == RemoveFirst(list, h)
<1>1. Range(list) = {list[j] : j \in 1..Len(list)} /\ Range(list) \subseteq Hashes
  BY RangeSeq
<1>2. h \in Hashes /\ Contains(list, h) /\ Len(list) \in Nat
  BY <1>1 DEF Contains
<1>3. i \in 1..Len(list) /\ list[i] = h
  BY <1>2, FirstPosition
<1>4. /\ rest \in Seq(Hashes) /\ Len(rest) = Len(list) - 1
      /\ Range(list) = Range(rest) \union {h} /\ h \notin Range(rest)
  BY <1>2, RemoveFirstSeq
<1>5. \A r : Library!After(list, h, r) = IF i < Len(list) THEN list[i + 1]
                                         ELSE IF r = <<>> THEN None ELSE Head(r)
  BY DEF Library!After, Library!SelectInSeq, SelectInSeq, Library!Min, Min
<1> HIDE DEF i, rest
<1>6. CASE i < Len(list)
  <2>1. i + 1 \in 1..Len(list) /\ i + 1 # i
    BY <1>2, <1>3, <1>6
  <2>2. list[i + 1] \in Range(list) /\ list[i + 1] # h
    BY <2>1, <1>1, <1>3 DEF Distinct
  <2>3. list[i + 1] \in Range(rest)
    BY <2>2, <1>4
  <2>4. rest # <<>>
    BY <2>3 DEF Range
  <2> QED BY <2>2, <2>3, <2>4, <1>5, <1>6 DEF rest
<1>7. CASE ~(i < Len(list))
  <2>1. list # <<>> /\ Head(list) = list[1] /\ 1 \in 1..Len(list)
    BY <1>2, <1>3
  <2>2. Head(list) \in Range(list)
    BY <2>1, <1>1
  <2>3. rest # <<>> => Head(rest) \in Range(rest)
    <3>1. rest # <<>> => Head(rest) = rest[1] /\ 1 \in DOMAIN rest
      BY <1>4
    <3> QED BY <3>1 DEF Range
  <2> QED BY <2>1, <2>2, <2>3, <1>5, <1>7 DEF rest
<1> QED BY <1>6, <1>7

\* torrent_kill has made k of m.
Killed(m, h, k) ==
    /\ MemOk(k) /\ k.up = m.up /\ k.due = m.due
    /\ k.st = [m.st EXCEPT ![h] = "none"] /\ k.sess = [m.sess EXCEPT ![h] = 0]
    /\ k.del = m.del \ {h}
    /\ k.lib = [m.lib EXCEPT ![h] = IF h \in m.del THEN Library!NoEntry ELSE @]

\* torrent_kill of a ghost.
LEMMA ReleaseOk ==
    ASSUME NEW m, MemOk(m), NEW h \in Hashes, m.st[h] = "ghost",
           NEW k, k = Library!torrent_kill(m, h)
    PROVE  Killed(m, h, k)
<1> DEFINE rest == RemoveFirst(m.torrents, h)
<1>0. /\ m \in Memory /\ Distinct(m.torrents) /\ m.torrents \in Seq(Hashes)
      /\ h \in Range(m.torrents)
  BY DEF MemOk, ListOk, Memory
<1>1. /\ rest \in Seq(Hashes) /\ Distinct(rest) /\ Range(rest) = Range(m.torrents) \ {h}
  <2>1. Range(m.torrents) = Range(rest) \union {h} /\ h \notin Range(rest)
        /\ rest \in Seq(Hashes) /\ Distinct(rest)
    BY <1>0, RemoveFirstSeq
  <2> QED BY <2>1
<1>2. k = [m EXCEPT !.torrents = rest, !.st[h] = "none", !.sess[h] = 0, !.del = @ \ {h},
                    !.lib[h] = IF h \in m.del THEN Library!NoEntry ELSE @,
                    !.savetp = IF @ = h THEN Library!After(m.torrents, h, rest) ELSE @]
  BY LibraryNames DEF Library!torrent_kill
<1>3. /\ k.torrents = rest /\ k.up = m.up /\ k.due = m.due
      /\ k.st = [m.st EXCEPT ![h] = "none"] /\ k.sess = [m.sess EXCEPT ![h] = 0]
      /\ k.del = m.del \ {h}
      /\ k.lib = [m.lib EXCEPT ![h] = IF h \in m.del THEN Library!NoEntry ELSE @]
      /\ k.savetp = IF m.savetp = h THEN Library!After(m.torrents, h, rest) ELSE m.savetp
  BY <1>0, <1>2 DEF Memory
<1>4. IF rest = <<>> THEN k.savetp = None ELSE k.savetp \in Range(rest)
  <2>1. CASE m.savetp = h
    BY <2>1, <1>0, <1>3, AfterOk
  <2>2. CASE m.savetp # h
    <3>1. m.savetp \in Range(rest)
      <4>1. m.torrents # <<>>
        BY <1>0 DEF Range
      <4> QED BY <4>1, <2>2, <1>1 DEF MemOk, ListOk
    <3>2. rest # <<>>
      BY <3>1 DEF Range
    <3> QED BY <3>1, <3>2, <2>2, <1>3
  <2> QED BY <2>1, <2>2
<1>5. k.savetp \in Hashes \union {None}
  BY <1>1, <1>4, RangeSeq
<1> HIDE DEF rest
<1>6. k \in Memory
  <2>1. /\ k.lib \in [Hashes -> [known : BOOLEAN, ok : BOOLEAN, tot : Nat]]
        /\ k.st \in [Hashes -> Phases] /\ k.sess \in [Hashes -> Nat] /\ k.del \in SUBSET Hashes
    BY <1>0, <1>3 DEF Memory, Phases, Library!NoEntry
  <2>2. k = [up |-> k.up, lib |-> k.lib, st |-> k.st, del |-> k.del, sess |-> k.sess,
             torrents |-> k.torrents, savetp |-> k.savetp, due |-> k.due]
    BY <1>0, <1>2 DEF Memory
  <2>3. k.up \in BOOLEAN /\ k.due \in BOOLEAN
    BY <1>0, <1>3 DEF Memory
  <2>4. k.torrents \in Seq(Hashes)
    BY <1>1, <1>3
  <2> QED BY <2>1, <2>2, <2>3, <2>4, <1>5 DEF Memory
<1>7. ListOk(k)
  <2>1. \A g \in Hashes : g \in Range(rest) <=> k.st[g] # "none"
    BY <1>0, <1>1, <1>3 DEF MemOk, ListOk, Memory
  <2> QED BY <2>1, <1>1, <1>3, <1>4 DEF ListOk
<1>8. \A g \in Hashes : KnownOk(k, g)
  BY <1>0, <1>3 DEF MemOk, KnownOk, Memory
<1> QED BY <1>3, <1>6, <1>7, <1>8 DEF MemOk, Killed

\* What torrent_on_tick has made of h: nothing, or a test has ended, or a ghost
\* has been released.
Passed(m, h) ==
    \/ /\ m.lib[h] = mem.lib[h] /\ m.sess[h] = mem.sess[h]
       /\ h \in m.del <=> h \in mem.del
       /\ m.st[h] = mem.st[h] \/ (mem.st[h] = "starting" /\ m.st[h] = "on")
    \/ /\ mem.st[h] = "ghost" /\ m.st[h] = "none" /\ m.sess[h] = 0 /\ h \notin m.del
       /\ m.lib[h] = IF h \in mem.del THEN Library!NoEntry ELSE mem.lib[h]

\* A ghost is released on the way.
LEMMA KilledOnTick ==
    ASSUME NEW m, MemOk(m), NEW g \in Hashes, m.st[g] = "ghost", mem.st[g] = "ghost",
           \A h \in Hashes : Passed(m, h)
    PROVE  LET k == Library!torrent_kill(m, g) IN
           /\ MemOk(k) /\ k.up = m.up /\ k.due = m.due
           /\ k.st = [m.st EXCEPT ![g] = "none"]
           /\ \A h \in Hashes : Passed(k, h)
<1>0. PICK k : k = Library!torrent_kill(m, g)
  OBVIOUS
<1>1. /\ MemOk(k) /\ k.up = m.up /\ k.due = m.due
      /\ k.st = [m.st EXCEPT ![g] = "none"] /\ k.sess = [m.sess EXCEPT ![g] = 0]
      /\ k.del = m.del \ {g}
      /\ k.lib = [m.lib EXCEPT ![g] = IF g \in m.del THEN Library!NoEntry ELSE @]
  BY <1>0, ReleaseOk DEF Killed
<1>2. m.st \in [Hashes -> Phases] /\ DOMAIN m.sess = Hashes /\ DOMAIN m.lib = Hashes
  BY DEF MemOk, Memory
<1>3. \A h \in Hashes : Passed(k, h)
  <2> TAKE h \in Hashes
  <2>1. CASE g = h
    BY <2>1, <1>1, <1>2 DEF Passed
  <2>2. CASE g # h
    BY <2>2, <1>1, <1>2 DEF Passed
  <2> QED BY <2>1, <2>2
<1> QED BY <1>0, <1>1, <1>3

\* torrent_on_tick, as far as it goes here, of the torrent h.
Visit(m, h, gone) == IF h \in gone THEN Library!torrent_kill(m, h) ELSE m

\* The walk over the list tp, from b.
Walks(f, n, b, tp, gone) ==
    f = [i \in 0..n |-> IF i = 0 THEN b ELSE Visit(f[i - 1], tp[i], gone)]

\* The walk exists.
LEMMA Walk ==
    ASSUME NEW n \in Nat, NEW b, NEW tp, NEW gone
    PROVE  \E f : Walks(f, n, b, tp, gone)
<1> DEFINE Upto(f, k) == f = [i \in 0..k |-> IF i = 0 THEN b ELSE Visit(f[i - 1], tp[i], gone)]
           Some(k) == \E f : Upto(f, k)
<1>1. \A k \in 0..n : Some(k)
  <2> DEFINE T == {k \in 0..n : ~Some(k)}
  <2> SUFFICES T = {}
    OBVIOUS
  <2> SUFFICES ASSUME T # {} PROVE FALSE
    OBVIOUS
  <2>0. T \in SUBSET Nat
    OBVIOUS
  <2>1. PICK m \in T : \A i \in T : m <= i
    <3> HIDE DEF T
    <3> QED BY <2>0, LeastElement
  <2>2. m \in 0..n /\ ~Some(m)
    OBVIOUS
  <2>3. CASE m = 0
    <3> DEFINE g == [i \in 0..0 |-> b]
    <3>1. Upto(g, 0)
      <4>1. \A i \in 0..0 : i = 0
        OBVIOUS
      <4> QED BY <4>1
    <3> QED BY <2>2, <2>3, <3>1
  <2>4. CASE m # 0
    <3>1. m - 1 \in 0..n /\ m - 1 \notin T
      BY <2>1, <2>2, <2>4
    <3>2. PICK f : Upto(f, m - 1)
      BY <3>1
    <3> DEFINE g == [i \in 0..m |-> IF i = m THEN Visit(f[m - 1], tp[m], gone) ELSE f[i]]
    <3>3. \A i \in 0..m : i # m => i \in 0..(m - 1) /\ g[i] = f[i]
      BY <2>2
    <3>4. \A i \in 0..m : g[i] = IF i = 0 THEN b ELSE Visit(g[i - 1], tp[i], gone)
      <4> TAKE i \in 0..m
      <4>1. CASE i = m
        BY <2>2, <2>4, <4>1
      <4>2. CASE i # m
        <5>1. g[i] = f[i] /\ f[i] = IF i = 0 THEN b ELSE Visit(f[i - 1], tp[i], gone)
          BY <3>2, <3>3, <4>2
        <5>2. i # 0 => i - 1 \in 0..m /\ i - 1 # m /\ g[i - 1] = f[i - 1]
          BY <2>2, <4>2
        <5> QED BY <5>1, <5>2
      <4> QED BY <4>1, <4>2
    <3>5. Upto(g, m)
      BY <3>4
    <3> QED BY <2>2, <3>5
  <2> QED BY <2>3, <2>4
<1>2. n \in 0..n
  OBVIOUS
<1>3. PICK f : Upto(f, n)
  BY <1>1, <1>2
<1> QED BY <1>3 DEF Walks

\* torrent_on_tick of all torrents.
LEMMA TickedOk ==
    ASSUME MemOk(mem), NEW ready \in SUBSET {h \in Hashes : mem.st[h] = "starting"},
           NEW gone \in SUBSET {h \in Hashes : mem.st[h] = "ghost"}
    PROVE  LET m == Library!ticked(ready, gone) IN
           /\ MemOk(m) /\ m.up = mem.up /\ m.due = mem.due
           /\ \A h \in Hashes : Passed(m, h)
<1> DEFINE tp == mem.torrents
           n == Len(tp)
           b == [mem EXCEPT !.st = [h \in Hashes |-> IF h \in ready THEN "on" ELSE mem.st[h]]]
           Good(m) == /\ MemOk(m) /\ m.up = mem.up /\ m.due = mem.due
                      /\ \A h \in Hashes : Passed(m, h)
           S == [i \in 0..n |-> {m \in Memory : Good(m) /\
                   \A j \in (i + 1)..n : m.st[tp[j]] = b.st[tp[j]]}]
<1>1. /\ mem \in Memory /\ tp \in Seq(Hashes) /\ n \in Nat /\ Distinct(tp)
      /\ mem.st \in [Hashes -> Phases]
  BY DEF MemOk, Memory, ListOk
<1>2. b \in Memory /\ Good(b)
  <2>1. /\ b.up = mem.up /\ b.due = mem.due /\ b.lib = mem.lib /\ b.sess = mem.sess
        /\ b.del = mem.del /\ b.torrents = mem.torrents /\ b.savetp = mem.savetp
        /\ b.st = [h \in Hashes |-> IF h \in ready THEN "on" ELSE mem.st[h]]
    BY <1>1 DEF Memory
  <2>2. b \in Memory
    BY <1>1 DEF Memory, Phases
  <2> HIDE DEF b
  <2>3. \A h \in Hashes : /\ b.st[h] = "none" <=> mem.st[h] = "none"
                          /\ b.st[h] = "ghost" <=> mem.st[h] = "ghost"
                          /\ b.st[h] = mem.st[h] \/ (mem.st[h] = "starting" /\ b.st[h] = "on")
    BY <2>1
  <2>4. ListOk(b) /\ \A h \in Hashes : KnownOk(b, h) /\ Passed(b, h)
    BY <2>1, <2>3 DEF MemOk, ListOk, KnownOk, Passed
  <2> QED BY <2>1, <2>2, <2>4 DEF MemOk
<1> HIDE DEF Good
<1>S. \A i \in 0..n : \A m : m \in S[i] <=>
         m \in Memory /\ Good(m) /\ \A j \in (i + 1)..n : m.st[tp[j]] = b.st[tp[j]]
  <2> HIDE DEF b, n, tp
  <2> QED OBVIOUS
<1> HIDE DEF S
<1>3. b \in S[0]
  <2> HIDE DEF b
  <2> QED BY <1>1, <1>2, <1>S
<1>4. \A h \in Hashes : h \in gone => b.st[h] = "ghost" /\ mem.st[h] = "ghost"
  BY <1>1 DEF Memory
<1> HIDE DEF b
<1>5. ASSUME NEW i \in 1..n, NEW m \in S[i - 1]
      PROVE  Visit(m, tp[i], gone) \in S[i]
  <2>1. /\ i - 1 \in 0..n /\ i \in 0..n /\ i \in ((i - 1) + 1)..n /\ tp[i] \in Hashes
        /\ \A j \in (i + 1)..n : j \in ((i - 1) + 1)..n /\ j \in 1..n /\ j # i /\ tp[j] \in Hashes
    BY <1>1
  <2>2. /\ m \in Memory /\ Good(m) /\ m.st[tp[i]] = b.st[tp[i]]
        /\ \A j \in (i + 1)..n : m.st[tp[j]] = b.st[tp[j]]
    BY <2>1, <1>S
  <2>3. CASE tp[i] \notin gone
    BY <2>1, <2>2, <2>3, <1>S DEF Visit
  <2>4. CASE tp[i] \in gone
    <3>1. PICK h : h = tp[i]
      OBVIOUS
    <3>2. PICK k : k = Library!torrent_kill(m, h)
      OBVIOUS
    <3>3. h \in Hashes /\ MemOk(m) /\ m.st[h] = "ghost" /\ mem.st[h] = "ghost"
      BY <1>4, <2>1, <2>2, <2>4, <3>1 DEF Good
    <3>4. /\ MemOk(k) /\ k.up = m.up /\ k.due = m.due
          /\ k.st = [m.st EXCEPT ![h] = "none"] /\ \A g \in Hashes : Passed(k, g)
      <4>1. \A g \in Hashes : Passed(m, g)
        BY <2>2 DEF Good
      <4> QED BY <4>1, <3>2, <3>3, KilledOnTick
    <3>5. Good(k) /\ k \in Memory
      BY <3>4, <2>2 DEF Good, MemOk
    <3>6. \A j \in (i + 1)..n : k.st[tp[j]] = b.st[tp[j]]
      <4> TAKE j \in (i + 1)..n
      <4>1. tp[j] # h /\ tp[j] \in Hashes
        BY <2>1, <1>1, <3>1 DEF Distinct
      <4>2. DOMAIN m.st = Hashes
        BY <2>2 DEF Memory
      <4> QED BY <4>1, <4>2, <2>2, <3>4
    <3> QED BY <2>1, <2>4, <3>1, <3>2, <3>5, <3>6, <1>S DEF Visit
  <2> QED BY <2>3, <2>4
<1>6. \E f : /\ f = [i \in 0..n |-> IF i = 0 THEN b ELSE Visit(f[i - 1], tp[i], gone)]
             /\ Library!ticked(ready, gone) = f[n]
  <2>1. PICK f : Walks(f, n, b, tp, gone)
    BY <1>1, Walk
  <2> QED BY <2>1 DEF Walks, Library!ticked, Visit, b
<1>7. PICK f : /\ f = [i \in 0..n |-> IF i = 0 THEN b ELSE Visit(f[i - 1], tp[i], gone)]
               /\ Library!ticked(ready, gone) = f[n]
  BY <1>6
<1>8. \A i \in 0..n : f[i] \in S[i]
  <2>1. f[0] = b
    BY <1>1, <1>7
  <2>2. ASSUME NEW i \in 1..n, f[i - 1] \in S[i - 1]
        PROVE  f[i] \in S[i]
    <3>1. f[i] = Visit(f[i - 1], tp[i], gone)
      BY <1>7, <1>1
    <3> QED BY <1>5, <2>2, <3>1
  <2> QED BY <2>1, <2>2, <1>1, <1>3, Inductively
<1>9. Good(f[n])
  BY <1>1, <1>8, <1>S
<1> QED BY <1>7, <1>9 DEF Good

\* Nothing is in memory when the process is down.
LEMMA DownOk == MemOk(Library!Down) /\ Library!Down.up = FALSE
<1> DEFINE m == Library!Down
<1>1. /\ m.up = FALSE /\ m.del = {} /\ m.torrents = <<>> /\ m.savetp = None /\ m.due = FALSE
      /\ m.lib = [h \in Hashes |-> Library!NoEntry] /\ m.st = [h \in Hashes |-> "none"]
      /\ m.sess = [h \in Hashes |-> 0]
  BY DEF Library!Down
<1>2. m \in Memory
  BY DEF Library!Down, Library!NoEntry, Memory, Phases
<1> HIDE DEF m
<1>3. ListOk(m)
  <2>1. Range(<<>>) = {}
    BY DEF Range
  <2> QED BY <1>1, <2>1 DEF ListOk, Distinct
<1>4. \A h \in Hashes : KnownOk(m, h)
  BY <1>1 DEF KnownOk
<1> QED BY <1>1, <1>2, <1>3, <1>4 DEF MemOk, m

\* What m1 and m2 say of the torrent h is the same.
Same(m1, m2, h) ==
    /\ m1.lib[h] = m2.lib[h] /\ m1.st[h] = m2.st[h] /\ m1.sess[h] = m2.sess[h]
    /\ h \in m1.del <=> h \in m2.del

Others(m1, m2, g) == \A h \in Hashes \ {g} : Same(m1, m2, h)

KnownElse(m, h) == \A g \in Hashes \ {h} : KnownOk(m, g)

\* Nothing else has happened to the torrents other than g.
Elsewhere(g, a, lo, hi, a2, lo2, hi2) ==
    \A h \in Hashes \ {g} : (h \in a2 <=> h \in a) /\ lo2[h] = lo[h] /\ hi2[h] = hi[h]

Put(d, g, x) == [d EXCEPT ![g] = x]

\* What happens to the files of one torrent when the process dies.
LEMMA Dies ==
    ASSUME NEW m, NEW d, NEW a, NEW lo, NEW hi, Lib(m, d, a, lo, hi), NEW g \in Hashes,
           NEW x \in Dirs \union {None}, NEW a2 \in SUBSET Hashes,
           NEW lo2 \in [Hashes -> Nat], NEW hi2 \in [Hashes -> Nat],
           Whole(x, g \in a2, lo2[g], hi2[g]),
           Elsewhere(g, a, lo, hi, a2, lo2, hi2)
    PROVE  Lib(Library!Down, Put(d, g, x), a2, lo2, hi2)
<1>1. Put(d, g, x) \in [Hashes -> Dirs \union {None}]
  BY DEF Lib, Put
<1>2. \A h \in Hashes : Whole(Put(d, g, x)[h], h \in a2, lo2[h], hi2[h])
  BY DEF Lib, Whole, Put, Elsewhere
<1> QED BY <1>1, <1>2, DownOk DEF Lib

\* What a handler does to one torrent.
LEMMA Lands ==
    ASSUME NEW m, NEW d, NEW a, NEW lo, NEW hi, Lib(m, d, a, lo, hi), m.up, NEW g \in Hashes,
           NEW k, MemOk(k), k.up, Others(m, k, g),
           NEW x \in Dirs \union {None}, NEW a2 \in SUBSET Hashes,
           NEW lo2 \in [Hashes -> Nat], NEW hi2 \in [Hashes -> Nat],
           Whole(x, g \in a2, lo2[g], hi2[g]), Agrees(k, g, x, g \in a2, lo2[g], hi2[g]),
           Elsewhere(g, a, lo, hi, a2, lo2, hi2)
    PROVE  Lib(k, Put(d, g, x), a2, lo2, hi2)
<1>1. Put(d, g, x) \in [Hashes -> Dirs \union {None}]
  BY DEF Lib, Put
<1>2. \A h \in Hashes : Whole(Put(d, g, x)[h], h \in a2, lo2[h], hi2[h])
  BY DEF Lib, Whole, Put, Elsewhere
<1>3. \A h \in Hashes : Agrees(k, h, Put(d, g, x)[h], h \in a2, lo2[h], hi2[h])
  <2> TAKE h \in Hashes
  <2>1. CASE h = g
    BY <2>1 DEF Lib, Put
  <2>2. CASE h # g
    <3>1. Agrees(m, h, d[h], h \in a, lo[h], hi[h]) /\ Put(d, g, x)[h] = d[h]
      BY <2>2 DEF Lib, Put
    <3> QED BY <3>1, <2>2 DEF Agrees, SaidBy, Same, Others, Elsewhere
  <2> QED BY <2>1, <2>2
<1> QED BY <1>1, <1>2, <1>3 DEF Lib

\* A torrent that has stopped is a ghost, and may be released at once.
LEMMA GhostOk ==
    ASSUME NEW m \in Memory, ListOk(m), NEW h \in Hashes, m.st[h] # "none",
           KnownElse(m, h), m.lib[h].known, m.lib[h].ok,
           NEW k \in Library!Ghost(m, h)
    PROVE  /\ MemOk(k) /\ k.up = m.up /\ Others(m, k, h)
           /\ \/ k.st[h] = "ghost" /\ k.lib[h] = m.lib[h] /\ (h \in k.del <=> h \in m.del)
              \/ /\ k.st[h] = "none" /\ h \notin k.del
                 /\ k.lib[h] = IF h \in m.del THEN Library!NoEntry ELSE m.lib[h]
<1>1. PICK g : g = [m EXCEPT !.st[h] = "ghost"]
  OBVIOUS
<1>2. /\ g \in Memory /\ g.up = m.up /\ g.due = m.due /\ g.lib = m.lib /\ g.sess = m.sess
      /\ g.del = m.del /\ g.torrents = m.torrents /\ g.savetp = m.savetp
      /\ g.st = [m.st EXCEPT ![h] = "ghost"]
  BY <1>1 DEF Memory, Phases
<1>3. m.st \in [Hashes -> Phases] /\ DOMAIN m.lib = Hashes /\ DOMAIN m.sess = Hashes
  BY DEF Memory
<1>4. MemOk(g)
  <2>1. ListOk(g)
    BY <1>2, <1>3 DEF ListOk
  <2>2. \A x \in Hashes : KnownOk(g, x)
    BY <1>2, <1>3 DEF KnownOk, KnownElse
  <2> QED BY <1>2, <2>1, <2>2 DEF MemOk
<1>5. k = g \/ k = Library!torrent_kill(g, h)
  BY <1>1 DEF Library!Ghost
<1>6. CASE k = g
  BY <1>2, <1>3, <1>4, <1>6 DEF Same, Others
<1>7. CASE k = Library!torrent_kill(g, h)
  <2>1. g.st[h] = "ghost"
    BY <1>2, <1>3
  <2>2. Killed(g, h, k)
    BY <1>4, <1>7, <2>1, ReleaseOk
  <2> QED BY <2>2, <1>2, <1>3 DEF Same, Others, Killed
<1> QED BY <1>5, <1>6, <1>7

\* What the invariant says of one torrent while the process is up.
LEMMA Known ==
    ASSUME LibInv, mem.up, NEW h \in Hashes
    PROVE  /\ mem \in Memory /\ MemOk(mem) /\ ListOk(mem) /\ KnownOk(mem, h)
           /\ Agrees(mem, h, disk[h], h \in added, floor[h], truth[h])
           /\ Whole(disk[h], h \in added, floor[h], truth[h])
           /\ disk \in [Hashes -> Dirs \union {None}] /\ added \in SUBSET Hashes
           /\ floor \in [Hashes -> Nat] /\ truth \in [Hashes -> Nat]
BY DEF LibInv, Lib, MemOk

Entered(m, h, e) == [m EXCEPT !.lib[h] = e]

LEMMA EnteredFields ==
    ASSUME NEW m \in Memory, NEW h \in Hashes,
           NEW e \in [known : BOOLEAN, ok : BOOLEAN, tot : Nat], NEW k, k = Entered(m, h, e)
    PROVE  /\ k.up = m.up /\ k.due = m.due /\ k.st = m.st /\ k.sess = m.sess
           /\ k.del = m.del /\ k.torrents = m.torrents /\ k.savetp = m.savetp
           /\ k.lib = [m.lib EXCEPT ![h] = e] /\ k \in Memory
BY DEF Memory, Entered

\* An entry is made for a torrent, or is cleared.
LEMMA EnteredOk ==
    ASSUME NEW m, MemOk(m), NEW h \in Hashes, m.st[h] = "none",
           NEW e \in [known : BOOLEAN, ok : BOOLEAN, tot : Nat],
           NEW k, k = Entered(m, h, e)
    PROVE  /\ MemOk(k) /\ k.up = m.up /\ Others(m, k, h)
           /\ k.lib[h] = e /\ k.st[h] = "none" /\ k.del = m.del /\ k.sess[h] = 0
<1>1. m \in Memory /\ ListOk(m) /\ KnownOk(m, h)
  BY DEF MemOk
<1>2. /\ k \in Memory /\ k.up = m.up /\ k.due = m.due /\ k.st = m.st /\ k.sess = m.sess
      /\ k.del = m.del /\ k.torrents = m.torrents /\ k.savetp = m.savetp
      /\ k.lib = [m.lib EXCEPT ![h] = e]
  BY <1>1, EnteredFields
<1>3. k.lib[h] = e /\ \A g \in Hashes \ {h} : k.lib[g] = m.lib[g]
  BY <1>1, <1>2 DEF Memory
<1>4. ListOk(k)
  BY <1>1, <1>2 DEF ListOk
<1>5. \A g \in Hashes : KnownOk(k, g)
  BY <1>2, <1>3 DEF MemOk, KnownOk
<1> QED BY <1>1, <1>2, <1>3, <1>4, <1>5 DEF MemOk, Same, Others, KnownOk

\* A directory that can be read back.
LEMMA SavedOk ==
    ASSUME NEW v \in Nat
    PROVE  /\ Library!saved(v) \in Dirs /\ Library!saved(v) # None
           /\ Library!saved(v).info = v /\ v # None
<1>1. Library!saved(v) = [info |-> v, write |-> FALSE]
  BY DEF Library!saved
<1>2. [info |-> v, write |-> FALSE] \in [info : Nat \union {None}, write : BOOLEAN]
  OBVIOUS
<1>3. v # None /\ Library!saved(v) # None
  BY <1>1, <1>2, LibraryAssumption
<1>4. Library!saved(v) \in Dirs
  BY <1>1, <1>2 DEF Dirs
<1> QED BY <1>1, <1>3, <1>4

LEMMA InfoAdd ==
    ASSUME LibInv, NEW h \in Hashes, Library!cmd_add(h)
    PROVE  LibInv'
<1> DEFINE e == [known |-> TRUE, ok |-> TRUE, tot |-> 0]
           new == [info |-> None, write |-> FALSE]
           m == Entered(mem, h, e)
           zero(f) == [f EXCEPT ![h] = 0]
<1>1. /\ mem.up /\ ~mem.lib[h].known
      /\ Library!Runs(h, m, {None} \union Library!save_via(new), Library!saved(0))
      /\ truth' = zero(truth) /\ floor' = zero(floor)
      /\ added' = (IF mem'.up THEN added \union {h} ELSE added) /\ lost' = (disk[h] # None)
  BY DEF Library!cmd_add, Library!Up, Entered
<1>2. disk[h] = None /\ h \notin added /\ mem.st[h] = "none" /\ h \notin mem.del
  BY <1>1, Known DEF Agrees, KnownOk
<1>3. /\ truth' \in [Hashes -> Nat] /\ floor' \in [Hashes -> Nat] /\ truth'[h] = 0 /\ floor'[h] = 0
      /\ \A g \in Hashes \ {h} : truth'[g] = truth[g] /\ floor'[g] = floor[g]
  BY <1>1, Known
<1>4. CASE mem' = m /\ disk' = Put(disk, h, Library!saved(0))
  <2>1. e \in [known : BOOLEAN, ok : BOOLEAN, tot : Nat] /\ e.known /\ e.ok /\ e.tot = 0
    OBVIOUS
  <2>2. /\ MemOk(mem') /\ mem'.up = mem.up /\ Others(mem, mem', h)
        /\ mem'.lib[h] = e /\ mem'.st[h] = "none" /\ mem'.del = mem.del /\ mem'.sess[h] = 0
    <3> HIDE DEF e
    <3>1. MemOk(mem) /\ mem' = Entered(mem, h, e)
      BY <1>1, <1>4, Known
    <3> QED BY <1>2, <2>1, <3>1, EnteredOk
  <2> HIDE DEF e, m
  <2>3. added' = added \union {h} /\ added' \in SUBSET Hashes
    BY <1>1, <2>2, Known
  <2>4. /\ Agrees(mem', h, Library!saved(0), h \in added', floor'[h], truth'[h])
        /\ Whole(Library!saved(0), h \in added', floor'[h], truth'[h])
    BY <1>2, <1>3, <2>1, <2>2, SavedOk DEF Agrees, Whole, SaidBy
  <2>5. Lib(mem', disk', added', floor', truth')
    <3>1. Elsewhere(h, added, floor, truth, added', floor', truth')
      BY <1>3, <2>3 DEF Elsewhere
    <3>2. Library!saved(0) \in Dirs \union {None}
      BY SavedOk
    <3> QED BY <1>1, <1>3, <1>4, <2>2, <2>3, <2>4, <3>1, <3>2, Lands DEF LibInv
  <2> QED BY <1>1, <1>2, <2>5 DEF LibInv
<1>5. CASE /\ mem' = Library!Down
           /\ \E x \in {None} \union Library!save_via(new) \union {Library!saved(0)} :
                disk' = Put(disk, h, x)
  <2>1. PICK x \in Dirs \union {None} : disk' = Put(disk, h, x)
    BY <1>5, SavedOk DEF Library!save_via, Dirs
  <2>2. added' = added
    BY <1>1, <1>5, DownOk
  <2>3. Lib(mem', disk', added', floor', truth')
    <3>1. Whole(x, h \in added', floor'[h], truth'[h])
      BY <1>2, <2>2 DEF Whole
    <3>2. Elsewhere(h, added, floor, truth, added', floor', truth') /\ added' \in SUBSET Hashes
      BY <1>1, <1>3, <2>2, Known DEF Elsewhere
    <3> QED BY <1>1, <1>3, <1>5, <2>1, <2>2, <3>1, <3>2, Known, Dies DEF LibInv
  <2> QED BY <1>1, <1>2, <2>3 DEF LibInv
<1> QED BY <1>1, <1>4, <1>5 DEF Library!Runs, Put

Marked(m, h) == [m EXCEPT !.del = @ \union {h}]

\* A running torrent is to be deleted.
LEMMA MarkedOk ==
    ASSUME NEW m, MemOk(m), NEW h \in Hashes, m.st[h] # "none", NEW k, k = Marked(m, h)
    PROVE  /\ k \in Memory /\ ListOk(k) /\ k.up = m.up /\ k.st = m.st
           /\ KnownElse(k, h) /\ Others(m, k, h)
           /\ k.lib[h].known /\ k.lib[h].ok /\ h \in k.del
<1>0. /\ m \in Memory /\ ListOk(m) /\ KnownOk(m, h) /\ m.lib[h].known /\ m.lib[h].ok
      /\ m.lib \in [Hashes -> [known : BOOLEAN, ok : BOOLEAN, tot : Nat]]
      /\ m.sess \in [Hashes -> Nat]
  BY DEF MemOk, KnownOk, Memory
<1>1. /\ k.up = m.up /\ k.due = m.due /\ k.st = m.st /\ k.sess = m.sess /\ k.lib = m.lib
      /\ k.del = m.del \union {h} /\ k.torrents = m.torrents /\ k.savetp = m.savetp
      /\ k \in Memory
  BY <1>0 DEF Memory, Marked
<1>2. ListOk(k) /\ KnownElse(k, h)
  BY <1>0, <1>1 DEF ListOk, KnownOk, MemOk, KnownElse
<1>3. Others(m, k, h)
  BY <1>1 DEF Others, Same
<1>4. k.lib[h].known /\ k.lib[h].ok /\ h \in k.del
  BY <1>0, <1>1
<1> QED BY <1>1, <1>2, <1>3, <1>4

\* The totals of a running torrent are brought up to date.
LEMMA UpdatedOk ==
    ASSUME NEW m, MemOk(m), NEW h \in Hashes, m.st[h] # "none",
           NEW k, k = Library!update_info(m, h, FALSE)
    PROVE  /\ k \in Memory /\ ListOk(k) /\ k.up = m.up /\ k.st = m.st
           /\ KnownElse(k, h) /\ Others(m, k, h)
           /\ k.lib[h].known /\ k.lib[h].ok
           /\ k.del = m.del /\ k.lib[h].tot = m.lib[h].tot + m.sess[h]
<1>0. /\ m \in Memory /\ ListOk(m) /\ KnownOk(m, h) /\ m.lib[h].known /\ m.lib[h].ok
      /\ m.lib \in [Hashes -> [known : BOOLEAN, ok : BOOLEAN, tot : Nat]]
      /\ m.sess \in [Hashes -> Nat]
  BY DEF MemOk, KnownOk, Memory
<1>1. PICK e : e = [m.lib[h] EXCEPT !.tot = @ + m.sess[h]]
  OBVIOUS
<1>2. /\ e \in [known : BOOLEAN, ok : BOOLEAN, tot : Nat] /\ e.known /\ e.ok
      /\ e.tot = m.lib[h].tot + m.sess[h]
  <2>1. m.lib[h] \in [known : BOOLEAN, ok : BOOLEAN, tot : Nat] /\ m.sess[h] \in Nat
    BY <1>0
  <2> QED BY <1>0, <1>1, <2>1
<1>3. k = Entered(m, h, e)
  BY <1>1 DEF Library!update_info, Entered
<1>4. /\ k.up = m.up /\ k.due = m.due /\ k.st = m.st /\ k.sess = m.sess
      /\ k.del = m.del /\ k.torrents = m.torrents /\ k.savetp = m.savetp
      /\ k.lib = [m.lib EXCEPT ![h] = e] /\ k \in Memory
  <2>1. m \in Memory /\ e \in [known : BOOLEAN, ok : BOOLEAN, tot : Nat]
    BY <1>0, <1>2
  <2> QED BY <2>1, <1>3, EnteredFields
<1>6. /\ k.lib[h] = e /\ \A g \in Hashes \ {h} : k.lib[g] = m.lib[g]
  BY <1>0, <1>4
<1>7. ListOk(k) /\ KnownElse(k, h)
  <2>1. ListOk(k)
    BY <1>0, <1>4 DEF ListOk
  <2>2. KnownElse(k, h)
    <3> SUFFICES ASSUME NEW g \in Hashes \ {h} PROVE KnownOk(k, g)
      BY DEF KnownElse
    <3>1. KnownOk(m, g) /\ k.lib[g] = m.lib[g]
      BY <1>6 DEF MemOk
    <3> QED BY <1>4, <3>1 DEF KnownOk
  <2> QED BY <2>1, <2>2
<1>8. Others(m, k, h)
  BY <1>4, <1>6 DEF Others, Same
<1> QED BY <1>4, <1>2, <1>6, <1>7, <1>8

\* Two changes to the torrent h.
LEMMA OthersTwice ==
    ASSUME NEW m1, NEW m2, NEW m3, NEW h, Others(m1, m2, h), Others(m2, m3, h)
    PROVE  Others(m1, m3, h)
BY DEF Others, Same

LEMMA InfoDel ==
    ASSUME LibInv, NEW h \in Hashes, Library!cmd_del(h)
    PROVE  LibInv'
<1>1. /\ mem.up /\ mem.st[h] # "ghost" /\ disk[h] # None /\ lost' = lost
      /\ truth' = truth /\ floor' = floor /\ added' = added \ {h}
  BY DEF Library!cmd_del, Library!Up
<1>2. PICK m \in IF Library!torrent_active(h) THEN Library!Ghost(Marked(mem, h), h)
                 ELSE {Entered(mem, h, Library!NoEntry)} :
        Library!Runs(h, m, Library!del_via(disk[h]), None)
  BY DEF Library!cmd_del, Marked, Entered
<1>3. /\ MemOk(mem) /\ h \notin mem.del /\ mem.st[h] \in Phases
      /\ truth' \in [Hashes -> Nat] /\ floor' \in [Hashes -> Nat]
      /\ added' \in SUBSET Hashes /\ h \notin added' /\ disk[h] \in Dirs
      /\ Elsewhere(h, added, floor, truth, added', floor', truth')
  BY <1>1, Known DEF Agrees, KnownOk, Elsewhere, Memory
<1>4. /\ MemOk(m) /\ m.up /\ Others(mem, m, h)
      /\ h \in m.del \/ ~m.lib[h].known
  <2>1. CASE Library!torrent_active(h)
    <3>1. mem.st[h] # "none"
      BY <2>1 DEF Library!torrent_active
    <3>2. PICK k : k = Marked(mem, h)
      OBVIOUS
    <3>3. /\ k \in Memory /\ ListOk(k) /\ k.up = mem.up /\ k.st = mem.st
          /\ KnownElse(k, h) /\ Others(mem, k, h)
          /\ k.lib[h].known /\ k.lib[h].ok /\ h \in k.del
      BY <1>3, <3>1, <3>2, MarkedOk
    <3>4. m \in Library!Ghost(k, h)
      BY <1>2, <2>1, <3>2
    <3>5. /\ MemOk(m) /\ m.up = k.up /\ Others(k, m, h)
          /\ \/ m.st[h] = "ghost" /\ m.lib[h] = k.lib[h] /\ (h \in m.del <=> h \in k.del)
             \/ /\ m.st[h] = "none" /\ h \notin m.del
                /\ m.lib[h] = IF h \in k.del THEN Library!NoEntry ELSE k.lib[h]
      BY <3>1, <3>3, <3>4, GhostOk
    <3> QED BY <1>1, <3>3, <3>5, OthersTwice DEF Library!NoEntry
  <2>2. CASE ~Library!torrent_active(h)
    <3>1. mem.st[h] = "none" /\ m = Entered(mem, h, Library!NoEntry)
      BY <1>1, <1>2, <1>3, <2>2 DEF Library!torrent_active, Phases
    <3>2. Library!NoEntry \in [known : BOOLEAN, ok : BOOLEAN, tot : Nat]
      BY DEF Library!NoEntry
    <3>3. MemOk(m) /\ m.up = mem.up /\ Others(mem, m, h) /\ m.lib[h] = Library!NoEntry
      BY <1>3, <3>1, <3>2, EnteredOk
    <3> QED BY <1>1, <3>3 DEF Library!NoEntry
  <2> QED BY <2>1, <2>2
<1>5. ASSUME NEW x \in Dirs \union {None}
      PROVE  Whole(x, h \in added', floor'[h], truth'[h])
  BY <1>3 DEF Whole
<1>6. CASE mem' = m /\ disk' = Put(disk, h, None)
  <2>1. Agrees(mem', h, None, h \in added', floor'[h], truth'[h])
    BY <1>3, <1>4, <1>6 DEF Agrees
  <2>2. Lib(mem', disk', added', floor', truth')
    BY <1>1, <1>3, <1>4, <1>5, <1>6, <2>1, Lands DEF LibInv
  <2> QED BY <1>1, <2>2 DEF LibInv
<1>7. CASE /\ mem' = Library!Down
           /\ \E x \in Library!del_via(disk[h]) \union {None} : disk' = Put(disk, h, x)
  <2>1. PICK x \in Dirs \union {None} : disk' = Put(disk, h, x)
    <3>1. \A x \in Library!del_via(disk[h]) : x \in Dirs
      <4> TAKE x \in Library!del_via(disk[h])
      <4>1. PICK i \in {disk[h].info, None}, w \in {disk[h].write, FALSE} :
              x = [info |-> i, write |-> w]
        BY DEF Library!del_via
      <4>2. i \in Nat \union {None} /\ w \in BOOLEAN
        BY <1>3 DEF Dirs
      <4> QED BY <4>1, <4>2 DEF Dirs
    <3> QED BY <1>7, <3>1
  <2>2. Lib(mem', disk', added', floor', truth')
    BY <1>3, <1>5, <1>7, <2>1, Dies DEF LibInv
  <2> QED BY <1>1, <2>2 DEF LibInv
<1> QED BY <1>2, <1>6, <1>7 DEF Library!Runs, Put

\* A file that is being saved holds what it held, or what is saved.
LEMMA SavingOk ==
    ASSUME NEW d \in Dirs, NEW v \in Nat, NEW x \in Library!save_via(d) \union {Library!saved(v)}
    PROVE  /\ x \in Dirs /\ x # None
           /\ x.info = d.info \/ x.info = v
<1>1. d \in [info : Nat \union {None}, write : BOOLEAN]
  BY DEF Dirs
<1>2. CASE x = d \/ x = [d EXCEPT !.write = TRUE]
  <2>1. x \in [info : Nat \union {None}, write : BOOLEAN] /\ x.info = d.info
    BY <1>1, <1>2
  <2>2. x # None
    BY <2>1, LibraryAssumption
  <2> QED BY <2>1, <2>2 DEF Dirs
<1>3. CASE x = Library!saved(v)
  BY <1>3, SavedOk
<1> QED BY <1>2, <1>3 DEF Library!save_via

LEMMA InfoStop ==
    ASSUME LibInv, NEW h \in Hashes, Library!torrent_stop(h)
    PROVE  LibInv'
<1> DEFINE v == Library!Total(h)
<1>1. /\ mem.up /\ mem.st[h] \in {"starting", "on"} /\ lost = FALSE
      /\ truth' = truth /\ added' = added
  BY DEF Library!torrent_stop, Library!Up, Library!torrent_active
<1>2. /\ MemOk(mem) /\ h \notin mem.del /\ mem.lib[h].known /\ mem.lib[h].ok
      /\ disk[h] # None /\ disk[h] \in Dirs
      /\ v \in Nat /\ v = SaidBy(mem, h) /\ v = mem.lib[h].tot + mem.sess[h]
      /\ added' \in SUBSET Hashes /\ floor \in [Hashes -> Nat] /\ truth' \in [Hashes -> Nat]
  BY <1>1, Known DEF KnownOk, Agrees, Memory, SaidBy, Library!Total
<1> HIDE DEF v
<1>3. h \in added => floor[h] <= v /\ v <= truth[h]
  BY <1>1, <1>2, Known DEF Agrees
<1>4. PICK m \in Library!Ghost(Library!update_info(mem, h, FALSE), h) :
        Library!Runs(h, m, Library!save_via(disk[h]), Library!saved(v))
  BY <1>2 DEF Library!torrent_stop, v
<1>5. lost' = lost /\ floor' = IF mem'.up THEN [floor EXCEPT ![h] = v] ELSE floor
  BY <1>2 DEF Library!torrent_stop, v
<1>6. /\ MemOk(m) /\ m.up /\ Others(mem, m, h) /\ h \notin m.del
      /\ m.lib[h].known /\ m.lib[h].ok /\ SaidBy(m, h) = v
  <2>1. PICK k : k = Library!update_info(mem, h, FALSE)
    OBVIOUS
  <2>2. /\ k \in Memory /\ ListOk(k) /\ k.up = mem.up /\ k.st = mem.st
        /\ KnownElse(k, h) /\ Others(mem, k, h)
        /\ k.lib[h].known /\ k.lib[h].ok
        /\ k.del = mem.del /\ k.lib[h].tot = mem.lib[h].tot + mem.sess[h]
    <3>1. MemOk(mem) /\ mem.st[h] # "none"
      BY <1>1, <1>2
    <3> QED BY <3>1, <2>1, UpdatedOk
  <2>3. m \in Library!Ghost(k, h)
    BY <1>4, <2>1
  <2>4. /\ MemOk(m) /\ m.up = k.up /\ Others(k, m, h)
        /\ \/ m.st[h] = "ghost" /\ m.lib[h] = k.lib[h] /\ (h \in m.del <=> h \in k.del)
           \/ /\ m.st[h] = "none" /\ h \notin m.del
              /\ m.lib[h] = IF h \in k.del THEN Library!NoEntry ELSE k.lib[h]
    BY <1>1, <2>2, <2>3, GhostOk
  <2>5. Others(mem, m, h)
    BY <2>2, <2>4, OthersTwice
  <2>6. m.lib[h] = k.lib[h] /\ m.st[h] \notin {"starting", "on"} /\ h \notin m.del
    BY <1>2, <2>2, <2>4
  <2>7. SaidBy(m, h) = v
    BY <1>2, <2>2, <2>6 DEF SaidBy
  <2> QED BY <1>1, <2>2, <2>4, <2>5, <2>6, <2>7
<1>7. CASE mem' = m /\ disk' = Put(disk, h, Library!saved(v))
  <2>1. /\ floor' \in [Hashes -> Nat] /\ floor'[h] = v
        /\ Elsewhere(h, added, floor, truth, added', floor', truth')
    BY <1>1, <1>2, <1>5, <1>6, <1>7 DEF Elsewhere
  <2>2. /\ Agrees(mem', h, Library!saved(v), h \in added', floor'[h], truth'[h])
        /\ Whole(Library!saved(v), h \in added', floor'[h], truth'[h])
        /\ Library!saved(v) \in Dirs \union {None}
    BY <1>1, <1>2, <1>3, <1>6, <1>7, <2>1, SavedOk DEF Agrees, Whole
  <2>3. Lib(mem', disk', added', floor', truth')
    BY <1>1, <1>2, <1>6, <1>7, <2>1, <2>2, Lands DEF LibInv
  <2> QED BY <1>1, <1>5, <2>3 DEF LibInv
<1>8. CASE /\ mem' = Library!Down
           /\ \E x \in Library!save_via(disk[h]) \union {Library!saved(v)} :
                disk' = Put(disk, h, x)
  <2>1. PICK x \in Library!save_via(disk[h]) \union {Library!saved(v)} :
          disk' = Put(disk, h, x)
    BY <1>8
  <2>2. x \in Dirs \union {None} /\ x # None /\ (x.info = disk[h].info \/ x.info = v)
    BY <1>2, <2>1, SavingOk
  <2>3. floor' = floor
    BY <1>5, <1>8, DownOk
  <2>4. Whole(x, h \in added', floor'[h], truth'[h])
    <3>1. Whole(disk[h], h \in added, floor[h], truth[h])
      BY <1>1, Known
    <3>2. v # None
      BY <1>2, SavedOk
    <3> QED BY <1>1, <1>3, <2>2, <2>3, <3>1, <3>2 DEF Whole
  <2>5. Elsewhere(h, added, floor, truth, added', floor', truth')
    BY <1>1, <2>3 DEF Elsewhere
  <2>6. Lib(mem', disk', added', floor', truth')
    BY <1>2, <1>8, <2>1, <2>2, <2>3, <2>4, <2>5, Dies DEF LibInv
  <2> QED BY <1>1, <1>5, <2>6 DEF LibInv
<1> QED BY <1>4, <1>7, <1>8 DEF Library!Runs, Put

\* A handler that changes one torrent in memory only.
LEMMA Turns ==
    ASSUME LibInv, mem.up, NEW h \in Hashes, NEW k, MemOk(k), k.up, Others(mem, k, h),
           k = mem', NEW hi \in [Hashes -> Nat], truth' = hi,
           Whole(disk[h], h \in added, floor[h], hi[h]),
           Agrees(k, h, disk[h], h \in added, floor[h], hi[h]),
           \A g \in Hashes \ {h} : hi[g] = truth[g],
           disk' = disk, added' = added, floor' = floor, lost' = lost
    PROVE  LibInv'
<1>1. disk' = Put(disk, h, disk[h]) /\ disk[h] \in Dirs \union {None}
  BY Known DEF Put
<1>2. Elsewhere(h, added, floor, truth, added, floor, hi)
  BY DEF Elsewhere
<1>3. /\ Lib(mem, disk, added, floor, truth)
      /\ added \in SUBSET Hashes /\ floor \in [Hashes -> Nat]
  BY Known DEF LibInv
<1>4. Lib(k, Put(disk, h, disk[h]), added, floor, hi)
  BY <1>1, <1>2, <1>3, Lands
<1> QED BY <1>1, <1>4 DEF LibInv

LEMMA InfoTransfer ==
    ASSUME LibInv, NEW h \in Hashes, Library!transfer(h)
    PROVE  LibInv'
<1>1. /\ mem.up /\ mem.st[h] = "on" /\ lost' = lost
      /\ mem' = [mem EXCEPT !.sess[h] = @ + 1] /\ truth' = [truth EXCEPT ![h] = @ + 1]
      /\ disk' = disk /\ floor' = floor /\ added' = added
  BY DEF Library!transfer, Library!Up
<1>2. /\ mem \in Memory /\ ListOk(mem) /\ h \notin mem.del
      /\ mem.sess \in [Hashes -> Nat] /\ truth \in [Hashes -> Nat]
  BY <1>1, Known DEF KnownOk, Memory
<1>3. PICK k : k = mem'
  OBVIOUS
<1>4. /\ k \in Memory /\ k.up = mem.up /\ k.due = mem.due /\ k.lib = mem.lib /\ k.st = mem.st
      /\ k.sess = [mem.sess EXCEPT ![h] = @ + 1]
      /\ k.del = mem.del /\ k.torrents = mem.torrents /\ k.savetp = mem.savetp
  <2>1. PICK s : s = [mem.sess EXCEPT ![h] = @ + 1]
    OBVIOUS
  <2>2. s \in [Hashes -> Nat]
    BY <1>2, <2>1
  <2>3. k = [mem EXCEPT !.sess = s]
    BY <1>1, <1>3, <2>1
  <2>4. /\ k \in Memory /\ k.up = mem.up /\ k.due = mem.due /\ k.lib = mem.lib /\ k.st = mem.st
        /\ k.sess = s
        /\ k.del = mem.del /\ k.torrents = mem.torrents /\ k.savetp = mem.savetp
    BY <1>2, <2>2, <2>3 DEF Memory
  <2> QED BY <2>1, <2>4
<1>5. k.sess[h] = mem.sess[h] + 1 /\ \A g \in Hashes \ {h} : k.sess[g] = mem.sess[g]
  BY <1>2, <1>4
<1>6. MemOk(k)
  <2>1. ListOk(k)
    BY <1>2, <1>4 DEF ListOk
  <2>2. \A g \in Hashes : KnownOk(k, g)
    <3> TAKE g \in Hashes
    <3>1. KnownOk(mem, g)
      BY <1>1, Known
    <3> QED BY <3>1, <1>1, <1>4, <1>5 DEF KnownOk
  <2> QED BY <1>4, <2>1, <2>2 DEF MemOk
<1>7. Others(mem, k, h)
  BY <1>4, <1>5 DEF Others, Same
<1>8. /\ truth' \in [Hashes -> Nat] /\ truth'[h] = truth[h] + 1
      /\ \A g \in Hashes \ {h} : truth'[g] = truth[g]
  BY <1>1, <1>2
<1>9. /\ truth[h] \in Nat /\ floor[h] \in Nat /\ mem.lib[h].tot \in Nat /\ mem.sess[h] \in Nat
      /\ disk[h] \in Dirs \union {None}
  BY <1>1, Known DEF Memory
<1>10. Whole(disk[h], h \in added, floor[h], truth'[h])
  <2>1. Whole(disk[h], h \in added, floor[h], truth[h])
    BY <1>1, Known
  <2>2. disk[h] # None => disk[h].info \in Nat \union {None}
    BY <1>9 DEF Dirs
  <2> QED BY <2>1, <2>2, <1>8, <1>9 DEF Whole
<1>11. Agrees(k, h, disk[h], h \in added, floor[h], truth'[h])
  <2>1. Agrees(mem, h, disk[h], h \in added, floor[h], truth[h])
    BY <1>1, Known
  <2>2. SaidBy(k, h) = SaidBy(mem, h) + 1 /\ SaidBy(mem, h) \in Nat
    BY <1>1, <1>4, <1>5, <1>9 DEF SaidBy
  <2> QED BY <2>1, <2>2, <1>4, <1>8, <1>9 DEF Agrees
<1>12. PICK hi : hi = truth'
  OBVIOUS
<1> QED BY <1>1, <1>3, <1>4, <1>6, <1>7, <1>8, <1>10, <1>11, <1>12, Turns

LEMMA InfoPass ==
    ASSUME LibInv, Library!pass
    PROVE  LibInv'
<1>1. /\ mem.up /\ lost' = lost /\ mem' = [mem EXCEPT !.due = TRUE]
      /\ disk' = disk /\ floor' = floor /\ added' = added /\ truth' = truth
  BY DEF Library!pass, Library!Up
<1>2. MemOk(mem) /\ mem \in Memory
  BY DEF LibInv, Lib, MemOk
<1>3. PICK k : k = mem'
  OBVIOUS
<1>4. /\ k \in Memory /\ k.up = mem.up /\ k.lib = mem.lib /\ k.st = mem.st
      /\ k.sess = mem.sess
      /\ k.del = mem.del /\ k.torrents = mem.torrents /\ k.savetp = mem.savetp
  BY <1>1, <1>2, <1>3 DEF Memory
<1>5. MemOk(k)
  BY <1>2, <1>4 DEF MemOk, ListOk, KnownOk
<1>6. \A h \in Hashes : \A x, in, lo, hi : Agrees(mem, h, x, in, lo, hi) => Agrees(k, h, x, in, lo, hi)
  BY <1>4 DEF Agrees, SaidBy
<1>7. Lib(k, disk, added, floor, truth)
  BY <1>1, <1>4, <1>5, <1>6 DEF LibInv, Lib
<1> QED BY <1>1, <1>3, <1>7 DEF LibInv

LEMMA InfoCrash ==
    ASSUME LibInv, Library!crash
    PROVE  LibInv'
<1>1. /\ mem.up /\ lost' = lost /\ mem' = Library!Down
      /\ disk' = disk /\ floor' = floor /\ added' = added /\ truth' = truth
  BY DEF Library!crash, Library!Up
<1>2. Lib(mem', disk, added, floor, truth)
  BY <1>1, DownOk DEF LibInv, Lib
<1> QED BY <1>1, <1>2 DEF LibInv

LEMMA InfoBoots ==
    ASSUME LibInv, Library!btpd_init
    PROVE  LibInv'
<1>1. /\ ~mem.up /\ lost' = lost
      /\ mem' = [Library!Down EXCEPT !.up = TRUE,
                                     !.lib = [h \in Hashes |-> Library!load_info(disk[h])]]
      /\ disk' = disk /\ floor' = floor /\ added' = added /\ truth' = truth
  BY DEF Library!btpd_init
<1>2. PICK k : k = mem'
  OBVIOUS
<1>3. /\ k.up = TRUE /\ k.del = {} /\ k.torrents = <<>> /\ k.savetp = None /\ k.due = FALSE
      /\ k.lib = [h \in Hashes |-> Library!load_info(disk[h])]
      /\ k.st = [h \in Hashes |-> "none"] /\ k.sess = [h \in Hashes |-> 0]
      /\ k = [up |-> k.up, lib |-> k.lib, st |-> k.st, del |-> k.del, sess |-> k.sess,
              torrents |-> k.torrents, savetp |-> k.savetp, due |-> k.due]
  BY <1>1, <1>2 DEF Library!Down
<1>4. ASSUME NEW h \in Hashes
      PROVE  /\ Library!load_info(disk[h]) \in [known : BOOLEAN, ok : BOOLEAN, tot : Nat]
             /\ Agrees(k, h, disk[h], h \in added, floor[h], truth[h])
  <2>1. /\ disk[h] \in Dirs \union {None} /\ floor[h] \in Nat /\ truth[h] \in Nat
        /\ Whole(disk[h], h \in added, floor[h], truth[h])
    BY DEF LibInv, Lib
  <2>2. disk[h] # None => disk[h].info \in Nat \union {None}
    BY <2>1 DEF Dirs
  <2>3. PICK e : e = Library!load_info(disk[h])
    OBVIOUS
  <2>4. k.lib[h] = e /\ k.st[h] = "none" /\ h \notin k.del
    BY <1>3, <2>3
  <2>5. CASE disk[h] = None
    <3>1. e = [known |-> FALSE, ok |-> FALSE, tot |-> 0] /\ h \notin added
      BY <2>1, <2>3, <2>5 DEF Library!load_info, Library!NoEntry, Whole
    <3>2. e.known = FALSE /\ e \in [known : BOOLEAN, ok : BOOLEAN, tot : Nat]
      BY <3>1
    <3> QED BY <2>3, <2>4, <2>5, <3>1, <3>2 DEF Agrees
  <2>6. CASE disk[h] # None /\ disk[h].info \in {None, Library!Cut}
    <3>1. e = [known |-> TRUE, ok |-> FALSE, tot |-> 0]
      BY <2>3, <2>6 DEF Library!load_info, Library!NoEntry
    <3>2. h \notin added
      <4>1. disk[h].info = None
        BY <2>2, <2>6 DEF Library!Cut
      <4> QED BY <2>1, <4>1 DEF Whole
    <3> QED BY <2>3, <2>4, <2>6, <3>1, <3>2 DEF Agrees
  <2>7. CASE disk[h] # None /\ disk[h].info \notin {None, Library!Cut}
    <3>1. e = [known |-> TRUE, ok |-> TRUE, tot |-> disk[h].info] /\ disk[h].info \in Nat
      BY <2>2, <2>3, <2>7 DEF Library!load_info
    <3>2. SaidBy(k, h) = disk[h].info
      BY <2>4, <3>1 DEF SaidBy
    <3> QED BY <2>1, <2>3, <2>4, <2>7, <3>1, <3>2 DEF Agrees, Whole
  <2> QED BY <2>5, <2>6, <2>7
<1>5. k \in Memory
  <2>1. k.lib \in [Hashes -> [known : BOOLEAN, ok : BOOLEAN, tot : Nat]]
    BY <1>3, <1>4
  <2>2. k.st \in [Hashes -> Phases] /\ k.sess \in [Hashes -> Nat] /\ k.torrents \in Seq(Hashes)
    BY <1>3 DEF Phases
  <2>3. k.up \in BOOLEAN /\ k.due \in BOOLEAN /\ k.del \in SUBSET Hashes
        /\ k.savetp \in Hashes \union {None}
    BY <1>3
  <2>4. k = [up |-> k.up, lib |-> k.lib, st |-> k.st, del |-> k.del, sess |-> k.sess,
             torrents |-> k.torrents, savetp |-> k.savetp, due |-> k.due]
    BY <1>3
  <2> QED BY <2>1, <2>2, <2>3, <2>4 DEF Memory
<1>6. ListOk(k) /\ \A h \in Hashes : KnownOk(k, h)
  <2>1. Range(<<>>) = {}
    BY DEF Range
  <2> QED BY <1>3, <2>1 DEF ListOk, Distinct, KnownOk
<1>7. Lib(k, disk, added, floor, truth)
  BY <1>3, <1>4, <1>5, <1>6 DEF LibInv, Lib, MemOk
<1> QED BY <1>1, <1>2, <1>7 DEF LibInv

Listed(m, h) == [m EXCEPT !.torrents = Append(@, h), !.st[h] = "starting"]

\* torrent_start has made k of m.
Started(m, h, k) ==
    IF Len(Listed(m, h).torrents) > 1 THEN k = Listed(m, h)
    ELSE k = [Listed(m, h) EXCEPT !.savetp = h, !.due = FALSE]

\* A torrent is started: it is the last of the list, and its turn is now if there
\* is no other.
LEMMA ListedOk ==
    ASSUME NEW m, MemOk(m), NEW h \in Hashes, m.st[h] = "none", h \notin m.del,
           m.lib[h].known, m.lib[h].ok, NEW k, Started(m, h, k)
    PROVE  /\ MemOk(k) /\ k.up = m.up /\ Others(m, k, h)
           /\ k.lib = m.lib /\ k.st[h] = "starting" /\ k.del = m.del /\ k.sess = m.sess
<1>1. /\ m \in Memory /\ ListOk(m) /\ m.torrents \in Seq(Hashes)
      /\ m.st \in [Hashes -> Phases] /\ Distinct(m.torrents)
  BY DEF MemOk, ListOk, Memory
<1>0. PICK s : s = Listed(m, h)
  OBVIOUS
<1>2. PICK tp : tp = Append(m.torrents, h)
  OBVIOUS
<1>3. PICK st : st = [m.st EXCEPT ![h] = "starting"]
  OBVIOUS
<1>4. /\ tp \in Seq(Hashes) /\ tp # <<>> /\ Len(tp) = Len(m.torrents) + 1
      /\ Distinct(tp) /\ Range(tp) = Range(m.torrents) \union {h}
  <2>1. h \notin Range(m.torrents)
    BY <1>1 DEF ListOk
  <2>2. Len(m.torrents) \in Nat /\ Range(m.torrents) = {m.torrents[i] : i \in 1..Len(m.torrents)}
    BY <1>1, RangeSeq
  <2>3. /\ tp \in Seq(Hashes) /\ Len(tp) = Len(m.torrents) + 1
        /\ \A i \in 1..Len(tp) : tp[i] = IF i <= Len(m.torrents) THEN m.torrents[i] ELSE h
    BY <1>1, <1>2
  <2>4. Range(tp) = {tp[i] : i \in 1..Len(tp)}
    BY <2>3, RangeSeq
  <2>5. Range(tp) = Range(m.torrents) \union {h}
    BY <2>2, <2>3, <2>4
  <2>6. Distinct(tp)
    BY <1>1, <2>1, <2>2, <2>3 DEF Distinct
  <2>7. tp # <<>>
    BY <2>2, <2>3
  <2> QED BY <2>3, <2>5, <2>6, <2>7
<1>5. st \in [Hashes -> Phases] /\ st[h] = "starting" /\ \A g \in Hashes \ {h} : st[g] = m.st[g]
  BY <1>1, <1>3 DEF Phases
<1>6. /\ s \in Memory /\ s.up = m.up /\ s.due = m.due /\ s.lib = m.lib /\ s.st = st
      /\ s.sess = m.sess /\ s.del = m.del /\ s.torrents = tp /\ s.savetp = m.savetp
  <2>1. s = [m EXCEPT !.torrents = tp, !.st = st]
    BY <1>0, <1>2, <1>3 DEF Listed
  <2> QED BY <1>1, <1>4, <1>5, <2>1 DEF Memory
<1>7. /\ k \in Memory /\ k.up = m.up /\ k.lib = m.lib /\ k.st = st
      /\ k.sess = m.sess /\ k.del = m.del /\ k.torrents = tp
      /\ k.savetp = IF Len(tp) > 1 THEN m.savetp ELSE h
  <2>1. IF Len(tp) > 1 THEN k = s ELSE k = [s EXCEPT !.savetp = h, !.due = FALSE]
    BY <1>0, <1>6 DEF Started
  <2>2. CASE Len(tp) > 1
    BY <1>6, <2>1, <2>2
  <2>3. CASE ~(Len(tp) > 1)
    BY <1>6, <2>1, <2>3 DEF Memory
  <2> QED BY <2>2, <2>3
<1>8. ListOk(k)
  <2>1. \A g \in Hashes : g \in Range(tp) <=> st[g] # "none"
    BY <1>1, <1>4, <1>5 DEF ListOk
  <2>2. k.savetp \in Range(tp)
    <3>1. CASE Len(tp) > 1
      <4>1. m.torrents # <<>>
        BY <1>4, <3>1
      <4> QED BY <1>1, <1>4, <1>7, <3>1, <4>1 DEF ListOk
    <3>2. CASE ~(Len(tp) > 1)
      BY <1>4, <1>7, <3>2
    <3> QED BY <3>1, <3>2
  <2> QED BY <1>4, <1>7, <2>1, <2>2 DEF ListOk
<1>9. \A g \in Hashes : KnownOk(k, g)
  <2> TAKE g \in Hashes
  <2>1. KnownOk(m, g)
    BY DEF MemOk
  <2> QED BY <1>5, <1>7, <2>1 DEF KnownOk
<1>10. Others(m, k, h)
  BY <1>5, <1>7 DEF Others, Same
<1> QED BY <1>5, <1>7, <1>8, <1>9, <1>10 DEF MemOk

LEMMA InfoStart ==
    ASSUME LibInv, NEW h \in Hashes, Library!cmd_start(h)
    PROVE  LibInv'
<1>1. /\ mem.up /\ mem.lib[h].known /\ mem.st[h] \notin {"starting", "on"} /\ h \notin mem.del
      /\ mem' \in Library!torrent_start(mem, h)
      /\ disk' = disk /\ truth' = truth /\ floor' = floor /\ added' = added /\ lost' = lost
  BY DEF Library!cmd_start, Library!Up, Library!torrent_active
<1>2. PICK k : k = IF mem.st[h] = "ghost" THEN Library!torrent_kill(mem, h) ELSE mem
  OBVIOUS
<1>3. PICK n : n = mem'
  OBVIOUS
<1>4. /\ MemOk(mem) /\ mem.st[h] \in Phases /\ mem.st \in [Hashes -> Phases]
      /\ DOMAIN mem.lib = Hashes /\ DOMAIN mem.sess = Hashes /\ KnownOk(mem, h)
  BY <1>1, Known DEF Memory
<1>5. /\ MemOk(k) /\ k.up = mem.up /\ Others(mem, k, h)
      /\ k.st[h] = "none" /\ k.lib[h] = mem.lib[h] /\ h \notin k.del
  <2>1. CASE mem.st[h] = "ghost"
    <3>1. k = Library!torrent_kill(mem, h)
      BY <1>2, <2>1
    <3>2. Killed(mem, h, k)
      BY <1>4, <2>1, <3>1, ReleaseOk
    <3> QED BY <1>1, <1>4, <3>2 DEF Killed, Others, Same
  <2>2. CASE mem.st[h] # "ghost"
    <3>1. k = mem /\ mem.st[h] = "none"
      BY <1>1, <1>2, <1>4, <2>2 DEF Phases
    <3> QED BY <1>1, <1>4, <3>1 DEF Others, Same
  <2> QED BY <2>1, <2>2
<1>6. /\ MemOk(n) /\ n.up /\ Others(mem, n, h) /\ h \notin n.del
      /\ n.lib[h] = mem.lib[h] /\ SaidBy(n, h) = SaidBy(mem, h)
  <2>1. k.sess[h] = 0 /\ mem.lib[h].tot \in Nat
    <3>1. KnownOk(k, h) /\ mem \in Memory
      BY <1>4, <1>5 DEF MemOk
    <3> QED BY <3>1, <1>5 DEF KnownOk, Memory
  <2>2. SaidBy(k, h) = mem.lib[h].tot /\ SaidBy(mem, h) = mem.lib[h].tot
    BY <1>1, <1>5, <2>1 DEF SaidBy
  <2>4. n = k \/ (k.lib[h].ok /\ Started(k, h, n))
    BY <1>1, <1>2, <1>3 DEF Library!torrent_start, Listed, Started
  <2>5. CASE n = k
    BY <1>1, <1>5, <2>2, <2>5
  <2>6. CASE k.lib[h].ok /\ Started(k, h, n)
    <3>1. /\ MemOk(n) /\ n.up = k.up /\ Others(k, n, h)
          /\ n.lib = k.lib /\ n.st[h] = "starting" /\ n.del = k.del /\ n.sess = k.sess
      <4>1. k.lib[h].known
        BY <1>1, <1>5
      <4> QED BY <1>5, <2>6, <4>1, ListedOk
    <3>2. SaidBy(n, h) = SaidBy(mem, h)
      BY <3>1, <1>5, <2>1, <2>2 DEF SaidBy
    <3> QED BY <1>1, <1>5, <3>1, <3>2, OthersTwice
  <2> QED BY <2>4, <2>5, <2>6
<1>7. Agrees(n, h, disk[h], h \in added, floor[h], truth[h])
  <2>1. Agrees(mem, h, disk[h], h \in added, floor[h], truth[h])
    BY <1>1, Known
  <2> QED BY <1>1, <1>6, <2>1 DEF Agrees
<1>8. /\ Whole(disk[h], h \in added, floor[h], truth[h]) /\ truth \in [Hashes -> Nat]
  BY <1>1, Known
<1>9. PICK hi : hi = truth
  OBVIOUS
<1> QED BY <1>1, <1>3, <1>6, <1>7, <1>8, <1>9, Turns

\* After torrent_on_tick of all torrents the library still agrees with the disk.
LEMMA PassingOk ==
    ASSUME NEW m, NEW h, Passed(m, h), NEW x, NEW in, NEW lo, NEW hi,
           Agrees(mem, h, x, in, lo, hi), Whole(x, in, lo, hi)
    PROVE  Agrees(m, h, x, in, lo, hi)
<1>1. CASE /\ m.lib[h] = mem.lib[h] /\ m.sess[h] = mem.sess[h]
           /\ h \in m.del <=> h \in mem.del
           /\ m.st[h] = mem.st[h] \/ (mem.st[h] = "starting" /\ m.st[h] = "on")
  <2>1. SaidBy(m, h) = SaidBy(mem, h)
    BY <1>1 DEF SaidBy
  <2> QED BY <1>1, <2>1 DEF Agrees
<1>2. CASE /\ mem.st[h] = "ghost" /\ m.st[h] = "none" /\ m.sess[h] = 0 /\ h \notin m.del
           /\ m.lib[h] = IF h \in mem.del THEN Library!NoEntry ELSE mem.lib[h]
  <2>1. CASE h \in mem.del
    BY <1>2, <2>1 DEF Agrees, Whole, Library!NoEntry
  <2>2. CASE h \notin mem.del
    <3>1. SaidBy(m, h) = SaidBy(mem, h)
      BY <1>2, <2>2 DEF SaidBy
    <3> QED BY <1>2, <2>2, <3>1 DEF Agrees
  <2> QED BY <2>1, <2>2
<1> QED BY <1>1, <1>2 DEF Passed

\* The torrent h has been saved, and the turn passes.
Saved(m, h) == [Library!update_info(m, h, TRUE) EXCEPT
                  !.savetp = Library!After(m.torrents, h, m.torrents), !.due = FALSE]

LEMMA TurnOk ==
    ASSUME NEW m, MemOk(m), NEW h \in Hashes, h = m.savetp, NEW k, k = Saved(m, h)
    PROVE  /\ MemOk(k) /\ k.up = m.up /\ Others(m, k, h)
           /\ k.lib = m.lib /\ k.st = m.st /\ k.sess = m.sess /\ k.del = m.del
<1>1. m \in Memory /\ ListOk(m) /\ m.torrents \in Seq(Hashes) /\ Distinct(m.torrents)
  BY DEF MemOk, Memory, ListOk
<1>2. h \in Range(m.torrents)
  <2>1. m.savetp # None
    BY LibraryAssumption
  <2> QED BY <1>1, <2>1 DEF ListOk
<1>3. PICK x : x = Library!After(m.torrents, h, m.torrents)
  OBVIOUS
<1>4. x \in Range(m.torrents) /\ x \in Hashes
  <2>1. Library!After(m.torrents, h, m.torrents) \in Range(m.torrents)
    BY <1>1, <1>2, AfterOk
  <2>2. Range(m.torrents) \subseteq Hashes
    BY <1>1, RangeSeq
  <2> QED BY <1>3, <2>1, <2>2
<1>5. k = [m EXCEPT !.savetp = x, !.due = FALSE]
  BY <1>3 DEF Saved, Library!update_info
<1>6. /\ k \in Memory /\ k.up = m.up /\ k.lib = m.lib /\ k.st = m.st
      /\ k.sess = m.sess /\ k.del = m.del /\ k.torrents = m.torrents /\ k.savetp = x
  BY <1>1, <1>4, <1>5 DEF Memory
<1>7. ListOk(k)
  <2>1. m.torrents # <<>>
    BY <1>4 DEF Range
  <2> QED BY <1>1, <1>4, <1>6, <2>1 DEF ListOk
<1>8. \A g \in Hashes : KnownOk(k, g)
  BY <1>6 DEF MemOk, KnownOk
<1> QED BY <1>6, <1>7, <1>8 DEF MemOk, Others, Same

LEMMA InfoBeats ==
    ASSUME LibInv, Library!heartbeat_cb
    PROVE  LibInv'
<1>1. /\ mem.up /\ lost = FALSE /\ truth' = truth /\ added' = added
  BY DEF Library!heartbeat_cb, Library!Up
<1>2. PICK ready \in SUBSET {h \in Hashes : mem.st[h] = "starting"},
           gone \in SUBSET {h \in Hashes : mem.st[h] = "ghost"} :
        LET m == Library!ticked(ready, gone)
            h == m.savetp
            v == Library!Total(h) IN
        IF m.savetp # None /\ ~Library!Contains(m.torrents, m.savetp)
        THEN lost' = TRUE /\ UNCHANGED <<mem, disk, floor>>
        ELSE IF ~Library!Saves(m)
        THEN mem' = m /\ UNCHANGED <<disk, floor, lost>>
        ELSE IF disk[h] = None
        THEN lost' = TRUE /\ UNCHANGED <<mem, disk, floor>>
        ELSE /\ Library!Runs(h, Saved(m, h), Library!save_via(disk[h]), Library!saved(v))
             /\ floor' = IF mem'.up THEN [floor EXCEPT ![h] = v] ELSE floor
             /\ UNCHANGED lost
  BY DEF Library!heartbeat_cb, Saved
<1>3. PICK m : m = Library!ticked(ready, gone)
  OBVIOUS
<1>4. MemOk(mem)
  BY DEF LibInv, Lib
<1>5. MemOk(m) /\ m.up /\ \A g \in Hashes : Passed(m, g)
  BY <1>1, <1>3, <1>4, TickedOk
<1>6. Lib(m, disk, added, floor, truth)
  <2>1. \A g \in Hashes : Agrees(m, g, disk[g], g \in added, floor[g], truth[g])
    <3> TAKE g \in Hashes
    <3>1. /\ Agrees(mem, g, disk[g], g \in added, floor[g], truth[g])
          /\ Whole(disk[g], g \in added, floor[g], truth[g])
      BY <1>1, Known
    <3>2. Passed(m, g)
      BY <1>5
    <3> QED BY <3>1, <3>2, PassingOk
  <2> QED BY <1>5, <2>1 DEF LibInv, Lib
<1>7. m.savetp # None => m.savetp \in Hashes /\ Library!Contains(m.torrents, m.savetp)
  <2>1. m \in Memory /\ ListOk(m) /\ m.torrents \in Seq(Hashes)
    BY <1>5 DEF MemOk, Memory
  <2>2. m.savetp # None => m.savetp \in Hashes /\ m.savetp \in Range(m.torrents)
    BY <2>1 DEF ListOk, Memory
  <2>3. Range(m.torrents) = {m.torrents[i] : i \in 1..Len(m.torrents)}
    BY <2>1, RangeSeq
  <2> QED BY <2>2, <2>3 DEF Library!Contains
<1>8. CASE ~Library!Saves(m)
  <2>1. mem' = m /\ disk' = disk /\ floor' = floor /\ lost' = lost
    BY <1>2, <1>3, <1>7, <1>8
  <2>2. Lib(mem', disk', added', floor', truth')
    BY <1>1, <1>6, <2>1
  <2> QED BY <1>1, <2>1, <2>2 DEF LibInv
<1>9. CASE Library!Saves(m)
  <2>1. PICK h : h = m.savetp
    OBVIOUS
  <2>2. h \in Hashes /\ m.savetp # None /\ m.st[h] = "on"
    BY <1>7, <1>9, <2>1 DEF Library!Saves
  <2>3. PICK v : v = Library!Total(h)
    OBVIOUS
  <2>4. /\ m \in Memory /\ h \notin m.del /\ m.lib[h].known /\ m.lib[h].ok
        /\ Agrees(m, h, disk[h], h \in added, floor[h], truth[h])
        /\ Whole(disk[h], h \in added, floor[h], truth[h])
        /\ disk[h] \in Dirs \union {None} /\ floor \in [Hashes -> Nat] /\ truth \in [Hashes -> Nat]
    <3>1. KnownOk(m, h) /\ m \in Memory
      BY <1>5, <2>2 DEF MemOk
    <3> QED BY <1>5, <1>6, <2>2, <3>1 DEF Lib, KnownOk
  <2>5. disk[h] # None /\ disk[h] \in Dirs
    BY <2>4 DEF Agrees
  <2>6. v \in Nat /\ v = SaidBy(m, h)
    <3>1. m.lib[h] = mem.lib[h] /\ m.sess[h] = mem.sess[h]
      BY <1>5, <2>2 DEF Passed
    <3>2. m.lib[h].tot \in Nat /\ m.sess[h] \in Nat
      BY <2>2, <2>4 DEF Memory
    <3> QED BY <2>2, <2>3, <3>1, <3>2 DEF SaidBy, Library!Total
  <2>7. h \in added => floor[h] <= v /\ v <= truth[h]
    BY <2>4, <2>6 DEF Agrees
  <2>8. /\ Library!Runs(h, Saved(m, h), Library!save_via(disk[h]), Library!saved(v))
        /\ floor' = IF mem'.up THEN [floor EXCEPT ![h] = v] ELSE floor
        /\ lost' = lost
    BY <1>2, <1>3, <1>7, <1>9, <2>1, <2>3, <2>5
  <2>9. PICK k : k = Saved(m, h)
    OBVIOUS
  <2>10. /\ MemOk(k) /\ k.up = m.up /\ Others(m, k, h)
         /\ k.lib = m.lib /\ k.st = m.st /\ k.sess = m.sess /\ k.del = m.del
    <3>1. MemOk(m) /\ h \in Hashes
      BY <1>5, <2>2
    <3> QED BY <3>1, <2>1, <2>9, TurnOk
  <2>11. CASE mem' = k /\ disk' = Put(disk, h, Library!saved(v))
    <3>1. /\ floor' \in [Hashes -> Nat] /\ floor'[h] = v
          /\ Elsewhere(h, added, floor, truth, added', floor', truth')
      BY <1>1, <1>5, <2>2, <2>4, <2>6, <2>8, <2>10, <2>11 DEF Elsewhere
    <3>2. /\ Agrees(k, h, Library!saved(v), h \in added', floor'[h], truth'[h])
          /\ Whole(Library!saved(v), h \in added', floor'[h], truth'[h])
          /\ Library!saved(v) \in Dirs \union {None}
      <4>1. SaidBy(k, h) = v
        BY <2>6, <2>10 DEF SaidBy
      <4> QED BY <1>1, <2>4, <2>6, <2>7, <2>10, <3>1, <4>1, SavedOk DEF Agrees, Whole
    <3>3. added' \in SUBSET Hashes /\ truth' \in [Hashes -> Nat]
      BY <1>1, <1>6 DEF Lib
    <3>4. Lib(mem', disk', added', floor', truth')
      BY <1>5, <1>6, <2>2, <2>10, <2>11, <3>1, <3>2, <3>3, Lands
    <3> QED BY <1>1, <2>8, <3>4 DEF LibInv
  <2>12. CASE /\ mem' = Library!Down
              /\ \E x \in Library!save_via(disk[h]) \union {Library!saved(v)} :
                   disk' = Put(disk, h, x)
    <3>1. PICK x \in Library!save_via(disk[h]) \union {Library!saved(v)} :
            disk' = Put(disk, h, x)
      BY <2>12
    <3>2. x \in Dirs \union {None} /\ x # None /\ (x.info = disk[h].info \/ x.info = v)
      BY <2>5, <2>6, <3>1, SavingOk
    <3>3. floor' = floor
      BY <2>8, <2>12, DownOk
    <3>4. Whole(x, h \in added', floor'[h], truth'[h])
      <4>1. v # None
        BY <2>6, SavedOk
      <4> QED BY <1>1, <2>4, <2>7, <3>2, <3>3, <4>1 DEF Whole
    <3>5. /\ Elsewhere(h, added, floor, truth, added', floor', truth')
          /\ added' \in SUBSET Hashes /\ floor' \in [Hashes -> Nat] /\ truth' \in [Hashes -> Nat]
      BY <1>1, <1>6, <2>4, <3>3 DEF Elsewhere, Lib
    <3>6. Lib(mem', disk', added', floor', truth')
      BY <1>6, <2>2, <2>12, <3>1, <3>2, <3>4, <3>5, Dies
    <3> QED BY <1>1, <2>8, <3>6 DEF LibInv
  <2> QED BY <2>8, <2>9, <2>11, <2>12 DEF Library!Runs, Put
<1> QED BY <1>8, <1>9

LEMMA InfoStarts ==
    ASSUME Library!Init
    PROVE  LibInv
<1>1. /\ mem = [Library!Down EXCEPT !.up = TRUE] /\ disk = [h \in Hashes |-> None]
      /\ truth = [h \in Hashes |-> 0] /\ floor = truth /\ added = {} /\ lost = FALSE
  BY DEF Library!Init
<1>2. /\ mem.up = TRUE /\ mem.del = {} /\ mem.torrents = <<>> /\ mem.savetp = None
      /\ mem.lib = [h \in Hashes |-> Library!NoEntry]
      /\ mem.st = [h \in Hashes |-> "none"] /\ mem.sess = [h \in Hashes |-> 0]
  BY <1>1 DEF Library!Down
<1>3. mem \in Memory
  <2>1. mem = [up |-> TRUE, lib |-> [h \in Hashes |-> Library!NoEntry],
               st |-> [h \in Hashes |-> "none"], del |-> {}, sess |-> [h \in Hashes |-> 0],
               torrents |-> <<>>, savetp |-> None, due |-> FALSE]
    BY <1>1 DEF Library!Down
  <2> QED BY <2>1 DEF Memory, Phases, Library!NoEntry
<1>4. ListOk(mem) /\ \A h \in Hashes : KnownOk(mem, h)
  <2>1. Range(<<>>) = {}
    BY DEF Range
  <2> QED BY <1>2, <2>1 DEF ListOk, Distinct, KnownOk
<1>5. \A h \in Hashes : Agrees(mem, h, disk[h], h \in added, floor[h], truth[h])
  BY <1>1, <1>2 DEF Agrees, Library!NoEntry
<1>6. \A h \in Hashes : Whole(disk[h], h \in added, floor[h], truth[h])
  BY <1>1 DEF Whole
<1>7. Lib(mem, disk, added, floor, truth)
  BY <1>1, <1>2, <1>3, <1>4, <1>5, <1>6 DEF Lib, MemOk
<1> QED BY <1>1, <1>7 DEF LibInv

LEMMA InfoSteps ==
    ASSUME LibInv, Library!Next
    PROVE  LibInv'
<1>1. ASSUME NEW h \in Hashes,
             \/ Library!cmd_add(h) \/ Library!cmd_del(h) \/ Library!cmd_start(h)
             \/ Library!torrent_stop(h) \/ Library!transfer(h)
      PROVE  LibInv'
  BY <1>1, InfoAdd, InfoDel, InfoStart, InfoStop, InfoTransfer
<1> QED BY <1>1, InfoPass, InfoBeats, InfoCrash, InfoBoots DEF Library!Next

LEMMA InfoFollows ==
    ASSUME LibInv
    PROVE  InfoSurvives
<1>1. /\ MemOk(mem) /\ mem \in Memory /\ ListOk(mem) /\ lost = FALSE
      /\ mem.torrents \in Seq(Hashes)
      /\ truth \in [Hashes -> Nat] /\ floor \in [Hashes -> Nat] /\ added \in SUBSET Hashes
  BY DEF LibInv, Lib, MemOk, Memory
<1>2. Library!TypeOK
  BY <1>1 DEF Library!TypeOK, Memory, Phases
<1>3. Range(mem.torrents) = {mem.torrents[i] : i \in 1..Len(mem.torrents)}
      /\ Range(mem.torrents) \subseteq Hashes
  BY <1>1, RangeSeq
<1>4. mem.savetp = None <=> mem.torrents = <<>>
  BY <1>1, <1>3, LibraryAssumption DEF ListOk
<1>5. mem.savetp # None => Library!Contains(mem.torrents, mem.savetp)
  BY <1>1, <1>3 DEF ListOk, Library!Contains
<1>6. ASSUME mem.up, NEW h \in added
      PROVE  /\ mem.lib[h].known /\ mem.lib[h].ok
             /\ floor[h] <= Library!Said(h) /\ Library!Said(h) <= truth[h]
  <2>1. h \in Hashes
    BY <1>1
  <2>2. Agrees(mem, h, disk[h], h \in added, floor[h], truth[h])
    BY <1>6, <2>1, Known
  <2> QED BY <1>6, <2>2 DEF Agrees, SaidBy, Library!Said, Library!torrent_active
<1> QED BY <1>1, <1>2, <1>4, <1>5, <1>6 DEF InfoSurvives, Library!InfoSurvives

\* A torrent that was added is known by name after every crash, its totals are never
\* less than what a call that returned has saved and never more than what was
\* transferred, and the turn to be saved is that of a torrent of the list: whatever
\* handler dies at whatever point of its work on the files (btpd/tlib.c).
THEOREM InfoHolds == MCSpec => []InfoSurvives
<1>1. MCInit => LibInv
  BY InfoStarts DEF MCInit
<1>2. LibInv /\ [MCNext]_<<half, vars, infovars>> => LibInv'
  <2> SUFFICES ASSUME LibInv, [MCNext]_<<half, vars, infovars>> PROVE LibInv'
    OBVIOUS
  <2>1. CASE Library!Next
    BY <2>1, InfoSteps
  <2>2. CASE UNCHANGED infovars
    BY <2>2 DEF LibInv, infovars
  <2> QED BY <2>1, <2>2 DEF MCNext
<1>3. LibInv => InfoSurvives
  BY InfoFollows
<1> QED BY <1>1, <1>2, <1>3, PTL DEF MCSpec

=============================================================================
