# TLA+ models of btpd

btpd is a BitTorrent client that runs as a daemon.  One process serves all
torrents from a single-threaded event loop; a second thread does nothing but
call `getaddrinfo`.  Assertions are compiled in (no build file sets `NDEBUG`),
so a failing `assert()` ends the program, and the models treat it that way.

This directory models the parts of btpd that decide something, checks them with
TLC on small instances, and proves most of the safety properties with TLAPS for
instances of any size.  `PROJECT.json` lists the components, the runs, the source
lines behind every definition, the mutants, the hazards and the findings.

- `tlc -workers 2 -config X.cfg MCY` repeats the run of `X.cfg` on `MCY.tla`;
- `tlapm XProofs.tla` checks the proofs about `X.tla` (one to three minutes each, more for
  DownloadProofs and ConnectionsProofs).

Contents: [inventory](#1-inventory) - [modules](#2-modules-and-how-they-correspond-to-the-code) -
[runs](#3-runs) - [fairness](#4-fairness) - [proofs](#5-proofs) -
[findings](#6-findings) - [what is left out](#7-what-is-left-out) - [plan](#8-plan).

## 1. Inventory

| component | code | state | operations | hard behaviour | what makes it correct |
|---|---|---|---|---|---|
| download strategy | `btpd/download.c`, `download_subr.c`, parts of `peer.c` | pieces being downloaded with their requested blocks and logs, requests per peer, wanted counts, end-game flag | a peer connects, leaves, chokes, unchokes, announces, sends a block; a piece turns out good or bad | a handler is a tree of calls that fan out over all peers and re-enter each other; state is read in the middle of it | requests and tables agree; interest is told; end game starts when it should; nobody able to help is idle; only senders of wrong data are banned |
| messages to a peer | `peer.c`, `net.c`, `net_buf.c` | output queue, choke and refuse flags, who waits for the socket and who for bandwidth | queue, take back and write messages; one-second bandwidth tick | partial writes; messages taken back while half sent; a limit that comes and goes | the queue drains; the peer's view of choking is right in the end; a block keeps its header |
| messages from a peer | `net.c` | parser state per connection, kept bytes, queue of peers that may not be read | read, cut into fields, dispatch; bandwidth tick | fields cut by the network and by the limit; peers killed by their own messages | messages are dispatched once, in order, from their own bytes; everything is read in the end |
| connections | `net.c`, `peer.c` | connections, their torrents and ids, reference-counted meta peers, clocks | accept, connect, shake hands, ban, time out, start and stop a torrent | a meta peer outlives its connection; a torrent stops while others shake hands; peers vanish silently | tables and counts agree; nothing refers to what is freed; a peer that is gone is dropped |
| upload strategy | `upload.c` | queue of all peers, number of slots | peers come, go, want; ten-second timer | slots recomputed on some events only | slot limit; no idle slot; everyone is served |
| content | `content.c`, `misc/stream.c`, resume file of `tlib.c` | files, resume data, counters, queue of start-up tests | start, test a piece per turn, store, read, stop, fail | crash between any two steps; files changed by others; each file operation failing | what btpd believes to have is good on disk; counters right; tests end |
| torrents and library | `torrent.c`, `tlib.c`, `active.c`, `cli_if.c`, `btpd.c`, `main.c` | library entries, torrents, the file `active`, directories | btcli's add, del, start, stop, kill; one-second tick; start of the process | stopping is asynchronous (ghosts wait for trackers); entry and torrent are freed separately; crash and restart | no freed memory used; deletion deletes; a restart runs what ran before; shutdown ends |
| tracker announcements | `tracker_req.c`, `http_tr_if.c` | per tier: event, pending request or timer, order and failures of trackers; one-per-second rule | start, stop, complete, request ends, timer, heartbeat | stop, retry, delay and answer meet in any order | one thing pending; stop is final and ends; backups get their turn |
| resolving, connecting | `addrinfo.c`, `thread_cb.c`, `nameconn.c` | request queue, result queue, pipe, contexts | connect by name, cancel; resolver thread; callbacks | two threads; cancellation while the other thread works | no lost wakeup; no use after free; every request answered once |
| timers | `evloop/timer.c`, `timeheap.c` | heap of handles that know their index | set, delete, run due ones | callbacks operate on the heap that is being emptied | heap order, handle indices, fires when due |
| event loop | `evloop/poll.c`; `epoll.c`, `kqueue.c` | arrays of descriptors and events, current index; or a batch of ready events | add, change, delete, loop | callbacks change what the loop walks over | only callbacks of live, enabled events |
| HTTP client | `misc/http_client.c`, `iobuf.c`, `http_tr_if.c` | parser state, growing buffer, collected content | read, parse header, chunks and content, cancel, time out | input in portions; cancelled from inside its own callback; buffer that moves | the tier is told once, with the content the server sent |
| info files | `tlib.c`, `torrent.c` | name and totals of each torrent, in memory and on disk; whose turn it is to be saved | add, stop, periodic save, delete, load | crash while writing; torrents released while the saver walks over them | a name once saved is there after any crash; totals are neither lost nor counted twice |
| bencoding | `misc/benc.c` | none | validate, walk, look up | text from outside, accessors that trust the validation | what is accepted is the grammar; accessors stay inside |
| hash table | `misc/hashtable.c` | buckets, iterator | insert, find, remove, iterate and delete, grow | removal while iterating; growth that fails | the table is the set of what was put in; a walk meets everything once |
| metainfo; helpers; btcli, btinfo | `misc/metainfo.c`; `misc/subr.c`, `queue.h`, `btpd/util.c`, `opts.c`; `cli/`, `info/` | - | - | - | not modelled |

How they interact.  `evloop` calls back into everything.  `cli_if.c` calls
`torrent.c`, which drives `tracker_req.c`, `content.c` and `net.c` by direct calls
and finds out in a one-second tick what has become of them.  `net.c` parses messages
and calls `peer.c`, which calls `download.c` and `upload.c`; `download.c` stores
blocks through `content.c`, which calls `download.c` back with the verdict on a
piece.  `http_tr_if.c` connects through `nameconn.c`, which uses the resolver
thread.  All of it shares memory and one thread, except the two queues between
the main and the resolver thread.

The hazards - what is hard to test in this code - are listed in `PROJECT.json`
with their source lines and the properties that watch over them.

## 2. Modules and how they correspond to the code

Actions and operators have the names of the functions they model.  Operators
named `Bug_...` are single mistakes in the operator that follows them; the
specifications do not use them, and each shows that a property notices a mistake
of that kind.

**Download** (one torrent).  `agenda` is the C call stack: a sequence of calls
still to be made, innermost first.  A message handler (`peer_on_have`,
`peer_on_piece`, ...) is enabled when the agenda is empty; every call
(`dl_on_download`, `dl_on_piece_full`, `dl_unassign_requests`, ...) is an action
that pops its frame and may push others.  So the state in which a nested call runs is the
one the code has at that point.  Lists are sets: the model allows every order in which
the code could walk them.  Counters that the code always changes
together with a list or a bit field are read off the set; `nwant`, whose value is
an obligation of many functions, is a variable.  `liars` is a history variable. All
pieces have the same number of blocks.  `dl_piece_assign_requests` in end game,
where its loop would have no block to find, counts as an abort.

**Tracker** (one torrent, all its tiers).  Time is relative: `timer` counts seconds to
go, `next` is how far `m_tnext_req` lies ahead.  `Delay` stands for the announce
interval and the retry timeouts.  `bad_conns` saturates at 2 (the code compares
with 1 and 2 at most, and uses it to choose a longer timeout).  `m_tlast_req` and `m_tnext_req`
are shared by all torrents: `others_send` is a request of another one, now (`recent`) or put off (`next`).
Requests may end at any time, also in the second in which they were sent.

**Torrent** (all torrents, across processes).  One record per info hash has the
library entry and the torrent; `ptr` is `tl->tp` and `back` tells whether `tp->tl`
is the library's entry or a freed one.  Using freed memory is the fault `freed`,
`btpd_err` the fault `exit`.  `cm_stop` works at once, hence the state
`T_STOPPING` is never seen from outside `torrent_stop`.  `active_start` runs one
entry per step, with the file position and the variable `pos` apart.  A deletion from the file
`active` writes the last name over the deleted one and then cuts the file: `crash_in_edit` is
the end of the process between the two, in a stop or in `active_start`.  `Scenarios` is
a set of sets of behaviours out of the ordinary (deleting at all, deleting a ghost,
adding a torrent again before it is released, I/O errors, damaged directories, edits cut off).  `may`,
chosen in the initial state and never changed, is the scenario of a behaviour of the
system; a property that holds only without some of them says so.

**Content** (several torrents, their files and resume data).  Sizes are in blocks;
all torrents have one shape.  The disk has every block as good, bad or zero;
`fts` is the set of files whose recorded time and size still match.  `errors`, chosen from `Scenarios` in the initial state, names
the operations that may fail; `Edits` lets others change the files of a stopped
torrent.  A crash keeps disk and resume file, which is mapped into memory.

**Resolver** and **Connect**.  Resolver has both threads, with a step for what a thread
does between two points where the other can interfere: critical sections are
atomic, `pthread_cond_signal`, the write to the pipe and the read from it are steps
of their own, and `pthread_cond_wait` may wake spuriously.  Connect is the abstract
specification of a connection by name: asked, then answered once or cancelled, and
answered in the end.  Resolver implements it (`ImplementsConnect`).

**HttpClient** (one request).  The parser of `http_client.c`, the buffer of `iobuf.c` and the
caller in `http_tr_if.c`.  A byte of the answer is a triple - part, chunk,
place - so that what is delivered can be compared with what was sent, without any
text.  Each `goto again` is a step; the callback may cancel the request inside the parser, and the
tier may give it up between reads.  `moved` records that `realloc` moved the buffer while the
header was parsed (see the findings).  The header ends with an empty line of `\r\n`;
what else it says is the record `reply`.  Two things the code does that a reader may not
expect are in the model: an answer with `Content-Length: 0` is never finished and ends as an error when the
server closes, and content without length or chunks counts as whole wherever the
connection ends.

**Benc** (pure functions).  `benc_validate` and the accessors, over texts that grow by pieces, compared with a
grammar written as a definition (`IsValue`, `Values`).  `mem` has one more character
than the text, so an accessor that runs on meets something.

**OutQueue** (one peer).  A queue of message kinds; of the bytes only "the first
message is partly written" is kept.  Two variables, `seen` and `wire`, belong to
the peer: what it was told last, and the kind of the last message.  What is taken back: blocks (`peer_choke`,
`peer_on_cancel`), requests (`peer_cancel`, and at the peer's choke), and a last message of disinterest, which is one of the
messages called "other", when interest would have to follow it (`peer_want`).

**Input** (several connections).  Bytes are triples as in HttpClient.  `net_read` is one step per field; `who` is set
meanwhile, and nothing else happens.  Reads take any portion that has arrived, up to the
limit and the shared buffer.  `net_bw_tick` goes through `net_bw_readq` peer by peer.

**Peers** (connections of all torrents).  Handshake stages, the table of meta peers with its reference
counts, bans, records of blocks, starting, stopping and killing the net of a torrent.  Clocks count up
to the limits at which something happens.  `lost`, `since` and `room` belong to the other end: it has
vanished, for how long, and how many writes the system still takes for it, those that meet `EAGAIN` included
(`net_write_again`).

**Upload** (peers of several torrents).  Rates are not modelled: which peers are worthy of
a slot, and in which order, is chosen anew every time `choke_do` runs.

**Info** (the library's info files).  A handler is atomic but for a crash: it has a set of disk
states it goes through and may die in each.  `truth`, `floor` and `added` are history variables: what was
transferred, what of it a completed call has saved, and which torrents the user was told are added.

**TimeHeap** and **Timers**.  TimeHeap has the array, `bubble_up`, `bubble_down`, the
indices in the handles, `evtimers_run`, with callbacks that set and delete timers, and the part of
the loop over epoll that waits for the next timer.  Times are relative to the clock, in units of which
`Slack` make a millisecond, so that the two places where milliseconds matter differ from exact times: `evtimers_run`
fires a timer of which less than a millisecond is left, by the clock it read at its start (`run` is how long ago that
was), and `epoll_wait` waits whole milliseconds, rounded down (`millisecs`).  `alarm` is what is
left of the wait, `woken` says that it has timed out.  Timers is the abstract specification: a function from
timers to times; a timer is fired at most a millisecond early and after all earlier ones, and
`evtimers_run` ends only when nothing is due by its clock.  TimeHeap implements it.  `Timers!Fires`, that no timer
stays set for ever, holds of TimeHeap with the fairness of section 4.

**HashTable**.  Buckets as sequences, growth to `2n + 1` buckets in the order of the code (or
not, when memory is short), and the iterator with its deletion.

**EvLoop** (poll) and **EvBatch** (epoll and kqueue).  The loop over the array or over the batch, with
callbacks that add, change
and remove entries, in the way btpd uses it: a callback removes its own event, and only
the callback of a btcli connection removes others (it stops torrents).  That callback never
asks for write events and registers no new event: descriptors are added by `accept`, by `nameconn.c` once a name is
resolved, and by the HTTP client.  `poll.c` relies on this.  The proof of `LoopCorrect` does not go through
without it, and TLC, with four events and four operations per callback, then finds a removal
that moves an entry of the other kind to the place the loop still has to ask for "write".  EvBatch allows any callback to
add events.  In EvBatch `split`, chosen in the initial state, tells kqueue (an entry per event and direction)
from epoll (an entry per event).

**SeqFacts** has lemmas about sequences and finite sets that the proofs share: queues without
repetition, removal, insertion and rotation, enumerations of a set, least and greatest elements.
**DownloadProofs**, **ContentProofs**, **TorrentProofs**, **TrackerProofs**
and **UploadProofs** each extend the module they are named after and hold its inductive invariant, one lemma per action, and the
theorems (section 5); **AnnounceProofs** does so for Resolver and HttpClient, **ConnectionsProofs** for the four modules that
`MCConnections` puts together, and **TorrentProofs** for Info as well, since it extends `MCTorrent`.

The `MC...` modules give these modules their small sets and symmetry.  Six of them put
parts together that share no variable and meet only in what one promises
and the next relies on: `MCAnnounce` the three stages of an announcement (**Announce**, which is Resolver and HttpClient, and Benc),
`MCReceive` the two halves of receiving (Input, Download), `MCConnections` what is under the strategies
(OutQueue, Peers, EvLoop, EvBatch), `MCTorrent` the life of torrents and what is saved about them (Torrent,
Info), `MCUpload` the choice of peers and the timers that repeat it (Upload, TimeHeap); `MCStorage` has
what the rest is kept in: the files and the two data structures (Content, TimeHeap, HashTable).  A behaviour of such a module is a behaviour of
one part, chosen in the initial state (`stage`, `half`, `part`, `which`); the others
stay in one initial state.  Interleaving them would multiply the states and reach no state of a part
that the part does not reach alone.

## 3. Runs

Each run asks a question or a few that share an instance, of one component or of the parts that a module
of section 2 puts together.  The
first invariant of a run over the tables of a module has the module's `TypeOK` as its
first conjunct.

| run | instance | distinct states (rounded if large) | shows |
|---|---|---|---|
| `download_honest` | 3 peers, 2 pieces of 2 blocks, pipe of 3, correct data | 89,645 | no assertion fails; `WantedCount` (and what the peer was told of our interest); end game has started whenever all missing blocks are requested; `NoIdlePeer` |
| `download_corrupt` | 2 peers, 2 pieces of 2 blocks, wrong data, late bitfields | 245,185 | `RequestsAccounted`, `GotIsGood`, `OnlyLiarsBanned` |
| `receive` | Input: 2 peers, four streams of messages of all kinds, with a limit and without; Download: 2 peers, 2 pieces of 1 block | 72,000 | `InStep`; `AllRead`; `OneSeedIsEnough` |
| `upload` | Upload: 3 peers, 2 torrents, limits -1, 0, 1, 2; TimeHeap: 3 timers, delays 0, 1 and 3, 2 units a millisecond | 55,851 | `SlotsUsed`; `EveryoneServed`; `TimersFire`: no timer waits for ever, and the loop does not spin before one |
| `tracker` | 2 tiers of 2 trackers, every answer at any time, other torrents that send | 685,973 | `OneThingPending`, `StopIsFinal`, `Spaced`; `StopEnds` |
| `torrent` | Torrent: 2 torrents, file of at most 3 entries, 4 scenarios; Info: 2 torrents, 2 bytes | 254,012 | `Linked`, `Kept`, `StartsAsBefore`; `ShutdownEnds`; `InfoSurvives` |
| `torrent_cut_edit` | 2 torrents, edits of the file cut off by a crash | - | violation of `StartsNoMore`, see [findings](#6-findings) |
| `storage` | Content: 1 torrent, 4 blocks, 2 pieces, 2 files, preallocation of 2 pieces, 3 scenarios; TimeHeap: 6 timers, delays 0 to 2, 2 units a millisecond; HashTable: 5 keys, up to 7 buckets, ratios 1 and 3 | 133,308 | `HeldIsGood`, `CountsRight`, `CleanStop`, `NoFault`; the heap and its handles agree and are ordered (`HeapOk`), `ImplementsTimers`; `IsTheSet` |
| `content_test_error` | 2 torrents of 2 pieces; reading fails in a start-up test | - | violation of `TestsEnd`, see [findings](#6-findings) |
| `announce` | Resolver: 3 requests, up to 2 addresses; HttpClient: answers of three framings, and bad ones, read in portions of up to 3; Benc: texts of up to 4 pieces | 228,000 | `NoLostWakeup`, `HeldOnce`, `ImplementsConnect`; `AnsweredOnce`, `ContentRight`; `ReadsRight` |
| `http_realloc` | the same answers | - | violation of `ReallocHarmless`, see [findings](#6-findings) |
| `connections` | OutQueue: 1 block, limit of 2 queued blocks, at most 5 messages; Peers: 2 connections, 1 torrent, 2 ids; EvLoop and EvBatch: 3 events, 2 operations per callback | 1,290,000 | `WriteArmed`, `ChokeTold`; `TablesAgree`, `LostLeave`; `CallsLive` |

Bounds, and why they are enough:

- Download: three peers are needed for a block to be asked from one, lost by it and
  given to another while a third is looked at; two pieces for a full and an unfull
  one; two blocks for a piece that has two senders.  A pipe of 3 requests
  is shorter than the 4 blocks of the torrent, so peers do get laden in the middle of a piece
  (`MAXPIPEDREQUESTS` is 10).  With wrong data `SuspectAt` is 1
  instead of 3, which makes suspicion happen within the instance.
- Tracker: in two tiers of two each can be put off by the other between its first tracker and its backup. `Delay` of
  1 second orders timers in all ways relative to the one-per-second rule; `MaxAhead` bounds how often a torrent is restarted within a
  second.
- Torrent: two torrents meet in the file `active`; three entries hold a duplicate.  The
  scenarios are: nothing special; deletions, I/O errors and edits cut off; all but re-adding; all but deleting ghosts.
- Content: two pieces in two files give a piece that spans files and a file that ends
  within a piece.  The scenarios are: working disks; failures at the start and in
  closing a complete torrent; every operation failing, but for the `stat` calls, which are in the second.
- Resolver: three requests have one in each queue and one in a thread.
- Input: fields of one or two bytes are cut in the middle, a buffer of 3 holds the end of one
  message and the start of the next, and a limit of 2 is less than a message.  A piece message that is too
  short for its index and offset is not among the streams.
- HttpClient: portions of up to 3 cut header, chunk sizes, newlines and content at every place; `MaxHead`, `MaxLine`
  and `MaxDownload` of 4 are exceeded by some answers.
- Benc: four pieces nest a dictionary in a list and end in the middle of everything; the numbers
  stay far below the width of `size_t`.
- Peers: two connections contend for one id; one torrent is created, started, stopped and killed again and
  again; `Silence` is longer than `Write` as in the code.
- Info: two torrents hand the turn to be saved to each other; two bytes are transferred in one run of a torrent or
  in two.
- HashTable: five keys in one bucket, four of them in one of three, none together in seven: the table grows twice.
- OutQueue: `MAXPIECEMSGS` is 2 (128 in the code), `MaxQueue` bounds the other messages.
- TimeHeap: with six entries a removal in the middle moves the last entry up into
  another branch, the case for which `timeheap_remove` compares times.  The run `storage` takes two states that
  differ only in the names of the timers as one (`VIEW UpToNames`), which is sound for the safety properties it checks; the liveness
  of timers is checked in `upload`, with three of them and without a view.  Delays of 0 to 3 half
  milliseconds are due, due within the tolerance, and not due; `MaxLate` is how late timers and calls of `evtimers_run` get,
  a millisecond and more.
- EvLoop, EvBatch: three events: the one called, the one removed and the one that is
  moved.  `Capacity` equals their number; the arrays do not grow.

Deadlock is checked except where the system really stops: after an assertion or a
fault (`download_corrupt`, `torrent`, `storage`, whose instances include known ones,
see the findings), after the peer is gone (`connections`), and when a request or a text is
finished (`announce`).

## 4. Fairness

- Download: `WF` of the calls on the agenda (the C program runs on).
  Peers promise nothing; `OneSeedIsEnough` is conditional on one peer that, whenever it holds requests, answers
  sooner or later (`SF` of its answers, as antecedent).
- Input: reading goes on once begun (`WF`); `SF` of the read callback of each peer and of the bandwidth tick,
  since the loop visits all ready descriptors in each round and the heartbeat comes every second; `SF` of
  a peer's turn in the tick, since `net_bw_readq` is first in, first out.
- Tracker: the heartbeat, due timers, and the end of every request (http and
  connection attempts have timeouts of 60 and 30 seconds).  `StopEnds` has the condition that from some
  time on no request of the torrent is put off because another was sent in the same second; the code does not
  guarantee that (see the findings).
- Torrent: the heartbeat.  `ShutdownEnds` has the condition that no torrent goes on for ever stopping its
  trackers; when it does not, `StopEnds` of Tracker says.
- TimeHeap: callbacks return and the loop goes on (`WF` of `Loop`), the clock advances (`WF` of `pass`).  That
  descriptors become ready is not assumed.
- Content: the work timer, when set, fires.
- Resolver: both threads run, and a pending connection attempt ends (TCP does not wait for ever).
- Upload: the ten-second timer.  `EveryoneServed` assumes that from some time on no peer
  is new (new peers are put at the front of the queue), and that a peer with all
  pieces does not claim interest.

No fairness is assumed of users, remote peers or disks.  Where a run puts parts together the fairness of a part
is assumed in the behaviours of that part.

## 5. Proofs

The theorems hold for every value of the constants that satisfies the `ASSUME` of the module - any
number of peers, pieces, torrents, trackers, requests or messages, any limits - and in every scenario.  The assumptions say
what the code relies on: sets that are lists in memory are finite, limits are natural numbers, tiers
are not empty and name no tracker twice, files of a torrent follow one another, the parts of an answer have lengths.  TLC evaluates each of them in a run.

Every proof has the same shape.  The property is not inductive; `IInv`, at the
top of the module, is.  Its definition was first checked by TLC on the instance of the component's run.  `Init => IInv` and
`IInv /\ [Next]_vars => IInv'` are lemmas, the second made of a lemma for each action, `Invariance` combines them by PTL, and the
theorems follow from `IInv`; an action property follows from `IInv` and a step.

| module | theorems | what `IInv` adds, and why |
|---|---|---|
| `DownloadProofs` | `TypeCorrect`, `RequestsCorrect`: `TypeOK`, `RequestsAccounted` | a call in the middle of a handler relies on what its caller established, and that is on the agenda: `AgendaOk` says which calls can be on it and what their arguments satisfy (a test comes only for a complete piece that is not had, at most one at a time, end-game calls only in end game); `GotComplete` |
| | `GoodCorrect`, `BansCorrect`: `GotIsGood`, `OnlyLiarsBanned` | `Evidence`, inductive together with `IInv`: corrupt and logged blocks are present ones, so a block has one sender; a logged block that is corrupt was sent by a liar; each older log keeps that for the piece as it was |
| | `AssertsHold`, `WantsCorrect`, `EndgameCorrect`: `NoAssertFails`, `WantedCount`, `EndgameWhenSaturated`, if peers are honest (below) | `HInv`: which call may wait below which on the stack (`Below`, `Stacked`); what each waiting call will find, that is the `assert()`s at the top of the functions and what their callers have tested (`CallOk`); what the tables owe to calls not made yet (`Links`); outside end game some piece is open, and while requests are taken back a second one (`Saturated`); `nwant` counts the wanted pieces and the flags follow from it (`Counts`, `Flags`) |
| | `NoIdleCorrect`: `NoIdlePeer`, if peers are honest | `Served`: in the middle of a handler a peer that could be asked is the subject of a call on the stack, owes us everything it has, or is wanted only for the piece that has just become full |
| `ContentProofs` | `HeldCorrect`, `CountsCorrect`, `FaultFree`, `StopIsClean`: `HeldIsGood`, `CountsRight`, `NoFault`, `CleanStop` | what each phase of a torrent may rely on: resume data whose recorded times match is sound, also after a crash (`ResOk`); a block counted but not on disk can only be one beyond the end of a file; pieces before the position of a running test are good (`EntryOk`); the pieces to be tested can be read (`StartingOk`); counters agree with fields once the test is over (`ActiveOk`) |
| `TorrentProofs` | `LinksCorrect`, `DiskCorrect`, `RestartCorrect`: `Linked`, `Kept`, `StartsAsBefore` | entry by entry how state, pointers and flags go together (`EntryOk`); what `active_start` has read of the file it is editing (`Read`, `FileOk`); if all torrents can be loaded, what the user has started is in the file, twice perhaps, and half way through a start it runs or is still to be read (`StartedOk`, `KeptOk`); in the scenario with nothing special the file is just that, without repetition (`HistoryOk`) |
| | `InfoHolds`: `InfoSurvives` of Info, in every behaviour of `MCTorrent` | `LibInv`: the list holds just the torrents that are not released, each once, and the turn is that of one of them (`ListOk`); only ghosts are to be deleted (`KnownOk`); an entry and its directory come and go together, except for a ghost to be deleted, whose directory is gone first (`Agrees`); the file of an added torrent is whole and lies between what calls have saved and what was transferred, in memory or not (`Whole`) - this is what a crash leaves |
| `TrackerProofs` | `PendingCorrect`, `SpacingCorrect`, `StopCorrect`: `OneThingPending`, `Spaced`, `StopIsFinal` | the list of a tier stays a permutation of the announced one and its current tracker is in it, an active tier still has a tracker to ask, and the event of every tier agrees with the last thing `torrent.c` said |
| `ConnectionsProofs` | `WriteCorrect`, `ToldCorrect`: `WriteArmed`, `ChokeTold` | the shape of a queue: every header is followed by its data, data comes first only after its header was written and then is in memory (`Paired`, `FirstOk`), the last choke or unchoke in the queue, or what the peer was told if there is none, is `PF_I_CHOKE` (`Tells`) |
| | `TablesCorrect`, `LostCorrect`: `TablesAgree`, `LostLeave` | `PInv`: what the stage of a handshake says about the rest of a connection (`Shape`), a meta peer's count is the number of connections and notes that refer to it (`MetaOk`), and a clock argument: a vanished peer has been there no longer than the writes already taken for it allow, plus the current silence or wait (`Waiting`, `Taken`) |
| | `LoopCorrect`: `CallsLive` of EvLoop | `LInv`: events and used entries are in bijection, entries of btcli connections ask only for "read" (`Entries`), and where the called event and its entry are now, depending on whose callback runs (`Calling`) |
| | `BatchCorrect`: `BatchLive` of EvBatch | `BInv`: the entries still ahead in the batch are of events that were there when it was handed out, and only known events are asked for anything |
| | `TablesHold`, `LostHold`, `CallsHold`: the same in every behaviour of `MCConnections` | each step of it is a step of each part or leaves the part alone |
| `UploadProofs` | `SlotsCorrect`: `SlotsUsed` | while a slot is free only peers that have everything are choked, interested or not: interest alone does not run `choke_do` |
| `AnnounceProofs` | `WakeupsCorrect`, `ContextsCorrect`: `NoLostWakeup`, `HeldOnce` | where a thread is tells what it holds (`Places`); the queues are disjoint and without repetition (`Apart`); a nameconn waits exactly for the context that will call it (`Paired`) |
| | `ConnectImplemented` | the initial states of Resolver are those of Connect and each step is one of Connect or none, under the refinement mapping of the run: the safety part of `ImplementsConnect` |
| | `AnswerCorrect`: `AnsweredOnce` of HttpClient | `ExInv`: who holds the request (`Owned`) - the caller's part and the client's are freed together, but for a callback that cancels, after which the parser frees the request, and then it is at a piece of content, where it looks at `cancel` - and the buffer's data ends before the buffer does, so that there is room for what was asked for (`Buffers`) |

Arguments worth reading: in `UploadProofs` that `choke_do` fills all slots though it may serve peers that do
not want anything (`BestFit`, by counting); in `ConnectionsProofs` that taking messages away keeps headers and
data together (`ThinPaired`) and that the positions kept by `peer_choke`, numbered by counting, are in order (`InOrder`); in
`ContentProofs` what reading and preallocating up to the end of a piece does to files that end within it.

Where a property has a condition (`may`, `errors` - see the findings) the theorem has the
same one, because the statement of the theorem is the property of the run.

Honest peers.  The four theorems about the ends of handlers assume `Honest`: no corrupt data
(`~BadData`), and bitfields that come before the peer unchokes us (`~LateBitfield`).  These are the constants of the run
`download_honest`, and neither can be dropped.  With corrupt data a ban in end game takes a piece from the culprit's
wants that is not among them, after which `nwant` is wrong even where no assertion notices.  With a late bitfield
`dl_enter_endgame` counts pieces that have been copied but not announced, and the announcement counts
them again; with two pieces an assertion stops that, with three `nwant` is just too large.  Before the proof TLC checked `HInv` and
`Served` on the instance of `download_honest` and on one with three pieces, `PInv`, `LInv` and `BInv` on that of
`connections`, `LibInv` on that of `torrent` with three bytes, and `Owned` with the bounds of the buffer on that of `announce`.

Only model-checked, and why:

- Liveness (`OneSeedIsEnough`, `AllRead`, `EveryoneServed`, `StopEnds`, `ShutdownEnds`, `TestsEnd`, `TimersFire`, and the
  fairness part of `ImplementsConnect`): the prover has no rules for fairness.
- What recursive operators compute: Benc (`ReadsRight`), TimeHeap (`HeapOk`, `ImplementsTimers`).  This is induction over data.
- `InStep` of Input: it says that the bytes of every message are its own, which is induction over the stream.
- `ContentRight` of HttpClient compares what was delivered with what was sent, byte by byte: induction over the answer again.
- `IsTheSet` of HashTable has no proof.

## 6. Findings

Three runs are expected to be violated.

`content_test_error`: README.md of btpd promises
that a torrent which is `starting` is waiting for its own test or for one started
before it.  After a read error in a test `startup_test_run` returns without
setting the timer again, and `startup_test_begin` sets it only for an empty queue; the
torrents queued behind the one with the error stay `starting` until
they are stopped.

`torrent_cut_edit`: README.md of btpd promises the same active torrents as before.  `active_del_pos` writes the last
name of the file `active` over the deleted one, flushes, and cuts the file.  If btpd is killed in
between, the file [A, B, C] from which A is deleted becomes [C, B, C].  The next process does not mind: C is already running when its name comes
again.  But when C is stopped only the first of its names is deleted, and the process after that starts C.
What the user has started is not lost in this way: that is in `StartsAsBefore`, with such crashes.

`http_realloc`: a comment in `http_client.c` says that the buffer may be reallocated by
`iobuf_write` and that the offset is therefore calculated before.  The pointer `end` to the end of the header is
not: it is used after the call.  When a read fills the buffer exactly, the terminating zero makes the
buffer move, `headers_parse` compares pointers into two buffers, and either misses headers or
reads on into the content.  `ContentRight` of the run `announce` shows that nothing else
disturbs the content.

Other places where the code does not do what its assertions or documents say were met
while modelling.  They are in the models, and these changes to the runs show them:

| what happens | how to see it |
|---|---|
| a peer banned in end game is "unwanted" for the same piece twice; `assert(p->nwant > 0)` fails | `NoAssertFails` with `BadData = TRUE` |
| a bitfield after an unchoke may start end game half way; `assert(p->nwant < p->npieces)` fails | `NoAssertFails` with `LateBitfield = TRUE` |
| when the request for a backup tracker is put off, because another was sent in the same second, its timer turns to the first tracker again; the backup is never asked, `bad_conns` never counted, and a stopped tier never ends.  The first tracker refuses at once; or those of two tiers refuse in turn, each in the second in which the other tier has sent; or other torrents send | `StopEnds` without its condition on `PutOff`, with one tier of two or with two |
| `torrent_on_tick` reads a torrent that `torrent_stop` has freed | `fault = "none"` in Torrent with `io_error` |
| deleting a torrent that is still telling its trackers leaves its directory | `Kept` without its condition on `del_ghost` |
| btcli shows what was transferred since the last start twice while a stopped torrent is not yet released | `InfoSurvives` with `mem.sess[h]` added to `Said` for ghosts too |
| a crash in adding a torrent leaves a directory without an info file: an entry without a name that cannot be started, only deleted | `InfoSurvives` with `added` extended at the start of `cmd_add` |
| a peer that has vanished keeps its place as long as messages to it are taken back and replaced: the time a message waits starts anew | `LostLeave` if `since` is not set to zero in `peer_unsend` |
| re-adding such a torrent leaves a dangling pointer in the library | `Linked` without its condition |
| two torrents that cannot be loaded make `active_start` lose a third; a deleted and re-added torrent starts though nobody started it | `StartsAsBefore` without its conditions on `may` (the first needs three hashes) |
| after an I/O error in storing, testing or closing freed streams or buffers are used | `NoFault` of Content without its condition |

The passing runs leave such a behaviour out (`BadData`, `LateBitfield`), exempt it in the
property that it breaks (`may`, `errors`, `PutOff`), and check everything else in spite of it.

## 7. What is left out

- Allocation failure, `http_get` failing at once, and a second btpd started while the
  first shuts down.
- Rates, of peers and torrents; the setting up of listening sockets.
- A piece message shorter than 9 bytes, for which `msg_len - 9` wraps around, and lengths of bencoded strings that
  overflow `size_t`: both are numbers far outside the instances.
- In Torrent: a crash that leaves a part of a 20-byte name in the file `active`.
- The runs with right data never make a suspect, so that `WantedCount` and `EndgameWhenSaturated` say nothing of
  suspicion and rehabilitation; `download_corrupt` has them, for other properties.
- In Info: files that are written but lost in a crash of the whole machine although they were synced.
- In Content: files longer than they should be, and failure to open streams.  Times of files
  change with every write, while `mtime` has a granularity of seconds: a file changed within the second in which its time was recorded would go unnoticed.
- In TimeHeap: memory running short in `timeheap_insert`.  kqueue is given the delay unrounded, poll in milliseconds like epoll.
- In EvLoop: arrays that grow, and so move, beyond 64 descriptors.
- The text of URLs and HTTP headers, and the list of peers in a tracker's answer.
- Metainfo (`mi_test` and accessors): its tests are weaker than what the accessors need (the later members
  of an announce list are not looked at), so a model would have to restrict the inputs to say anything.
- Options, logging, lists and allocation; btcli and btinfo, which send a command or print a file.
- `_htbl_tov`, which nothing calls.

## 8. Plan

Order of the work; all but the last step is done.

1. Download with its runs, DownloadProofs: type and request tables.
2. Tracker; Torrent; Content - what a torrent goes through outside the swarm.
3. Resolver with Connect - the only concurrency.
4. OutQueue; Upload - the other half of talking to peers.
5. TimeHeap with Timers; EvLoop - what everything runs on.
6. Input; Peers; HttpClient; Benc; EvBatch; HashTable; Info - what the strategies rely on, put together in the
   runs `receive`, `announce`, `connections`, `torrent`, `upload` and `storage`.
7. Proofs of Download (requests, good pieces, bans), Content, Torrent, Tracker, OutQueue, Upload and Resolver with the safety part
   of its refinement of Connect: section 5.
8. Proofs about Download for honest peers, and about Peers, EvLoop, EvBatch, Info and HttpClient: section 5.
9. What could follow: the invariant of HashTable.
