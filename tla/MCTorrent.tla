----------------------------- MODULE MCTorrent -----------------------------
(***************************************************************************)
(* Small instances of Torrent, the life of torrents, and of Info, what the *)
(* library keeps on disk about them.  A behaviour is one of one of them,   *)
(* `half'; the other stays in its initial state.                           *)
(***************************************************************************)
EXTENDS Torrent

CONSTANTS h1, h2, None, MaxBytes

VARIABLES half, mem, disk, truth, floor, added, lost

infovars == <<mem, disk, truth, floor, added, lost>>

Library == INSTANCE Info WITH fault <- lost

\* NULL and what is missing are no torrents, totals or directories.
ASSUME LibraryAssumption ==
    None \notin Hashes \union Nat \union [info : Nat \union {None}, write : BOOLEAN]

\* Nothing unusual; deletions, failing content and edits of `active' cut off;
\* everything but one of the two ways in which a command meets a torrent that
\* is not yet released.
SomeScenarios ==
    {{}, {"del", "io_error", "cut"}, Options \ {"readd"}, Options \ {"del_ghost"}}

MCInit ==
    /\ half \in {"torrents", "info"} /\ Init /\ Library!Init
    /\ half = "info" => may = {}

MCNext ==
    \/ half = "torrents" /\ Next /\ UNCHANGED <<half, infovars>>
    \/ half = "info" /\ Library!Next /\ UNCHANGED <<half, vars>>

\* In the half of Info the other variables do not change, and no step of
\* Torrent is enabled there that its fairness would ask for.
MCSpec ==
    /\ MCInit /\ [][MCNext]_<<half, vars, infovars>>
    /\ Fairness

\* Info's property (tlib.c).
InfoSurvives == Library!InfoSurvives

=============================================================================
