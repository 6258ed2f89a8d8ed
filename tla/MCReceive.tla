----------------------------- MODULE MCReceive ------------------------------
(***************************************************************************)
(* Both halves of what becomes of the data that peers send: the bytes are  *)
(* read and cut into messages (Input), and the messages are acted upon     *)
(* until the torrent is complete (Download).  Download receives messages   *)
(* in order and one at a time, which is what Input promises; nothing else  *)
(* is common to the two, and a behaviour is one of one of them, `half'.    *)
(***************************************************************************)
EXTENDS Download

CONSTANTS
    p1, p2,                                         \* model values
    SHAKE, SIZE, META, GRBUFLEN, LimitIn, Nobody    \* of Input

VARIABLES
    half,
    stream, arrived, in, dispatched, counted, alive, ev, readq, limit, budget, ticking, who, iov,
    misread

inputvars == <<stream, arrived, in, dispatched, counted, alive, ev, readq, limit, budget, ticking,
               who, iov, misread>>

------------------------------------------------------------------------------
\* One peer sends messages of every other kind, the other a short one.
Msg(kind, n) == [kind |-> kind, body |-> n]
Sent == {<<Msg("piece", 2)>>, <<Msg("piece", 0), Msg("unknown", 0)>>,
         <<Msg("keepalive", 0), Msg("fixed", 1)>>, <<Msg("refused", 1)>>}

Reads == INSTANCE Input WITH
    Streams <- {[p \in Peers |-> IF p = p1 THEN s ELSE <<Msg("flag", 0)>>] : s \in Sent},
    got <- arrived

------------------------------------------------------------------------------
\* The half that does not run is in one of its initial states.
MCInit ==
    /\ half \in {"download", "input"}
    /\ Init /\ Reads!Init
    /\ half = "input" => got = Pieces
    /\ half = "download" => limit = 0 /\ stream[p1] = <<Msg("piece", 2)>>

MCNext ==
    \/ half = "download" /\ Next /\ UNCHANGED <<half, inputvars>>
    \/ half = "input" /\ Reads!Next /\ UNCHANGED <<half, vars>>

MCSpec ==
    /\ MCInit /\ [][MCNext]_<<half, vars, inputvars>>
    /\ half = "download" => Fairness
    /\ half = "input" => Reads!Fairness

\* Input's properties (net_read, net_state and net_bw_tick).
InStep == Reads!InStep
AllRead == half = "input" => Reads!AllRead

=============================================================================
