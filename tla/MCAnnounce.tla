----------------------------- MODULE MCAnnounce -----------------------------
(***************************************************************************)
(* A small instance of Announce, followed by the third stage of an         *)
(* announcement: reading the answer, which is bencoded (Benc) and relies   *)
(* on the content of the answer, or an error, coming once.                 *)
(***************************************************************************)
EXTENDS Announce

CONSTANTS
    r1, r2, r3,     \* model values
    MaxPieces       \* of Benc

VARIABLES text, behind, pieces

bencvars == <<text, behind, pieces>>

------------------------------------------------------------------------------
Reply(f, c, n, t) == [framing |-> f, chunks |-> c, newline |-> n, trail |-> t,
                      head |-> 2, line |-> 2, number |-> TRUE]

\* Content in chunks with either newline, of a given length, and up to the end;
\* and answers that are refused.
MCReplies ==
    {Reply("chunked", <<1, 3>>, n, 1) : n \in {1, 2}} \union
    {Reply("length", <<n>>, 0, 1) : n \in {3, 5}} \union
    {Reply("close", <<3>>, 0, 0), Reply("length", <<>>, 0, 0)} \union
    LET odd == Reply("chunked", <<2>>, 0, 0) IN
    {odd, [odd EXCEPT !.number = FALSE], [odd EXCEPT !.head = 5], [odd EXCEPT !.line = 5]}

\* What texts are made of: the characters that count, and whole values to get
\* further.  Behind a text may lie its end, or more of the same.
MCPieces ==
    {<<c>> : c \in {"d", "l", "e", "i", "-", ":", "1"}} \union
    {<<"0", ":">>, <<"1", ":", "x">>, <<"2", ":", "x", "e">>, <<"i", "1", "e">>,
     <<"1", ":", "x", "i", "1", "e">>}

Answer == INSTANCE Benc WITH
    Pieces <- MCPieces, Behind <- {"e", "1"}, Keys <- {<<>>, <<"x">>, <<"x", "e">>}

------------------------------------------------------------------------------
\* The stages that do not run stay in one of their initial states.
MCInit ==
    /\ stage \in {"connect", "http", "answer"}
    /\ Init /\ Http!Init /\ Answer!Init
    /\ stage # "answer" => behind = "e"

MCNext ==
    \/ AnnounceNext /\ UNCHANGED bencvars
    \/ stage = "answer" /\ Answer!Next /\ UNCHANGED <<stage, vars, httpvars>>

MCSpec ==
    /\ MCInit /\ [][MCNext]_<<stage, vars, httpvars, bencvars>>
    /\ stage = "connect" => Fairness

\* Benc's property (benc_validate and what relies on it).
ReadsRight == Answer!ReadsRight

=============================================================================
