------------------------------- MODULE MCHttp -------------------------------
(* Small instances of HttpClient. *)
EXTENDS HttpClient

Reply(f, c, n, t) == [framing |-> f, chunks |-> c, newline |-> n, trail |-> t,
                      head |-> 2, line |-> 2, number |-> TRUE]

\* Content in chunks with either newline, of a given length, and up to the end;
\* and answers that are refused.
MCReplies ==
    {Reply("chunked", <<1, 3>>, n, 1) : n \in {1, 2}} \union
    {Reply("length", <<n>>, 0, 1) : n \in {3, 5}} \union
    {Reply("close", <<3>>, 0, 0), Reply("length", <<>>, 0, 0)} \union
    LET odd == Reply("chunked", <<2>>, 0, 0) IN
    {odd, [odd EXCEPT !.number = FALSE], [odd EXCEPT !.head = 5], [odd EXCEPT !.line = 5]}

=============================================================================
