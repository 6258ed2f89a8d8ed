------------------------------ MODULE Announce ------------------------------
(***************************************************************************)
(* An announcement by HTTP up to its answer: connecting to the tracker     *)
(* (Resolver), and the exchange over the connection (HttpClient), which    *)
(* relies on what the first promises, a connection or an error once.       *)
(* Nothing else is common to them: a behaviour is one of one of them,      *)
(* `stage'.                                                                *)
(***************************************************************************)
EXTENDS Resolver

CONSTANTS Replies, READ, MaxHead, MaxLine, MaxDownload     \* of HttpClient

\* There is an answer, its parts have lengths, and a newline is of two bytes at
\* most.
ASSUME RepliesAssumption ==
    /\ READ \in Nat /\ Replies # {}
    /\ \A r \in Replies : /\ {r.head, r.line, r.trail} \subseteq Nat
                          /\ r.newline \in 0..2 /\ r.chunks \in Seq(Nat)

VARIABLES
    stage,
    reply, got, pstate, length, rbuf, unsent, last, parsing, cancel, req, treq, content,
    results, gaveup, moved, misuse

httpvars == <<reply, got, pstate, length, rbuf, unsent, last, parsing, cancel, req, treq, content,
              results, gaveup, moved, misuse>>

Http == INSTANCE HttpClient WITH fault <- misuse

\* The stage that does not run stays in its initial state.
AnnounceNext ==
    \/ stage = "connect" /\ Next /\ UNCHANGED <<stage, httpvars>>
    \/ stage = "http" /\ Http!Next /\ UNCHANGED <<stage, vars>>

AnnounceSpec ==
    /\ stage \in {"connect", "http"} /\ Init /\ Http!Init
    /\ [][AnnounceNext]_<<stage, vars, httpvars>>
    /\ stage = "connect" => Fairness

\* HttpClient's properties (http_parse, http_cancel and http_tr_if.c).
AnsweredOnce == Http!AnsweredOnce
ContentRight == Http!ContentRight

=============================================================================
