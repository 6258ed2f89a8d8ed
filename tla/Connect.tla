------------------------------ MODULE Connect ------------------------------
(***************************************************************************)
(* What btpd_name_connect (btpd/nameconn.c) promises its caller: a request *)
(* that is not cancelled is answered once, with a socket or an error; one  *)
(* that is cancelled is not answered.                                      *)
(***************************************************************************)
CONSTANT Reqs       \* requests, each made at most once

VARIABLE answer     \* what has become of each request

vars == <<answer>>

Init == answer = [r \in Reqs |-> "none"]

Ask(r) == answer[r] = "none" /\ answer' = [answer EXCEPT ![r] = "pending"]

Answer(r, a) ==
    /\ answer[r] = "pending"
    /\ answer' = [answer EXCEPT ![r] = a]

Next == \E r \in Reqs :
    Ask(r) \/ \E a \in {"socket", "error", "cancelled"} : Answer(r, a)

\* Requests that are made are settled.
Spec == /\ Init /\ [][Next]_vars
        /\ \A r \in Reqs :
             WF_vars(\E a \in {"socket", "error", "cancelled"} : Answer(r, a))

=============================================================================
