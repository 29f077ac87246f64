--------------------------- MODULE MCRegistration ---------------------------
(***************************************************************************)
(* Instances of Registration.  Each scenario has the callers that make one *)
(* question happen and the bounds that leave the others out.               *)
(***************************************************************************)
EXTENDS Registration

MCClients == {"a", "b"}
MCNames == {"u", "d"}
MCFields == {"username", "password", "email"}
MCTokens == {"good"}

Call(by, kind, name, pw, token) == [by |-> by, kind |-> kind, name |-> name, pw |-> pw, token |-> token]
Peer(by, n, reqs) == [by |-> by, kind |-> "peer", requests |-> n, reqs |-> reqs]
Form(remove, name, pw) ==
    [type |-> "set", remove |-> remove, classic |-> [f \in {} |-> ""],
     form |-> [f \in {"username", "password"} |-> IF f = "username" THEN name ELSE pw]]

Base == [policy |-> "open", dataForm |-> TRUE, tls |-> FALSE, limit |-> 5, known |-> TRUE, seeds |-> <<>>,
         calls |-> {}, conns |-> 2, faults |-> 0, time |-> 0]

(* A caller fetches the form and submits it, under every policy, with and  *)
(* without TLS and data forms, with a valid token and an unknown one.      *)
Fetching ==
    {[Base EXCEPT !.policy = p, !.dataForm = d, !.tls = t, !.known = FALSE,
        !.calls = {Call("a", "fetch", "", "", "")} \cup {Call("a", "submit", "u", "p", x) : x \in {"good", "bad"}}] :
     p \in {"open", "closed", "invite", "admin"}, d \in BOOLEAN, t \in BOOLEAN}

(* A caller submits, over TLS, and may try again after a failure. *)
Retrying == {[Base EXCEPT !.tls = TRUE, !.faults = 1, !.calls = {Call("a", "submit", "u", "p", "")}]}

(* Two callers want the same name, which may be a default account's, or    *)
(* one of them tries again.                                                *)
Contest ==
    {[Base EXCEPT !.seeds = s, !.faults = 1,
        !.calls = {Call("a", "submit", n, "p", ""), Call("b", "submit", n, "q", "")}] :
     s \in {<<>>, <<"d">>}, n \in {"u", "d"}}

(* A peer registers and removes a name with two passwords while another    *)
(* removes it with one of them; and one alone with a store that fails.     *)
Removal ==
    {[Base EXCEPT !.calls = {Peer("a", 3, {Form(FALSE, "u", "p"), Form(FALSE, "u", "q"), Form(TRUE, "u", "p")}),
                             Peer("b", 1, {Form(TRUE, "u", "p")})}],
     [Base EXCEPT !.calls = {Peer("a", 3, {Form(FALSE, "u", "p"), Form(TRUE, "u", "p"), Form(TRUE, "u", "q")})},
                  !.conns = 1, !.faults = 1]}

(* A peer asks for the form again and again, or sends a form not filled in. *)
Limit ==
    {[Base EXCEPT !.calls = {Peer("a", 5, {Query("get"), Form(FALSE, "", "p")})},
        !.conns = 1, !.limit = l, !.time = 4] : l \in {0, 2}}

MCScenarios == Fetching \cup Retrying \cup Contest \cup Removal \cup Limit
=============================================================================
