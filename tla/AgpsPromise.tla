----------------------------- MODULE AgpsPromise -----------------------------
(***************************************************************************)
(* What a network-interface machine promises its clients, without queue,   *)
(* list or states: one shared connection, which is held or not.            *)
(***************************************************************************)
CONSTANT Subs
VARIABLES
    client,     \* what each client was told
    held        \* whether the connection is held on behalf of the clients

vars == <<client, held>>

Init == client = [s \in Subs |-> "idle"] /\ held = FALSE

ToldAll(S, told) == client' = [s \in Subs |-> IF s \in S THEN told ELSE client[s]]

Ask(s) == client[s] = "idle" /\ ToldAll({s}, "asked") /\ UNCHANGED held

GiveUp(s) ==
    client[s] \in {"asked", "open"} /\ ToldAll({s}, "leaving") /\ UNCHANGED held

(* Clients are granted the connection only when they asked and it is held. *)
Grant(S) ==
    /\ \A s \in S : client[s] = "asked"
    /\ ToldAll(S, "open")
    /\ held' = TRUE

(* Requests are refused and releases completed.  A client that did not ask *)
(* to leave loses the connection only together with all the others, and    *)
(* the connection goes only when no client is left with it.                *)
End(S) ==
    /\ ToldAll(S, "idle")
    /\ held' \in {held, FALSE}
    /\ held' => \A s \in S : client[s] # "open"
    /\ ~ held' => \A s \in Subs \ S : client[s] # "open"

Next ==
    \/ \E s \in Subs : Ask(s) \/ GiveUp(s)
    \/ \E S \in SUBSET Subs : Grant(S) \/ End(S)

Spec == Init /\ [][Next]_vars
=============================================================================
