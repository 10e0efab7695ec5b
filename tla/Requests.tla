------------------------------- MODULE Requests -------------------------------
(***************************************************************************)
(* What a request is to those who make it (README.md:87-100): it is        *)
(* executed at most once, by one server, which executes nothing else in    *)
(* the meantime, even when it makes requests of its own; and "lost" is     *)
(* only said of a request that was not executed.  Connections, events and  *)
(* the order of arrival are not seen at this level.                        *)
(***************************************************************************)
CONSTANTS
    Clients,   \* threads of client processes that make requests
    Servers

VARIABLES
    up,        \* server -> whether it runs
    request,   \* who asks -> the server asked, and how far the request is
    turn,      \* server -> whose request it executes
    outcome    \* client -> how its last request ended

NoServer == "none"
Nobody == "nobody"
Initiators == Clients \cup Servers
NoRequest == [to |-> NoServer, state |-> "idle"]

Init ==
    /\ up = [s \in Servers |-> TRUE]
    /\ request = [i \in Initiators |-> NoRequest]
    /\ turn = [s \in Servers |-> Nobody]
    /\ outcome = [c \in Clients |-> "none"]

At(i, state) == [request EXCEPT ![i].state = state]

\* A server makes requests only while it executes one.
Ask(i, s) ==
    /\ request[i] = NoRequest
    /\ up[s]
    /\ i \in Servers => turn[i] # Nobody
    /\ request' = [request EXCEPT ![i] = [to |-> s, state |-> "asked"]]
    /\ UNCHANGED <<up, turn, outcome>>

Refuse(c, s) ==
    /\ request[c] = NoRequest
    /\ ~up[s]
    /\ outcome' = [outcome EXCEPT ![c] = "lost"]
    /\ UNCHANGED <<up, request, turn>>

Begin(i, s) ==
    /\ request[i] = [to |-> s, state |-> "asked"]
    /\ turn[s] = Nobody
    /\ request' = At(i, "executing")
    /\ turn' = [turn EXCEPT ![s] = i]
    /\ UNCHANGED <<up, outcome>>

End(i, s) ==
    /\ turn[s] = i /\ request[i].state = "executing"
    /\ request[s] = NoRequest
    /\ request' = At(i, "executed")
    /\ turn' = [turn EXCEPT ![s] = Nobody]
    /\ UNCHANGED <<up, outcome>>

\* A request that the server had not begun is lost or taken for done; one that
\* it had begun ends with whatever was in the memory of the reply.
Results(state) ==
    CASE state = "executed" -> {"answer"}
      [] state = "reset"    -> {"lost", "any"}
      [] state = "ended"    -> {"any"}
      [] OTHER              -> {}

Take(i) ==
    /\ Results(request[i].state) # {}
    /\ request' = [request EXCEPT ![i] = NoRequest]
    /\ IF i \in Clients
       THEN \E r \in Results(request[i].state) : outcome' = [outcome EXCEPT ![i] = r]
       ELSE UNCHANGED outcome
    /\ UNCHANGED <<up, turn>>

Broken(r) == [r EXCEPT !.state = CASE @ = "asked" -> "reset" [] @ = "executing" -> "ended" [] OTHER -> @]

\* The requests to the server break, and nobody waits for its own any more.
Kill(s) ==
    /\ up[s]
    /\ up' = [up EXCEPT ![s] = FALSE]
    /\ request' = [i \in Initiators |->
                     IF i = s THEN NoRequest
                     ELSE IF request[i].to = s THEN Broken(request[i]) ELSE request[i]]
    /\ turn' = [r \in Servers |-> IF r = s \/ turn[r] = s THEN Nobody ELSE turn[r]]
    /\ UNCHANGED outcome

Start(s) ==
    /\ ~up[s]
    /\ up' = [up EXCEPT ![s] = TRUE]
    /\ UNCHANGED <<request, turn, outcome>>

Next ==
    \/ \E i \in Initiators, s \in Servers : Ask(i, s) \/ Begin(i, s) \/ End(i, s)
    \/ \E c \in Clients, s \in Servers : Refuse(c, s)
    \/ \E i \in Initiators : Take(i)
    \/ \E s \in Servers : Kill(s) \/ Start(s)

Spec == Init /\ [][Next]_<<up, request, turn, outcome>>

=============================================================================
