------------------------------- MODULE EventLoop -------------------------------
(***************************************************************************)
(* server.c's loop over epoll events and protocol.c's requests: every      *)
(* request has a connection of its own, a server handles one connection at *)
(* a time until the other end closes it, and while it restores it makes    *)
(* requests itself and serves nobody.                                      *)
(*                                                                         *)
(* A message and the data after it are received as a whole.                *)
(***************************************************************************)
EXTENDS Integers, Sequences

CONSTANTS
    Clients, Servers,
    Asks,       \* bound: the requests that are made, <<client, server, kind, source>>
    MaxKills    \* bound: servers that are killed

Kinds == {"plain", "restore", "restoreall"}

ASSUME EventLoopAssumption ==
    /\ Asks \subseteq Clients \X Servers \X Kinds \X Servers
    /\ Clients \cap Servers = {}
    /\ {"none", "nobody", "listen_sock"} \cap (Clients \cup Servers) = {}
    /\ MaxKills \in Nat

VARIABLES
    conn,      \* the connections
    calls,     \* who asks -> the connection it waits on (its sock)
    server,    \* server -> the state of its loop
    outcome,   \* client -> how its last request ended
    kills

vars == <<conn, calls, server, outcome, kills>>

Initiators == Clients \cup Servers

\* A connection is not forgotten before both ends have closed it, so the same two
\* processes may have several.
Conn == Initiators \X Servers \X (0 .. MaxKills + 1)
NoConn == <<"none", "none", 0>>
Owner(k) == k[1]
To(k) == k[2]

\* done: the requests made so far on behalf of this one.
Connection == [state : {"free", "unread", "executing", "replied", "delivered", "reset", "ended"},
               closed : BOOLEAN,
               kind : Kinds, source : Servers, done : 0 .. 2]
Free == [state |-> "free", closed |-> FALSE, kind |-> "plain",
         source |-> CHOOSE s \in Servers : TRUE, done |-> 0]

Listen == <<"listen_sock", "none", 0>>
Dead == [up |-> FALSE, backlog |-> <<>>, edge |-> FALSE, ready |-> {}, events |-> {},
         sock |-> NoConn]

Loop == [up : BOOLEAN, backlog : Seq(Conn), edge : BOOLEAN, ready : SUBSET Conn,
         events : SUBSET (Conn \cup {Listen}), sock : Conn \cup {NoConn}]

TypeOK ==
    /\ conn \in [Conn -> Connection]
    /\ calls \in [Initiators -> Conn \cup {NoConn}]
    /\ server \in [Servers -> Loop]
    /\ outcome \in [Clients -> {"none", "answer", "lost", "any"}]
    /\ kills \in 0 .. MaxKills

Init ==
    /\ conn = [k \in Conn |-> Free]
    /\ calls = [i \in Initiators |-> NoConn]
    /\ server = [s \in Servers |-> [Dead EXCEPT !.up = TRUE]]
    /\ outcome = [c \in Clients |-> "none"]
    /\ kills = 0

-----------------------------------------------------------------------------
(* protocol.c: one end of a request.                                        *)

\* connect_to and send: the connection waits in the backlog of the server, and
\* its arrival is an event of the listening socket.
Connect(i, s, kind, source) ==
    /\ server[s].up
    /\ \E n \in 0 .. MaxKills + 1 :
          LET k == <<i, s, n>> IN
          /\ conn[k] = Free /\ \A m \in 0 .. n - 1 : conn[<<i, s, m>>] # Free
          /\ conn' = [conn EXCEPT ![k] = [Free EXCEPT !.state = "unread", !.kind = kind,
                                                      !.source = source]]
          /\ calls' = [calls EXCEPT ![i] = k]
          /\ server' = [server EXCEPT ![s].backlog = Append(@, k), ![s].edge = TRUE]
    /\ UNCHANGED <<outcome, kills>>

Ask(c, s, kind, source) ==
    /\ calls[c] = NoConn
    /\ Connect(c, s, kind, source)

\* connect() fails: ERRCONNECTION.
Refused(c, s) ==
    /\ calls[c] = NoConn
    /\ ~server[s].up
    /\ outcome' = [outcome EXCEPT ![c] = "lost"]
    /\ UNCHANGED <<conn, calls, server, kills>>

\* recv() has the reply; close().
Hangup(k) == [conn EXCEPT ![k] = IF @.state = "delivered" THEN Free ELSE [@ EXCEPT !.closed = TRUE]]

Received(i) == calls[i] # NoConn /\ conn[calls[i]].state \in {"replied", "delivered"}

TakeReply(c) ==
    /\ Received(c)
    /\ conn' = Hangup(calls[c])
    /\ calls' = [calls EXCEPT ![c] = NoConn]
    /\ outcome' = [outcome EXCEPT ![c] = "answer"]
    /\ UNCHANGED <<server, kills>>

\* The server died.  recv() fails on a request it had not read: a request for data
\* or with data says ERRCONNECTION, any other the (positive) number of the socket.
\* Of one it had read, recv() returns 0 and the reply is what malloc() returned.
Results(state) == CASE state = "reset" -> {"lost", "any"} [] state = "ended" -> {"any"} [] OTHER -> {}

TakeLoss(c) ==
    /\ calls[c] # NoConn
    /\ \E r \in Results(conn[calls[c]].state) : outcome' = [outcome EXCEPT ![c] = r]
    /\ conn' = [conn EXCEPT ![calls[c]] = Free]
    /\ calls' = [calls EXCEPT ![c] = NoConn]
    /\ UNCHANGED <<server, kills>>

-----------------------------------------------------------------------------
(* server.c: the loop.                                                      *)

Between(s) == server[s].up /\ server[s].sock = NoConn

\* Edge-triggered: an event is reported once, however many connections it stands
\* for.
EpollWait(s) ==
    /\ Between(s) /\ server[s].events = {}
    /\ server[s].edge \/ server[s].ready # {}
    /\ server' = [server EXCEPT ![s].edge = FALSE, ![s].ready = {},
                                ![s].events = server[s].ready \cup
                                              (IF server[s].edge THEN {Listen} ELSE {})]
    /\ UNCHANGED <<conn, calls, outcome, kills>>

\* Variant of Accept: what was sent before the socket is added makes no event.
AcceptUnready(s) ==
    /\ Between(s) /\ Listen \in server[s].events
    /\ server[s].backlog # <<>>
    /\ server' = [server EXCEPT ![s].events = @ \ {Listen}, ![s].backlog = Tail(@)]
    /\ UNCHANGED <<conn, calls, outcome, kills>>

\* One accept() for one event; what was sent already makes the new socket ready.
Accept(s) ==
    /\ Between(s) /\ Listen \in server[s].events
    /\ server[s].backlog # <<>>
    /\ server' = [server EXCEPT ![s].events = @ \ {Listen},
                                ![s].ready = @ \cup {Head(server[s].backlog)},
                                ![s].backlog = Tail(@)]
    /\ UNCHANGED <<conn, calls, outcome, kills>>

Serve(s) ==
    /\ Between(s)
    /\ \E k \in server[s].events \ {Listen} :
          server' = [server EXCEPT ![s].events = @ \ {k}, ![s].sock = k]
    /\ UNCHANGED <<conn, calls, outcome, kills>>

Socket(s, k) == server[s].up /\ server[s].sock = k /\ k # NoConn

GetMessage(s, k) ==
    /\ Socket(s, k) /\ conn[k].state = "unread"
    /\ conn' = [conn EXCEPT ![k].state = "executing"]
    /\ UNCHANGED <<calls, server, outcome, kills>>

Needs(kind) == CASE kind = "plain" -> 0 [] kind = "restore" -> 1 [] kind = "restoreall" -> 2

Executing(s, k) == Socket(s, k) /\ conn[k].state = "executing"
Handling(s, k) == Executing(s, k) /\ calls[s] = NoConn

\* Variants of Fetch: the server asks itself, and for one entry more than the
\* directory has.
FetchFromItself(s, k) ==
    /\ Handling(s, k) /\ conn[k].done < Needs(conn[k].kind)
    /\ Connect(s, s, "plain", s)
FetchOneMore(s, k) ==
    /\ Handling(s, k) /\ conn[k].done <= Needs(conn[k].kind)
    /\ Connect(s, conn[k].source, "plain", conn[k].source)

\* server_restore asks for the file, server_restoreall for the directory and for
\* what is in it.
Fetch(s, k) ==
    /\ Handling(s, k) /\ conn[k].done < Needs(conn[k].kind)
    /\ Connect(s, conn[k].source, "plain", conn[k].source)

Fetched(s, k) ==
    /\ Executing(s, k) /\ Received(s)
    /\ conn' = [Hangup(calls[s]) EXCEPT ![k].done = @ + 1]
    /\ calls' = [calls EXCEPT ![s] = NoConn]
    /\ UNCHANGED <<server, outcome, kills>>

NestedState(s) == IF calls[s] = NoConn THEN "free" ELSE conn[calls[s]].state

\* ERRCONNECTION for a request a server makes: the other server is not there, or
\* has died before it read the request.
FetchRefused(s, k) ==
    \/ /\ Handling(s, k) /\ conn[k].done < Needs(conn[k].kind)
       /\ ~server[conn[k].source].up
    \/ Executing(s, k) /\ NestedState(s) = "reset"

\* The other server died in the request: the reply is uninitialised memory.
Garbled(s, k) ==
    /\ Executing(s, k) /\ NestedState(s) = "ended"
    /\ conn' = [conn EXCEPT ![calls[s]] = Free, ![k].done = @ + 1]
    /\ calls' = [calls EXCEPT ![s] = NoConn]
    /\ UNCHANGED <<server, outcome, kills>>

Reply(s, k) ==
    /\ Handling(s, k) /\ conn[k].done = Needs(conn[k].kind)
    /\ conn' = [conn EXCEPT ![k].state = "replied"]
    /\ UNCHANGED <<calls, server, outcome, kills>>

\* get_message() returns NULL when the other end has closed the connection.
EndOfFile(s, k) ==
    /\ Socket(s, k) /\ conn[k].state = "replied" /\ conn[k].closed
    /\ conn' = [conn EXCEPT ![k] = Free]
    /\ server' = [server EXCEPT ![s].sock = NoConn]
    /\ UNCHANGED <<calls, outcome, kills>>

-----------------------------------------------------------------------------
(* The end of a server process.                                             *)

\* Variant of Broken: a request that was being executed counts as unread.
BrokenUnread(c) ==
    IF c.closed THEN Free
    ELSE [c EXCEPT !.state = CASE @ \in {"unread", "executing"} -> "reset"
                               [] @ = "replied" -> "delivered" [] OTHER -> @]

\* TCP resets a connection with bytes nobody read, and ends any other.
Broken(c) ==
    IF c.closed THEN Free
    ELSE [c EXCEPT !.state = CASE @ = "unread" -> "reset" [] @ = "executing" -> "ended"
                               [] @ = "replied" -> "delivered" [] OTHER -> @]

\* The requests the server had made are closed at its end.
Abandoned(c) ==
    IF c.state \in {"unread", "executing", "replied"} THEN [c EXCEPT !.closed = TRUE] ELSE Free

Dies(s) ==
    /\ conn' = [k \in Conn |-> IF To(k) = s /\ Owner(k) = s THEN Free
                               ELSE IF To(k) = s THEN Broken(conn[k])
                               ELSE IF Owner(k) = s THEN Abandoned(conn[k]) ELSE conn[k]]
    /\ calls' = [calls EXCEPT ![s] = NoConn]
    /\ server' = [server EXCEPT ![s] = Dead]
    /\ UNCHANGED outcome

Kill(s) ==
    /\ server[s].up /\ kills < MaxKills
    /\ kills' = kills + 1
    /\ Dies(s)

Start(s) ==
    /\ ~server[s].up
    /\ server' = [server EXCEPT ![s].up = TRUE]
    /\ UNCHANGED <<conn, calls, outcome, kills>>

\* ERRCONNECTION is used as an address: server_restoreall tests for it, and then
\* frees it.  What was in the memory of a reply may be used as one as well.
FetchLost(s, k) ==
    /\ FetchRefused(s, k) \/ (Executing(s, k) /\ NestedState(s) = "ended")
    /\ Dies(s) /\ UNCHANGED kills

\* SIGPIPE, which nobody handles: a reply with data is sent in two parts, and the
\* second finds that the other end is gone.
ReplyKills(s, k) ==
    /\ Handling(s, k) /\ conn[k].done = Needs(conn[k].kind)
    /\ Owner(k) \in Servers /\ conn[k].closed
    /\ Dies(s) /\ UNCHANGED kills

-----------------------------------------------------------------------------

ServerStep(s) ==
    \/ EpollWait(s) \/ Accept(s) \/ Serve(s)
    \/ \E k \in {server[s].sock} :
          \/ GetMessage(s, k) \/ Fetch(s, k) \/ Fetched(s, k) \/ Garbled(s, k)
          \/ Reply(s, k) \/ EndOfFile(s, k) \/ FetchLost(s, k) \/ ReplyKills(s, k)

Next ==
    \/ \E r \in Asks : Ask(r[1], r[2], r[3], r[4]) \/ Refused(r[1], r[2])
    \/ \E c \in Clients : TakeReply(c) \/ TakeLoss(c)
    \/ \E s \in Servers : ServerStep(s) \/ Kill(s) \/ Start(s)

Spec == Init /\ [][Next]_vars

\* The processes run: a server that has something to do does it, and a client
\* that has an answer takes it.  Nobody has to ask, and no server is restarted.
FairSpec ==
    /\ Spec
    /\ \A s \in Servers : WF_vars(ServerStep(s))
    /\ \A c \in Clients : WF_vars(TakeReply(c) \/ TakeLoss(c))

-----------------------------------------------------------------------------
(* Refinement.                                                              *)

Stage(state) ==
    CASE state = "unread" -> "asked" [] state \in {"replied", "delivered"} -> "executed"
      [] OTHER -> state

Request(i) ==
    IF calls[i] = NoConn THEN [to |-> "none", state |-> "idle"]
    ELSE [to |-> To(calls[i]), state |-> Stage(conn[calls[i]].state)]

\* Nobody waits for a request whose connection is closed at the other end.
Turn(s) ==
    LET k == server[s].sock IN
    IF k # NoConn /\ conn[k].state = "executing" /\ ~conn[k].closed THEN Owner(k) ELSE "nobody"

Abstract == INSTANCE Requests WITH
    up <- [s \in Servers |-> server[s].up],
    request <- [i \in Initiators |-> Request(i)],
    turn <- [s \in Servers |-> Turn(s)]

-----------------------------------------------------------------------------
(* Properties.                                                              *)

\* Through connections that outlive their processes, batches of events and nested
\* requests, a request is executed at most once, alone on its server, and is
\* called lost only if it was not: the grain of RaidStorage's requests.
ImplementsRequests == Abstract!Spec

WaitsFor(s, r) ==
    /\ calls[s] # NoConn
    /\ To(calls[s]) = r /\ conn[calls[s]].state \in {"unread", "executing"}

\* Servers that make requests serve nobody, so no group of them may wait for its
\* own members.
NoServersWaitForEachOther ==
    \A group \in (SUBSET Servers) \ {{}} :
        \E s \in group : \A r \in group : ~WaitsFor(s, r)

\* More connections wait than accept() will be called for.
Stranded(s) ==
    Len(server[s].backlog) > (IF server[s].edge THEN 1 ELSE 0)
                             + (IF Listen \in server[s].events THEN 1 ELSE 0)

Answered(c) == (calls[c] # NoConn) ~> (calls[c] = NoConn)

\* Every request comes to an end, whichever servers die, unless two connections
\* arrived for one event.
AnsweredUnlessStranded ==
    [](\A s \in Servers : ~Stranded(s)) => \A c \in Clients : Answered(c)

\* The protocol takes requests from several clients at the same time
\* (README.md:100) and the server uses epoll to execute them without hindrance
\* (README.md:183): every request is answered.
EveryRequestIsAnswered == \A c \in Clients : Answered(c)

=============================================================================
