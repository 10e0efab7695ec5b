---------------------------- MODULE EventLoopProofs ----------------------------
(***************************************************************************)
(* What EventLoop guarantees for every number of clients, servers and      *)
(* deaths.  The inductive invariant relates the two ends of a connection:  *)
(* the process that waits on it, and the queue or the loop of the server   *)
(* that has it.                                                            *)
(***************************************************************************)
EXTENDS EventLoop, TLAPS

\* Who waits, waits on an open connection of its own ...
CallersWaitOnTheirs ==
    \A i \in Initiators : calls[i] # NoConn =>
        Owner(calls[i]) = i /\ conn[calls[i]].state # "free" /\ ~conn[calls[i]].closed

\* ... and there is no other open connection of its own.
OpenIsWaitedOn ==
    \A k \in Conn : conn[k].state # "free" /\ ~conn[k].closed => calls[Owner(k)] = k

\* A server makes plain requests only.
ServersAskPlain == \A k \in Conn : Owner(k) \in Servers => conn[k].kind = "plain"

\* Only a server dies and leaves a request nobody waits for.
OnlyServersAbandon ==
    \A k \in Conn : conn[k].closed /\ conn[k].state \in {"unread", "executing"} => Owner(k) \in Servers

\* The connection a server is serving.
ServedIsOwn ==
    \A s \in Servers : server[s].sock # NoConn =>
        /\ To(server[s].sock) = s
        /\ conn[server[s].sock].state \in {"unread", "executing", "replied"}

\* A server asks in the middle of a request that still needs an answer.
AskingIsExecuting ==
    \A s \in Servers : calls[s] # NoConn =>
        LET k == server[s].sock IN
        /\ k # NoConn
        /\ conn[k].state = "executing" /\ conn[k].done < Needs(conn[k].kind)
        /\ To(calls[s]) = conn[k].source

\* What waits at a server is unread, and waits there once.
QueuedOnce ==
    \A s \in Servers :
        LET b == server[s].backlog
            r == server[s].ready
            e == server[s].events \ {Listen}
        IN  /\ \A k \in r \cup e : To(k) = s /\ conn[k].state = "unread" /\ k # server[s].sock
            /\ \A n \in 1 .. Len(b) : /\ To(b[n]) = s /\ conn[b[n]].state = "unread"
                                      /\ b[n] # server[s].sock /\ b[n] \notin r \cup e
            /\ \A m, n \in 1 .. Len(b) : b[m] = b[n] => m = n
            /\ r \cap e = {}

Inv ==
    /\ TypeOK
    /\ CallersWaitOnTheirs /\ OpenIsWaitedOn
    /\ ServersAskPlain /\ OnlyServersAbandon
    /\ ServedIsOwn /\ AskingIsExecuting /\ QueuedOnce

-----------------------------------------------------------------------------
(* The connections.                                                         *)

LEMMA Connections ==
    /\ \A k \in Conn : Owner(k) \in Initiators /\ To(k) \in Servers
    /\ \A i \in Initiators, s \in Servers, n \in 0 .. MaxKills + 1 :
          <<i, s, n>> \in Conn /\ Owner(<<i, s, n>>) = i /\ To(<<i, s, n>>) = s
    /\ NoConn \notin Conn /\ Listen \notin Conn
<1>1. \A k \in Conn : Owner(k) \in Initiators /\ To(k) \in Servers
  BY DEF Conn, Owner, To
<1>2. \A i \in Initiators, s \in Servers, n \in 0 .. MaxKills + 1 :
          <<i, s, n>> \in Conn /\ Owner(<<i, s, n>>) = i /\ To(<<i, s, n>>) = s
  BY DEF Conn, Owner, To
<1>3. Owner(NoConn) \notin Initiators /\ Owner(Listen) \notin Initiators
  BY EventLoopAssumption DEF Owner, NoConn, Listen, Initiators
<1> QED
  BY <1>1, <1>2, <1>3

LEMMA FreeIsAConnection == Conn # {} => Free \in Connection
<1> SUFFICES ASSUME NEW k \in Conn PROVE Free \in Connection
  OBVIOUS
<1>1. (CHOOSE s \in Servers : TRUE) \in Servers
  BY Connections
<1> QED
  BY <1>1 DEF Free, Connection, Kinds

-----------------------------------------------------------------------------
(* Every kind of step keeps the invariant.                                  *)

LEMMA Appended ==
    ASSUME NEW r \in Loop, NEW b \in Seq(Conn)
    PROVE  LET q == [r EXCEPT !.backlog = b, !.edge = TRUE]
           IN  /\ q \in Loop /\ q.backlog = b
               /\ q.ready = r.ready /\ q.events = r.events /\ q.sock = r.sock
  BY DEF Loop

\* A server whose queues are as they were, and whose unread connections are unread
\* still, or one that has no queues.
LEMMA QueuesStay ==
    ASSUME TypeOK, QueuedOnce, server' \in [Servers -> Loop],
           \A s \in Servers :
              \/ server'[s].backlog = <<>> /\ server'[s].ready = {} /\ server'[s].events = {}
              \/ /\ server'[s].backlog = server[s].backlog /\ server'[s].ready = server[s].ready
                 /\ server'[s].events = server[s].events
                 /\ server'[s].sock \in {server[s].sock, NoConn}
                 /\ \A k \in Conn : To(k) = s /\ conn[k].state = "unread" /\ k # server[s].sock
                                    => conn'[k].state = "unread"
    PROVE  QueuedOnce'
<1> SUFFICES ASSUME NEW s \in Servers
             PROVE  LET b == server'[s].backlog
                        r == server'[s].ready
                        e == server'[s].events \ {Listen}
                    IN  /\ \A k \in r \cup e : To(k) = s /\ conn'[k].state = "unread" /\ k # server'[s].sock
                        /\ \A n \in 1 .. Len(b) : /\ To(b[n]) = s /\ conn'[b[n]].state = "unread"
                                                  /\ b[n] # server'[s].sock /\ b[n] \notin r \cup e
                        /\ \A m, n \in 1 .. Len(b) : b[m] = b[n] => m = n
                        /\ r \cap e = {}
  BY DEF QueuedOnce
<1>1. CASE server'[s].backlog = <<>> /\ server'[s].ready = {} /\ server'[s].events = {}
  BY <1>1
<1>2. CASE /\ server'[s].backlog = server[s].backlog /\ server'[s].ready = server[s].ready
           /\ server'[s].events = server[s].events
           /\ server'[s].sock \in {server[s].sock, NoConn}
           /\ \A k \in Conn : To(k) = s /\ conn[k].state = "unread" /\ k # server[s].sock
                              => conn'[k].state = "unread"
  <2> DEFINE b == server[s].backlog
             r == server[s].ready
             e == server[s].events \ {Listen}
  <2>1. b \in Seq(Conn) /\ r \subseteq Conn /\ e \subseteq Conn
    BY DEF TypeOK, Loop
  <2>2. /\ \A k \in r \cup e : To(k) = s /\ conn[k].state = "unread" /\ k # server[s].sock
        /\ \A n \in 1 .. Len(b) : /\ To(b[n]) = s /\ conn[b[n]].state = "unread"
                                  /\ b[n] # server[s].sock /\ b[n] \notin r \cup e
        /\ \A m, n \in 1 .. Len(b) : b[m] = b[n] => m = n
        /\ r \cap e = {}
    BY DEF QueuedOnce
  <2>3. \A k \in Conn : To(k) = s /\ conn[k].state = "unread" /\ k # server[s].sock
                        => conn'[k].state = "unread" /\ k # server'[s].sock
    BY <1>2, Connections
  <2>4. \A n \in 1 .. Len(b) : b[n] \in Conn
    BY <2>1
  <2> HIDE DEF b, r, e
  <2>5. /\ \A k \in r \cup e : conn'[k].state = "unread" /\ k # server'[s].sock
        /\ \A n \in 1 .. Len(b) : conn'[b[n]].state = "unread" /\ b[n] # server'[s].sock
    BY <2>1, <2>2, <2>3, <2>4
  <2> QED
    BY <1>2, <2>2, <2>5 DEF b, r, e
<1> QED
  BY <1>1, <1>2

\* One server's loop takes a step.
LEMMA OneLoop ==
    ASSUME server \in [Servers -> Loop], NEW s \in Servers
    PROVE  server[s] \in Loop /\ \A l \in Loop : [server EXCEPT ![s] = l] \in [Servers -> Loop]
  OBVIOUS

\* A new connection waits in the backlog of its server, whoever made it.
LEMMA ConnectKeepsInv ==
    ASSUME Inv, NEW i \in Initiators, NEW s \in Servers, NEW kind \in Kinds, NEW source \in Servers,
           Connect(i, s, kind, source), calls[i] = NoConn,
           i \in Servers =>
               LET j == server[i].sock IN
               /\ kind = "plain"
               /\ j # NoConn
               /\ conn[j].state = "executing" /\ conn[j].done < Needs(conn[j].kind)
               /\ s = conn[j].source
    PROVE  Inv'
<1> USE Connections DEF Inv
<1> DEFINE new == [Free EXCEPT !.state = "unread", !.kind = kind, !.source = source]
<1>1. PICK n \in 0 .. MaxKills + 1 :
        LET k == <<i, s, n>> IN
        /\ conn[k] = Free
        /\ conn' = [conn EXCEPT ![k] = new]
        /\ calls' = [calls EXCEPT ![i] = k]
        /\ server' = [server EXCEPT ![s].backlog = Append(@, k), ![s].edge = TRUE]
  BY DEF Connect
<1> DEFINE k == <<i, s, n>>
<1>2. k \in Conn /\ Owner(k) = i /\ To(k) = s /\ k # NoConn /\ k # Listen
  BY <1>1
<1>3. new \in Connection /\ new.state = "unread" /\ ~new.closed /\ new.kind = kind
  BY <1>2, FreeIsAConnection DEF Connection, Kinds, Free
<1>4. conn[k].state = "free"
  BY <1>1 DEF Free
<1> HIDE DEF k, new
<1>5. /\ conn'[k] = new
      /\ \A j \in Conn \ {k} : conn'[j] = conn[j]
      /\ conn' \in [Conn -> Connection]
  BY <1>1, <1>2, <1>3 DEF TypeOK, k
<1>6. /\ calls'[i] = k
      /\ \A j \in Initiators \ {i} : calls'[j] = calls[j]
      /\ calls' \in [Initiators -> Conn \cup {NoConn}]
  BY <1>1, <1>2 DEF TypeOK, k
<1> DEFINE longer == Append(server[s].backlog, k)
<1>7. /\ server'[s] \in Loop /\ server'[s].backlog = longer
      /\ server'[s].ready = server[s].ready /\ server'[s].events = server[s].events
      /\ server'[s].sock = server[s].sock
      /\ server' = [server EXCEPT ![s] = server'[s]]
      /\ \A r \in Servers \ {s} : server'[r] = server[r]
  <2>1. server[s] \in Loop /\ server[s].backlog \in Seq(Conn) /\ longer \in Seq(Conn)
    BY <1>2 DEF TypeOK, Loop
  <2> DEFINE loop == [server[s] EXCEPT !.backlog = longer, !.edge = TRUE]
  <2>2. server' = [server EXCEPT ![s] = loop]
    BY <1>1 DEF k
  <2> HIDE DEF longer
  <2>3. /\ loop \in Loop /\ loop.backlog = longer
        /\ loop.ready = server[s].ready /\ loop.events = server[s].events /\ loop.sock = server[s].sock
    BY <2>1, Appended
  <2> HIDE DEF loop
  <2>4. server'[s] = loop /\ \A r \in Servers \ {s} : server'[r] = server[r]
    BY <2>2 DEF TypeOK
  <2> QED
    BY <2>2, <2>3, <2>4
<1> HIDE DEF longer
<1>8. TypeOK'
  <2>1. server' \in [Servers -> Loop]
    BY <1>7 DEF TypeOK
  <2> QED
    BY <1>5, <1>6, <2>1 DEF TypeOK, Connect
<1>9. CallersWaitOnTheirs'
  BY <1>2, <1>3, <1>4, <1>5, <1>6 DEF CallersWaitOnTheirs, TypeOK
<1>10. OpenIsWaitedOn'
  <2> SUFFICES ASSUME NEW j \in Conn, conn'[j].state # "free", ~conn'[j].closed
               PROVE  calls'[Owner(j)] = j
    BY DEF OpenIsWaitedOn
  <2>1. CASE j = k
    BY <2>1, <1>2, <1>6
  <2>2. CASE j # k
    <3>1. calls[Owner(j)] = j
      BY <2>2, <1>5 DEF OpenIsWaitedOn
    <3> QED
      BY <3>1, <1>6
  <2> QED
    BY <2>1, <2>2
<1>11. ServersAskPlain' /\ OnlyServersAbandon'
  BY <1>2, <1>3, <1>5 DEF ServersAskPlain, OnlyServersAbandon
<1>12. ServedIsOwn'
  <2> SUFFICES ASSUME NEW r \in Servers, server'[r].sock # NoConn
               PROVE  /\ To(server'[r].sock) = r
                      /\ conn'[server'[r].sock].state \in {"unread", "executing", "replied"}
    BY DEF ServedIsOwn
  <2>1. server'[r].sock = server[r].sock
    BY <1>7
  <2>2. server[r].sock \in Conn
    BY <2>1 DEF TypeOK, Loop
  <2> QED
    BY <2>1, <2>2, <1>4, <1>5 DEF ServedIsOwn
<1>13. AskingIsExecuting'
  <2> SUFFICES ASSUME NEW r \in Servers, calls'[r] # NoConn
               PROVE  LET j == server'[r].sock IN
                      /\ j # NoConn
                      /\ conn'[j].state = "executing" /\ conn'[j].done < Needs(conn'[j].kind)
                      /\ To(calls'[r]) = conn'[j].source
    BY DEF AskingIsExecuting
  <2>1. server'[r].sock = server[r].sock /\ server[r].sock \in Conn \cup {NoConn}
    BY <1>7 DEF TypeOK, Loop
  <2>2. CASE r = i
    <3>1. conn'[server[i].sock] = conn[server[i].sock]
      BY <2>1, <2>2, <1>4, <1>5
    <3> QED
      BY <3>1, <2>1, <2>2, <1>2, <1>6
  <2>3. CASE r # i
    <3>1. calls'[r] = calls[r] /\ calls[r] # NoConn
      BY <2>3, <1>6 DEF Initiators
    <3>2. conn'[server[r].sock] = conn[server[r].sock]
      BY <3>1, <2>1, <1>4, <1>5 DEF AskingIsExecuting
    <3> QED
      BY <3>1, <3>2, <2>1 DEF AskingIsExecuting
  <2> QED
    BY <2>2, <2>3
<1>14. QueuedOnce'
  <2> SUFFICES ASSUME NEW r \in Servers
               PROVE  LET b == server'[r].backlog
                          q == server'[r].ready
                          e == server'[r].events \ {Listen}
                      IN  /\ \A j \in q \cup e : To(j) = r /\ conn'[j].state = "unread" /\ j # server'[r].sock
                          /\ \A m \in 1 .. Len(b) : /\ To(b[m]) = r /\ conn'[b[m]].state = "unread"
                                                    /\ b[m] # server'[r].sock /\ b[m] \notin q \cup e
                          /\ \A l, m \in 1 .. Len(b) : b[l] = b[m] => l = m
                          /\ q \cap e = {}
    BY DEF QueuedOnce
  <2> DEFINE b == server[r].backlog
             q == server[r].ready
             e == server[r].events \ {Listen}
  <2>1. /\ server[r] \in Loop /\ b \in Seq(Conn) /\ q \cup e \subseteq Conn
        /\ \A m \in 1 .. Len(b) : b[m] \in Conn
    BY DEF TypeOK, Loop
  <2>2. /\ \A j \in q \cup e : To(j) = r /\ conn[j].state = "unread" /\ j # server[r].sock
        /\ \A m \in 1 .. Len(b) : /\ To(b[m]) = r /\ conn[b[m]].state = "unread"
                                  /\ b[m] # server[r].sock /\ b[m] \notin q \cup e
        /\ \A l, m \in 1 .. Len(b) : b[l] = b[m] => l = m
        /\ q \cap e = {}
    BY DEF QueuedOnce
  <2>3. /\ server'[r].ready = q /\ server'[r].events = server[r].events
        /\ server'[r].sock = server[r].sock
    BY <1>7
  <2>4. /\ \A j \in q \cup e : conn'[j] = conn[j] /\ j # k
        /\ \A m \in 1 .. Len(b) : conn'[b[m]] = conn[b[m]] /\ b[m] # k
        /\ k # server[r].sock
    BY <2>1, <2>2, <1>2, <1>4, <1>5 DEF ServedIsOwn
  <2>5. CASE r # s
    <3>1. server'[r].backlog = b
      BY <2>5, <1>7
    <3> QED
      BY <2>2, <2>3, <2>4, <3>1
  <2>6. CASE r = s
    <3>1. server'[r].backlog = Append(b, k)
      BY <2>6, <1>7 DEF longer
    <3>2. /\ Len(Append(b, k)) = Len(b) + 1 /\ Len(b) \in Nat
          /\ \A m \in 1 .. Len(b) : Append(b, k)[m] = b[m]
          /\ Append(b, k)[Len(b) + 1] = k
      BY <2>1
    <3>3. \A m \in 1 .. Len(b) + 1 : m \in 1 .. Len(b) \/ m = Len(b) + 1
      BY <3>2
    <3> HIDE DEF b, q, e
    <3> QED
      BY <2>2, <2>3, <2>4, <2>6, <3>1, <3>2, <3>3, <1>2, <1>3, <1>5 DEF e
  <2> QED
    BY <2>5, <2>6
<1> QED
  BY <1>8, <1>9, <1>10, <1>11, <1>12, <1>13, <1>14

LEMMA AskKeepsInv ==
    ASSUME Inv, NEW r \in Asks, Ask(r[1], r[2], r[3], r[4])
    PROVE  Inv'
<1>1. /\ r[1] \in Clients /\ r[1] \notin Servers
      /\ r[2] \in Servers /\ r[3] \in Kinds /\ r[4] \in Servers
  BY EventLoopAssumption
<1> QED
  BY <1>1, ConnectKeepsInv DEF Ask, Initiators

LEMMA RefusedKeepsInv ==
    ASSUME Inv, NEW c \in Clients, NEW s \in Servers, Refused(c, s)
    PROVE  Inv'
<1> USE Connections, FreeIsAConnection DEF Inv
<1>1. TypeOK'
  <2>1. conn' \in [Conn -> Connection]
    BY DEF TypeOK, Connection, Kinds, AskingIsExecuting, CallersWaitOnTheirs, ServedIsOwn,
       Refused
  <2>2. calls' \in [Initiators -> Conn \cup {NoConn}]
    BY DEF TypeOK, Initiators, Refused
  <2>3. server' \in [Servers -> Loop]
    BY DEF TypeOK, Loop, Refused
  <2>4. outcome' \in [Clients -> {"none", "answer", "lost", "any"}] /\ kills' \in 0 .. MaxKills
    BY DEF TypeOK, Refused
  <2> QED
    BY <2>1, <2>2, <2>3, <2>4 DEF TypeOK
<1>2. CallersWaitOnTheirs'
  BY DEF TypeOK, Loop, Connection, AskingIsExecuting, CallersWaitOnTheirs, ServedIsOwn,
     Refused, Initiators
<1>3. OpenIsWaitedOn'
  BY DEF TypeOK, Loop, Connection, AskingIsExecuting, CallersWaitOnTheirs, OpenIsWaitedOn, ServedIsOwn,
     Refused, Initiators
<1>4. ServersAskPlain'
  BY DEF TypeOK, Loop, Connection, AskingIsExecuting, CallersWaitOnTheirs, ServedIsOwn, ServersAskPlain,
     Refused, Initiators
<1>5. OnlyServersAbandon'
  BY DEF TypeOK, Loop, Connection, AskingIsExecuting, CallersWaitOnTheirs, OnlyServersAbandon, ServedIsOwn,
     Refused, Initiators
<1>6. ServedIsOwn'
  BY DEF TypeOK, Loop, Connection, AskingIsExecuting, CallersWaitOnTheirs, QueuedOnce, ServedIsOwn,
     Refused, Initiators
<1>7. AskingIsExecuting'
  <2> SUFFICES ASSUME NEW u \in Servers, calls'[u] # NoConn
               PROVE  LET j == server'[u].sock IN
                      /\ j # NoConn
                      /\ conn'[j].state = "executing" /\ conn'[j].done < Needs(conn'[j].kind)
                      /\ To(calls'[u]) = conn'[j].source
    BY DEF AskingIsExecuting
  <2> QED
    BY DEF TypeOK, Loop, Connection, AskingIsExecuting, CallersWaitOnTheirs, ServedIsOwn,
       Refused, Initiators
<1>8. QueuedOnce'
  <2>1. \A u \in Servers :
           \/ server'[u].backlog = <<>> /\ server'[u].ready = {} /\ server'[u].events = {}
           \/ /\ server'[u].backlog = server[u].backlog /\ server'[u].ready = server[u].ready
              /\ server'[u].events = server[u].events
              /\ server'[u].sock \in {server[u].sock, NoConn}
    BY DEF TypeOK, Loop, Refused
  <2>2. \A j \in Conn : conn[j].state = "unread" /\ j # server[To(j)].sock
                        => conn'[j].state = "unread"
    BY DEF TypeOK, Connection, Refused
  <2> QED
    BY <1>1, <2>1, <2>2, QueuesStay DEF TypeOK
<1> QED
  BY <1>1, <1>2, <1>3, <1>4, <1>5, <1>6, <1>7, <1>8

LEMMA TakeReplyKeepsInv ==
    ASSUME Inv, NEW c \in Clients, TakeReply(c)
    PROVE  Inv'
<1> USE Connections, FreeIsAConnection DEF Inv
<1>1. TypeOK'
  <2>1. conn' \in [Conn -> Connection]
    <3>1. calls[c] \in Conn /\ conn[calls[c]] \in Connection
      BY DEF TypeOK, TakeReply, Received, Initiators
    <3>2. Free \in Connection /\ [conn[calls[c]] EXCEPT !.closed = TRUE] \in Connection
      BY <3>1 DEF Connection
    <3> QED
      BY <3>1, <3>2 DEF TakeReply, Hangup, TypeOK
  <2>2. calls' \in [Initiators -> Conn \cup {NoConn}]
    BY DEF TypeOK, Initiators, TakeReply, Received, Hangup, Free
  <2>3. server' \in [Servers -> Loop]
    BY DEF TypeOK, Loop, TakeReply, Received, Hangup, Free
  <2>4. outcome' \in [Clients -> {"none", "answer", "lost", "any"}] /\ kills' \in 0 .. MaxKills
    BY DEF TypeOK, TakeReply, Received, Hangup, Free
  <2> QED
    BY <2>1, <2>2, <2>3, <2>4 DEF TypeOK
<1>2. CallersWaitOnTheirs'
  BY DEF TypeOK, Loop, Connection, AskingIsExecuting, CallersWaitOnTheirs, ServedIsOwn,
     TakeReply, Received, Hangup, Free, Initiators
<1>3. OpenIsWaitedOn'
  BY DEF TypeOK, Loop, Connection, AskingIsExecuting, CallersWaitOnTheirs, OpenIsWaitedOn, ServedIsOwn,
     TakeReply, Received, Hangup, Free, Initiators
<1>4. ServersAskPlain'
  BY DEF TypeOK, Loop, Connection, AskingIsExecuting, CallersWaitOnTheirs, ServedIsOwn, ServersAskPlain,
     TakeReply, Received, Hangup, Free, Initiators
<1>5. OnlyServersAbandon'
  BY DEF TypeOK, Loop, Connection, AskingIsExecuting, CallersWaitOnTheirs, OnlyServersAbandon, ServedIsOwn,
     TakeReply, Received, Hangup, Free, Initiators
<1>6. ServedIsOwn'
  BY DEF TypeOK, Loop, Connection, AskingIsExecuting, CallersWaitOnTheirs, QueuedOnce, ServedIsOwn,
     TakeReply, Received, Hangup, Free, Initiators
<1>7. AskingIsExecuting'
  <2> SUFFICES ASSUME NEW u \in Servers, calls'[u] # NoConn
               PROVE  LET j == server'[u].sock IN
                      /\ j # NoConn
                      /\ conn'[j].state = "executing" /\ conn'[j].done < Needs(conn'[j].kind)
                      /\ To(calls'[u]) = conn'[j].source
    BY DEF AskingIsExecuting
  <2> QED
    BY DEF TypeOK, Loop, Connection, AskingIsExecuting, CallersWaitOnTheirs, ServedIsOwn,
       TakeReply, Received, Hangup, Free, Initiators
<1>8. QueuedOnce'
  <2>1. \A u \in Servers :
           \/ server'[u].backlog = <<>> /\ server'[u].ready = {} /\ server'[u].events = {}
           \/ /\ server'[u].backlog = server[u].backlog /\ server'[u].ready = server[u].ready
              /\ server'[u].events = server[u].events
              /\ server'[u].sock \in {server[u].sock, NoConn}
    BY DEF TypeOK, Loop, TakeReply, Received, Hangup
  <2>2. \A j \in Conn : conn[j].state = "unread" /\ j # server[To(j)].sock
                        => conn'[j].state = "unread"
    BY DEF TypeOK, Connection, TakeReply, Received, Hangup
  <2> QED
    BY <1>1, <2>1, <2>2, QueuesStay DEF TypeOK
<1> QED
  BY <1>1, <1>2, <1>3, <1>4, <1>5, <1>6, <1>7, <1>8

LEMMA TakeLossKeepsInv ==
    ASSUME Inv, NEW c \in Clients, TakeLoss(c)
    PROVE  Inv'
<1> USE Connections, FreeIsAConnection DEF Inv
<1>1. TypeOK'
  <2>1. conn' \in [Conn -> Connection]
    BY DEF TypeOK, Connection, Kinds, AskingIsExecuting, CallersWaitOnTheirs, ServedIsOwn,
       TakeLoss, Results, Free
  <2>2. calls' \in [Initiators -> Conn \cup {NoConn}]
    BY DEF TypeOK, Initiators, TakeLoss, Results, Free
  <2>3. server' \in [Servers -> Loop]
    BY DEF TypeOK, Loop, TakeLoss, Results, Free
  <2>4. outcome' \in [Clients -> {"none", "answer", "lost", "any"}] /\ kills' \in 0 .. MaxKills
    BY DEF TypeOK, TakeLoss, Results, Free
  <2> QED
    BY <2>1, <2>2, <2>3, <2>4 DEF TypeOK
<1>2. CallersWaitOnTheirs'
  BY DEF TypeOK, Loop, Connection, AskingIsExecuting, CallersWaitOnTheirs, ServedIsOwn,
     TakeLoss, Results, Free, Initiators
<1>3. OpenIsWaitedOn'
  BY DEF TypeOK, Loop, Connection, AskingIsExecuting, CallersWaitOnTheirs, OpenIsWaitedOn, ServedIsOwn,
     TakeLoss, Results, Free, Initiators
<1>4. ServersAskPlain'
  BY DEF TypeOK, Loop, Connection, AskingIsExecuting, CallersWaitOnTheirs, ServedIsOwn, ServersAskPlain,
     TakeLoss, Results, Free, Initiators
<1>5. OnlyServersAbandon'
  BY DEF TypeOK, Loop, Connection, AskingIsExecuting, CallersWaitOnTheirs, OnlyServersAbandon, ServedIsOwn,
     TakeLoss, Results, Free, Initiators
<1>6. ServedIsOwn'
  BY DEF TypeOK, Loop, Connection, AskingIsExecuting, CallersWaitOnTheirs, QueuedOnce, ServedIsOwn,
     TakeLoss, Results, Free, Initiators
<1>7. AskingIsExecuting'
  <2> SUFFICES ASSUME NEW u \in Servers, calls'[u] # NoConn
               PROVE  LET j == server'[u].sock IN
                      /\ j # NoConn
                      /\ conn'[j].state = "executing" /\ conn'[j].done < Needs(conn'[j].kind)
                      /\ To(calls'[u]) = conn'[j].source
    BY DEF AskingIsExecuting
  <2> QED
    BY DEF TypeOK, Loop, Connection, AskingIsExecuting, CallersWaitOnTheirs, ServedIsOwn,
       TakeLoss, Results, Free, Initiators
<1>8. QueuedOnce'
  <2>1. \A u \in Servers :
           \/ server'[u].backlog = <<>> /\ server'[u].ready = {} /\ server'[u].events = {}
           \/ /\ server'[u].backlog = server[u].backlog /\ server'[u].ready = server[u].ready
              /\ server'[u].events = server[u].events
              /\ server'[u].sock \in {server[u].sock, NoConn}
    BY DEF TypeOK, Loop, TakeLoss, Results
  <2>2. \A j \in Conn : conn[j].state = "unread" /\ j # server[To(j)].sock
                        => conn'[j].state = "unread"
    BY DEF TypeOK, Connection, TakeLoss, Results
  <2> QED
    BY <1>1, <2>1, <2>2, QueuesStay DEF TypeOK
<1> QED
  BY <1>1, <1>2, <1>3, <1>4, <1>5, <1>6, <1>7, <1>8

LEMMA EpollWaitKeepsInv ==
    ASSUME Inv, NEW s \in Servers, EpollWait(s)
    PROVE  Inv'
<1> USE Connections, FreeIsAConnection DEF Inv
<1>1. TypeOK'
  <2>1. conn' \in [Conn -> Connection]
    BY DEF TypeOK, Connection, Kinds, AskingIsExecuting, CallersWaitOnTheirs, ServedIsOwn,
       EpollWait, Between
  <2>2. calls' \in [Initiators -> Conn \cup {NoConn}]
    BY DEF TypeOK, Initiators, EpollWait, Between
  <2>3. server' \in [Servers -> Loop]
    <3>1. server[s] \in Loop
      BY OneLoop DEF TypeOK
    <3>2. [server[s] EXCEPT !.edge = FALSE, !.ready = {},
                                !.events = server[s].ready \cup
                                           (IF server[s].edge THEN {Listen} ELSE {})] \in Loop
      BY <3>1 DEF Loop
    <3> QED
      BY <3>2, OneLoop DEF TypeOK, EpollWait
  <2>4. outcome' \in [Clients -> {"none", "answer", "lost", "any"}] /\ kills' \in 0 .. MaxKills
    BY DEF TypeOK, EpollWait, Between
  <2> QED
    BY <2>1, <2>2, <2>3, <2>4 DEF TypeOK
<1>2. CallersWaitOnTheirs'
  BY DEF TypeOK, Loop, Connection, AskingIsExecuting, CallersWaitOnTheirs, ServedIsOwn,
     EpollWait, Between, Initiators
<1>3. OpenIsWaitedOn'
  BY DEF TypeOK, Loop, Connection, AskingIsExecuting, CallersWaitOnTheirs, OpenIsWaitedOn, ServedIsOwn,
     EpollWait, Between, Initiators
<1>4. ServersAskPlain'
  BY DEF TypeOK, Loop, Connection, AskingIsExecuting, CallersWaitOnTheirs, ServedIsOwn, ServersAskPlain,
     EpollWait, Between, Initiators
<1>5. OnlyServersAbandon'
  BY DEF TypeOK, Loop, Connection, AskingIsExecuting, CallersWaitOnTheirs, OnlyServersAbandon, ServedIsOwn,
     EpollWait, Between, Initiators
<1>6. ServedIsOwn'
  BY DEF TypeOK, Loop, Connection, AskingIsExecuting, CallersWaitOnTheirs, QueuedOnce, ServedIsOwn,
     EpollWait, Between, Initiators
<1>7. AskingIsExecuting'
  <2> SUFFICES ASSUME NEW u \in Servers, calls'[u] # NoConn
               PROVE  LET j == server'[u].sock IN
                      /\ j # NoConn
                      /\ conn'[j].state = "executing" /\ conn'[j].done < Needs(conn'[j].kind)
                      /\ To(calls'[u]) = conn'[j].source
    BY DEF AskingIsExecuting
  <2> QED
    BY DEF TypeOK, Loop, Connection, AskingIsExecuting, CallersWaitOnTheirs, ServedIsOwn,
       EpollWait, Between, Initiators
<1>8. QueuedOnce'
  <2>1. /\ server'[s].ready = {} /\ server'[s].backlog = server[s].backlog
        /\ server'[s].sock = server[s].sock
        /\ server'[s].events \ {Listen} = server[s].ready \ {Listen}
        /\ \A r \in Servers \ {s} : server'[r] = server[r]
    BY DEF EpollWait, Between, TypeOK, Loop
  <2>2. conn' = conn
    BY DEF EpollWait
  <2> SUFFICES ASSUME NEW u \in Servers
               PROVE  LET b == server'[u].backlog
                          r == server'[u].ready
                          e == server'[u].events \ {Listen}
                      IN  /\ \A k \in r \cup e : To(k) = u /\ conn'[k].state = "unread" /\ k # server'[u].sock
                          /\ \A n \in 1 .. Len(b) : /\ To(b[n]) = u /\ conn'[b[n]].state = "unread"
                                                    /\ b[n] # server'[u].sock /\ b[n] \notin r \cup e
                          /\ \A m, n \in 1 .. Len(b) : b[m] = b[n] => m = n
                          /\ r \cap e = {}
    BY DEF QueuedOnce
  <2>3. CASE u # s
    BY <2>1, <2>2, <2>3 DEF QueuedOnce
  <2>4. CASE u = s
    <3>1. LET b == server[s].backlog
              r == server[s].ready
          IN  /\ \A k \in r : To(k) = s /\ conn[k].state = "unread" /\ k # server[s].sock
              /\ \A n \in 1 .. Len(b) : /\ To(b[n]) = s /\ conn[b[n]].state = "unread"
                                        /\ b[n] # server[s].sock /\ b[n] \notin r
              /\ \A m, n \in 1 .. Len(b) : b[m] = b[n] => m = n
      BY DEF QueuedOnce
    <3> QED
      BY <2>1, <2>2, <2>4, <3>1
  <2> QED
    BY <2>3, <2>4
<1> QED
  BY <1>1, <1>2, <1>3, <1>4, <1>5, <1>6, <1>7, <1>8

LEMMA AcceptKeepsInv ==
    ASSUME Inv, NEW s \in Servers, Accept(s)
    PROVE  Inv'
<1> USE Connections, FreeIsAConnection DEF Inv
<1>1. TypeOK'
  <2>1. conn' \in [Conn -> Connection]
    BY DEF TypeOK, Connection, Kinds, AskingIsExecuting, CallersWaitOnTheirs, ServedIsOwn,
       Accept, Between
  <2>2. calls' \in [Initiators -> Conn \cup {NoConn}]
    BY DEF TypeOK, Initiators, Accept, Between
  <2>3. server' \in [Servers -> Loop]
    BY DEF TypeOK, Loop, Accept, Between
  <2>4. outcome' \in [Clients -> {"none", "answer", "lost", "any"}] /\ kills' \in 0 .. MaxKills
    BY DEF TypeOK, Accept, Between
  <2> QED
    BY <2>1, <2>2, <2>3, <2>4 DEF TypeOK
<1>2. CallersWaitOnTheirs'
  BY DEF TypeOK, Loop, Connection, AskingIsExecuting, CallersWaitOnTheirs, ServedIsOwn,
     Accept, Between, Initiators
<1>3. OpenIsWaitedOn'
  BY DEF TypeOK, Loop, Connection, AskingIsExecuting, CallersWaitOnTheirs, OpenIsWaitedOn, ServedIsOwn,
     Accept, Between, Initiators
<1>4. ServersAskPlain'
  BY DEF TypeOK, Loop, Connection, AskingIsExecuting, CallersWaitOnTheirs, ServedIsOwn, ServersAskPlain,
     Accept, Between, Initiators
<1>5. OnlyServersAbandon'
  BY DEF TypeOK, Loop, Connection, AskingIsExecuting, CallersWaitOnTheirs, OnlyServersAbandon, ServedIsOwn,
     Accept, Between, Initiators
<1>6. ServedIsOwn'
  BY DEF TypeOK, Loop, Connection, AskingIsExecuting, CallersWaitOnTheirs, QueuedOnce, ServedIsOwn,
     Accept, Between, Initiators
<1>7. AskingIsExecuting'
  <2> SUFFICES ASSUME NEW u \in Servers, calls'[u] # NoConn
               PROVE  LET j == server'[u].sock IN
                      /\ j # NoConn
                      /\ conn'[j].state = "executing" /\ conn'[j].done < Needs(conn'[j].kind)
                      /\ To(calls'[u]) = conn'[j].source
    BY DEF AskingIsExecuting
  <2> QED
    BY DEF TypeOK, Loop, Connection, AskingIsExecuting, CallersWaitOnTheirs, ServedIsOwn,
       Accept, Between, Initiators
<1>8. QueuedOnce'
  <2> DEFINE b == server[s].backlog
             q == server[s].ready
             e == server[s].events \ {Listen}
  <2>1. /\ b \in Seq(Conn) /\ b # <<>> /\ conn' = conn
        /\ server'[s].ready = q \cup {Head(b)} /\ server'[s].backlog = Tail(b)
        /\ server'[s].sock = server[s].sock
        /\ server'[s].events \ {Listen} = e
        /\ \A r \in Servers \ {s} : server'[r] = server[r]
    BY DEF Accept, Between, TypeOK, Loop
  <2>2. /\ Head(b) = b[1] /\ 1 \in 1 .. Len(b) /\ Len(b) \in Nat
        /\ Len(Tail(b)) = Len(b) - 1
        /\ \A n \in 1 .. Len(Tail(b)) : Tail(b)[n] = b[n + 1] /\ n + 1 \in 1 .. Len(b)
    BY <2>1
  <2>3. /\ \A k \in q \cup e : To(k) = s /\ conn[k].state = "unread" /\ k # server[s].sock
        /\ \A n \in 1 .. Len(b) : /\ To(b[n]) = s /\ conn[b[n]].state = "unread"
                                  /\ b[n] # server[s].sock /\ b[n] \notin q \cup e
        /\ \A m, n \in 1 .. Len(b) : b[m] = b[n] => m = n
        /\ q \cap e = {}
    BY DEF QueuedOnce
  <2> SUFFICES ASSUME NEW r \in Servers
               PROVE  LET c == server'[r].backlog
                          p == server'[r].ready
                          f == server'[r].events \ {Listen}
                      IN  /\ \A k \in p \cup f : To(k) = r /\ conn'[k].state = "unread" /\ k # server'[r].sock
                          /\ \A n \in 1 .. Len(c) : /\ To(c[n]) = r /\ conn'[c[n]].state = "unread"
                                                    /\ c[n] # server'[r].sock /\ c[n] \notin p \cup f
                          /\ \A m, n \in 1 .. Len(c) : c[m] = c[n] => m = n
                          /\ p \cap f = {}
    BY DEF QueuedOnce
  <2>4. CASE r # s
    <3>1. LET c == server[r].backlog
              p == server[r].ready
              f == server[r].events \ {Listen}
          IN  /\ \A k \in p \cup f : To(k) = r /\ conn[k].state = "unread" /\ k # server[r].sock
              /\ \A n \in 1 .. Len(c) : /\ To(c[n]) = r /\ conn[c[n]].state = "unread"
                                        /\ c[n] # server[r].sock /\ c[n] \notin p \cup f
              /\ \A m, n \in 1 .. Len(c) : c[m] = c[n] => m = n
              /\ p \cap f = {}
      BY DEF QueuedOnce
    <3> QED
      BY <2>1, <2>4, <3>1
  <2>5. CASE r = s
    <3>1. \A n \in 1 .. Len(Tail(b)) : Tail(b)[n] # Head(b)
      BY <2>2, <2>3
    <3>2. \A m, n \in 1 .. Len(Tail(b)) : Tail(b)[m] = Tail(b)[n] => m = n
      BY <2>2, <2>3
    <3> DEFINE c == server'[s].backlog
               p == server'[s].ready
               f == server'[s].events \ {Listen}
    <3>3. c = Tail(b) /\ p = q \cup {Head(b)} /\ f = e /\ server'[s].sock = server[s].sock
      BY <2>1
    <3> HIDE DEF b, q, e, c, p, f
    <3>4. \A k \in p \cup f : To(k) = s /\ conn[k].state = "unread" /\ k # server[s].sock
      BY <2>2, <2>3, <3>3
    <3>5. \A n \in 1 .. Len(Tail(b)) : /\ To(Tail(b)[n]) = s /\ conn[Tail(b)[n]].state = "unread"
                                      /\ Tail(b)[n] # server[s].sock /\ Tail(b)[n] \notin q \cup e
      BY <2>2, <2>3
    <3>6. \A n \in 1 .. Len(c) : /\ To(c[n]) = s /\ conn[c[n]].state = "unread"
                                /\ c[n] # server'[s].sock /\ c[n] \notin p \cup f
      BY <3>1, <3>3, <3>5
    <3>7. \A m, n \in 1 .. Len(c) : c[m] = c[n] => m = n
      BY <3>2, <3>3
    <3>8. p \cap f = {}
      BY <2>2, <2>3, <3>3
    <3> QED
      BY <2>1, <2>5, <3>3, <3>4, <3>6, <3>7, <3>8 DEF c, p, f
  <2> QED
    BY <2>4, <2>5
<1> QED
  BY <1>1, <1>2, <1>3, <1>4, <1>5, <1>6, <1>7, <1>8

LEMMA ServeKeepsInv ==
    ASSUME Inv, NEW s \in Servers, Serve(s)
    PROVE  Inv'
<1> USE Connections, FreeIsAConnection DEF Inv
<1>1. TypeOK'
  <2>1. conn' \in [Conn -> Connection]
    BY DEF TypeOK, Connection, Kinds, AskingIsExecuting, CallersWaitOnTheirs, ServedIsOwn,
       Serve, Between
  <2>2. calls' \in [Initiators -> Conn \cup {NoConn}]
    BY DEF TypeOK, Initiators, Serve, Between
  <2>3. server' \in [Servers -> Loop]
    <3>1. PICK k \in server[s].events \ {Listen} :
            server' = [server EXCEPT ![s].events = @ \ {k}, ![s].sock = k]
      BY DEF Serve
    <3>2. server[s] \in Loop /\ k \in Conn
      BY DEF TypeOK, Loop
    <3>3. [server[s] EXCEPT !.events = @ \ {k}, !.sock = k] \in Loop
      BY <3>2 DEF Loop
    <3> QED
      BY <3>1, <3>3 DEF TypeOK
  <2>4. outcome' \in [Clients -> {"none", "answer", "lost", "any"}] /\ kills' \in 0 .. MaxKills
    BY DEF TypeOK, Serve, Between
  <2> QED
    BY <2>1, <2>2, <2>3, <2>4 DEF TypeOK
<1>2. CallersWaitOnTheirs'
  BY DEF TypeOK, Loop, Connection, AskingIsExecuting, CallersWaitOnTheirs, ServedIsOwn,
     Serve, Between, Initiators
<1>3. OpenIsWaitedOn'
  BY DEF TypeOK, Loop, Connection, AskingIsExecuting, CallersWaitOnTheirs, OpenIsWaitedOn, ServedIsOwn,
     Serve, Between, Initiators
<1>4. ServersAskPlain'
  BY DEF TypeOK, Loop, Connection, AskingIsExecuting, CallersWaitOnTheirs, ServedIsOwn, ServersAskPlain,
     Serve, Between, Initiators
<1>5. OnlyServersAbandon'
  BY DEF TypeOK, Loop, Connection, AskingIsExecuting, CallersWaitOnTheirs, OnlyServersAbandon, ServedIsOwn,
     Serve, Between, Initiators
<1>6. ServedIsOwn'
  BY DEF TypeOK, Loop, Connection, AskingIsExecuting, CallersWaitOnTheirs, QueuedOnce, ServedIsOwn,
     Serve, Between, Initiators
<1>7. AskingIsExecuting'
  <2> SUFFICES ASSUME NEW u \in Servers, calls'[u] # NoConn
               PROVE  LET j == server'[u].sock IN
                      /\ j # NoConn
                      /\ conn'[j].state = "executing" /\ conn'[j].done < Needs(conn'[j].kind)
                      /\ To(calls'[u]) = conn'[j].source
    BY DEF AskingIsExecuting
  <2> QED
    BY DEF TypeOK, Loop, Connection, AskingIsExecuting, CallersWaitOnTheirs, ServedIsOwn,
       Serve, Between, Initiators
<1>8. QueuedOnce'
  BY DEF TypeOK, Loop, Connection, AskingIsExecuting, CallersWaitOnTheirs, QueuedOnce, ServedIsOwn,
     Serve, Between, Initiators
<1> QED
  BY <1>1, <1>2, <1>3, <1>4, <1>5, <1>6, <1>7, <1>8

LEMMA GetMessageKeepsInv ==
    ASSUME Inv, NEW s \in Servers, NEW k \in {server[s].sock}, GetMessage(s, k)
    PROVE  Inv'
<1> USE Connections, FreeIsAConnection DEF Inv
<1>1. TypeOK'
  <2>1. conn' \in [Conn -> Connection]
    <3>1. k \in Conn /\ conn[k] \in Connection
      BY DEF TypeOK, GetMessage, Socket, Loop
    <3>2. [conn[k] EXCEPT !.state = "executing"] \in Connection
      BY <3>1 DEF Connection
    <3> QED
      BY <3>1, <3>2 DEF GetMessage, TypeOK
  <2>2. calls' \in [Initiators -> Conn \cup {NoConn}]
    BY DEF TypeOK, Initiators, GetMessage, Socket
  <2>3. server' \in [Servers -> Loop]
    BY DEF TypeOK, Loop, GetMessage, Socket
  <2>4. outcome' \in [Clients -> {"none", "answer", "lost", "any"}] /\ kills' \in 0 .. MaxKills
    BY DEF TypeOK, GetMessage, Socket
  <2> QED
    BY <2>1, <2>2, <2>3, <2>4 DEF TypeOK
<1>2. CallersWaitOnTheirs'
  BY DEF TypeOK, Loop, Connection, AskingIsExecuting, CallersWaitOnTheirs, ServedIsOwn,
     GetMessage, Socket, Initiators
<1>3. OpenIsWaitedOn'
  BY DEF TypeOK, Loop, Connection, AskingIsExecuting, CallersWaitOnTheirs, OpenIsWaitedOn, ServedIsOwn,
     GetMessage, Socket, Initiators
<1>4. ServersAskPlain'
  BY DEF TypeOK, Loop, Connection, AskingIsExecuting, CallersWaitOnTheirs, ServedIsOwn, ServersAskPlain,
     GetMessage, Socket, Initiators
<1>5. OnlyServersAbandon'
  BY DEF TypeOK, Loop, Connection, AskingIsExecuting, CallersWaitOnTheirs, OnlyServersAbandon, ServedIsOwn,
     GetMessage, Socket, Initiators
<1>6. ServedIsOwn'
  BY DEF TypeOK, Loop, Connection, AskingIsExecuting, CallersWaitOnTheirs, QueuedOnce, ServedIsOwn,
     GetMessage, Socket, Initiators
<1>7. AskingIsExecuting'
  <2> SUFFICES ASSUME NEW u \in Servers, calls'[u] # NoConn
               PROVE  LET j == server'[u].sock IN
                      /\ j # NoConn
                      /\ conn'[j].state = "executing" /\ conn'[j].done < Needs(conn'[j].kind)
                      /\ To(calls'[u]) = conn'[j].source
    BY DEF AskingIsExecuting
  <2> QED
    BY DEF TypeOK, Loop, Connection, AskingIsExecuting, CallersWaitOnTheirs, ServedIsOwn,
       GetMessage, Socket, Initiators
<1>8. QueuedOnce'
  <2>1. \A u \in Servers :
           \/ server'[u].backlog = <<>> /\ server'[u].ready = {} /\ server'[u].events = {}
           \/ /\ server'[u].backlog = server[u].backlog /\ server'[u].ready = server[u].ready
              /\ server'[u].events = server[u].events
              /\ server'[u].sock \in {server[u].sock, NoConn}
    BY DEF TypeOK, Loop, GetMessage, Socket
  <2>2. \A j \in Conn : conn[j].state = "unread" /\ j # server[To(j)].sock
                        => conn'[j].state = "unread"
    BY DEF TypeOK, Connection, ServedIsOwn, GetMessage, Socket
  <2> QED
    BY <1>1, <2>1, <2>2, QueuesStay DEF TypeOK
<1> QED
  BY <1>1, <1>2, <1>3, <1>4, <1>5, <1>6, <1>7, <1>8

LEMMA FetchKeepsInv ==
    ASSUME Inv, NEW s \in Servers, Fetch(s, server[s].sock)
    PROVE  Inv'
<1> DEFINE k == server[s].sock
<1>1. /\ k # NoConn /\ k \in Conn /\ calls[s] = NoConn
      /\ conn[k].state = "executing" /\ conn[k].done < Needs(conn[k].kind)
      /\ Connect(s, conn[k].source, "plain", conn[k].source)
  BY DEF Fetch, Handling, Executing, Socket, Inv, TypeOK, Loop
<1>2. conn[k].source \in Servers
  BY <1>1 DEF Inv, TypeOK, Connection
<1> QED
  BY <1>1, <1>2, ConnectKeepsInv DEF Initiators, Kinds

\* The request that a server made ends: its connection is free, or waits for the
\* other end.  The server goes on with the request it is executing.
LEMMA NestedEndKeepsInv ==
    ASSUME Inv, NEW s \in Servers, NEW k \in Conn, k = server[s].sock,
           conn[k].state = "executing", calls[s] # NoConn,
           conn[calls[s]].state \notin {"unread", "executing"},
           NEW done \in 0 .. 2,
           conn' \in [Conn -> Connection],
           conn'[k] = [conn[k] EXCEPT !.done = done],
           \A j \in Conn \ {k, calls[s]} : conn'[j] = conn[j],
           \/ conn'[calls[s]].state = "free" /\ conn[calls[s]].state # "replied"
           \/ conn[calls[s]].state = "replied" /\ conn'[calls[s]] = [conn[calls[s]] EXCEPT !.closed = TRUE],
           ServersAskPlain', conn'[calls[s]].state \notin {"unread", "executing"},
           calls' = [calls EXCEPT ![s] = NoConn],
           UNCHANGED <<server, outcome, kills>>
    PROVE  Inv'
<1> USE Connections DEF Inv
<1> DEFINE c == calls[s]
<1>1. c \in Conn /\ Owner(c) = s /\ c # k /\ s \in Initiators
  BY DEF TypeOK, CallersWaitOnTheirs, Initiators
<1>2. /\ conn[k] \in Connection /\ conn'[k].state = "executing" /\ conn'[k].closed = conn[k].closed
      /\ conn'[k].source = conn[k].source /\ conn'[k].kind = conn[k].kind
  BY DEF TypeOK, Connection
<1>3. /\ calls'[s] = NoConn /\ \A i \in Initiators \ {s} : calls'[i] = calls[i]
      /\ calls' \in [Initiators -> Conn \cup {NoConn}]
  BY <1>1 DEF TypeOK
<1>4. conn'[c].state = "free" \/ conn'[c].closed
  BY <1>1 DEF TypeOK, Connection
<1>5. \A j \in Conn \ {c} : conn'[j].state = conn[j].state /\ conn'[j].closed = conn[j].closed
  BY <1>2
<1>6. TypeOK'
  BY <1>3 DEF TypeOK
<1>7. CallersWaitOnTheirs'
  <2> SUFFICES ASSUME NEW i \in Initiators, calls'[i] # NoConn
               PROVE  Owner(calls'[i]) = i /\ conn'[calls'[i]].state # "free" /\ ~conn'[calls'[i]].closed
    BY DEF CallersWaitOnTheirs
  <2>1. i # s /\ calls'[i] = calls[i] /\ calls[i] \in Conn /\ Owner(calls[i]) = i
    BY <1>3 DEF CallersWaitOnTheirs, TypeOK
  <2> QED
    BY <2>1, <1>1, <1>5 DEF CallersWaitOnTheirs
<1>8. OpenIsWaitedOn'
  <2> SUFFICES ASSUME NEW j \in Conn, conn'[j].state # "free", ~conn'[j].closed
               PROVE  calls'[Owner(j)] = j
    BY DEF OpenIsWaitedOn
  <2>1. j # c /\ calls[Owner(j)] = j
    BY <1>4, <1>5 DEF OpenIsWaitedOn
  <2> QED
    BY <2>1, <1>3
<1>9. OnlyServersAbandon'
  BY <1>1, <1>5 DEF OnlyServersAbandon
<1>10. ServedIsOwn'
  <2> SUFFICES ASSUME NEW r \in Servers, server[r].sock # NoConn
               PROVE  /\ To(server[r].sock) = r
                      /\ conn'[server[r].sock].state \in {"unread", "executing", "replied"}
    BY DEF ServedIsOwn
  <2>1. server[r].sock \in Conn
    BY DEF TypeOK, Loop
  <2>2. /\ To(server[r].sock) = r
        /\ conn[server[r].sock].state \in {"unread", "executing", "replied"}
    BY DEF ServedIsOwn
  <2>3. CASE server[r].sock = c
    BY <2>1, <2>2, <2>3, <1>1 DEF TypeOK, Connection
  <2> QED
    BY <2>1, <2>2, <2>3, <1>5
<1>11. AskingIsExecuting'
  <2> SUFFICES ASSUME NEW u \in Servers, calls'[u] # NoConn
               PROVE  LET j == server[u].sock IN
                      /\ j # NoConn
                      /\ conn'[j].state = "executing" /\ conn'[j].done < Needs(conn'[j].kind)
                      /\ To(calls'[u]) = conn'[j].source
    BY DEF AskingIsExecuting
  <2>1. u # s /\ u \in Initiators /\ calls'[u] = calls[u]
    BY <1>3 DEF Initiators
  <2>2. LET j == server[u].sock IN
        /\ j # NoConn /\ j \in Conn /\ To(j) = u
        /\ conn[j].state = "executing" /\ conn[j].done < Needs(conn[j].kind)
        /\ To(calls[u]) = conn[j].source
    BY <2>1 DEF AskingIsExecuting, ServedIsOwn, TypeOK, Loop
  <2>3. server[u].sock # k /\ server[u].sock # c
    BY <2>1, <2>2 DEF ServedIsOwn
  <2> QED
    BY <2>1, <2>2, <2>3
<1>12. QueuedOnce'
  <2>1. ASSUME NEW j \in Conn, conn[j].state = "unread" PROVE conn'[j].state = "unread"
    BY <2>1, <1>5
  <2>2. \A r \in Servers : server[r].backlog \in Seq(Conn) /\ server[r].ready \cup (server[r].events \ {Listen}) \subseteq Conn
    BY DEF TypeOK, Loop
  <2> QED
    BY <2>1, <2>2 DEF QueuedOnce
<1> QED
  BY <1>6, <1>7, <1>8, <1>9, <1>10, <1>11, <1>12

LEMMA FetchedKeepsInv ==
    ASSUME Inv, NEW s \in Servers, Fetched(s, server[s].sock)
    PROVE  Inv'
<1> USE Connections DEF Inv
<1> DEFINE k == server[s].sock
           c == calls[s]
<1>1. /\ k \in Conn /\ conn[k].state = "executing" /\ c # NoConn /\ c \in Conn
      /\ conn[c].state \in {"replied", "delivered"} /\ k # c
  BY DEF Fetched, Executing, Socket, Received, TypeOK, Loop, Initiators
<1>2. /\ conn[k] \in Connection /\ conn[c] \in Connection /\ Free \in Connection
      /\ Needs(conn[k].kind) \in 0 .. 2 /\ conn[k].done < Needs(conn[k].kind)
  BY <1>1, FreeIsAConnection DEF TypeOK, Connection, Kinds, Needs, AskingIsExecuting
<1>3. conn[k].done + 1 \in 0 .. 2
  BY <1>2 DEF Connection
<1> DEFINE h == IF conn[c].state = "delivered" THEN Free ELSE [conn[c] EXCEPT !.closed = TRUE]
<1>4. h \in Connection /\ [conn[k] EXCEPT !.done = @ + 1] \in Connection
  BY <1>2, <1>3 DEF Connection
<1>5. Hangup(c) = [conn EXCEPT ![c] = h]
  BY DEF Hangup, TypeOK
<1> HIDE DEF h
<1>6. /\ conn' = [[conn EXCEPT ![c] = h] EXCEPT ![k] = [conn[k] EXCEPT !.done = @ + 1]]
      /\ calls' = [calls EXCEPT ![s] = NoConn] /\ UNCHANGED <<server, outcome, kills>>
  BY <1>1, <1>5 DEF Fetched, TypeOK
<1>7. /\ conn' \in [Conn -> Connection]
      /\ conn'[k] = [conn[k] EXCEPT !.done = conn[k].done + 1] /\ conn'[c] = h
      /\ \A j \in Conn \ {k, c} : conn'[j] = conn[j]
  BY <1>1, <1>4, <1>6 DEF TypeOK
<1>8. \/ h.state = "free" /\ conn[c].state # "replied"
      \/ conn[c].state = "replied" /\ h = [conn[c] EXCEPT !.closed = TRUE]
  BY <1>1 DEF h, Free
<1>9. h.kind = conn[c].kind \/ h.kind = "plain"
  BY <1>2 DEF h, Free, Connection
<1>10. h.state \notin {"unread", "executing"}
  BY <1>1, <1>2 DEF h, Free, Connection
<1>11. ServersAskPlain'
  BY <1>2, <1>7, <1>9 DEF ServersAskPlain, Connection
<1> QED
  BY <1>1, <1>3, <1>6, <1>7, <1>8, <1>10, <1>11, NestedEndKeepsInv

LEMMA GarbledKeepsInv ==
    ASSUME Inv, NEW s \in Servers, Garbled(s, server[s].sock)
    PROVE  Inv'
<1> USE Connections DEF Inv
<1> DEFINE k == server[s].sock
           c == calls[s]
<1>1. /\ k \in Conn /\ conn[k].state = "executing" /\ c # NoConn /\ c \in Conn
      /\ conn[c].state = "ended" /\ k # c
  BY DEF Garbled, Executing, Socket, NestedState, TypeOK, Loop, Initiators
<1>2. /\ conn[k] \in Connection /\ Free \in Connection /\ Free.kind = "plain" /\ Free.state = "free"
      /\ Needs(conn[k].kind) \in 0 .. 2 /\ conn[k].done < Needs(conn[k].kind)
  BY <1>1, FreeIsAConnection DEF TypeOK, Connection, Kinds, Needs, AskingIsExecuting, Free
<1>3. conn[k].done + 1 \in 0 .. 2
  BY <1>2 DEF Connection
<1>4. [conn[k] EXCEPT !.done = @ + 1] \in Connection
  BY <1>2, <1>3 DEF Connection
<1> HIDE DEF k, c
<1>5. /\ conn' = [conn EXCEPT ![c] = Free, ![k].done = @ + 1]
      /\ calls' = [calls EXCEPT ![s] = NoConn] /\ UNCHANGED <<server, outcome, kills>>
  BY DEF Garbled, k, c
<1>6. /\ conn' \in [Conn -> Connection]
      /\ conn'[k] = [conn[k] EXCEPT !.done = conn[k].done + 1] /\ conn'[c] = Free
      /\ \A j \in Conn \ {k, c} : conn'[j] = conn[j]
  BY <1>1, <1>2, <1>4, <1>5 DEF TypeOK
<1>7. ServersAskPlain'
  BY <1>2, <1>6 DEF ServersAskPlain, Connection
<1> QED
  BY <1>1, <1>2, <1>3, <1>5, <1>6, <1>7, NestedEndKeepsInv DEF k, c

LEMMA ReplyKeepsInv ==
    ASSUME Inv, NEW s \in Servers, NEW k \in {server[s].sock}, Reply(s, k)
    PROVE  Inv'
<1> USE Connections, FreeIsAConnection DEF Inv
<1>1. TypeOK'
  <2>1. conn' \in [Conn -> Connection]
    <3>1. k \in Conn /\ conn[k] \in Connection
      BY DEF TypeOK, Reply, Handling, Executing, Socket, Loop
    <3>2. [conn[k] EXCEPT !.state = "replied"] \in Connection
      BY <3>1 DEF Connection
    <3> QED
      BY <3>1, <3>2 DEF Reply, TypeOK
  <2>2. calls' \in [Initiators -> Conn \cup {NoConn}]
    BY DEF TypeOK, Initiators, Reply, Handling, Executing, Socket
  <2>3. server' \in [Servers -> Loop]
    BY DEF TypeOK, Loop, Reply, Handling, Executing, Socket
  <2>4. outcome' \in [Clients -> {"none", "answer", "lost", "any"}] /\ kills' \in 0 .. MaxKills
    BY DEF TypeOK, Reply, Handling, Executing, Socket
  <2> QED
    BY <2>1, <2>2, <2>3, <2>4 DEF TypeOK
<1>2. CallersWaitOnTheirs'
  BY DEF TypeOK, Loop, Connection, AskingIsExecuting, CallersWaitOnTheirs, ServedIsOwn,
     Reply, Handling, Executing, Socket, Initiators
<1>3. OpenIsWaitedOn'
  BY DEF TypeOK, Loop, Connection, AskingIsExecuting, CallersWaitOnTheirs, OpenIsWaitedOn, ServedIsOwn,
     Reply, Handling, Executing, Socket, Initiators
<1>4. ServersAskPlain'
  BY DEF TypeOK, Loop, Connection, AskingIsExecuting, CallersWaitOnTheirs, ServedIsOwn, ServersAskPlain,
     Reply, Handling, Executing, Socket, Initiators
<1>5. OnlyServersAbandon'
  BY DEF TypeOK, Loop, Connection, AskingIsExecuting, CallersWaitOnTheirs, OnlyServersAbandon, ServedIsOwn,
     Reply, Handling, Executing, Socket, Initiators
<1>6. ServedIsOwn'
  BY DEF TypeOK, Loop, Connection, AskingIsExecuting, CallersWaitOnTheirs, QueuedOnce, ServedIsOwn,
     Reply, Handling, Executing, Socket, Initiators
<1>7. AskingIsExecuting'
  <2> SUFFICES ASSUME NEW u \in Servers, calls'[u] # NoConn
               PROVE  LET j == server'[u].sock IN
                      /\ j # NoConn
                      /\ conn'[j].state = "executing" /\ conn'[j].done < Needs(conn'[j].kind)
                      /\ To(calls'[u]) = conn'[j].source
    BY DEF AskingIsExecuting
  <2> QED
    BY DEF TypeOK, Loop, Connection, AskingIsExecuting, CallersWaitOnTheirs, ServedIsOwn,
       Reply, Handling, Executing, Socket, Initiators
<1>8. QueuedOnce'
  <2>1. \A u \in Servers :
           \/ server'[u].backlog = <<>> /\ server'[u].ready = {} /\ server'[u].events = {}
           \/ /\ server'[u].backlog = server[u].backlog /\ server'[u].ready = server[u].ready
              /\ server'[u].events = server[u].events
              /\ server'[u].sock \in {server[u].sock, NoConn}
    BY DEF TypeOK, Loop, Reply, Handling, Executing, Socket
  <2>2. \A j \in Conn : conn[j].state = "unread" /\ j # server[To(j)].sock
                        => conn'[j].state = "unread"
    BY DEF TypeOK, Connection, Reply, Handling, Executing, Socket
  <2> QED
    BY <1>1, <2>1, <2>2, QueuesStay DEF TypeOK
<1> QED
  BY <1>1, <1>2, <1>3, <1>4, <1>5, <1>6, <1>7, <1>8

LEMMA EndOfFileKeepsInv ==
    ASSUME Inv, NEW s \in Servers, NEW k \in {server[s].sock}, EndOfFile(s, k)
    PROVE  Inv'
<1> USE Connections, FreeIsAConnection DEF Inv
<1>1. TypeOK'
  <2>1. conn' \in [Conn -> Connection]
    BY DEF TypeOK, Connection, Kinds, AskingIsExecuting, CallersWaitOnTheirs, ServedIsOwn,
       EndOfFile, Socket, Free
  <2>2. calls' \in [Initiators -> Conn \cup {NoConn}]
    BY DEF TypeOK, Initiators, EndOfFile, Socket, Free
  <2>3. server' \in [Servers -> Loop]
    <3>1. server[s] \in Loop
      BY OneLoop DEF TypeOK
    <3>2. [server[s] EXCEPT !.sock = NoConn] \in Loop
      BY <3>1 DEF Loop
    <3> QED
      BY <3>2, OneLoop DEF TypeOK, EndOfFile
  <2>4. outcome' \in [Clients -> {"none", "answer", "lost", "any"}] /\ kills' \in 0 .. MaxKills
    BY DEF TypeOK, EndOfFile, Socket, Free
  <2> QED
    BY <2>1, <2>2, <2>3, <2>4 DEF TypeOK
<1>2. CallersWaitOnTheirs'
  BY DEF TypeOK, Loop, Connection, AskingIsExecuting, CallersWaitOnTheirs, ServedIsOwn,
     EndOfFile, Socket, Free, Initiators
<1>3. OpenIsWaitedOn'
  BY DEF TypeOK, Loop, Connection, AskingIsExecuting, CallersWaitOnTheirs, OpenIsWaitedOn, ServedIsOwn,
     EndOfFile, Socket, Free, Initiators
<1>4. ServersAskPlain'
  BY DEF TypeOK, Loop, Connection, AskingIsExecuting, CallersWaitOnTheirs, ServedIsOwn, ServersAskPlain,
     EndOfFile, Socket, Free, Initiators
<1>5. OnlyServersAbandon'
  BY DEF TypeOK, Loop, Connection, AskingIsExecuting, CallersWaitOnTheirs, OnlyServersAbandon, ServedIsOwn,
     EndOfFile, Socket, Free, Initiators
<1>6. ServedIsOwn'
  BY DEF TypeOK, Loop, Connection, AskingIsExecuting, CallersWaitOnTheirs, QueuedOnce, ServedIsOwn,
     EndOfFile, Socket, Free, Initiators
<1>7. AskingIsExecuting'
  <2> SUFFICES ASSUME NEW u \in Servers, calls'[u] # NoConn
               PROVE  LET j == server'[u].sock IN
                      /\ j # NoConn
                      /\ conn'[j].state = "executing" /\ conn'[j].done < Needs(conn'[j].kind)
                      /\ To(calls'[u]) = conn'[j].source
    BY DEF AskingIsExecuting
  <2> QED
    BY DEF TypeOK, Loop, Connection, AskingIsExecuting, CallersWaitOnTheirs, ServedIsOwn,
       EndOfFile, Socket, Free, Initiators
<1>8. QueuedOnce'
  <2>1. \A u \in Servers :
           \/ server'[u].backlog = <<>> /\ server'[u].ready = {} /\ server'[u].events = {}
           \/ /\ server'[u].backlog = server[u].backlog /\ server'[u].ready = server[u].ready
              /\ server'[u].events = server[u].events
              /\ server'[u].sock \in {server[u].sock, NoConn}
    BY DEF TypeOK, Loop, EndOfFile, Socket
  <2>2. \A j \in Conn : conn[j].state = "unread" /\ j # server[To(j)].sock
                        => conn'[j].state = "unread"
    BY DEF TypeOK, Connection, EndOfFile, Socket
  <2> QED
    BY <1>1, <2>1, <2>2, QueuesStay DEF TypeOK
<1> QED
  BY <1>1, <1>2, <1>3, <1>4, <1>5, <1>6, <1>7, <1>8

LEMMA DiesKeepsInv ==
    ASSUME Inv, NEW s \in Servers, Dies(s), kills' \in 0 .. MaxKills
    PROVE  Inv'
<1> USE Connections, FreeIsAConnection DEF Inv
<1>1. TypeOK'
  <2>1. conn' \in [Conn -> Connection]
    <3> SUFFICES ASSUME NEW j \in Conn
                 PROVE  Free \in Connection /\ Broken(conn[j]) \in Connection
                        /\ Abandoned(conn[j]) \in Connection
      BY DEF Dies, TypeOK
    <3>1. Free \in Connection /\ conn[j] \in Connection
      BY DEF TypeOK
    <3>2. Broken(conn[j]) \in Connection
      BY <3>1 DEF Broken, Connection
    <3>3. Abandoned(conn[j]) \in Connection
      BY <3>1 DEF Abandoned, Connection
    <3> QED
      BY <3>1, <3>2, <3>3
  <2>2. calls' \in [Initiators -> Conn \cup {NoConn}]
    BY DEF TypeOK, Initiators, Dies, Broken, Abandoned, Dead, Free
  <2>3. server' \in [Servers -> Loop]
    BY DEF TypeOK, Loop, Dies, Broken, Abandoned, Dead, Free
  <2>4. outcome' \in [Clients -> {"none", "answer", "lost", "any"}] /\ kills' \in 0 .. MaxKills
    BY DEF TypeOK, Dies, Broken, Abandoned, Dead, Free
  <2> QED
    BY <2>1, <2>2, <2>3, <2>4 DEF TypeOK
<1>2. CallersWaitOnTheirs'
  BY DEF TypeOK, Loop, Connection, AskingIsExecuting, CallersWaitOnTheirs, ServedIsOwn,
     Dies, Broken, Abandoned, Dead, Free, Initiators
<1>3. OpenIsWaitedOn'
  BY DEF TypeOK, Loop, Connection, AskingIsExecuting, CallersWaitOnTheirs, OpenIsWaitedOn, ServedIsOwn,
     Dies, Broken, Abandoned, Dead, Free, Initiators
<1>4. ServersAskPlain'
  BY DEF TypeOK, Loop, Connection, AskingIsExecuting, CallersWaitOnTheirs, ServedIsOwn, ServersAskPlain,
     Dies, Broken, Abandoned, Dead, Free, Initiators
<1>5. OnlyServersAbandon'
  BY DEF TypeOK, Loop, Connection, AskingIsExecuting, CallersWaitOnTheirs, OnlyServersAbandon, ServedIsOwn,
     Dies, Broken, Abandoned, Dead, Free, Initiators
<1>6. ServedIsOwn'
  BY DEF TypeOK, Loop, Connection, AskingIsExecuting, CallersWaitOnTheirs, QueuedOnce, ServedIsOwn,
     Dies, Broken, Abandoned, Dead, Free, Initiators
<1>7. AskingIsExecuting'
  <2> SUFFICES ASSUME NEW u \in Servers, calls'[u] # NoConn
               PROVE  LET j == server'[u].sock IN
                      /\ j # NoConn
                      /\ conn'[j].state = "executing" /\ conn'[j].done < Needs(conn'[j].kind)
                      /\ To(calls'[u]) = conn'[j].source
    BY DEF AskingIsExecuting
  <2> QED
    BY DEF TypeOK, Loop, Connection, AskingIsExecuting, CallersWaitOnTheirs, ServedIsOwn,
       Dies, Broken, Abandoned, Dead, Free, Initiators
<1>8. QueuedOnce'
  <2>1. /\ server'[s].backlog = <<>> /\ server'[s].ready = {} /\ server'[s].events = {}
        /\ \A u \in Servers \ {s} : server'[u] = server[u]
    BY DEF TypeOK, Dies, Dead
  <2>2. \A j \in Conn : To(j) # s /\ conn[j].state = "unread" => conn'[j].state = "unread"
    <3> SUFFICES ASSUME NEW j \in Conn, To(j) # s, conn[j].state = "unread"
                 PROVE  conn'[j].state = "unread"
      OBVIOUS
    <3>1. conn'[j] \in {conn[j], [conn[j] EXCEPT !.closed = TRUE]}
      BY DEF Dies, Abandoned
    <3> QED
      BY <3>1 DEF TypeOK, Connection
  <2> QED
    BY <1>1, <2>1, <2>2, QueuesStay DEF TypeOK
<1> QED
  BY <1>1, <1>2, <1>3, <1>4, <1>5, <1>6, <1>7, <1>8

LEMMA StartKeepsInv ==
    ASSUME Inv, NEW s \in Servers, Start(s)
    PROVE  Inv'
<1> USE Connections, FreeIsAConnection DEF Inv
<1>1. TypeOK'
  <2>1. conn' \in [Conn -> Connection]
    BY DEF TypeOK, Connection, Kinds, AskingIsExecuting, CallersWaitOnTheirs, ServedIsOwn,
       Start
  <2>2. calls' \in [Initiators -> Conn \cup {NoConn}]
    BY DEF TypeOK, Initiators, Start
  <2>3. server' \in [Servers -> Loop]
    <3>1. server[s] \in Loop
      BY OneLoop DEF TypeOK
    <3>2. [server[s] EXCEPT !.up = TRUE] \in Loop
      BY <3>1 DEF Loop
    <3> QED
      BY <3>2, OneLoop DEF TypeOK, Start
  <2>4. outcome' \in [Clients -> {"none", "answer", "lost", "any"}] /\ kills' \in 0 .. MaxKills
    BY DEF TypeOK, Start
  <2> QED
    BY <2>1, <2>2, <2>3, <2>4 DEF TypeOK
<1>2. CallersWaitOnTheirs'
  BY DEF TypeOK, Loop, Connection, AskingIsExecuting, CallersWaitOnTheirs, ServedIsOwn,
     Start, Initiators
<1>3. OpenIsWaitedOn'
  BY DEF TypeOK, Loop, Connection, AskingIsExecuting, CallersWaitOnTheirs, OpenIsWaitedOn, ServedIsOwn,
     Start, Initiators
<1>4. ServersAskPlain'
  BY DEF TypeOK, Loop, Connection, AskingIsExecuting, CallersWaitOnTheirs, ServedIsOwn, ServersAskPlain,
     Start, Initiators
<1>5. OnlyServersAbandon'
  BY DEF TypeOK, Loop, Connection, AskingIsExecuting, CallersWaitOnTheirs, OnlyServersAbandon, ServedIsOwn,
     Start, Initiators
<1>6. ServedIsOwn'
  BY DEF TypeOK, Loop, Connection, AskingIsExecuting, CallersWaitOnTheirs, QueuedOnce, ServedIsOwn,
     Start, Initiators
<1>7. AskingIsExecuting'
  <2> SUFFICES ASSUME NEW u \in Servers, calls'[u] # NoConn
               PROVE  LET j == server'[u].sock IN
                      /\ j # NoConn
                      /\ conn'[j].state = "executing" /\ conn'[j].done < Needs(conn'[j].kind)
                      /\ To(calls'[u]) = conn'[j].source
    BY DEF AskingIsExecuting
  <2> QED
    BY DEF TypeOK, Loop, Connection, AskingIsExecuting, CallersWaitOnTheirs, ServedIsOwn,
       Start, Initiators
<1>8. QueuedOnce'
  <2>1. \A u \in Servers :
           \/ server'[u].backlog = <<>> /\ server'[u].ready = {} /\ server'[u].events = {}
           \/ /\ server'[u].backlog = server[u].backlog /\ server'[u].ready = server[u].ready
              /\ server'[u].events = server[u].events
              /\ server'[u].sock \in {server[u].sock, NoConn}
    BY DEF TypeOK, Loop, Start
  <2>2. \A j \in Conn : conn[j].state = "unread" /\ j # server[To(j)].sock
                        => conn'[j].state = "unread"
    BY DEF TypeOK, Connection, Start
  <2> QED
    BY <1>1, <2>1, <2>2, QueuesStay DEF TypeOK
<1> QED
  BY <1>1, <1>2, <1>3, <1>4, <1>5, <1>6, <1>7, <1>8

LEMMA InitInv == Init => Inv
<1> SUFFICES ASSUME Init PROVE Inv
  OBVIOUS
<1> USE Connections, FreeIsAConnection DEF Init
<1>1. TypeOK
  <2>1. conn \in [Conn -> Connection] /\ calls \in [Initiators -> Conn \cup {NoConn}]
    OBVIOUS
  <2>2. [Dead EXCEPT !.up = TRUE] \in Loop
    <3>1. <<>> \in Seq(Conn)
      OBVIOUS
    <3> QED
      BY <3>1 DEF Dead, Loop
  <2>3. outcome \in [Clients -> {"none", "answer", "lost", "any"}] /\ kills \in 0 .. MaxKills
    BY EventLoopAssumption
  <2> QED
    BY <2>1, <2>2, <2>3 DEF TypeOK
<1>2. CallersWaitOnTheirs /\ OpenIsWaitedOn /\ ServersAskPlain /\ OnlyServersAbandon
  BY DEF CallersWaitOnTheirs, OpenIsWaitedOn, ServersAskPlain, OnlyServersAbandon, Free
<1>3. ServedIsOwn /\ AskingIsExecuting
  BY DEF ServedIsOwn, AskingIsExecuting, Dead, Initiators
<1>4. QueuedOnce
  BY DEF QueuedOnce, Dead
<1> QED
  BY <1>1, <1>2, <1>3, <1>4 DEF Inv

LEMMA NextKeepsInv == Inv /\ [Next]_vars => Inv'
<1> SUFFICES ASSUME Inv, [Next]_vars PROVE Inv'
  OBVIOUS
<1>1. ASSUME NEW r \in Asks, Ask(r[1], r[2], r[3], r[4]) PROVE Inv'
  BY <1>1, AskKeepsInv
<1>2. ASSUME NEW r \in Asks, Refused(r[1], r[2]) PROVE Inv'
  BY <1>2, RefusedKeepsInv, EventLoopAssumption
<1>3. ASSUME NEW c \in Clients, TakeReply(c) \/ TakeLoss(c) PROVE Inv'
  BY <1>3, TakeReplyKeepsInv, TakeLossKeepsInv
<1>4. ASSUME NEW s \in Servers, ServerStep(s) PROVE Inv'
  <2>1. CASE EpollWait(s) \/ Accept(s) \/ Serve(s)
    BY <2>1, EpollWaitKeepsInv, AcceptKeepsInv, ServeKeepsInv
  <2>2. CASE \/ GetMessage(s, server[s].sock) \/ Fetch(s, server[s].sock)
             \/ Fetched(s, server[s].sock) \/ Garbled(s, server[s].sock)
             \/ Reply(s, server[s].sock)
             \/ EndOfFile(s, server[s].sock)
    BY <2>2, GetMessageKeepsInv, FetchKeepsInv, FetchedKeepsInv,
       GarbledKeepsInv, ReplyKeepsInv, EndOfFileKeepsInv
  <2>3. CASE FetchLost(s, server[s].sock) \/ ReplyKills(s, server[s].sock)
    <3>1. Dies(s) /\ kills' \in 0 .. MaxKills
      BY <2>3 DEF FetchLost, ReplyKills, Inv, TypeOK
    <3> QED
      BY <3>1, DiesKeepsInv
  <2> QED
    BY <1>4, <2>1, <2>2, <2>3 DEF ServerStep
<1>5. ASSUME NEW s \in Servers, Kill(s) PROVE Inv'
  <2>1. Dies(s) /\ kills' \in 0 .. MaxKills
    BY <1>5, EventLoopAssumption DEF Kill, Inv, TypeOK
  <2> QED
    BY <2>1, DiesKeepsInv
<1>6. ASSUME NEW s \in Servers, Start(s) PROVE Inv'
  BY <1>6, StartKeepsInv
<1>7. CASE UNCHANGED vars
  BY <1>7 DEF vars, Inv, TypeOK, CallersWaitOnTheirs, OpenIsWaitedOn, ServersAskPlain,
              OnlyServersAbandon, ServedIsOwn, AskingIsExecuting, QueuedOnce
<1> QED
  BY <1>1, <1>2, <1>3, <1>4, <1>5, <1>6, <1>7 DEF Next

\* The two ends of every connection agree, through nested requests, batches of
\* events and deaths.
THEOREM EventLoopInvariant == Spec => []Inv
<1>1. Init => Inv
  BY InitInv
<1>2. Inv /\ [Next]_vars => Inv'
  BY NextKeepsInv
<1> QED
  BY <1>1, <1>2, PTL DEF Spec

\* Every connection, queue and event has its type.
THEOREM TypeCorrect == Spec => []TypeOK
<1>1. Inv => TypeOK
  BY DEF Inv
<1> QED
  BY <1>1, EventLoopInvariant, PTL

-----------------------------------------------------------------------------
(* Servers do not wait for each other.                                      *)

\* The storage has one client that restores (the FUSE thread is alone), and a
\* server restores from another one.
OneRestorer ==
    /\ \A r, q \in Asks : r[3] # "plain" /\ q[3] # "plain" => r[1] = q[1]
    /\ \A r \in Asks : r[3] # "plain" => r[2] # r[4]

\* So every restore is one of those that were asked.
RestoresWereAsked ==
    \A k \in Conn : conn[k].kind # "plain" =>
        \E r \in Asks : r[1] = Owner(k) /\ r[2] = To(k) /\ r[3] = conn[k].kind /\ r[4] = conn[k].source

LEMMA ConnectAsked ==
    ASSUME RestoresWereAsked, Inv, NEW i \in Initiators, NEW s \in Servers, NEW kind \in Kinds,
           NEW source \in Servers, Connect(i, s, kind, source),
           kind = "plain" \/ <<i, s, kind, source>> \in Asks
    PROVE  RestoresWereAsked'
<1> DEFINE new == [Free EXCEPT !.state = "unread", !.kind = kind, !.source = source]
<1>1. PICK n \in 0 .. MaxKills + 1 : conn' = [conn EXCEPT ![<<i, s, n>>] = new]
  BY DEF Connect
<1>2. new.kind = kind /\ new.source = source
  BY DEF Free
<1> HIDE DEF new
<1>3. <<i, s, n>> \in Conn /\ Owner(<<i, s, n>>) = i /\ To(<<i, s, n>>) = s
  BY Connections
<1>4. /\ \A k \in Conn \ {<<i, s, n>>} : conn'[k] = conn[k]
      /\ conn'[<<i, s, n>>] = new
  BY <1>1, <1>3 DEF Inv, TypeOK
<1>5. ASSUME kind # "plain"
      PROVE  LET r == <<i, s, kind, source>> IN
             r \in Asks /\ r[1] = i /\ r[2] = s /\ r[3] = kind /\ r[4] = source
  BY <1>5
<1> QED
  BY <1>2, <1>3, <1>4, <1>5 DEF RestoresWereAsked

LEMMA NextKeepsAsked == RestoresWereAsked /\ Inv /\ [Next]_vars => RestoresWereAsked'
<1> SUFFICES ASSUME RestoresWereAsked, Inv, [Next]_vars PROVE RestoresWereAsked'
  OBVIOUS
<1> DEFINE Same == \A k \in Conn : \/ conn'[k].kind = "plain"
                                   \/ conn'[k].kind = conn[k].kind /\ conn'[k].source = conn[k].source
<1>1. Same => RestoresWereAsked'
  BY DEF RestoresWereAsked
<1> USE DEF Inv
<1>2. ASSUME NEW r \in Asks, Ask(r[1], r[2], r[3], r[4]) PROVE RestoresWereAsked'
  <2>1. /\ r[1] \in Initiators /\ r[2] \in Servers /\ r[3] \in Kinds /\ r[4] \in Servers
        /\ <<r[1], r[2], r[3], r[4]>> \in Asks
    BY EventLoopAssumption DEF Initiators
  <2> QED
    BY <1>2, <2>1, ConnectAsked DEF Ask
<1>3. ASSUME NEW s \in Servers, Fetch(s, server[s].sock) PROVE RestoresWereAsked'
  <2>1. conn[server[s].sock].source \in Servers
    BY <1>3 DEF Fetch, Handling, Executing, Socket, TypeOK, Loop, Connection
  <2> QED
    BY <1>3, <2>1, ConnectAsked DEF Fetch, Initiators, Kinds
<1>4. ASSUME NEW c \in Clients, TakeReply(c) \/ TakeLoss(c) PROVE Same
  BY <1>4 DEF TakeReply, TakeLoss, Hangup, Received, TypeOK, Connection, Free, Initiators
<1>5. ASSUME NEW s \in Servers, NEW k \in {server[s].sock},
             GetMessage(s, k) \/ Reply(s, k) \/ EndOfFile(s, k)
      PROVE  Same
  <2>1. k \in Conn /\ conn[k] \in Connection
    BY <1>5 DEF GetMessage, Reply, Handling, Executing, EndOfFile, Socket, TypeOK, Loop
  <2>2. CASE GetMessage(s, k)
    BY <2>1, <2>2 DEF GetMessage, TypeOK, Connection
  <2>3. CASE Reply(s, k)
    BY <2>1, <2>3 DEF Reply, TypeOK, Connection
  <2>4. CASE EndOfFile(s, k)
    BY <2>1, <2>4 DEF EndOfFile, TypeOK, Free
  <2> QED
    BY <1>5, <2>2, <2>3, <2>4
<1>6. ASSUME NEW s \in Servers, NEW k \in {server[s].sock},
             Fetched(s, k) \/ Garbled(s, k)
      PROVE  Same
  <2>1. CASE Fetched(s, k)
    <3>1. calls[s] \in Conn /\ k \in Conn
      BY <2>1 DEF Fetched, Received, Executing, Socket, TypeOK, Loop, Initiators
    <3>2. \A j \in Conn : /\ conn[j] \in Connection
                          /\ Hangup(calls[s])[j] \in {conn[j], Free, [conn[j] EXCEPT !.closed = TRUE]}
                          /\ conn'[j] \in {Hangup(calls[s])[j],
                                           [Hangup(calls[s])[j] EXCEPT !.done = @ + 1]}
      BY <2>1, <3>1 DEF Fetched, Hangup, TypeOK
    <3> DEFINE h == Hangup(calls[s])
    <3> HIDE DEF h
    <3>3. \A j \in Conn : h[j] \in {conn[j], Free, [conn[j] EXCEPT !.closed = TRUE]}
      BY <3>2 DEF h
    <3>4. \A j \in Conn : /\ h[j] \in Connection
                          /\ h[j].kind = "plain" \/ (h[j].kind = conn[j].kind /\ h[j].source = conn[j].source)
      <4>1. Free \in Connection /\ Free.kind = "plain"
        BY <3>1, FreeIsAConnection DEF Free
      <4>2. ASSUME NEW j \in Conn, NEW c \in Connection, c = conn[j]
            PROVE  LET d == [c EXCEPT !.closed = TRUE]
                   IN  d \in Connection /\ d.kind = c.kind /\ d.source = c.source
        BY DEF Connection
      <4> SUFFICES ASSUME NEW j \in Conn
                   PROVE  /\ h[j] \in Connection
                          /\ h[j].kind = "plain" \/ (h[j].kind = conn[j].kind /\ h[j].source = conn[j].source)
        OBVIOUS
      <4>3. conn[j] \in Connection
        BY <3>2
      <4>4. h[j] = conn[j] \/ h[j] = Free \/ h[j] = [conn[j] EXCEPT !.closed = TRUE]
        BY <3>3
      <4> QED
        BY <4>1, <4>2, <4>3, <4>4
    <3>5. \A j \in Conn : conn'[j].kind = h[j].kind /\ conn'[j].source = h[j].source
      BY <3>2, <3>4 DEF h, Connection
    <3> QED
      BY <3>4, <3>5
  <2>2. CASE Garbled(s, k)
    BY <2>2 DEF Garbled, Executing, Socket, TypeOK, Loop, Connection, Free, Initiators
  <2> QED
    BY <1>6, <2>1, <2>2
<1>7. ASSUME NEW s \in Servers, Dies(s) PROVE Same
  BY <1>7 DEF Dies, Broken, Abandoned, TypeOK, Connection, Free
<1>8. CASE UNCHANGED conn
  BY <1>8, <1>1
<1> QED
  BY <1>1, <1>2, <1>3, <1>4, <1>5, <1>6, <1>7, <1>8
  DEF Next, ServerStep, Refused, EpollWait, Accept, Serve, Kill, FetchLost, ReplyKills, Start, vars

\* Of the servers that wait, one that is waited for does not wait itself: it would
\* have to restore for the same client, which waits for one request only.
LEMMA OneWaits ==
    ASSUME Inv, RestoresWereAsked, OneRestorer,
           NEW s \in Servers, NEW r \in Servers, NEW u \in Servers, WaitsFor(s, r)
    PROVE  ~WaitsFor(r, u)
<1> USE Connections DEF Inv
<1> SUFFICES ASSUME WaitsFor(r, u) PROVE FALSE
  OBVIOUS
<1> DEFINE j == server[s].sock
           k == server[r].sock
<1>1. \A p, q \in Servers : WaitsFor(p, q) =>
        LET l == server[p].sock IN
        /\ l \in Conn /\ To(l) = p /\ conn[l].state = "executing" /\ conn[l].kind # "plain"
        /\ conn[l].source = q
  <2> SUFFICES ASSUME NEW p \in Servers, NEW q \in Servers, WaitsFor(p, q)
               PROVE  LET l == server[p].sock IN
                      /\ l \in Conn /\ To(l) = p /\ conn[l].state = "executing"
                      /\ conn[l].kind # "plain" /\ conn[l].source = q
    OBVIOUS
  <2> DEFINE l == server[p].sock
  <2>1. /\ l \in Conn /\ To(l) = p /\ conn[l].state = "executing" /\ conn[l].source = q
        /\ conn[l].done < Needs(conn[l].kind)
    BY DEF WaitsFor, AskingIsExecuting, ServedIsOwn, TypeOK, Loop
  <2>2. conn[l].done \in 0 .. 2
    BY <2>1 DEF TypeOK, Connection
  <2>3. Needs("plain") = 0
    BY DEF Needs
  <2> QED
    BY <2>1, <2>2, <2>3
<1>2. /\ j \in Conn /\ To(j) = s /\ conn[j].state = "executing" /\ conn[j].kind # "plain"
      /\ conn[j].source = r
      /\ k \in Conn /\ To(k) = r /\ conn[k].state = "executing" /\ conn[k].kind # "plain"
  BY <1>1
<1>3. Owner(j) = Owner(k) /\ s # r
  BY <1>2 DEF RestoresWereAsked, OneRestorer
<1>4. ~conn[j].closed /\ ~conn[k].closed
  BY <1>2 DEF OnlyServersAbandon, ServersAskPlain, TypeOK, Connection
<1>5. j = k
  BY <1>2, <1>3, <1>4 DEF OpenIsWaitedOn
<1> QED
  BY <1>2, <1>3, <1>5

\* Servers that restore from each other do not wait for each other (the hazard of
\* server_restore, which blocks in recv() and serves nobody meanwhile), as long as
\* one client asks for all restores.
THEOREM ServersDoNotWaitForEachOther ==
    ASSUME OneRestorer PROVE Spec => []NoServersWaitForEachOther
<1>1. Init => RestoresWereAsked
  BY DEF Init, RestoresWereAsked, Free
<1>2. Inv /\ RestoresWereAsked => NoServersWaitForEachOther
  <2> SUFFICES ASSUME Inv, RestoresWereAsked, NEW group \in (SUBSET Servers) \ {{}}
               PROVE  \E s \in group : \A r \in group : ~WaitsFor(s, r)
    BY DEF NoServersWaitForEachOther
  <2>1. PICK s \in group : TRUE
    OBVIOUS
  <2>2. CASE \E r \in group : WaitsFor(s, r)
    BY <2>1, <2>2, OneWaits
  <2> QED
    BY <2>1, <2>2
<1> QED
  BY <1>1, <1>2, EventLoopInvariant, NextKeepsAsked, PTL DEF Spec

-----------------------------------------------------------------------------
(* The connections implement the requests.                                  *)

LEMMA RequestIs ==
    ASSUME TypeOK
    PROVE  /\ \A i \in Initiators : calls[i] # NoConn =>
                 /\ Request(i) = [to |-> To(calls[i]), state |-> Stage(conn[calls[i]].state)]
                 /\ Request(i) # Abstract!NoRequest
           /\ \A i \in Initiators : calls[i] = NoConn => Request(i) = Abstract!NoRequest
<1>1. \A i \in Initiators : calls[i] # NoConn =>
          /\ Request(i) = [to |-> To(calls[i]), state |-> Stage(conn[calls[i]].state)]
          /\ conn[calls[i]].state \in {"free", "unread", "executing", "replied", "delivered", "reset", "ended"}
  BY DEF Request, TypeOK, Connection
<1>2. \A state \in {"free", "unread", "executing", "replied", "delivered", "reset", "ended"} :
          Stage(state) # "idle"
  BY DEF Stage
<1>3. \A i \in Initiators : calls[i] = NoConn => Request(i) = Abstract!NoRequest
  BY DEF Request, Abstract!NoRequest, Abstract!NoServer
<1>4. Abstract!NoRequest.state = "idle"
  BY DEF Abstract!NoRequest
<1> QED
  BY <1>1, <1>2, <1>3, <1>4

AbsUp == [s \in Servers |-> server[s].up]
AbsRequest == [i \in Initiators |-> Request(i)]
AbsTurn == [s \in Servers |-> Turn(s)]
absVars == <<AbsUp, AbsRequest, AbsTurn, outcome>>

\* Who asks, who executes and who runs is what it was.
SameRequests == \A i \in Initiators : Request(i)' = Request(i)
SameTurns == \A s \in Servers : Turn(s)' = Turn(s)
SameUp == \A s \in Servers : server'[s].up = server[s].up

\* Only the request of i has changed.
RequestBecomes(i, r) ==
    /\ Request(i)' = r
    /\ \A j \in Initiators \ {i} : Request(j)' = Request(j)

\* Only the turn of s has changed.
TurnBecomes(s, who) ==
    /\ Turn(s)' = who
    /\ \A r \in Servers \ {s} : Turn(r)' = Turn(r)

LEMMA SilentRefines ==
    ASSUME SameRequests, SameTurns, SameUp, outcome' = outcome
    PROVE  UNCHANGED absVars
  BY DEF SameRequests, SameTurns, SameUp, absVars, AbsUp, AbsRequest, AbsTurn

LEMMA AskRefines ==
    ASSUME NEW i \in Initiators, NEW s \in Servers,
           Request(i) = Abstract!NoRequest, server[s].up, i \in Servers => Turn(i) # "nobody",
           RequestBecomes(i, [to |-> s, state |-> "asked"]), SameTurns, SameUp, outcome' = outcome
    PROVE  Abstract!Ask(i, s)
  BY DEF Abstract!Ask, Abstract!Nobody, RequestBecomes, SameTurns, SameUp, Initiators

LEMMA TakeRefines ==
    ASSUME NEW i \in Initiators,
           Abstract!Results(Request(i).state) # {}, RequestBecomes(i, Abstract!NoRequest),
           SameTurns, SameUp,
           \/ i \in Clients /\ \E r \in Abstract!Results(Request(i).state) :
                                    outcome' = [outcome EXCEPT ![i] = r]
           \/ i \notin Clients /\ outcome' = outcome
    PROVE  Abstract!Take(i)
  BY DEF Abstract!Take, RequestBecomes, SameTurns, SameUp, Initiators

\* The abstract At moves a request on.
LEMMA MovedOn ==
    ASSUME NEW i \in Initiators, NEW s, NEW from, NEW to,
           Request(i) = [to |-> s, state |-> from], RequestBecomes(i, [to |-> s, state |-> to])
    PROVE  [j \in Initiators |-> Request(j)'] = [[j \in Initiators |-> Request(j)] EXCEPT ![i].state = to]
<1> DEFINE f == [j \in Initiators |-> Request(j)]
<1>1. f[i] = [to |-> s, state |-> from] /\ \A j \in Initiators : f[j] = Request(j)
  OBVIOUS
<1>2. [f[i] EXCEPT !.state = to] = [to |-> s, state |-> to]
  BY <1>1
<1>3. \A j \in Initiators : [f EXCEPT ![i].state = to][j] =
                               IF j = i THEN [to |-> s, state |-> to] ELSE Request(j)
  BY <1>1, <1>2
<1> QED
  BY <1>3 DEF RequestBecomes

LEMMA BeginRefines ==
    ASSUME NEW i \in Initiators, NEW s \in Servers,
           Request(i) = [to |-> s, state |-> "asked"], Turn(s) = "nobody",
           RequestBecomes(i, [to |-> s, state |-> "executing"]), TurnBecomes(s, i),
           SameUp, outcome' = outcome
    PROVE  Abstract!Begin(i, s)
<1>1. [j \in Initiators |-> Request(j)'] =
        [[j \in Initiators |-> Request(j)] EXCEPT ![i].state = "executing"]
  BY MovedOn
<1>2. [r \in Servers |-> Turn(r)'] = [[r \in Servers |-> Turn(r)] EXCEPT ![s] = i]
  BY DEF TurnBecomes
<1> QED
  BY <1>1, <1>2 DEF Abstract!Begin, Abstract!At, Abstract!Nobody, SameUp, Initiators

LEMMA EndRefines ==
    ASSUME NEW i \in Initiators, NEW s \in Servers,
           Turn(s) = i, Request(i) = [to |-> s, state |-> "executing"], Request(s) = Abstract!NoRequest,
           RequestBecomes(i, [to |-> s, state |-> "executed"]), TurnBecomes(s, "nobody"),
           SameUp, outcome' = outcome
    PROVE  Abstract!End(i, s)
<1>1. [j \in Initiators |-> Request(j)'] =
        [[j \in Initiators |-> Request(j)] EXCEPT ![i].state = "executed"]
  BY MovedOn
<1>2. [r \in Servers |-> Turn(r)'] = [[r \in Servers |-> Turn(r)] EXCEPT ![s] = "nobody"]
  BY DEF TurnBecomes
<1> QED
  BY <1>1, <1>2 DEF Abstract!End, Abstract!At, Abstract!Nobody, SameUp, Initiators

LEMMA ConnectRefines ==
    ASSUME Inv, NEW i \in Initiators, NEW s \in Servers, NEW kind \in Kinds, NEW source \in Servers,
           Connect(i, s, kind, source), calls[i] = NoConn, i \in Servers => Turn(i) # "nobody"
    PROVE  Abstract!Ask(i, s)
<1> USE Connections DEF Inv
<1>1. PICK n \in 0 .. MaxKills + 1 :
        LET k == <<i, s, n>> IN
        /\ conn[k] = Free
        /\ conn' = [conn EXCEPT ![k] = [Free EXCEPT !.state = "unread", !.kind = kind, !.source = source]]
        /\ calls' = [calls EXCEPT ![i] = k]
        /\ server' = [server EXCEPT ![s].backlog = Append(@, k), ![s].edge = TRUE]
  BY DEF Connect
<1> DEFINE k == <<i, s, n>>
<1>2. k \in Conn /\ To(k) = s /\ k # NoConn /\ conn[k].state = "free" /\ conn'[k].state = "unread"
  BY <1>1 DEF TypeOK, Free
<1>3. /\ calls'[i] = k /\ \A j \in Initiators \ {i} : calls'[j] = calls[j]
      /\ \A j \in Conn \ {k} : conn'[j] = conn[j]
      /\ \A r \in Servers : server'[r].up = server[r].up /\ server'[r].sock = server[r].sock
  BY <1>1 DEF TypeOK, Loop
<1> HIDE DEF k
<1>4. RequestBecomes(i, [to |-> s, state |-> "asked"])
  <2>1. Request(i)' = [to |-> s, state |-> "asked"]
    BY <1>2, <1>3 DEF Request, Stage
  <2>2. ASSUME NEW j \in Initiators \ {i} PROVE Request(j)' = Request(j)
    <3>1. calls[j] # NoConn => calls[j] \in Conn /\ calls[j] # k
      BY <1>2 DEF CallersWaitOnTheirs, TypeOK
    <3> QED
      BY <3>1, <1>3 DEF Request
  <2> QED
    BY <2>1, <2>2 DEF RequestBecomes
<1>5. SameTurns
  <2> SUFFICES ASSUME NEW r \in Servers PROVE Turn(r)' = Turn(r)
    BY DEF SameTurns
  <2>1. server[r].sock # NoConn => server[r].sock \in Conn /\ server[r].sock # k
    BY <1>2 DEF ServedIsOwn, TypeOK, Loop
  <2> QED
    BY <2>1, <1>3 DEF Turn
<1>6. SameUp /\ outcome' = outcome /\ server[s].up
  BY <1>3 DEF SameUp, Connect
<1>7. Request(i) = Abstract!NoRequest
  BY RequestIs
<1> QED
  BY <1>4, <1>5, <1>6, <1>7, AskRefines

\* A caller has taken the end of its request.
LEMMA CallEnds ==
    ASSUME Inv, NEW i \in Initiators, calls[i] # NoConn, calls' = [calls EXCEPT ![i] = NoConn],
           server' = server,
           conn[calls[i]].state # "executing", conn'[calls[i]].state # "executing",
           \A k \in Conn \ {calls[i]} :
               conn'[k].state = conn[k].state /\ conn'[k].closed = conn[k].closed
    PROVE  RequestBecomes(i, Abstract!NoRequest) /\ SameTurns /\ SameUp
<1> USE DEF Inv
<1>1. calls'[i] = NoConn /\ \A j \in Initiators \ {i} : calls'[j] = calls[j]
  BY DEF TypeOK
<1>2. RequestBecomes(i, Abstract!NoRequest)
  <2>1. Request(i)' = Abstract!NoRequest
    BY <1>1 DEF Request, Abstract!NoRequest, Abstract!NoServer
  <2>2. ASSUME NEW j \in Initiators \ {i} PROVE Request(j)' = Request(j)
    <3>1. calls[j] # NoConn => calls[j] \in Conn /\ calls[j] # calls[i]
      BY DEF CallersWaitOnTheirs, TypeOK
    <3> QED
      BY <3>1, <1>1 DEF Request
  <2> QED
    BY <2>1, <2>2 DEF RequestBecomes
<1>3. SameTurns
  <2> SUFFICES ASSUME NEW r \in Servers PROVE Turn(r)' = Turn(r)
    BY DEF SameTurns
  <2>1. server[r].sock # NoConn => server[r].sock \in Conn
    BY DEF TypeOK, Loop
  <2>2. CASE server[r].sock = calls[i]
    BY <2>2 DEF Turn
  <2>3. CASE server[r].sock # calls[i]
    BY <2>1, <2>3 DEF Turn
  <2> QED
    BY <2>2, <2>3
<1> QED
  BY <1>2, <1>3 DEF SameUp

LEMMA EndedStates ==
    ASSUME TypeOK, NEW i \in Initiators, calls[i] # NoConn
    PROVE  /\ Request(i).state = Stage(conn[calls[i]].state)
           /\ Received(i) => Abstract!Results(Request(i).state) = {"answer"}
           /\ conn[calls[i]].state = "reset" => Abstract!Results(Request(i).state) = {"lost", "any"}
           /\ conn[calls[i]].state = "ended" => Abstract!Results(Request(i).state) = {"any"}
  BY RequestIs DEF Received, Stage, Abstract!Results

LEMMA TakeReplyRefines ==
    ASSUME Inv, NEW c \in Clients, TakeReply(c)
    PROVE  Abstract!Take(c)
<1> USE DEF Inv
<1>1. calls[c] \in Conn /\ calls[c] # NoConn /\ conn[calls[c]].state \in {"replied", "delivered"}
  BY DEF TakeReply, Received, TypeOK, Initiators
<1>2. /\ conn'[calls[c]].state # "executing"
      /\ \A k \in Conn \ {calls[c]} : conn'[k] = conn[k]
  BY <1>1 DEF TakeReply, Hangup, TypeOK, Connection, Free
<1>3. RequestBecomes(c, Abstract!NoRequest) /\ SameTurns /\ SameUp
  BY <1>1, <1>2, CallEnds DEF TakeReply, Initiators
<1> QED
  BY <1>1, <1>3, EndedStates, TakeRefines DEF TakeReply, Initiators

LEMMA TakeLossRefines ==
    ASSUME Inv, NEW c \in Clients, TakeLoss(c)
    PROVE  Abstract!Take(c)
<1> USE DEF Inv
<1>1. /\ calls[c] \in Conn /\ calls[c] # NoConn
      /\ \/ conn[calls[c]].state = "reset" /\ outcome' \in {[outcome EXCEPT ![c] = r] : r \in {"lost", "any"}}
         \/ conn[calls[c]].state = "ended" /\ outcome' = [outcome EXCEPT ![c] = "any"]
  BY DEF TakeLoss, Results, TypeOK, Initiators
<1>2. /\ conn'[calls[c]].state # "executing"
      /\ \A k \in Conn \ {calls[c]} : conn'[k] = conn[k]
  BY <1>1 DEF TakeLoss, TypeOK, Free
<1>3. RequestBecomes(c, Abstract!NoRequest) /\ SameTurns /\ SameUp
  BY <1>1, <1>2, CallEnds DEF TakeLoss, Initiators
<1> QED
  BY <1>1, <1>3, EndedStates, TakeRefines DEF Initiators

\* A server takes the end of a request it made: its own goes on.
LEMMA NestedEndRefines ==
    ASSUME Inv, NEW s \in Servers, NEW k \in {server[s].sock},
           Fetched(s, k) \/ Garbled(s, k)
    PROVE  Abstract!Take(s)
<1> USE Connections DEF Inv
<1>1. s \in Initiators /\ s \notin Clients
  BY EventLoopAssumption DEF Initiators
<1>2. /\ calls[s] \in Conn /\ calls[s] # NoConn /\ k \in Conn
      /\ conn[k].state = "executing"
      /\ conn[calls[s]].state \in {"replied", "delivered", "reset", "ended"}
      /\ conn[calls[s]] \in Connection
  <2>1. calls[s] # NoConn => calls[s] \in Conn
    BY <1>1 DEF TypeOK
  <2>2. k # NoConn => k \in Conn
    BY DEF TypeOK, Loop
  <2> QED
    BY <2>1, <2>2 DEF Fetched, Garbled, Handling, Executing, Socket, Received,
                      NestedState, TypeOK
<1>3. /\ calls' = [calls EXCEPT ![s] = NoConn] /\ server' = server /\ outcome' = outcome
  BY DEF Fetched, Garbled
<1>4. /\ conn'[calls[s]].state # "executing"
      /\ \A j \in Conn \ {calls[s]} :
             conn'[j].state = conn[j].state /\ conn'[j].closed = conn[j].closed
  <2>1. k # calls[s]
    BY <1>2
  <2>2. CASE Fetched(s, k)
    <3>1. Hangup(calls[s]) \in [Conn -> Connection]
      BY <1>2, FreeIsAConnection DEF Hangup, TypeOK, Connection
    <3>2. Hangup(calls[s])[calls[s]].state # "executing"
      BY <1>2 DEF Hangup, TypeOK, Connection, Free
    <3>3. \A j \in Conn \ {calls[s]} : Hangup(calls[s])[j] = conn[j]
      BY DEF Hangup, TypeOK
    <3> HIDE DEF Hangup
    <3>4. \A j \in Conn : conn'[j].state = Hangup(calls[s])[j].state
                           /\ conn'[j].closed = Hangup(calls[s])[j].closed
      BY <2>2, <3>1, <1>2 DEF Fetched, Connection
    <3> QED
      BY <3>2, <3>3, <3>4, <1>2
  <2>3. CASE Garbled(s, k)
    BY <2>1, <2>3, <1>2 DEF Garbled, TypeOK, Connection, Free
  <2> QED
    BY <2>2, <2>3
<1>5. RequestBecomes(s, Abstract!NoRequest) /\ SameTurns /\ SameUp
  BY <1>1, <1>2, <1>3, <1>4, CallEnds
<1>6. Abstract!Results(Request(s).state) # {}
  BY <1>1, <1>2, EndedStates DEF Received
<1> QED
  BY <1>1, <1>3, <1>5, <1>6, TakeRefines

\* What the loop does between requests is not seen by those who make them.
LEMMA LoopIsSilent ==
    ASSUME Inv, NEW s \in Servers, EpollWait(s) \/ Accept(s) \/ Serve(s)
    PROVE  UNCHANGED absVars
<1> USE Connections DEF Inv
<1>1. conn' = conn /\ calls' = calls /\ outcome' = outcome
  BY DEF EpollWait, Accept, Serve
<1>2. SameRequests
  BY <1>1 DEF SameRequests, Request
<1>3. \A r \in Servers : /\ server'[r].up = server[r].up
                         /\ \/ server'[r].sock = server[r].sock
                            \/ /\ server[r].sock = NoConn
                               /\ conn[server'[r].sock].state = "unread"
  <2>0. server[s] \in Loop /\ server[s].sock = NoConn /\ \A r \in Servers : r \in DOMAIN server
    BY DEF EpollWait, Accept, Serve, Between, TypeOK
  <2>1. CASE EpollWait(s)
    <3> DEFINE got == server[s].ready \cup (IF server[s].edge THEN {Listen} ELSE {})
               q == [server[s] EXCEPT !.edge = FALSE, !.ready = {}, !.events = got]
    <3>1. server' = [server EXCEPT ![s] = q]
      BY <2>1 DEF EpollWait
    <3> HIDE DEF got
    <3>2. q.up = server[s].up /\ q.sock = server[s].sock
      BY <2>0 DEF Loop
    <3> HIDE DEF q
    <3>3. server'[s] = q /\ \A r \in Servers \ {s} : server'[r] = server[r]
      BY <2>0, <3>1
    <3> QED
      BY <3>2, <3>3
  <2>2. CASE Accept(s)
    BY <2>2 DEF Accept, TypeOK, Loop
  <2>3. CASE Serve(s)
    <3>1. PICK k \in server[s].events \ {Listen} :
            server' = [server EXCEPT ![s].events = @ \ {k}, ![s].sock = k]
      BY <2>3 DEF Serve
    <3>2. conn[k].state = "unread"
      BY DEF QueuedOnce
    <3> DEFINE left == server[s].events \ {k}
               q == [server[s] EXCEPT !.events = left, !.sock = k]
    <3>3. server' = [server EXCEPT ![s] = q]
      BY <3>1
    <3> HIDE DEF left
    <3>4. q.up = server[s].up /\ q.sock = k
      BY <2>0 DEF Loop
    <3> HIDE DEF q
    <3>5. server'[s] = q /\ \A r \in Servers \ {s} : server'[r] = server[r]
      BY <2>0, <3>3
    <3> QED
      BY <2>0, <3>2, <3>4, <3>5
  <2> QED
    BY <2>1, <2>2, <2>3
<1>4. SameTurns
  BY <1>1, <1>3 DEF SameTurns, Turn
<1> QED
  BY <1>1, <1>2, <1>3, <1>4, SilentRefines DEF SameUp

\* A connection moves on that only its caller waits on, and only its server serves.
LEMMA OneConnection ==
    ASSUME Inv, NEW s \in Servers, NEW k \in Conn, server[s].sock = k, k # NoConn,
           conn[k].state # "free", calls' = calls,
           \A j \in Conn \ {k} : conn'[j] = conn[j],
           \A r \in Servers : server'[r].up = server[r].up,
           \A r \in Servers \ {s} : server'[r].sock = server[r].sock
    PROVE  /\ \A i \in Initiators \ {Owner(k)} : Request(i)' = Request(i)
           /\ conn[k].closed => SameRequests
           /\ ~conn[k].closed => calls[Owner(k)] = k
           /\ \A r \in Servers \ {s} : Turn(r)' = Turn(r)
           /\ SameUp
<1> USE Connections DEF Inv
<1>1. \A i \in Initiators : calls[i] # NoConn =>
        calls[i] \in Conn /\ Owner(calls[i]) = i /\ ~conn[calls[i]].closed
  BY DEF CallersWaitOnTheirs, TypeOK
<1>2. \A i \in Initiators : calls[i] # k => Request(i)' = Request(i)
  BY <1>1 DEF Request
<1>3. \A r \in Servers \ {s} : server[r].sock # NoConn => server[r].sock \in Conn \ {k}
  BY DEF ServedIsOwn, TypeOK, Loop
<1>4. \A r \in Servers \ {s} : Turn(r)' = Turn(r)
  BY <1>3 DEF Turn
<1> QED
  BY <1>1, <1>2, <1>4 DEF SameRequests, SameUp, OpenIsWaitedOn

LEMMA GetMessageRefines ==
    ASSUME Inv, NEW s \in Servers, NEW k \in {server[s].sock}, GetMessage(s, k)
    PROVE  \/ \E i \in Initiators : Abstract!Begin(i, s)
           \/ UNCHANGED absVars
<1> USE Connections DEF Inv
<1>1. /\ k \in Conn /\ k # NoConn /\ server[s].sock = k /\ To(k) = s /\ Owner(k) \in Initiators
      /\ conn[k].state = "unread" /\ conn[k] \in Connection
      /\ server' = server /\ calls' = calls /\ outcome' = outcome
  <2>1. k \in Conn
    BY DEF GetMessage, Socket, TypeOK, Loop
  <2> QED
    BY <2>1 DEF GetMessage, Socket, ServedIsOwn, TypeOK
<1>2. /\ conn'[k].state = "executing" /\ conn'[k].closed = conn[k].closed
      /\ \A j \in Conn \ {k} : conn'[j] = conn[j]
  BY <1>1 DEF GetMessage, TypeOK, Connection
<1>3. /\ \A i \in Initiators \ {Owner(k)} : Request(i)' = Request(i)
      /\ conn[k].closed => SameRequests
      /\ ~conn[k].closed => calls[Owner(k)] = k
      /\ \A r \in Servers \ {s} : Turn(r)' = Turn(r)
      /\ SameUp
  BY <1>1, <1>2, OneConnection
<1>4. Turn(s) = "nobody"
  BY <1>1 DEF Turn
<1>5. CASE conn[k].closed
  <2>1. Turn(s)' = "nobody"
    BY <1>1, <1>2, <1>5 DEF Turn
  <2> QED
    BY <2>1, <1>1, <1>3, <1>4, <1>5, SilentRefines DEF SameTurns
<1>6. CASE ~conn[k].closed
  <2>1. Turn(s)' = Owner(k)
    BY <1>1, <1>2, <1>6 DEF Turn
  <2>2. Request(Owner(k)) = [to |-> s, state |-> "asked"]
    BY <1>1, <1>3, <1>6 DEF Request, Stage
  <2>3. Request(Owner(k))' = [to |-> s, state |-> "executing"]
    BY <1>1, <1>2, <1>3, <1>6 DEF Request, Stage
  <2> QED
    BY <2>1, <2>2, <2>3, <1>1, <1>3, <1>4, BeginRefines DEF RequestBecomes, TurnBecomes
<1> QED
  BY <1>5, <1>6

LEMMA ReplyRefines ==
    ASSUME Inv, NEW s \in Servers, NEW k \in {server[s].sock}, Reply(s, k)
    PROVE  \/ \E i \in Initiators : Abstract!End(i, s)
           \/ UNCHANGED absVars
<1> USE Connections DEF Inv
<1>1. /\ k \in Conn /\ k # NoConn /\ server[s].sock = k /\ To(k) = s /\ Owner(k) \in Initiators
      /\ conn[k].state = "executing" /\ conn[k] \in Connection /\ calls[s] = NoConn
      /\ server' = server /\ calls' = calls /\ outcome' = outcome
  <2>1. k \in Conn
    BY DEF Reply, Handling, Executing, Socket, TypeOK, Loop
  <2> QED
    BY <2>1 DEF Reply, Handling, Executing, Socket, ServedIsOwn, TypeOK
<1>2. /\ conn'[k].state = "replied"
      /\ \A j \in Conn \ {k} : conn'[j] = conn[j]
  BY <1>1 DEF Reply, TypeOK, Connection
<1>3. /\ \A i \in Initiators \ {Owner(k)} : Request(i)' = Request(i)
      /\ conn[k].closed => SameRequests
      /\ ~conn[k].closed => calls[Owner(k)] = k
      /\ \A r \in Servers \ {s} : Turn(r)' = Turn(r)
      /\ SameUp
  BY <1>1, <1>2, OneConnection
<1>4. Turn(s)' = "nobody"
  BY <1>1, <1>2 DEF Turn
<1>5. CASE conn[k].closed
  <2>1. Turn(s) = "nobody"
    BY <1>1, <1>5 DEF Turn
  <2> QED
    BY <2>1, <1>1, <1>3, <1>4, <1>5, SilentRefines DEF SameTurns
<1>6. CASE ~conn[k].closed
  <2>1. Turn(s) = Owner(k)
    BY <1>1, <1>6 DEF Turn
  <2>2. Request(Owner(k)) = [to |-> s, state |-> "executing"]
    BY <1>1, <1>3, <1>6 DEF Request, Stage
  <2>3. Request(Owner(k))' = [to |-> s, state |-> "executed"]
    BY <1>1, <1>2, <1>3, <1>6 DEF Request, Stage
  <2>4. Request(s) = Abstract!NoRequest
    BY <1>1, RequestIs DEF Initiators
  <2> QED
    BY <2>1, <2>2, <2>3, <2>4, <1>1, <1>3, <1>4, EndRefines DEF RequestBecomes, TurnBecomes
<1> QED
  BY <1>5, <1>6

LEMMA EndOfFileIsSilent ==
    ASSUME Inv, NEW s \in Servers, NEW k \in {server[s].sock}, EndOfFile(s, k)
    PROVE  UNCHANGED absVars
<1> USE Connections DEF Inv
<1>1. /\ k \in Conn /\ k # NoConn /\ server[s].sock = k
      /\ conn[k].state = "replied" /\ conn[k].closed
      /\ calls' = calls /\ outcome' = outcome
      /\ \A j \in Conn \ {k} : conn'[j] = conn[j]
      /\ \A r \in Servers : server'[r].up = server[r].up
      /\ \A r \in Servers \ {s} : server'[r].sock = server[r].sock
      /\ server'[s].sock = NoConn
  <2>1. k \in Conn
    BY DEF EndOfFile, Socket, TypeOK, Loop
  <2> QED
    BY <2>1 DEF EndOfFile, Socket, TypeOK, Loop
<1>2. SameRequests /\ SameUp /\ \A r \in Servers \ {s} : Turn(r)' = Turn(r)
  BY <1>1, OneConnection
<1>3. Turn(s) = "nobody" /\ Turn(s)' = "nobody"
  BY <1>1 DEF Turn
<1> QED
  BY <1>1, <1>2, <1>3, SilentRefines DEF SameTurns

LEMMA DiesRefines ==
    ASSUME Inv, NEW s \in Servers, server[s].up, Dies(s)
    PROVE  Abstract!Kill(s)
<1> USE Connections DEF Inv
<1>1. /\ \A k \in Conn : conn'[k] = IF To(k) = s /\ Owner(k) = s THEN Free
                                    ELSE IF To(k) = s THEN Broken(conn[k])
                                    ELSE IF Owner(k) = s THEN Abandoned(conn[k]) ELSE conn[k]
      /\ calls'[s] = NoConn /\ \A i \in Initiators \ {s} : calls'[i] = calls[i]
      /\ server'[s] = Dead /\ \A r \in Servers \ {s} : server'[r] = server[r]
      /\ outcome' = outcome
  BY DEF Dies, TypeOK, Initiators
<1>2. ASSUME NEW i \in Initiators
      PROVE  Request(i)' = IF i = s THEN Abstract!NoRequest
                           ELSE IF Request(i).to = s THEN Abstract!Broken(Request(i)) ELSE Request(i)
  <2>1. CASE i = s
    BY <2>1, <1>1 DEF Request, Abstract!NoRequest, Abstract!NoServer
  <2>2. CASE i # s /\ calls[i] = NoConn
    BY <2>2, <1>1, EventLoopAssumption DEF Request
  <2>3. CASE i # s /\ calls[i] # NoConn
    <3> DEFINE k == calls[i]
    <3>1. k \in Conn /\ Owner(k) = i /\ ~conn[k].closed /\ k # NoConn /\ conn[k] \in Connection
      BY <2>3 DEF CallersWaitOnTheirs, TypeOK
    <3>2. /\ Request(i) = [to |-> To(k), state |-> Stage(conn[k].state)]
          /\ Request(i)' = [to |-> To(k), state |-> Stage(conn'[k].state)]
      BY <2>3, <1>1 DEF Request
    <3>3. CASE To(k) # s
      BY <3>1, <3>2, <3>3, <2>3, <1>1
    <3>4. CASE To(k) = s
      <4>1. conn'[k] = Broken(conn[k])
        BY <3>1, <3>4, <2>3, <1>1
      <4>2. conn'[k].state = CASE conn[k].state = "unread" -> "reset"
                               [] conn[k].state = "executing" -> "ended"
                               [] conn[k].state = "replied" -> "delivered" [] OTHER -> conn[k].state
        BY <4>1, <3>1 DEF Broken, Connection
      <4>3. Stage(conn'[k].state) = CASE Stage(conn[k].state) = "asked" -> "reset"
                                      [] Stage(conn[k].state) = "executing" -> "ended"
                                      [] OTHER -> Stage(conn[k].state)
        BY <4>2, <3>1 DEF Stage, Connection
      <4> QED
        BY <4>3, <3>2, <3>4, <2>3 DEF Abstract!Broken
    <3> QED
      BY <3>3, <3>4
  <2> QED
    BY <2>1, <2>2, <2>3
<1>3. ASSUME NEW r \in Servers
      PROVE  Turn(r)' = IF r = s \/ Turn(r) = s THEN "nobody" ELSE Turn(r)
  <2>1. CASE r = s
    BY <2>1, <1>1 DEF Turn, Dead
  <2>2. CASE r # s /\ server[r].sock = NoConn
    BY <2>2, <1>1 DEF Turn
  <2>3. CASE r # s /\ server[r].sock # NoConn
    <3> DEFINE k == server[r].sock
    <3>1. k \in Conn /\ To(k) = r /\ k # NoConn /\ conn[k] \in Connection
      BY <2>3 DEF ServedIsOwn, TypeOK, Loop
    <3>2. conn'[k] = IF Owner(k) = s THEN Abandoned(conn[k]) ELSE conn[k]
      BY <3>1, <2>3, <1>1
    <3>3. CASE Owner(k) = s
      <4>1. Turn(r)' = "nobody"
        BY <3>1, <3>2, <3>3, <2>3, <1>1 DEF Turn, Abandoned, Free, Connection
      <4>2. Turn(r) \in {s, "nobody"}
        BY <3>3 DEF Turn
      <4> QED
        BY <4>1, <4>2
    <3>4. CASE Owner(k) # s
      <4>1. Turn(r)' = Turn(r)
        BY <3>2, <3>4, <2>3, <1>1 DEF Turn
      <4>2. Turn(r) # s
        BY <3>4, EventLoopAssumption DEF Turn
      <4> QED
        BY <4>1, <4>2, <2>3
    <3> QED
      BY <3>3, <3>4
  <2> QED
    BY <2>1, <2>2, <2>3
<1>4. [r \in Servers |-> server'[r].up] = [[r \in Servers |-> server[r].up] EXCEPT ![s] = FALSE]
  <2>1. server'[s].up = FALSE
    BY <1>1 DEF Dead
  <2> QED
    BY <1>1, <2>1
<1> QED
  BY <1>1, <1>2, <1>3, <1>4 DEF Abstract!Kill, Abstract!Nobody, Abstract!Initiators, Initiators

LEMMA StartRefines ==
    ASSUME Inv, NEW s \in Servers, Start(s)
    PROVE  Abstract!Start(s)
<1>1. \A r \in Servers : /\ server'[r].sock = server[r].sock
                         /\ server'[r].up = IF r = s THEN TRUE ELSE server[r].up
  BY DEF Inv, TypeOK, Loop, Start
<1>2. SameRequests /\ SameTurns
  BY <1>1 DEF SameRequests, SameTurns, Request, Turn, Start
<1> QED
  BY <1>1, <1>2 DEF Abstract!Start, Start, SameRequests, SameTurns

LEMMA RefusedRefines ==
    ASSUME Inv, NEW c \in Clients, NEW s \in Servers, Refused(c, s)
    PROVE  Abstract!Refuse(c, s)
<1>1. Request(c) = Abstract!NoRequest
  BY RequestIs DEF Inv, Refused, Initiators
<1>2. SameRequests /\ SameTurns /\ SameUp
  BY DEF SameRequests, SameTurns, SameUp, Request, Turn, Refused
<1> QED
  BY <1>1, <1>2 DEF Abstract!Refuse, Refused, SameRequests, SameTurns, SameUp, Initiators

LEMMA NextRefines == Inv /\ [Next]_vars => [Abstract!Next]_absVars
<1> SUFFICES ASSUME Inv, [Next]_vars PROVE [Abstract!Next]_absVars
  OBVIOUS
<1> USE Connections DEF Inv, Abstract!Next
<1>1. ASSUME NEW i \in Initiators, NEW s \in Servers,
             Abstract!Ask(i, s) \/ Abstract!Begin(i, s) \/ Abstract!End(i, s)
      PROVE  Abstract!Next
  BY <1>1 DEF Abstract!Initiators, Initiators
<1>2. ASSUME NEW i \in Initiators, Abstract!Take(i) PROVE Abstract!Next
  BY <1>2 DEF Abstract!Initiators, Initiators
<1>3. ASSUME NEW r \in Asks, Ask(r[1], r[2], r[3], r[4]) \/ Refused(r[1], r[2]) PROVE Abstract!Next
  <2>1. /\ r[1] \in Clients /\ r[1] \in Initiators /\ r[1] \notin Servers /\ r[2] \in Servers
        /\ r[3] \in Kinds /\ r[4] \in Servers
    BY EventLoopAssumption DEF Initiators
  <2>2. CASE Ask(r[1], r[2], r[3], r[4])
    BY <2>1, <2>2, <1>1, ConnectRefines DEF Ask
  <2>3. CASE Refused(r[1], r[2])
    BY <2>1, <2>3, RefusedRefines
  <2> QED
    BY <1>3, <2>2, <2>3
<1>4. ASSUME NEW c \in Clients, TakeReply(c) \/ TakeLoss(c) PROVE Abstract!Next
  BY <1>4, <1>2, TakeReplyRefines, TakeLossRefines DEF Initiators
<1>5. ASSUME NEW s \in Servers, EpollWait(s) \/ Accept(s) \/ Serve(s) PROVE UNCHANGED absVars
  BY <1>5, LoopIsSilent
<1>6. ASSUME NEW s \in Servers, NEW k \in {server[s].sock}, GetMessage(s, k) \/ Reply(s, k)
      PROVE  [Abstract!Next]_absVars
  BY <1>6, <1>1, GetMessageRefines, ReplyRefines
<1>7. ASSUME NEW s \in Servers, NEW k \in {server[s].sock}, Fetch(s, k) PROVE Abstract!Next
  <2>1. /\ k \in Conn /\ conn[k] \in Connection /\ server[s].sock = k /\ k # NoConn
        /\ conn[k].state = "executing" /\ conn[k].done < Needs(conn[k].kind)
        /\ Connect(s, conn[k].source, "plain", conn[k].source) /\ calls[s] = NoConn
    <3>1. k # NoConn => k \in Conn
      BY DEF TypeOK, Loop
    <3> QED
      BY <1>7, <3>1 DEF Fetch, Handling, Executing, Socket, TypeOK
  <2>2. Owner(k) \notin Servers
    BY <2>1 DEF ServersAskPlain, Needs, Connection
  <2>3. ~conn[k].closed
    BY <2>1, <2>2 DEF OnlyServersAbandon
  <2>4. Turn(s) # "nobody"
    BY <2>1, <2>2, <2>3, EventLoopAssumption DEF Turn, Initiators
  <2>5. conn[k].source \in Servers /\ s \in Initiators /\ "plain" \in Kinds
    BY <2>1 DEF Connection, Initiators, Kinds
  <2> QED
    BY <2>1, <2>4, <2>5, <1>1, ConnectRefines
<1>8. ASSUME NEW s \in Servers, NEW k \in {server[s].sock}, Fetched(s, k) \/ Garbled(s, k)
      PROVE  Abstract!Next
  <2>1. Abstract!Take(s)
    BY <1>8, NestedEndRefines
  <2> QED
    BY <2>1, <1>2 DEF Initiators
<1>9. ASSUME NEW s \in Servers, NEW k \in {server[s].sock}, EndOfFile(s, k) PROVE UNCHANGED absVars
  BY <1>9, EndOfFileIsSilent
<1>10. ASSUME NEW s \in Servers, Kill(s) \/ \E k \in {server[s].sock} : FetchLost(s, k) \/ ReplyKills(s, k)
       PROVE  Abstract!Next
  <2>1. server[s].up /\ Dies(s)
    BY <1>10 DEF Kill, FetchLost, FetchRefused, ReplyKills, Handling, Executing, Socket
  <2> QED
    BY <2>1, DiesRefines
<1>11. ASSUME NEW s \in Servers, Start(s) PROVE Abstract!Next
  BY <1>11, StartRefines
<1>12. CASE UNCHANGED vars
  BY <1>12 DEF vars, absVars, AbsUp, AbsRequest, AbsTurn, Request, Turn
<1> QED
  BY <1>3, <1>4, <1>5, <1>6, <1>7, <1>8, <1>9, <1>10, <1>11, <1>12 DEF Next, ServerStep

\* Through connections that outlive their processes, edge-triggered events and
\* nested requests, a request is executed at most once, alone on its server, and
\* is called lost only if it was not executed: the loop of server.c implements
\* Requests.
THEOREM EventLoopImplementsRequests == Spec => ImplementsRequests
<1>1. Init => Abstract!Init
  <2> SUFFICES ASSUME Init PROVE Abstract!Init
    OBVIOUS
  <2>1. \A s \in Servers : server[s].up = TRUE /\ server[s].sock = NoConn
    BY DEF Init, Dead
  <2>2. \A i \in Initiators : Request(i) = Abstract!NoRequest
    BY DEF Init, Request, Abstract!NoRequest, Abstract!NoServer
  <2>3. \A s \in Servers : Turn(s) = Abstract!Nobody
    BY <2>1 DEF Turn, Abstract!Nobody
  <2> QED
    BY <2>1, <2>2, <2>3 DEF Init, Abstract!Init, Abstract!Initiators, Initiators
<1> QED
  BY <1>1, EventLoopInvariant, NextRefines, PTL
  DEF Spec, ImplementsRequests, Abstract!Spec, absVars, AbsUp, AbsRequest, AbsTurn

=============================================================================
