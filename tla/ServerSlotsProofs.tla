--------------------------- MODULE ServerSlotsProofs ---------------------------
(***************************************************************************)
(* What ServerSlots guarantees for every number of servers, names and      *)
(* threads and every timeout.  The inductive invariant is SlotsInv: the    *)
(* types, what a reconnect thread may own, and what the loop over the      *)
(* slots has done for the slots it has left behind.                        *)
(***************************************************************************)
EXTENDS ServerSlots, TLAPS

\* The slots the loop has passed: the live servers among them have replied.
PassedLiveSlotsReplied ==
    fuse.pc = "loop" /\ fuse.mode = "all" /\ "lost" \notin fuse.gaps =>
        \A s \in Slots : s < fuse.i /\ Live(s) => servers[s].name \in fuse.done

\* The loop leaves slot 0 only with its server's reply.
PrimaryReplied ==
    fuse.pc = "loop" /\ fuse.mode = "all" /\ fuse.gaps = {} /\ fuse.i > 0 =>
        servers[0].name \in fuse.done

\* A client that is gone has no threads left.
GoneWithoutThreads == ~Running => \A t \in Threads : ~Active(t)

SlotsInv ==
    /\ TypeOK
    /\ SlotZeroNeverDown
    /\ ThreadsOwnDownSlots
    /\ GoneWithoutThreads
    /\ PassedLiveSlotsReplied
    /\ PrimaryReplied

-----------------------------------------------------------------------------
(* reconnect(): what the exchange leaves in the slots.                      *)

Server == [name : Names, state : States]

LEMMA LandingInSlots ==
    ASSUME NEW i \in Slots
    PROVE  /\ Landing(i) \in Slots
           /\ Landing(i) \in {i, i + 1}
           /\ Landing(i) = 0 => i = 0
           /\ Landing(i) # i => Moves(i)
  BY SlotsAssumption DEF Landing, Moves, Slots

LEMMA ReconnectedSlots ==
    ASSUME servers \in [Slots -> Server], NEW i \in Slots
    PROVE  /\ Reconnected(i) \in [Slots -> Server]
           /\ Reconnected(i)[Landing(i)].state = DOWN
           /\ Moves(i) => i + 1 \in Slots /\ Reconnected(i)[i] = servers[i + 1]
           /\ \A s \in Slots \ {i, Landing(i)} : Reconnected(i)[s] = servers[s]
<1> DEFINE down == [servers EXCEPT ![i].state = DOWN]
<1>1. down \in [Slots -> Server]
  BY DEF Server, States
<1>2. down[i].state = DOWN /\ \A s \in Slots \ {i} : down[s] = servers[s]
  BY DEF Server
<1>3. Landing(i) \in Slots /\ Landing(i) \in {i, i + 1}
  BY LandingInSlots
<1>4. Reconnected(i) = [down EXCEPT ![i] = down[Landing(i)], ![Landing(i)] = down[i]]
  BY DEF Reconnected, Memswap
<1>5. Moves(i) => Landing(i) = i + 1
  BY DEF Landing
<1> HIDE DEF down
<1>6. QED
  BY <1>1, <1>2, <1>3, <1>4, <1>5, SlotsAssumption DEF Slots

LEMMA RestingTypes ==
    /\ 0 \in Slots
    /\ NoThread \in Thread
    /\ NoThread.pc = "none"
    /\ Idle \in Fuse
    /\ [Idle EXCEPT !.pc = "exited"] \in Fuse
    /\ [Idle EXCEPT !.pc = "crashed"] \in Fuse
<1>1. 0 \in Slots
  BY SlotsAssumption DEF Slots
<1>2. NoThread \in Thread /\ NoThread.pc = "none"
  BY <1>1 DEF NoThread, Thread, Tries
<1>3. Idle \in Fuse
  BY SlotsAssumption DEF Idle, Fuse
<1>4. QED
  BY <1>1, <1>2, <1>3 DEF Fuse

\* A reconnect() keeps the types, whatever the operation does next.
LEMMA ReconnectTypes ==
    ASSUME TypeOK, NEW i \in Slots, NEW next \in Fuse, Reconnect(i, next)
    PROVE  TypeOK'
<1>1. servers' \in [Slots -> Server]
  BY ReconnectedSlots DEF TypeOK, Reconnect, Server
<1>2. CASE threads' = [t \in Threads |-> NoThread] /\ fuse' = [Idle EXCEPT !.pc = "exited"]
  BY <1>1, <1>2, RestingTypes DEF TypeOK, Reconnect, Server
<1>3. CASE /\ fuse' = next
           /\ \E t \in Threads :
                 threads' = [threads EXCEPT ![t] =
                               [NoThread EXCEPT !.pc = "ping", !.slot = Landing(i)]]
  <2>1. [NoThread EXCEPT !.pc = "ping", !.slot = Landing(i)] \in Thread
    BY LandingInSlots, RestingTypes DEF Thread
  <2>2. [NoThread EXCEPT !.pc = "ping", !.slot = Landing(i)].pc = "ping"
    BY RestingTypes DEF Thread
  <2>3. QED
    BY <1>1, <1>3, <2>1, <2>2 DEF TypeOK, Reconnect, Server
<1>4. QED
  BY <1>2, <1>3 DEF Reconnect

LEMMA FuseStepTypes ==
    ASSUME TypeOK, NEW i \in Slots, Visit(i)
    PROVE  TypeOK'
<1> USE SlotsAssumption DEF Slots
<1>a. servers \in [Slots -> Server] /\ hotswap \in Names /\ threads \in [Threads -> Thread]
      /\ fuse \in Fuse
  BY DEF TypeOK, Server
<1>b. GoTo(i + 1) \in Fuse /\ Contacted(i) \in Fuse /\ Idle \in Fuse
  <2>1. GoTo(i + 1) \in Fuse
    BY <1>a DEF GoTo, Fuse
  <2>2. Contacted(i) \in Fuse
    BY <1>a DEF Contacted, Fuse, Server
  <2>3. Idle \in Fuse
    BY DEF Idle, Fuse
  <2> QED
    BY <2>1, <2>2, <2>3
<1>1. CASE SkipDown(i)
  BY <1>1, <1>a, <1>b DEF SkipDown, TypeOK
<1>2. CASE RestoreAllDone(i)
  BY <1>2, <1>a DEF RestoreAllDone, TypeOK, States, Server
<1>3. CASE RestoreAllRefused(i)
  <2>1. [GoTo(i + 1) EXCEPT !.gaps = @ \cup {"refused"}] \in Fuse
    BY <1>b DEF Fuse
  <2>2. QED
    BY <1>3, <1>a, <2>1 DEF RestoreAllRefused, TypeOK
<1>4. CASE RestoreAllLost(i)
  <2>1. [GoTo(i + 1) EXCEPT !.gaps = @ \cup {"lost"}] \in Fuse
    BY <1>b DEF Fuse
  <2>2. QED
    BY <1>4, <2>1, ReconnectTypes DEF RestoreAllLost
<1>5. CASE Answered(i)
  <2>1. [Contacted(i) EXCEPT !.i = i + 1] \in Fuse
    BY <1>b DEF Fuse
  <2>2. QED
    BY <1>5, <1>a, <2>1 DEF Answered, TypeOK
<1>6. CASE AnsweredLocally(i)
  BY <1>6, <1>a, <1>b DEF AnsweredLocally, TypeOK
<1>7. CASE RequestLost(i)
  BY <1>7, <1>a, ReconnectTypes DEF RequestLost
<1>8. CASE \E back \in Slots : Repaired(i, back)
  <2>1. PICK back \in Slots : Repaired(i, back)
    BY <1>8
  <2>2. [Contacted(i) EXCEPT !.i = back] \in Fuse
    BY <1>b DEF Fuse
  <2>3. QED
    BY <1>a, <2>1, <2>2 DEF Repaired, TypeOK
<1>9. CASE Duplicated(i)
  BY <1>9, <1>a, <1>b DEF Duplicated, TypeOK, States, Server
<1>10. CASE DuplicateLost(i)
  BY <1>10, <1>b, ReconnectTypes DEF DuplicateLost
<1>11. CASE Return(i)
  BY <1>11, <1>a, <1>b DEF Return, TypeOK
<1>12. CASE Crash(i)
  BY <1>12, <1>a, RestingTypes DEF Crash, TypeOK
<1>13. QED
  BY <1>1, <1>2, <1>3, <1>4, <1>5, <1>6, <1>7, <1>8, <1>9, <1>10, <1>11, <1>12 DEF Visit

LEMMA ThreadStepTypes ==
    ASSUME TypeOK, NEW t \in Threads, ThreadStep(t)
    PROVE  TypeOK'
<1> USE DEF Server
<1>1. CASE PingAnswered(t)
  BY <1>1, RestingTypes DEF PingAnswered, TypeOK, States, Thread
<1>2. CASE PingFailed(t)
  <2>1. threads[t].try + 1 \in Tries
    BY <1>2, SlotsAssumption DEF PingFailed, TypeOK, Thread, Tries
  <2>2. [threads[t] EXCEPT !.try = @ + 1] \in Thread
    BY <2>1 DEF TypeOK, Thread
  <2>3. threads' \in [Threads -> Thread]
    BY <1>2, <2>2 DEF PingFailed, TypeOK
  <2>4. threads'[t].pc = threads[t].pc
    BY <1>2 DEF PingFailed, TypeOK, Thread
  <2>5. QED
    BY <1>2, <2>3, <2>4 DEF PingFailed, TypeOK
<1>3. CASE PingGivenUp(t)
  <2>1. servers' \in [Slots -> Server]
    BY <1>3 DEF PingGivenUp, TypeOK, States
  <2>2. threads[t].slot \in Slots /\ servers[threads[t].slot].name \in Names
    BY DEF TypeOK, Thread
  <2>3. [threads[t] EXCEPT !.pc = "name", !.tmp = servers[threads[t].slot].name] \in Thread
    BY <2>2 DEF TypeOK, Thread
  <2>4. [threads[t] EXCEPT !.pc = "name", !.tmp = servers[threads[t].slot].name].tmp \in Names
    BY <2>2 DEF TypeOK, Thread
  <2>5. QED
    BY <1>3, <2>1, <2>3, <2>4, RestingTypes DEF PingGivenUp, TypeOK
<1>4. CASE TakeSpareName(t)
  BY <1>4 DEF TakeSpareName, TypeOK, Thread
<1>5. CASE LeaveSpareName(t)
  BY <1>5 DEF LeaveSpareName, TypeOK, Thread, Tries
<1>6. QED
  BY <1>1, <1>2, <1>3, <1>4, <1>5 DEF ThreadStep

LEMMA InitTypes == Init => TypeOK /\ \A t \in Threads : ~Active(t)
<1> SUFFICES ASSUME Init PROVE TypeOK /\ \A t \in Threads : ~Active(t)
  OBVIOUS
<1>1. servers \in [Slots -> Server]
  BY DEF Init, Server, States
<1>2. threads \in [Threads -> Thread] /\ \A t \in Threads : threads[t].pc = "none"
  BY RestingTypes DEF Init
<1>3. QED
  BY <1>1, <1>2, RestingTypes DEF Init, TypeOK, Server, Active

-----------------------------------------------------------------------------
(* The inductive invariant, action by action.                               *)

\* An exchange on a server that was not DOWN.  No thread is on a slot that
\* moves, so the threads keep the slots they were started on.
LEMMA ReconnectKeeps ==
    ASSUME SlotsInv, Running, NEW i \in Slots, servers[i].state # DOWN,
           NEW next \in Fuse, next.pc \in {"idle", "loop"}, Reconnect(i, next)
    PROVE  /\ SlotZeroNeverDown'
           /\ ThreadsOwnDownSlots'
           /\ GoneWithoutThreads'
<1> DEFINE j == Landing(i)
<1>1. /\ servers' = Reconnected(i)
      /\ servers \in [Slots -> Server]
      /\ threads \in [Threads -> Thread]
  BY DEF SlotsInv, TypeOK, Server, Reconnect
<1>2. /\ j \in Slots /\ j \in {i, i + 1}
      /\ j # i => Moves(i)
      /\ servers'[j].state = DOWN
      /\ Moves(i) => i + 1 \in Slots /\ servers'[i] = servers[i + 1] /\ servers[i + 1].state # DOWN
      /\ \A s \in Slots \ {i, j} : servers'[s] = servers[s]
  BY <1>1, LandingInSlots, ReconnectedSlots DEF Moves
<1> HIDE DEF j
<1>3. CASE j = 0 /\ threads' = [t \in Threads |-> NoThread] /\ fuse' = [Idle EXCEPT !.pc = "exited"]
  <2>1. fuse'.pc = "exited" /\ \A t \in Threads : threads'[t].pc = "none"
    BY <1>3, RestingTypes DEF Idle
  <2>2. QED
    BY <2>1 DEF SlotZeroNeverDown, ThreadsOwnDownSlots, GoneWithoutThreads, Running, Active
<1>4. CASE j # 0 /\ fuse' = next /\
           \E t \in Threads :
              /\ threads[t].pc = "none"
              /\ threads' = [threads EXCEPT ![t] =
                               [NoThread EXCEPT !.pc = "ping", !.slot = j]]
  <2>1. PICK t \in Threads :
           /\ threads[t].pc = "none"
           /\ threads' = [threads EXCEPT ![t] = [NoThread EXCEPT !.pc = "ping", !.slot = j]]
    BY <1>4
  <2>2. threads'[t].slot = j /\ \A u \in Threads \ {t} : threads'[u] = threads[u]
    BY <1>1, <2>1, RestingTypes DEF Thread
  <2>3. \A u \in Threads \ {t} : Active(u) => threads[u].slot \in Slots \ {i, j, 0}
    BY <1>1, <1>2, LandingInSlots DEF SlotsInv, ThreadsOwnDownSlots, Thread, Moves
  <2>4. ThreadsOwnDownSlots'
    BY <1>2, <1>4, <2>2, <2>3 DEF SlotsInv, ThreadsOwnDownSlots, Active
  <2>5. servers'[0].state # DOWN
    <3>1. CASE i = 0
      BY <1>2, <1>4, <3>1
    <3>2. CASE i # 0
      <4>1. 0 \in Slots \ {i, j} /\ Running
        BY <3>2, <1>4, RestingTypes
      <4>2. QED
        BY <4>1, <1>2 DEF SlotsInv, SlotZeroNeverDown
    <3>3. QED
      BY <3>1, <3>2
  <2>6. QED
    BY <1>4, <2>4, <2>5 DEF SlotZeroNeverDown, GoneWithoutThreads, Running
<1>5. QED
  BY <1>3, <1>4 DEF Reconnect, j

\* What the loop has behind it does not change when slot i and the slots above
\* it do, nor when the operation is over.
LEMMA ReconnectKeepsReplies ==
    ASSUME SlotsInv, NEW i \in Slots, AtSlot(i), Reconnect(i, fuse)
    PROVE  PassedLiveSlotsReplied' /\ PrimaryReplied'
<1>1. /\ servers' = Reconnected(i)
      /\ servers \in [Slots -> Server]
      /\ fuse' = [Idle EXCEPT !.pc = "exited"] \/ fuse' = fuse
  BY DEF SlotsInv, TypeOK, Server, Reconnect
<1>2. CASE fuse' = [Idle EXCEPT !.pc = "exited"]
  <2>1. fuse'.pc = "exited"
    BY <1>2 DEF Idle
  <2>2. QED
    BY <2>1 DEF PassedLiveSlotsReplied, PrimaryReplied
<1>3. CASE fuse' = fuse
  <2>1. \A s \in Slots : s < i => servers'[s] = servers[s]
    BY <1>1, LandingInSlots, ReconnectedSlots DEF Slots
  <2>2. fuse.i = i
    BY DEF AtSlot
  <2>3. QED
    BY <1>3, <2>1, <2>2, RestingTypes
    DEF SlotsInv, PassedLiveSlotsReplied, PrimaryReplied, Live, Slots
<1>4. QED
  BY <1>1, <1>2, <1>3

LEMMA VisitKeeps ==
    ASSUME SlotsInv, NEW i \in Slots, Visit(i)
    PROVE  SlotsInv'
<1> USE DEF Server
<1>t. TypeOK'
  BY FuseStepTypes DEF SlotsInv
<1>a. /\ servers \in [Slots -> Server] /\ threads \in [Threads -> Thread] /\ fuse \in Fuse
      /\ fuse.pc = "loop" /\ fuse.i = i /\ Running
      /\ SlotZeroNeverDown /\ ThreadsOwnDownSlots /\ PassedLiveSlotsReplied /\ PrimaryReplied
  BY DEF SlotsInv, TypeOK, Visit, SkipDown, RestoreAllDone, RestoreAllRefused, RestoreAllLost,
     Answered, AnsweredLocally, RequestLost, Repaired, Duplicated, DuplicateLost, Return,
     Crash, Requested, AtSlot, Running
<1>b. Requested(i) => servers[i].state # DOWN
  BY <1>a DEF Requested, SlotZeroNeverDown, AtSlot, Limit, Fuse, Slots
<1>c. \A t \in Threads : Active(t) /\ threads[t].slot = i => servers[i].state = DOWN
  BY <1>a DEF ThreadsOwnDownSlots
<1>1. CASE SkipDown(i)
  <2>1. i # 0
    BY <1>1, <1>a DEF SkipDown, SlotZeroNeverDown
  <2>2. fuse' = [fuse EXCEPT !.i = i + 1] /\ servers' = servers /\ threads' = threads
    BY <1>1 DEF SkipDown, GoTo
  <2>3. PassedLiveSlotsReplied'
    BY <1>1, <1>a, <2>2 DEF SkipDown, PassedLiveSlotsReplied, Live, Slots, Fuse
  <2>4. QED
    BY <1>t, <1>a, <2>1, <2>2, <2>3 DEF SlotsInv, SlotZeroNeverDown, ThreadsOwnDownSlots,
       GoneWithoutThreads, PrimaryReplied, Running, Active, Fuse, Slots
<1>2. CASE RestoreAllDone(i)
  <2>1. servers' = [servers EXCEPT ![i].state = UP] /\ threads' = threads /\ fuse' = fuse
        /\ servers[i].state # DOWN
    BY <1>2 DEF RestoreAllDone, STARTING, DOWN
  <2>2. ThreadsOwnDownSlots'
    BY <1>a, <1>c, <2>1 DEF ThreadsOwnDownSlots, Active
  <2>3. PassedLiveSlotsReplied' /\ PrimaryReplied'
    BY <1>a, <2>1, RestingTypes DEF PassedLiveSlotsReplied, PrimaryReplied, Live, Slots
  <2>4. QED
    BY <1>t, <1>a, <2>1, <2>2, <2>3 DEF SlotsInv, SlotZeroNeverDown,
       GoneWithoutThreads, Running, UP, DOWN
<1>3. CASE RestoreAllRefused(i)
  <2>1. fuse' = [[fuse EXCEPT !.i = i + 1] EXCEPT !.gaps = @ \cup {"refused"}]
        /\ servers' = servers /\ threads' = threads /\ ~Live(i)
    BY <1>3 DEF RestoreAllRefused, GoTo, Live
  <2>2. fuse'.pc = "loop" /\ fuse'.mode = fuse.mode /\ fuse'.i = i + 1 /\ fuse'.done = fuse.done
        /\ fuse'.gaps = fuse.gaps \cup {"refused"}
    BY <1>a, <2>1 DEF Fuse
  <2>3. PassedLiveSlotsReplied' /\ PrimaryReplied'
    BY <1>a, <2>1, <2>2 DEF PassedLiveSlotsReplied, PrimaryReplied, Live, Slots
  <2>4. QED
    BY <1>t, <1>a, <2>1, <2>2, <2>3 DEF SlotsInv, SlotZeroNeverDown, ThreadsOwnDownSlots,
       GoneWithoutThreads, Running, Active
<1>4. CASE RestoreAllLost(i)
  <2> DEFINE next == [GoTo(i + 1) EXCEPT !.gaps = @ \cup {"lost"}]
  <2>1. Reconnect(i, next) /\ servers[i].state # DOWN
    BY <1>4 DEF RestoreAllLost, STARTING, DOWN
  <2>2. next \in Fuse /\ next.pc = "loop" /\ "lost" \in next.gaps
    <3>1. GoTo(i + 1) \in Fuse /\ GoTo(i + 1).pc = "loop"
      BY <1>a, SlotsAssumption DEF GoTo, Fuse, Slots
    <3>2. QED
      BY <3>1 DEF Fuse
  <2>3. fuse' = next \/ fuse'.pc = "exited"
    BY <2>1, RestingTypes DEF Reconnect, Idle
  <2> HIDE DEF next
  <2>4. PassedLiveSlotsReplied' /\ PrimaryReplied'
    BY <2>2, <2>3 DEF PassedLiveSlotsReplied, PrimaryReplied
  <2>5. QED
    BY <1>t, <1>a, <2>1, <2>2, <2>4, ReconnectKeeps DEF SlotsInv
<1>5. CASE Answered(i)
  <2>1. fuse' = [Contacted(i) EXCEPT !.i = i + 1] /\ servers' = servers /\ threads' = threads
    BY <1>5 DEF Answered
  <2>2. fuse'.pc = "loop" /\ fuse'.mode = fuse.mode /\ fuse'.i = i + 1 /\ fuse'.gaps = fuse.gaps
        /\ fuse'.done = fuse.done \cup {servers[i].name}
    BY <1>a, <2>1 DEF Fuse, Contacted
  <2>3. PassedLiveSlotsReplied' /\ PrimaryReplied'
    BY <1>a, <2>1, <2>2 DEF PassedLiveSlotsReplied, PrimaryReplied, Live, Slots
  <2>4. QED
    BY <1>t, <1>a, <2>1, <2>2, <2>3 DEF SlotsInv, SlotZeroNeverDown, ThreadsOwnDownSlots,
       GoneWithoutThreads, Running, Active
<1>6. CASE AnsweredLocally(i)
  <2>1. fuse' = [fuse EXCEPT !.i = i + 1] /\ fuse.mode = "first"
        /\ servers' = servers /\ threads' = threads
    BY <1>6 DEF AnsweredLocally, GoTo
  <2>2. fuse'.pc = "loop" /\ fuse'.mode = "first"
    BY <1>a, <2>1 DEF Fuse
  <2>3. QED
    BY <1>t, <1>a, <2>1, <2>2 DEF SlotsInv, SlotZeroNeverDown, ThreadsOwnDownSlots,
       GoneWithoutThreads, PassedLiveSlotsReplied, PrimaryReplied, Running, Active
<1>7. CASE RequestLost(i)
  <2>1. Reconnect(i, fuse) /\ AtSlot(i)
    BY <1>7 DEF RequestLost, Requested
  <2>2. Requested(i)
    BY <1>7 DEF RequestLost
  <2>3. QED
    BY <1>t, <1>a, <1>b, <2>1, <2>2, ReconnectKeeps, ReconnectKeepsReplies DEF SlotsInv
<1>8. CASE \E back \in Slots : Repaired(i, back)
  <2>1. PICK back \in Slots : Repaired(i, back)
    BY <1>8
  <2>2. fuse' = [Contacted(i) EXCEPT !.i = back] /\ servers' = servers /\ threads' = threads
        /\ back \in {i - 1, i}
    BY <2>1 DEF Repaired
  <2>3. fuse'.pc = "loop" /\ fuse'.mode = fuse.mode /\ fuse'.i = back /\ fuse'.gaps = fuse.gaps
        /\ fuse'.done = fuse.done \cup {servers[i].name}
    BY <1>a, <2>2 DEF Fuse, Contacted
  <2>4. PassedLiveSlotsReplied' /\ PrimaryReplied'
    BY <1>a, <2>2, <2>3 DEF PassedLiveSlotsReplied, PrimaryReplied, Live, Slots
  <2>5. QED
    BY <1>t, <1>a, <2>2, <2>3, <2>4 DEF SlotsInv, SlotZeroNeverDown, ThreadsOwnDownSlots,
       GoneWithoutThreads, Running, Active
<1>9. CASE Duplicated(i)
  <2>1. servers' = [servers EXCEPT ![i].state = UP] /\ threads' = threads
        /\ fuse' = Contacted(i) /\ servers[i].state # DOWN
    BY <1>9, <1>b DEF Duplicated
  <2>2. fuse'.pc = "loop" /\ fuse'.mode = fuse.mode /\ fuse'.i = i /\ fuse'.gaps = fuse.gaps
        /\ fuse'.done = fuse.done \cup {servers[i].name}
    BY <1>a, <2>1 DEF Fuse, Contacted
  <2>3. ThreadsOwnDownSlots'
    BY <1>a, <1>c, <2>1 DEF ThreadsOwnDownSlots, Active
  <2>4. PassedLiveSlotsReplied' /\ PrimaryReplied'
    BY <1>a, <2>1, <2>2, RestingTypes DEF PassedLiveSlotsReplied, PrimaryReplied, Live, Slots
  <2>5. QED
    BY <1>t, <1>a, <2>1, <2>2, <2>3, <2>4 DEF SlotsInv, SlotZeroNeverDown,
       GoneWithoutThreads, Running, UP, DOWN
<1>10. CASE DuplicateLost(i)
  <2>1. Reconnect(i, Idle) /\ servers[i].state # DOWN
    BY <1>10, <1>b DEF DuplicateLost
  <2>2. Idle \in Fuse /\ Idle.pc = "idle"
    BY RestingTypes DEF Idle
  <2>3. fuse'.pc = "idle" \/ fuse'.pc = "exited"
    BY <2>1, <2>2, RestingTypes DEF Reconnect, Idle
  <2>4. PassedLiveSlotsReplied' /\ PrimaryReplied'
    BY <2>3 DEF PassedLiveSlotsReplied, PrimaryReplied
  <2>5. QED
    BY <1>t, <1>a, <2>1, <2>2, <2>4, ReconnectKeeps DEF SlotsInv
<1>11. CASE Return(i)
  <2>1. fuse'.pc = "idle" /\ servers' = servers /\ threads' = threads
    BY <1>11 DEF Return, Idle
  <2>2. QED
    BY <1>t, <1>a, <2>1 DEF SlotsInv, SlotZeroNeverDown, ThreadsOwnDownSlots,
       GoneWithoutThreads, PassedLiveSlotsReplied, PrimaryReplied, Running, Active
<1>12. CASE Crash(i)
  <2>1. fuse'.pc = "crashed" /\ \A t \in Threads : threads'[t].pc = "none"
    BY <1>12, RestingTypes DEF Crash, Idle
  <2>2. QED
    BY <1>t, <2>1 DEF SlotsInv, SlotZeroNeverDown, ThreadsOwnDownSlots,
       GoneWithoutThreads, PassedLiveSlotsReplied, PrimaryReplied, Running, Active
<1>13. QED
  BY <1>1, <1>2, <1>3, <1>4, <1>5, <1>6, <1>7, <1>8, <1>9, <1>10, <1>11, <1>12 DEF Visit

\* A thread only touches the slot it owns, and that slot is neither slot 0 nor live.
LEMMA ThreadStepKeeps ==
    ASSUME SlotsInv, NEW t \in Threads, ThreadStep(t)
    PROVE  SlotsInv'
<1> USE DEF Server
<1> DEFINE own == threads[t].slot
<1>t. TypeOK'
  BY ThreadStepTypes DEF SlotsInv
<1>a. /\ servers \in [Slots -> Server] /\ threads \in [Threads -> Thread] /\ fuse \in Fuse
      /\ own \in Slots /\ fuse' = fuse /\ Active(t)
      /\ GoneWithoutThreads /\ SlotZeroNeverDown /\ ThreadsOwnDownSlots
      /\ PassedLiveSlotsReplied /\ PrimaryReplied
  BY DEF SlotsInv, TypeOK, Thread, ThreadStep, PingAnswered, PingFailed, PingGivenUp,
     TakeSpareName, LeaveSpareName, Active
<1>b. own # 0 /\ servers[own].state = DOWN
      /\ \A u \in Threads : Active(u) /\ u # t => threads[u].slot # own
  BY <1>a DEF ThreadsOwnDownSlots
<1>c. \A s \in Slots \ {own} : servers'[s] = servers[s]
  BY <1>a DEF ThreadStep, PingAnswered, PingFailed, PingGivenUp, TakeSpareName, LeaveSpareName
<1>d. servers'[own].state \in {DOWN, STARTING}
  BY <1>a, <1>b DEF ThreadStep, PingAnswered, PingFailed, PingGivenUp, TakeSpareName, LeaveSpareName
<1>e. \A u \in Threads \ {t} : threads'[u] = threads[u]
  BY <1>a DEF ThreadStep, PingAnswered, PingFailed, PingGivenUp, TakeSpareName, LeaveSpareName
<1>f. Active(t)' => threads'[t].slot = own /\ servers'[own].state = DOWN
  <2>1. CASE PingAnswered(t)
    BY <2>1, <1>a, RestingTypes DEF PingAnswered, Active
  <2>2. CASE PingFailed(t)
    BY <2>2, <1>a, <1>b DEF PingFailed, Thread
  <2>3. CASE PingGivenUp(t)
    <3>1. threads'[t] = NoThread \/ threads'[t].slot = own
      BY <2>3, <1>a DEF PingGivenUp, Thread
    <3>2. servers'[own].state = DOWN
      BY <2>3, <1>a DEF PingGivenUp
    <3>3. QED
      BY <3>1, <3>2, RestingTypes DEF Active
  <2>4. CASE TakeSpareName(t)
    BY <2>4, <1>a, <1>b DEF TakeSpareName, Thread
  <2>5. CASE LeaveSpareName(t)
    BY <2>5, <1>a, <1>b DEF LeaveSpareName, Thread
  <2>6. QED
    BY <2>1, <2>2, <2>3, <2>4, <2>5 DEF ThreadStep
<1> HIDE DEF own
<1>1. SlotZeroNeverDown'
  BY <1>a, <1>b, <1>c, RestingTypes DEF SlotZeroNeverDown, Running
<1>2. ThreadsOwnDownSlots'
  BY <1>a, <1>b, <1>c, <1>e, <1>f DEF ThreadsOwnDownSlots, Active, Thread
<1>3. GoneWithoutThreads'
  BY <1>a DEF GoneWithoutThreads, Running
<1>4. PassedLiveSlotsReplied'
  BY <1>a, <1>c, <1>d DEF PassedLiveSlotsReplied, Live
<1>5. PrimaryReplied'
  BY <1>a, <1>b, <1>c, RestingTypes DEF PrimaryReplied
<1>6. QED
  BY <1>t, <1>1, <1>2, <1>3, <1>4, <1>5 DEF SlotsInv

\* The invariant behind everything below: it holds of every reachable state of
\* the client's slots, FUSE thread and reconnect threads.
THEOREM SlotsInvariant == Spec => []SlotsInv
<1>1. Init => SlotsInv
  <2> SUFFICES ASSUME Init PROVE SlotsInv
    OBVIOUS
  <2>1. servers[0].state # DOWN
    BY RestingTypes DEF Init, UP, DOWN, ERRCONNECTION
  <2>2. fuse.pc = "idle"
    BY DEF Init, Idle
  <2>3. QED
    BY <2>1, <2>2, InitTypes DEF SlotsInv, SlotZeroNeverDown, ThreadsOwnDownSlots,
       GoneWithoutThreads, PassedLiveSlotsReplied, PrimaryReplied, Running
<1>2. SlotsInv /\ [Next]_slotVars => SlotsInv'
  <2> SUFFICES ASSUME SlotsInv, [Next]_slotVars PROVE SlotsInv'
    OBVIOUS
  <2> USE DEF SlotsInv, SlotZeroNeverDown, ThreadsOwnDownSlots, GoneWithoutThreads,
          PassedLiveSlotsReplied, PrimaryReplied, Running, Active
  <2>1. CASE \E mode \in {"all", "first"} : Begin(mode)
    <3>1. PICK mode \in {"all", "first"} : Begin(mode)
      BY <2>1
    <3>2. fuse' = [Idle EXCEPT !.pc = "loop", !.mode = mode] /\ fuse.pc = "idle"
          /\ servers' = servers /\ threads' = threads /\ hotswap' = hotswap
      BY <3>1 DEF Begin
    <3>3. fuse' \in Fuse /\ fuse'.i = 0 /\ fuse'.pc = "loop"
      BY <3>2, RestingTypes DEF Fuse, Idle
    <3>4. TypeOK'
      BY <3>2, <3>3 DEF TypeOK
    <3>5. QED
      BY <3>2, <3>3, <3>4 DEF Slots
  <2>2. CASE \E i \in Slots : Visit(i)
    BY <2>2, VisitKeeps
  <2>3. CASE Finish
    <3>1. TypeOK'
      BY <2>3, RestingTypes DEF Finish, TypeOK
    <3>2. fuse'.pc = "idle" /\ fuse.pc = "loop" /\ servers' = servers /\ threads' = threads
      BY <2>3 DEF Finish, LoopEnded, Idle
    <3>3. QED
      BY <3>1, <3>2
  <2>4. CASE \E t \in Threads : ThreadStep(t)
    BY <2>4, ThreadStepKeeps
  <2>5. CASE Gone \/ UNCHANGED slotVars
    BY <2>5 DEF Gone, slotVars, TypeOK, Live
  <2>6. QED
    BY <2>1, <2>2, <2>3, <2>4, <2>5 DEF Next
<1>3. QED
  BY <1>1, <1>2, PTL DEF Spec

\* The slots, the spare, the threads and the FUSE thread keep their types: in
\* particular no exchange leaves the array and no thread tries more than Timeout
\* times (reconnect, client.c:44; reconnect_thread, client_config.c:149).
THEOREM TypeCorrect == Spec => []TypeOK
  BY SlotsInvariant, PTL DEF SlotsInv

\* Slot 0, which the reads use without looking at its state, is never DOWN while
\* the client runs (reconnect, client.c:44).
THEOREM SlotZero == Spec => []SlotZeroNeverDown
  BY SlotsInvariant, PTL DEF SlotsInv

\* Every reconnect thread keeps the slot it was started on, DOWN and its own, for
\* any number of servers and threads, in spite of the memswap of reconnect().
THEOREM ThreadsOwnTheirSlots == Spec => []ThreadsOwnDownSlots
  BY SlotsInvariant, PTL DEF SlotsInv

\* The loop of an operation on all servers skips no live server, unless one of
\* its restoreall calls lost a server.
THEOREM NoLiveServerIsSkipped == Spec => []LiveServersSeeEveryOperation
<1>1. SlotsInv => LiveServersSeeEveryOperation
  BY SlotsAssumption DEF SlotsInv, PassedLiveSlotsReplied, LiveServersSeeEveryOperation,
     LoopEnded, Limit, Slots
<1>2. QED
  BY <1>1, SlotsInvariant, PTL

\* Nor does it end without the reply of the server in slot 0, if its restoreall
\* calls succeeded.
THEOREM PrimaryIsNeverSkipped == Spec => []PrimaryExecutesEveryOperation
<1>1. SlotsInv => PrimaryExecutesEveryOperation
  BY SlotsAssumption DEF SlotsInv, PrimaryReplied, PrimaryExecutesEveryOperation,
     LoopEnded, Limit
<1>2. QED
  BY <1>1, SlotsInvariant, PTL

-----------------------------------------------------------------------------
(* The names, and the exchange with the hot-swap server.                    *)

\* A thread about to take the spare's name holds the name of its slot.
NameKept ==
    Running =>
        \A t \in Threads : threads[t].pc = "name" =>
            threads[t].tmp = servers[threads[t].slot].name

\* What a step does to the names.
NamesStep ==
    /\ NameKept'
    /\ AtMostOneInExchange /\ ServersKeepTheirNames => ServersKeepTheirNames'

\* reconnect() permutes the names of the slots.
LEMMA ReconnectedNames ==
    ASSUME servers \in [Slots -> Server], NEW i \in Slots
    PROVE  LET j == Landing(i) IN
           /\ Reconnected(i)[i].name = servers[j].name
           /\ Reconnected(i)[j].name = servers[i].name
           /\ \A s \in Slots \ {i, j} : Reconnected(i)[s].name = servers[s].name
<1> DEFINE down == [servers EXCEPT ![i].state = DOWN]
<1>1. down \in [Slots -> Server] /\ \A s \in Slots : down[s].name = servers[s].name
  BY DEF Server, States
<1>2. Landing(i) \in Slots
  BY LandingInSlots
<1>3. Reconnected(i) = [down EXCEPT ![i] = down[Landing(i)], ![Landing(i)] = down[i]]
  BY DEF Reconnected, Memswap
<1> HIDE DEF down
<1>4. QED
  BY <1>1, <1>2, <1>3

LEMMA ReconnectKeepsNames ==
    ASSUME SlotsInv, NameKept, Running, NEW i \in Slots, servers[i].state # DOWN,
           NEW next \in Fuse, Reconnect(i, next)
    PROVE  NamesStep
<1> DEFINE j == Landing(i)
<1>1. /\ servers' = Reconnected(i) /\ hotswap' = hotswap
      /\ servers \in [Slots -> Server] /\ threads \in [Threads -> Thread]
  BY DEF SlotsInv, TypeOK, Server, Reconnect
<1>2. /\ j \in Slots /\ (j # i => servers[j].state # DOWN)
      /\ servers'[i].name = servers[j].name /\ servers'[j].name = servers[i].name
      /\ \A s \in Slots \ {i, j} : servers'[s] = servers[s]
  BY <1>1, LandingInSlots, ReconnectedSlots, ReconnectedNames DEF Moves, Landing
<1> HIDE DEF j
<1>3. CASE threads' = [t \in Threads |-> NoThread] /\ fuse' = [Idle EXCEPT !.pc = "exited"]
  <2>1. fuse'.pc = "exited"
    BY <1>3 DEF Idle
  <2>2. QED
    BY <2>1 DEF NamesStep, ServersKeepTheirNames, NameKept, Running
<1>4. CASE \E t \in Threads :
              /\ threads[t].pc = "none"
              /\ threads' = [threads EXCEPT ![t] =
                               [NoThread EXCEPT !.pc = "ping", !.slot = j]]
  <2>1. PICK t \in Threads :
           /\ threads[t].pc = "none"
           /\ threads' = [threads EXCEPT ![t] = [NoThread EXCEPT !.pc = "ping", !.slot = j]]
    BY <1>4
  <2>2. threads'[t].pc = "ping" /\ \A u \in Threads \ {t} : threads'[u] = threads[u]
    BY <1>1, <2>1, RestingTypes DEF Thread
  <2>3. \A u \in Threads \ {t} : Active(u) => threads[u].slot \in Slots \ {i, j}
    BY <1>1, <1>2 DEF SlotsInv, ThreadsOwnDownSlots, Thread
  <2>4. NameKept'
    BY <1>2, <2>2, <2>3 DEF NameKept, Active
  <2>5. \A n : SpareName(n)' <=> SpareName(n)
    BY <1>1, <2>1, <2>2 DEF SpareName
  <2>6. NamesDiffer => NamesDiffer'
    <3> SUFFICES ASSUME NamesDiffer PROVE NamesDiffer'
      OBVIOUS
    <3>1. \A s, u \in Slots : s # u => servers'[s].name # servers'[u].name
      BY <1>2 DEF NamesDiffer
    <3>2. \A s \in Slots : ~SpareName(servers'[s].name)
      BY <1>2 DEF NamesDiffer
    <3>3. QED
      BY <2>5, <3>1, <3>2 DEF NamesDiffer
  <2>7. QED
    BY <2>4, <2>6 DEF NamesStep, ServersKeepTheirNames
<1>5. QED
  BY <1>3, <1>4 DEF Reconnect, j

\* A step that leaves the names, the spare and the threads alone.
LEMMA SameNames ==
    ASSUME SlotsInv, NameKept, Running' => Running, hotswap' = hotswap, threads' = threads,
           \A s \in Slots : servers'[s].name = servers[s].name
    PROVE  NamesStep
<1>1. \A t \in Threads : threads[t].slot \in Slots
  BY DEF SlotsInv, TypeOK, Thread
<1>2. \A n : SpareName(n)' <=> SpareName(n)
  BY DEF SpareName
<1>3. QED
  BY <1>1, <1>2 DEF NamesStep, ServersKeepTheirNames, NamesDiffer, NameKept

LEMMA ThreadStepKeepsNames ==
    ASSUME SlotsInv, NameKept, NEW t \in Threads, ThreadStep(t)
    PROVE  NamesStep
<1> USE DEF Server
<1> DEFINE own == threads[t].slot
<1>a. /\ servers \in [Slots -> Server] /\ threads \in [Threads -> Thread]
      /\ own \in Slots /\ fuse' = fuse /\ Active(t)
      /\ \A u \in Threads \ {t} : threads'[u] = threads[u] /\ threads[u].slot \in Slots
  BY DEF SlotsInv, TypeOK, Thread, ThreadStep, PingAnswered, PingFailed, PingGivenUp,
     TakeSpareName, LeaveSpareName, Active
<1>b. Running
  BY <1>a DEF SlotsInv, GoneWithoutThreads
<1>c. \A u \in Threads \ {t} : Active(u) => threads[u].slot # own
  BY <1>a DEF SlotsInv, ThreadsOwnDownSlots
<1>d. threads[t].pc = "name" => threads[t].tmp = servers[own].name
  BY <1>b DEF NameKept
<1>o. \A s \in Slots \ {own} : servers'[s].name = servers[s].name
  BY <1>a DEF ThreadStep, PingAnswered, PingFailed, PingGivenUp, TakeSpareName, LeaveSpareName
<1>n. (threads'[t].pc = "name" => threads'[t].slot = own /\ threads'[t].tmp = servers'[own].name)
      => NameKept'
  BY <1>a, <1>b, <1>c, <1>o DEF NameKept, Active
<1>1. CASE PingAnswered(t) \/ PingFailed(t) \/ PingGivenUp(t)
  <2>1. hotswap' = hotswap /\ threads[t].pc = "ping"
    BY <1>1 DEF PingAnswered, PingFailed, PingGivenUp
  <2>2. \A s \in Slots : servers'[s].name = servers[s].name
    BY <1>1, <1>a DEF PingAnswered, PingFailed, PingGivenUp
  <2>3. /\ threads'[t].pc # "spare"
        /\ threads'[t].pc = "name" => threads'[t].slot = own /\ threads'[t].tmp = servers[own].name
    <3>1. CASE threads'[t] = NoThread
      BY <3>1, RestingTypes
    <3>2. CASE threads'[t] = [threads[t] EXCEPT !.try = @ + 1]
      BY <3>2, <2>1, <1>a DEF Thread
    <3>3. CASE threads'[t] = [threads[t] EXCEPT !.pc = "name", !.tmp = servers[own].name]
      BY <3>3, <1>a DEF Thread
    <3>4. QED
      BY <1>1, <1>a, <3>1, <3>2, <3>3 DEF PingAnswered, PingFailed, PingGivenUp
  <2>4. \A n : SpareName(n)' <=> SpareName(n)
    BY <1>a, <2>1, <2>3 DEF SpareName
  <2>5. NamesDiffer => NamesDiffer'
    BY <2>2, <2>4 DEF NamesDiffer
  <2>6. QED
    BY <1>a, <1>b, <1>n, <2>2, <2>3, <2>5 DEF NamesStep, ServersKeepTheirNames
<1>2. CASE TakeSpareName(t) \/ LeaveSpareName(t)
  <2>1. InExchange(t)
    BY <1>2 DEF TakeSpareName, LeaveSpareName, InExchange
  <2>2. threads'[t].pc # "name"
    <3>1. threads[t] \in Thread
      BY <1>a
    <3>2. CASE TakeSpareName(t)
      BY <3>1, <3>2, <1>a DEF TakeSpareName, Thread
    <3>3. CASE LeaveSpareName(t)
      BY <3>1, <3>3, <1>a DEF LeaveSpareName, Thread
    <3>4. QED
      BY <1>2, <3>2, <3>3
  <2>3. ASSUME AtMostOneInExchange, NamesDiffer PROVE NamesDiffer'
    <3>1. \A u \in Threads \ {t} : threads[u].pc # "spare" /\ threads'[u].pc # "spare"
      BY <1>a, <2>1, <2>3 DEF AtMostOneInExchange, InExchange
    <3>2. \A n : SpareName(n) <=> IF threads[t].pc = "spare" THEN threads[t].tmp = n ELSE hotswap = n
      BY <3>1 DEF SpareName
    <3>3. \A n : SpareName(n)' <=> IF threads'[t].pc = "spare" THEN threads'[t].tmp = n ELSE hotswap' = n
      BY <3>1 DEF SpareName
    <3>4. /\ \A s, u \in Slots : s # u => servers[s].name # servers[u].name
          /\ \A s \in Slots : ~SpareName(servers[s].name)
      BY <2>3 DEF NamesDiffer
    <3>5. CASE TakeSpareName(t)
      <4>1. hotswap' = hotswap /\ threads[t].pc = "name" /\ threads'[t].pc = "spare"
            /\ threads'[t].tmp = threads[t].tmp
        BY <3>5, <1>a DEF TakeSpareName, Thread
      <4>2. servers'[own].name = hotswap
        BY <3>5, <1>a DEF TakeSpareName
      <4>3. QED
        BY <1>a, <1>d, <1>o, <3>2, <3>3, <3>4, <4>1, <4>2 DEF NamesDiffer
    <3>6. CASE LeaveSpareName(t)
      <4>1. hotswap' = threads[t].tmp /\ threads[t].pc = "spare" /\ threads'[t].pc = "ping"
            /\ servers' = servers
        BY <3>6, <1>a DEF LeaveSpareName, Thread
      <4>2. QED
        BY <1>a, <3>2, <3>3, <3>4, <4>1 DEF NamesDiffer
    <3>7. QED
      BY <1>2, <3>5, <3>6
  <2>4. QED
    BY <1>b, <1>n, <2>2, <2>3 DEF NamesStep, ServersKeepTheirNames
<1>3. QED
  BY <1>1, <1>2 DEF ThreadStep

LEMMA NextKeepsNames ==
    ASSUME SlotsInv, NameKept, [Next]_slotVars
    PROVE  NamesStep
<1>a. servers \in [Slots -> Server] /\ fuse \in Fuse
  BY DEF SlotsInv, TypeOK, Server
<1>1. CASE (\E mode \in {"all", "first"} : Begin(mode)) \/ Finish
  BY <1>1, SameNames DEF Begin, Finish, LoopEnded, Running
<1>2. CASE \E i \in Slots : Visit(i)
  <2>1. PICK i \in Slots : Visit(i)
    BY <1>2
  <2>2. fuse.pc = "loop" /\ fuse.i = i /\ Running /\ i \in 0 .. N - 1
    BY <2>1 DEF Visit, SkipDown, RestoreAllDone, RestoreAllRefused, RestoreAllLost,
       Answered, AnsweredLocally, RequestLost, Repaired, Duplicated, DuplicateLost, Return,
       Crash, Requested, AtSlot, Running, Slots
  <2>b. Requested(i) => servers[i].state # DOWN
    BY <1>a, <2>2 DEF SlotsInv, Requested, SlotZeroNeverDown, AtSlot, Limit, Fuse
  <2>3. CASE SkipDown(i) \/ RestoreAllRefused(i) \/ Answered(i) \/ AnsweredLocally(i) \/ Return(i)
             \/ \E back \in Slots : Repaired(i, back)
    BY <2>3, <2>2, SameNames DEF SkipDown, RestoreAllRefused, Answered, AnsweredLocally,
       Return, Repaired
  <2>4. CASE RestoreAllDone(i) \/ Duplicated(i)
    <3>1. \A s \in Slots : servers'[s].name = servers[s].name
      BY <1>a, <2>4 DEF RestoreAllDone, Duplicated, Server
    <3>2. QED
      BY <2>2, <2>4, <3>1, SameNames DEF RestoreAllDone, Duplicated
  <2>5. CASE RestoreAllLost(i)
    <3> DEFINE next == [GoTo(i + 1) EXCEPT !.gaps = @ \cup {"lost"}]
    <3>1. GoTo(i + 1) \in Fuse
      BY <1>a, <2>2, SlotsAssumption DEF GoTo, Fuse
    <3>2. next \in Fuse
      BY <3>1 DEF Fuse
    <3>3. Reconnect(i, next) /\ servers[i].state # DOWN
      BY <2>5 DEF RestoreAllLost, STARTING, DOWN
    <3> HIDE DEF next
    <3>4. QED
      BY <2>2, <3>2, <3>3, ReconnectKeepsNames
  <2>6. CASE RequestLost(i)
    BY <1>a, <2>2, <2>b, <2>6, ReconnectKeepsNames DEF RequestLost
  <2>7. CASE DuplicateLost(i)
    BY <2>2, <2>b, <2>7, RestingTypes, ReconnectKeepsNames DEF DuplicateLost
  <2>8. CASE Crash(i)
    <3>1. fuse'.pc = "crashed"
      BY <2>8 DEF Crash, Idle
    <3>2. QED
      BY <3>1 DEF NamesStep, ServersKeepTheirNames, NameKept, Running
  <2>9. QED
    BY <2>1, <2>3, <2>4, <2>5, <2>6, <2>7, <2>8 DEF Visit
<1>3. CASE \E t \in Threads : ThreadStep(t)
  BY <1>3, ThreadStepKeepsNames
<1>4. CASE Gone \/ UNCHANGED slotVars
  BY <1>4, SameNames DEF Gone, slotVars, Running
<1>5. QED
  BY <1>1, <1>2, <1>3, <1>4 DEF Next

LEMMA InitNames == Init => NameKept /\ ServersKeepTheirNames
<1> SUFFICES ASSUME Init PROVE NameKept /\ ServersKeepTheirNames
  OBVIOUS
<1>1. \A t \in Threads : threads[t].pc = "none"
  BY InitTypes DEF Active
<1>2. QED
  BY <1>1 DEF Init, DistinctNames, ServersKeepTheirNames, NamesDiffer, NameKept, SpareName

\* The exchange of reconnect_thread (client_config.c:172) loses and doubles no
\* address unless two threads are in it at a time, for any number of servers and
\* threads and wherever reconnect() moves the other servers meanwhile.
THEOREM LoneExchanges == Spec => LoneExchangeKeepsNames
<1>1. Init => NameKept
  BY InitNames
<1>2. SlotsInv /\ NameKept /\ [Next]_slotVars => NameKept'
  BY NextKeepsNames DEF NamesStep
<1>3. SlotsInv /\ NameKept /\ [Next]_slotVars
      => [AtMostOneInExchange /\ ServersKeepTheirNames => ServersKeepTheirNames']_slotVars
  BY NextKeepsNames DEF NamesStep
<1>4. QED
  BY <1>1, <1>2, <1>3, SlotsInvariant, PTL DEF Spec, LoneExchangeKeepsNames

\* So the slots and the spare keep different names as long as no two threads meet.
THEOREM NamesOfLoneExchanges == Spec /\ []AtMostOneInExchange => []ServersKeepTheirNames
<1>1. Init => NameKept /\ ServersKeepTheirNames
  BY InitNames
<1>2. /\ SlotsInv /\ NameKept /\ ServersKeepTheirNames /\ AtMostOneInExchange /\ [Next]_slotVars
      => NameKept' /\ ServersKeepTheirNames'
  BY NextKeepsNames DEF NamesStep
<1>3. QED
  BY <1>1, <1>2, SlotsInvariant, PTL DEF Spec

\* Two threads cannot meet when there are two servers: slot 0 never has one.
LEMMA OneThreadOfTwo == N <= 2 /\ Spec => []AtMostOneInExchange
<1> SUFFICES ASSUME N <= 2 PROVE Spec => []AtMostOneInExchange
  OBVIOUS
<1>1. SlotsInv => AtMostOneInExchange
  BY SlotsAssumption
  DEF SlotsInv, TypeOK, ThreadsOwnDownSlots, Slots, Thread, AtMostOneInExchange, InExchange, Active
<1>2. QED
  BY <1>1, SlotsInvariant, PTL

-----------------------------------------------------------------------------
(* The end of a reconnect thread.                                           *)

LEMMA ReconnectKeepsActive ==
    ASSUME TypeOK, NEW i \in Slots, NEW next, Reconnect(i, next), NEW t \in Threads, Active(t)
    PROVE  ~Active(t)' \/ threads'[t] = threads[t]
<1>1. CASE threads' = [u \in Threads |-> NoThread]
  BY <1>1, RestingTypes DEF Active
<1>2. CASE \E u \in Threads :
              /\ threads[u].pc = "none"
              /\ threads' = [threads EXCEPT ![u] =
                               [NoThread EXCEPT !.pc = "ping", !.slot = Landing(i)]]
  BY <1>2 DEF Active, TypeOK
<1>3. QED
  BY <1>1, <1>2 DEF Reconnect

LEMMA ThreadStepCountsDown ==
    ASSUME TypeOK, NEW t \in Threads, ThreadStep(t)
    PROVE  /\ \A u \in Threads \ {t} : threads'[u] = threads[u]
           /\ Active(t)' => Left(threads'[t]) < Left(threads[t])
<1> DEFINE th == threads[t]
<1>1. threads \in [Threads -> Thread] /\ th \in Thread /\ th.try \in Tries
  BY DEF TypeOK, Thread
<1>2. \A u \in Threads \ {t} : threads'[u] = threads[u]
  BY <1>1 DEF ThreadStep, PingAnswered, PingFailed, PingGivenUp, TakeSpareName, LeaveSpareName
<1>3. ASSUME Active(t)' PROVE Left(threads'[t]) < Left(th)
  <2>1. th.try \in Nat \ {0} /\ Timeout \in Nat
    BY <1>1, SlotsAssumption DEF Tries
  <2>2. CASE PingAnswered(t)
    BY <1>1, <1>3, <2>2, RestingTypes DEF PingAnswered, Active
  <2>3. CASE PingFailed(t)
    <3>1. threads'[t] = [th EXCEPT !.try = @ + 1]
      BY <1>1, <2>3 DEF PingFailed
    <3>2. /\ threads'[t].try = th.try + 1 /\ th.try < Timeout
          /\ threads'[t].pc = th.pc /\ threads'[t].isSwap = th.isSwap
      BY <1>1, <2>3, <3>1 DEF PingFailed, Thread
    <3>3. PingsLeft(threads'[t]) < PingsLeft(th)
          /\ PingsLeft(threads'[t]) \in Nat /\ PingsLeft(th) \in Nat
      BY <2>1, <3>2 DEF PingsLeft
    <3>4. /\ ExchangeLeft(threads'[t]) = ExchangeLeft(th) /\ ExchangeLeft(th) \in Nat
          /\ PingsSpare(threads'[t]) <=> PingsSpare(th)
      BY <3>2 DEF ExchangeLeft, PingsSpare
    <3>5. QED
      BY <2>1, <3>3, <3>4 DEF Left
  <2>4. CASE PingGivenUp(t)
    <3>1. ~th.isSwap /\ th.pc = "ping"
          /\ threads'[t] = [th EXCEPT !.pc = "name", !.tmp = servers[th.slot].name]
      BY <1>1, <1>3, <2>4, RestingTypes DEF PingGivenUp, Active
    <3>2. threads'[t].pc = "name" /\ threads'[t].try = th.try /\ ~threads'[t].isSwap
      BY <1>1, <3>1 DEF Thread
    <3>3. PingsLeft(threads'[t]) = PingsLeft(th) /\ PingsLeft(th) \in Nat
      BY <2>1, <3>2 DEF PingsLeft
    <3>4. /\ ExchangeLeft(threads'[t]) = 1 /\ ExchangeLeft(th) = 2
          /\ ~PingsSpare(threads'[t]) /\ ~PingsSpare(th)
      BY <3>1, <3>2 DEF ExchangeLeft, PingsSpare
    <3>5. QED
      BY <2>1, <3>3, <3>4 DEF Left
  <2>5. CASE TakeSpareName(t)
    <3>1. th.pc = "name" /\ threads'[t] = [th EXCEPT !.pc = "spare"]
      BY <1>1, <2>5 DEF TakeSpareName
    <3>2. threads'[t].pc = "spare" /\ threads'[t].try = th.try /\ threads'[t].isSwap = th.isSwap
      BY <1>1, <3>1 DEF Thread
    <3>3. PingsLeft(threads'[t]) = PingsLeft(th) /\ PingsLeft(th) \in Nat
      BY <2>1, <3>2 DEF PingsLeft
    <3>4. /\ ExchangeLeft(threads'[t]) = 0 /\ ExchangeLeft(th) = 1
          /\ ~PingsSpare(threads'[t]) /\ ~PingsSpare(th)
      BY <3>1, <3>2 DEF ExchangeLeft, PingsSpare
    <3>5. QED
      BY <2>1, <3>3, <3>4 DEF Left
  <2>6. CASE LeaveSpareName(t)
    <3>1. th.pc = "spare"
          /\ threads'[t] = [th EXCEPT !.pc = "ping", !.try = 1, !.isSwap = TRUE]
      BY <1>1, <2>6 DEF LeaveSpareName
    <3>2. threads'[t].pc = "ping" /\ threads'[t].try = 1 /\ threads'[t].isSwap
      BY <1>1, <3>1 DEF Thread
    <3>3. /\ PingsSpare(threads'[t]) /\ ~PingsSpare(th)
          /\ ExchangeLeft(th) = 0
      BY <3>1, <3>2 DEF ExchangeLeft, PingsSpare
    <3>4. PingsLeft(threads'[t]) <= Timeout /\ PingsLeft(threads'[t]) \in Nat /\ PingsLeft(th) \in Nat
      BY <2>1, <3>2 DEF PingsLeft
    <3>5. QED
      BY <2>1, <3>3, <3>4 DEF Left
  <2>7. QED
    BY <2>2, <2>3, <2>4, <2>5, <2>6 DEF ThreadStep
<1>4. QED
  BY <1>2, <1>3

LEMMA NextCountsDown ==
    ASSUME TypeOK, [Next]_slotVars, NEW t \in Threads, Active(t), Active(t)'
    PROVE  threads'[t] = threads[t] \/ Left(threads'[t]) < Left(threads[t])
<1>1. CASE \E mode \in {"all", "first"} : Begin(mode)
  BY <1>1 DEF Begin
<1>2. CASE \E i \in Slots : Visit(i)
  <2>1. PICK i \in Slots : Visit(i)
    BY <1>2
  <2>2. CASE RestoreAllLost(i) \/ RequestLost(i) \/ DuplicateLost(i)
    BY <2>2, ReconnectKeepsActive DEF RestoreAllLost, RequestLost, DuplicateLost
  <2>3. CASE Crash(i)
    BY <2>3, RestingTypes DEF Crash, Active
  <2>4. CASE threads' = threads
    BY <2>4
  <2>5. QED
    BY <2>1, <2>2, <2>3, <2>4
    DEF Visit, SkipDown, RestoreAllDone, RestoreAllRefused, Answered, AnsweredLocally,
        Repaired, Duplicated, Return
<1>3. CASE Finish
  BY <1>3 DEF Finish
<1>4. CASE \E u \in Threads : ThreadStep(u)
  BY <1>4, ThreadStepCountsDown
<1>5. CASE Gone \/ UNCHANGED slotVars
  BY <1>5 DEF Gone, slotVars
<1>6. QED
  BY <1>1, <1>2, <1>3, <1>4, <1>5 DEF Next

\* Every reconnect thread (client_config.c:149) has a bounded number of steps left,
\* whatever timeout is and whatever else happens: it uses the spare at most once.
THEOREM ReconnectsEnd == Spec => ReconnectsCountDown
<1>1. TypeOK /\ [Next]_slotVars
      => [\A t \in Threads : Active(t) /\ Active(t)' =>
             \/ threads'[t] = threads[t]
             \/ Left(threads'[t]) < Left(threads[t])]_slotVars
  BY NextCountsDown
<1>2. QED
  BY <1>1, TypeCorrect, PTL DEF Spec, ReconnectsCountDown

=============================================================================
