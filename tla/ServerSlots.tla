----------------------------- MODULE ServerSlots -----------------------------
(***************************************************************************)
(* The servers of one storage as the client sees them: the array           *)
(* STORAGE.servers, the loop with which every FUSE operation visits its    *)
(* slots, reconnect() and restoreall(), and the reconnect threads that run *)
(* beside the (single, "-s") FUSE thread and write into the same slots.    *)
(*                                                                         *)
(* A request is one step here and its outcome is left open: the module     *)
(* says what the client does with every outcome, whatever the server did.  *)
(* RaidStorage conjoins the same actions with what the servers do.         *)
(***************************************************************************)
EXTENDS Integers

CONSTANTS
    N,        \* storage->n_servers
    Names,    \* server addresses
    Threads,  \* thread identities; a finished thread's identity is reused
    Timeout   \* config.timeout

Slots == 0 .. N - 1

ASSUME SlotsAssumption ==
    /\ N \in Nat \ {0}
    /\ Timeout \in Nat

NoName == ""

DOWN == 0
UP == 1
STARTING == 2
\* A server that does not answer while the configuration is parsed keeps the
\* result of the ping as its state, and the code then takes it for a live one.
ERRCONNECTION == -132

States == {DOWN, UP, STARTING, ERRCONNECTION}

VARIABLES
    servers,  \* slot -> name and state (storage->servers)
    hotswap,  \* storage->hotswap
    threads,  \* the reconnect threads
    fuse      \* the FUSE thread: position in the loop over the slots

slotVars == <<servers, hotswap, threads, fuse>>

(***************************************************************************)
(* fuse.mode: "all" for the operations that visit every slot, "first" for  *)
(* those that only ask slot 0 (getattr, read, readdir).  fuse.done and     *)
(* fuse.gaps are history: the servers that replied to this operation's own *)
(* request, and whether one of its restoreall calls was refused or lost    *)
(* its server.                                                             *)
(***************************************************************************)
Fuse == [pc : {"idle", "loop", "exited", "crashed"}, mode : {"all", "first"},
         i : 0 .. N, done : SUBSET Names, gaps : SUBSET {"refused", "lost"}]

Tries == {1} \cup 1 .. Timeout

Thread == [pc : {"none", "ping", "name", "spare"}, slot : Slots,
           try : Tries, isSwap : BOOLEAN, tmp : Names \cup {NoName}]

TypeOK ==
    /\ servers \in [Slots -> [name : Names, state : States]]
    /\ hotswap \in Names
    /\ threads \in [Threads -> Thread]
    /\ \A t \in Threads : threads[t].pc \in {"name", "spare"} => threads[t].tmp \in Names
    /\ fuse \in Fuse

Idle == [pc |-> "idle", mode |-> "all", i |-> 0, done |-> {}, gaps |-> {}]

NoThread == [pc |-> "none", slot |-> 0, try |-> 1, isSwap |-> FALSE, tmp |-> NoName]

\* The configuration lists every address once.
DistinctNames ==
    /\ \A s, u \in Slots : s # u => servers[s].name # servers[u].name
    /\ \A s \in Slots : servers[s].name # hotswap

Init ==
    /\ servers \in [Slots -> [name : Names, state : {UP, ERRCONNECTION}]]
    /\ hotswap \in Names
    /\ DistinctNames
    /\ threads = [t \in Threads |-> NoThread]
    /\ fuse = Idle

-----------------------------------------------------------------------------
(* reconnect(i).  The loop tests servers[i + 1] in every round; after one   *)
(* exchange that is the server just marked DOWN, so it exchanges at most    *)
(* once, and the DOWN server ends in slot Landing(i).                       *)

\* Variant of Moves: no look at the next server.
MovesUnchecked(i) == i # N - 1

Moves(i) == i # N - 1 /\ servers[i + 1].state # DOWN

Landing(i) == IF Moves(i) THEN i + 1 ELSE i

Memswap(f, a, b) == [f EXCEPT ![a] = f[b], ![b] = f[a]]

Reconnected(i) ==
    Memswap([servers EXCEPT ![i].state = DOWN], i, Landing(i))

\* shut_down() exits the process, and with it every thread, when the DOWN
\* server ends in slot 0; otherwise a thread is started on the slot it is in.
Reconnect(i, next) ==
    /\ servers' = Reconnected(i)
    /\ hotswap' = hotswap
    /\ \/ /\ Landing(i) = 0
          /\ threads' = [t \in Threads |-> NoThread]
          /\ fuse' = [Idle EXCEPT !.pc = "exited"]
       \/ /\ Landing(i) # 0
          /\ \E t \in Threads :
                /\ threads[t].pc = "none"
                /\ threads' = [threads EXCEPT ![t] =
                                 [NoThread EXCEPT !.pc = "ping", !.slot = Landing(i)]]
          /\ fuse' = next

-----------------------------------------------------------------------------
(* The loop over the slots that every operation of client.c runs.           *)

\* Variant of Limit: the last server is left out.
LimitShort == IF fuse.mode = "all" THEN N - 1 ELSE 1

Limit == IF fuse.mode = "all" THEN N ELSE 1

AtSlot(i) == fuse.pc = "loop" /\ i < Limit /\ fuse.i = i

GoTo(i) == [fuse EXCEPT !.i = i]

Begin(mode) ==
    /\ fuse.pc = "idle"
    /\ fuse' = [Idle EXCEPT !.pc = "loop", !.mode = mode]
    /\ UNCHANGED <<servers, hotswap, threads>>

\* Only the operations that visit every slot test for a server that is DOWN.
SkipDown(i) ==
    /\ AtSlot(i)
    /\ fuse.mode = "all"
    /\ servers[i].state = DOWN
    /\ fuse' = GoTo(i + 1)
    /\ UNCHANGED <<servers, hotswap, threads>>

\* restoreall() on a STARTING server: status 0; the visit then goes on.
RestoreAllDone(i) ==
    /\ AtSlot(i)
    /\ servers[i].state = STARTING
    /\ servers' = [servers EXCEPT ![i].state = UP]
    /\ UNCHANGED <<hotswap, threads, fuse>>

\* Any other status but ERRCONNECTION: the operation passes the server over.
RestoreAllRefused(i) ==
    /\ AtSlot(i)
    /\ servers[i].state = STARTING
    /\ fuse' = [GoTo(i + 1) EXCEPT !.gaps = @ \cup {"refused"}]
    /\ UNCHANGED <<servers, hotswap, threads>>

\* ERRCONNECTION: "*j--" moves the pointer, not the index, so the loop goes on
\* with slot i + 1 whatever reconnect() has put into slot i.
RestoreAllLost(i) ==
    /\ AtSlot(i)
    /\ servers[i].state = STARTING
    /\ Reconnect(i, [GoTo(i + 1) EXCEPT !.gaps = @ \cup {"lost"}])

Requested(i) ==
    /\ AtSlot(i)
    /\ servers[i].state # STARTING
    /\ fuse.mode = "all" => servers[i].state # DOWN

Contacted(i) == [fuse EXCEPT !.done = @ \cup {servers[i].name}]

Answered(i) ==
    /\ Requested(i)
    /\ fuse' = [Contacted(i) EXCEPT !.i = i + 1]
    /\ UNCHANGED <<servers, hotswap, threads>>

\* client_read finds the data in the cache and asks no server.
AnsweredLocally(i) ==
    /\ Requested(i)
    /\ fuse.mode = "first"
    /\ fuse' = GoTo(i + 1)
    /\ UNCHANGED <<servers, hotswap, threads>>

\* Variant of RequestLost: the index is not taken back.
RequestLostGoesOn(i) == Requested(i) /\ Reconnect(i, GoTo(i + 1))

\* ERRCONNECTION: reconnect(i--), and the loop comes back to slot i.
RequestLost(i) == Requested(i) /\ Reconnect(i, fuse)

\* client_open has a copy restored and goes back to slot i or to i - 1.
Repaired(i, back) ==
    /\ Requested(i)
    /\ fuse.mode = "all"
    /\ back \in {i - 1, i} \cap Slots
    /\ fuse' = [Contacted(i) EXCEPT !.i = back]
    /\ UNCHANGED <<servers, hotswap, threads>>

\* client_opendir calls restoreall() on a server it was using, and retries.
Duplicated(i) ==
    /\ Requested(i)
    /\ fuse.mode = "all" /\ i > 0
    /\ servers' = [servers EXCEPT ![i].state = UP]
    /\ fuse' = Contacted(i)
    /\ UNCHANGED <<hotswap, threads>>

\* The same call loses the server, and client_opendir returns the error.
DuplicateLost(i) ==
    /\ Requested(i)
    /\ fuse.mode = "all" /\ i > 0
    /\ Reconnect(i, Idle)

\* A return inside the loop: the error of client_open and client_opendir, an
\* unknown descriptor in read, write, release, readdir and releasedir.
Return(i) ==
    /\ Requested(i)
    /\ fuse' = Idle
    /\ UNCHANGED <<servers, hotswap, threads>>

\* The client dies inside the loop: client_read gives the ERRCONNECTION it got
\* to the cache as a buffer, or its strcpy() of what was read leaves the buffer;
\* client_open reads msgs[i - 1] of a slot it passed over or frees msgs[i] more
\* than once.
Crash(i) ==
    /\ Requested(i)
    /\ fuse' = [Idle EXCEPT !.pc = "crashed"]
    /\ threads' = [t \in Threads |-> NoThread]
    /\ UNCHANGED <<servers, hotswap>>

LoopEnded == fuse.pc = "loop" /\ fuse.i = Limit

Finish ==
    /\ LoopEnded
    /\ fuse' = Idle
    /\ UNCHANGED <<servers, hotswap, threads>>

-----------------------------------------------------------------------------
(* reconnect_thread.  The exchange of the two names is three strcpy calls,  *)
(* so two threads may interleave in it.                                     *)

\* Variant of PingAnswered: the thread does not return.
PingAnsweredGoesOn(t) ==
    /\ threads[t].pc = "ping"
    /\ servers' = [servers EXCEPT ![threads[t].slot].state = STARTING]
    /\ UNCHANGED <<hotswap, threads, fuse>>

PingAnswered(t) ==
    /\ threads[t].pc = "ping"
    /\ servers' = [servers EXCEPT ![threads[t].slot].state = STARTING]
    /\ threads' = [threads EXCEPT ![t] = NoThread]
    /\ UNCHANGED <<hotswap, fuse>>

\* Variant of PingFailed: one try too many.
PingFailedLonger(t) ==
    /\ threads[t].pc = "ping"
    /\ threads[t].try <= Timeout
    /\ threads' = [threads EXCEPT ![t].try = @ + 1]
    /\ UNCHANGED <<servers, hotswap, fuse>>

PingFailed(t) ==
    /\ threads[t].pc = "ping"
    /\ threads[t].try < Timeout
    /\ threads' = [threads EXCEPT ![t].try = @ + 1]
    /\ UNCHANGED <<servers, hotswap, fuse>>

\* The last try failed: the hot-swap server has its turn, or the thread ends.
PingGivenUp(t) ==
    /\ threads[t].pc = "ping"
    /\ threads[t].try >= Timeout
    /\ servers' = [servers EXCEPT ![threads[t].slot].state = DOWN]
    /\ threads' = [threads EXCEPT ![t] =
                     IF threads[t].isSwap THEN NoThread
                     ELSE [@ EXCEPT !.pc = "name",
                                    !.tmp = servers[threads[t].slot].name]]
    /\ UNCHANGED <<hotswap, fuse>>

TakeSpareName(t) ==
    /\ threads[t].pc = "name"
    /\ servers' = [servers EXCEPT ![threads[t].slot].name = hotswap]
    /\ threads' = [threads EXCEPT ![t].pc = "spare"]
    /\ UNCHANGED <<hotswap, fuse>>

\* Variants of LeaveSpareName: the name is read back from the slot it was
\* already taken from, and the thread forgets that it has used the spare.
LeaveWrongName(t) ==
    /\ threads[t].pc = "spare"
    /\ hotswap' = servers[threads[t].slot].name
    /\ threads' = [threads EXCEPT ![t] =
                     [@ EXCEPT !.pc = "ping", !.try = 1, !.isSwap = TRUE]]
    /\ UNCHANGED <<servers, fuse>>
LeaveSpareUnmarked(t) ==
    /\ threads[t].pc = "spare"
    /\ hotswap' = threads[t].tmp
    /\ threads' = [threads EXCEPT ![t] = [@ EXCEPT !.pc = "ping", !.try = 1]]
    /\ UNCHANGED <<servers, fuse>>

LeaveSpareName(t) ==
    /\ threads[t].pc = "spare"
    /\ hotswap' = threads[t].tmp
    /\ threads' = [threads EXCEPT ![t] =
                     [@ EXCEPT !.pc = "ping", !.try = 1, !.isSwap = TRUE]]
    /\ UNCHANGED <<servers, fuse>>

ThreadStep(t) ==
    \/ PingAnswered(t)
    \/ PingFailed(t)
    \/ PingGivenUp(t)
    \/ TakeSpareName(t)
    \/ LeaveSpareName(t)

Visit(i) ==
    \/ SkipDown(i)
    \/ RestoreAllDone(i)
    \/ RestoreAllRefused(i)
    \/ RestoreAllLost(i)
    \/ Answered(i)
    \/ AnsweredLocally(i)
    \/ RequestLost(i)
    \/ \E back \in Slots : Repaired(i, back)
    \/ Duplicated(i)
    \/ DuplicateLost(i)
    \/ Return(i)
    \/ Crash(i)

\* The client process is gone; nothing moves any more.
Gone == fuse.pc \in {"exited", "crashed"} /\ UNCHANGED slotVars

Next ==
    \/ \E mode \in {"all", "first"} : Begin(mode)
    \/ \E i \in Slots : Visit(i)
    \/ Finish
    \/ \E t \in Threads : ThreadStep(t)
    \/ Gone

Spec == Init /\ [][Next]_slotVars

-----------------------------------------------------------------------------
(* Safety.                                                                  *)

Active(t) == threads[t].pc # "none"

Running == fuse.pc \in {"idle", "loop"}

\* Slot 0 never holds a server that is DOWN: client_getattr, client_read and
\* client_readdir send their request to servers[0] without looking at its state.
SlotZeroNeverDown ==
    Running => servers[0].state # DOWN

\* A reconnect thread keeps the address of a slot while memswap moves servers
\* between slots.  It is safe because a slot with a thread is DOWN and is no
\* other thread's: no exchange moves it, so the thread revives the server it
\* was started for.
ThreadsOwnDownSlots ==
    \A t \in Threads : Active(t) =>
        /\ servers[threads[t].slot].state = DOWN
        /\ threads[t].slot # 0
        /\ \A u \in Threads : Active(u) /\ u # t => threads[u].slot # threads[t].slot

\* The spare's name is in a thread's tmp between its last two strcpy calls.
SpareName(n) ==
    IF \E t \in Threads : threads[t].pc = "spare"
    THEN \E t \in Threads : threads[t].pc = "spare" /\ threads[t].tmp = n
    ELSE hotswap = n

NamesDiffer ==
    /\ \A s, u \in Slots : s # u => servers[s].name # servers[u].name
    /\ \A s \in Slots : ~SpareName(servers[s].name)

ServersKeepTheirNames == Running => NamesDiffer

InExchange(t) == threads[t].pc \in {"name", "spare"}

AtMostOneInExchange ==
    \A t, u \in Threads : InExchange(t) /\ InExchange(u) => t = u

\* There is one hot-swap server, and only two threads that are in the exchange
\* with it (client_config.c:172) at a time lose or double an address: no step of a
\* lone one does, wherever it is interleaved with the steps of reconnect() and of
\* the threads on other slots.
LoneExchangeKeepsNames ==
    [][AtMostOneInExchange /\ ServersKeepTheirNames => ServersKeepTheirNames']_slotVars

Live(s) == servers[s].state \notin {DOWN, STARTING}

\* When the loop of an operation on all servers ends, every server the client
\* counts as live has replied to it, unless a restoreall of this very operation
\* lost its server: exchanges and retries skip nobody.
LiveServersSeeEveryOperation ==
    LoopEnded /\ fuse.mode = "all" /\ "lost" \notin fuse.gaps =>
        \A s \in Slots : Live(s) => servers[s].name \in fuse.done

\* The server in slot 0, which serves the reads that follow, has replied to the
\* operation, whatever was exchanged meanwhile and even when it was STARTING,
\* unless a restoreall of this operation failed.
PrimaryExecutesEveryOperation ==
    LoopEnded /\ fuse.mode = "all" /\ fuse.gaps = {} => servers[0].name \in fuse.done

\* What is left of a reconnect thread, at most: the pings of the server, the
\* exchange, and the pings of the spare.
PingsLeft(th) == IF th.try < Timeout THEN Timeout - th.try ELSE 0

ExchangeLeft(th) ==
    CASE th.pc = "ping" -> 2
      [] th.pc = "name" -> 1
      [] OTHER -> 0

PingsSpare(th) == th.pc = "ping" /\ th.isSwap

Left(th) ==
    PingsLeft(th) + (IF PingsSpare(th) THEN 0 ELSE Timeout + 1 + ExchangeLeft(th))

\* A reconnect thread always ends: every step of it brings it nearer to its end,
\* and no exchange of slots starts one over.  The spare is tried after the server
\* and never again.
ReconnectsCountDown ==
    [][\A t \in Threads : Active(t) /\ Active(t)' =>
          \/ threads'[t] = threads[t]
          \/ Left(threads'[t]) < Left(threads[t])]_slotVars

=============================================================================
