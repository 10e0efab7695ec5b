------------------------------ MODULE RaidStorage ------------------------------
(***************************************************************************)
(* A mirrored storage (raid 1): the operations of client.c, with what      *)
(* every request does on the server that gets it.  What the client         *)
(* does with its slots is ServerSlots: every action here conjoins one of   *)
(* its actions, or leaves its variables alone.                             *)
(*                                                                         *)
(* A request and its reply are one step: a server fails between requests,  *)
(* or because a request makes it fail.                                     *)
(***************************************************************************)
EXTENDS FileServer

CONSTANTS
    N, Names, Threads, Timeout,  \* of ServerSlots
    Operations,                  \* bound: the operations that are called
    Handles,                     \* bound: values of fd_counter
    MaxFailures,                 \* bound: servers killed or cut off
    MaxDamage,                   \* bound: files damaged on a disk
    MaxSkew                      \* bound: seconds between the clocks of two servers

ASSUME RaidAssumption ==
    /\ N \in Nat \ {0}
    /\ Timeout \in Nat
    /\ Handles \in Nat \ {0}
    /\ MaxFailures \in Nat /\ MaxDamage \in Nat /\ MaxSkew \in Nat

VARIABLES
    servers, hotswap, threads, fuse,  \* of ServerSlots
    fds,        \* slot -> handle -> descriptor on the server (struct server.fds)
    fd_counter,
    cache,      \* the files client_cache.c may have an entry of
    call,       \* the operation that runs
    msgs,       \* client_open: slot -> the reply it keeps
    repair,     \* client_open: the restore request it is about to send
    server,     \* address -> FileServer
    now,        \* address -> the seconds of the server's clock
    opened,     \* handle -> the file or directory the kernel has it open for
    acked,      \* history: path -> contents it may have after what was reported
    faults      \* failures of servers and damages of files so far; `mixed': a part
                \* of a file was written into a damaged copy

Slots == INSTANCE ServerSlots WITH
    servers <- servers, hotswap <- hotswap, threads <- threads, fuse <- fuse

clientVars == <<fds, fd_counter, cache, call, msgs, repair, opened, acked>>
worldVars == <<server, now, faults>>
vars == <<servers, hotswap, threads, fuse, clientVars, worldVars>>

Slot == Slots!Slots

Server(i) == server[servers[i].name]
Reachable(i) == Server(i).up

NoFd == -1
NoPath == "none"
NoMsg == [status |-> OK, hash |-> Junk, mtime |-> 0, kept |-> FALSE]
NoRepair == [on |-> FALSE, target |-> 0, source |-> 0, at |-> 0]
NoFragment == "none"
NoCall == [op |-> "none", path |-> NoPath, to |-> NoPath, handle |-> 0, data |-> NoFragment,
           time |-> 0, entries |-> {}, retval |-> OK, quiet |-> TRUE]

ERRCONNECTION == Slots!ERRCONNECTION

TypeOK ==
    /\ Slots!TypeOK
    /\ fds \in [Slot -> [0 .. Handles - 1 -> Fds \cup {NoFd, ENOENT, ERRHASH, ERRCONNECTION}]]
    /\ fd_counter \in 0 .. Handles
    /\ cache \subseteq Paths
    /\ server \in [Names -> FileServer]
    /\ now \in [Names -> Times]
    /\ opened \in [0 .. Handles - 1 -> Tree \cup {Root, NoPath}]
    /\ acked \in [Tree -> SUBSET (Data \cup {Absent, Directory})]
    /\ {call.path, call.to} \subseteq Tree \cup {Root, NoPath} /\ call.entries \subseteq Tree
    /\ call.handle \in 0 .. Handles - 1 /\ call.data \in Fragments \cup {NoFragment}
    /\ \A i \in Slot : msgs[i].hash \in Data \cup {Junk} /\ msgs[i].mtime \in Times
    /\ repair.target \in Slot /\ repair.source \in Slot /\ repair.at \in Slot

Init ==
    /\ Slots!Init
    /\ \A i \in Slot : servers[i].state = Slots!UP
    /\ fds = [i \in Slot |-> [h \in 0 .. Handles - 1 |-> NoFd]]
    /\ fd_counter = 0
    /\ cache = {}
    /\ call = NoCall
    /\ msgs = [i \in Slot |-> NoMsg]
    /\ repair = NoRepair
    /\ server = [n \in Names |-> [up |-> TRUE, dir |-> [p \in Paths |-> NoInode], dirs |-> {},
                                  inode |-> [k \in Inodes |-> Blank],
                                  open |-> [d \in Fds |-> NoInode],
                                  stream |-> [d \in Fds |-> NoStream], left |-> {}]]
    /\ now = [n \in Names |-> 0]
    /\ opened = [h \in 0 .. Handles - 1 |-> NoPath]
    /\ acked = [p \in Tree |-> {Absent}]
    /\ faults = [failure |-> 0, damage |-> 0, mixed |-> FALSE]

-----------------------------------------------------------------------------
(* An operation begins.  The kernel has looked its path up (getattr on slot *)
(* 0), so it creates only what is not there and opens only what is.         *)

Known(p) == servers[0].state # Slots!STARTING /\ Exists(Server(0), p)
Unknown(p) == servers[0].state # Slots!STARTING /\ ~Exists(Server(0), p)
IsOpen(p) == \E h \in 0 .. Handles - 1 : opened[h] = p

BeginCall(mode, c) ==
    /\ c.op \in Operations
    /\ Slots!Begin(mode)
    /\ call' = c
    /\ UNCHANGED <<fds, cache, repair, msgs, opened, acked, worldVars>>

BeginOn(op, p) ==
    BeginCall("all", [NoCall EXCEPT !.op = op, !.path = p]) /\ UNCHANGED fd_counter

BeginMknod(p) == Unknown(p) /\ HasParent(Server(0), p) /\ BeginOn("mknod", p)

BeginMkdir(d) == Unknown(d) /\ BeginOn("mkdir", d)

\* Bound: a directory that is open is not removed.
BeginRmdir(d) == Known(d) /\ ~IsOpen(d) /\ BeginOn("rmdir", d)

\* A file that is open and would be replaced is renamed first by libfuse.
BeginRename(p, q) ==
    /\ Known(p) /\ HasParent(Server(0), q) /\ ~IsOpen(q)
    /\ BeginCall("all", [NoCall EXCEPT !.op = "rename", !.path = p, !.to = q])
    /\ UNCHANGED fd_counter

BeginUtime(p, time) ==
    /\ Known(p)
    /\ BeginCall("all", [NoCall EXCEPT !.op = "utime", !.path = p, !.time = time])
    /\ UNCHANGED fd_counter

\* A file that is open is renamed by libfuse, not removed.
BeginUnlink(p) == Known(p) /\ ~IsOpen(p) /\ BeginOn("unlink", p)

BeginTruncate(p) == Known(p) /\ BeginOn("truncate", p)

BeginHandle(op, p) ==
    /\ fd_counter < Handles
    /\ fd_counter' = fd_counter + 1
    /\ BeginCall("all", [NoCall EXCEPT !.op = op, !.path = p, !.handle = fd_counter])

BeginOpen(p) == Known(p) /\ BeginHandle("open", p)

BeginOpendir(d) == (d # Root => Known(d)) /\ BeginHandle("opendir", d)

BeginGetattr == BeginCall("first", [NoCall EXCEPT !.op = "getattr"]) /\ UNCHANGED fd_counter

\* client_write, client_release and client_releasedir return res, which nothing
\* initialises.
BeginWrite(h, fragment) ==
    /\ opened[h] \in Paths
    /\ \E res \in {OK, -1} :
          BeginCall("all", [NoCall EXCEPT !.op = "write", !.path = opened[h], !.handle = h,
                                          !.data = fragment, !.retval = res])
    /\ UNCHANGED fd_counter

BeginRelease(h) ==
    /\ opened[h] # NoPath
    /\ \E res \in {OK, -1} :
          BeginCall("all", [NoCall EXCEPT !.op = IF opened[h] \in Paths THEN "release"
                                                                       ELSE "releasedir",
                                          !.path = opened[h], !.handle = h, !.retval = res])
    /\ UNCHANGED fd_counter

BeginReaddir(h) ==
    /\ opened[h] \in Dirs \cup {Root}
    /\ BeginCall("first", [NoCall EXCEPT !.op = "readdir", !.path = opened[h], !.handle = h])
    /\ UNCHANGED fd_counter

BeginRead(h) ==
    /\ opened[h] \in Paths
    /\ BeginCall("first", [NoCall EXCEPT !.op = "read", !.path = opened[h], !.handle = h,
                                         !.retval = -1])
    /\ UNCHANGED fd_counter

-----------------------------------------------------------------------------
(* The visit of slot i.                                                     *)

\* The descriptors are in struct server and move with it.
FdsFollow(f, i) == Slots!Memswap(f, i, Slots!Landing(i))

Forget(i) == [msgs EXCEPT ![i] = NoMsg]

PassOver(i) ==
    /\ Slots!SkipDown(i)
    /\ msgs' = Forget(i)
    /\ UNCHANGED <<fds, fd_counter, cache, call, repair, opened, acked, worldVars>>

\* restoreall(): the slot before i is the source, in whatever state it is.
Source(i) == (N + i - 1) % N

OnServer(i, sv) == server' = [server EXCEPT ![servers[i].name] = sv]
OnServers(i, sv, j, sw) ==
    server' = [server EXCEPT ![servers[i].name] = sv, ![servers[j].name] = sw]

Now(i) == now[servers[i].name]

\* Server i gets an answer of server j; one that asks itself waits for ever.
Fetches(i, j) == Reachable(i) /\ Reachable(j) /\ servers[i].name # servers[j].name

\* Server i is filled with the files of server j, which leaves them open.
Duplicates(i, j) ==
    /\ Fetches(i, j)
    /\ \E read \in ReadAll(Server(j), Paths) :
          OnServers(i, Duplicate(Server(i), Server(j), Now(i)), j, read)

RestoreAllDone(i) ==
    /\ Slots!RestoreAllDone(i)
    /\ Duplicates(i, Source(i))
    /\ UNCHANGED <<clientVars, now, faults>>

\* Server j does not answer: server i has emptied its root by then, and dies when it
\* frees the address ERRCONNECTION.
DiesDuplicating(i, j) ==
    /\ Reachable(i) /\ ~Reachable(j)
    /\ OnServer(i, Killed(Emptied(Server(i))))

\* Variant of RestoreAllDies: the operation takes the STARTING server for asked.
RestoreAllTrusted(i) ==
    /\ Slots!AtSlot(i) /\ servers[i].state = Slots!STARTING
    /\ DiesDuplicating(i, Source(i))
    /\ fuse' = [Slots!Contacted(i) EXCEPT !.i = i + 1]
    /\ UNCHANGED <<servers, hotswap, threads, clientVars, now, faults>>

\* The status is then an ERRCONNECTION or what was in the memory of the reply: 0
\* counts a dead server as UP.
RestoreAllDies(i) ==
    /\ DiesDuplicating(i, Source(i))
    /\ \/ Slots!RestoreAllDone(i) /\ UNCHANGED <<fds, msgs>>
       \/ Slots!RestoreAllRefused(i) /\ fds' = fds /\ msgs' = Forget(i)
       \/ Slots!RestoreAllLost(i) /\ fds' = FdsFollow(fds, i) /\ msgs' = Forget(i)
    /\ call' = [call EXCEPT !.quiet = FALSE]
    /\ UNCHANGED <<fd_counter, cache, repair, opened, acked, now, faults>>

RestoreAllLost(i) ==
    /\ Slots!RestoreAllLost(i)
    /\ ~Reachable(i)
    /\ fds' = FdsFollow(fds, i)
    /\ msgs' = Forget(i)
    /\ UNCHANGED <<fd_counter, cache, call, repair, opened, acked, worldVars>>

Descriptor(i) == fds[i][call.handle]
UsesHandle == call.op \in {"read", "write", "release", "readdir", "releasedir"}

\* What client_write makes of the contents a file may have.
AfterWrite(old) == {Patched[<<c, call.data>>] : c \in old \cap Data}

\* get_server_fd() is -1: the operation returns the positive EBADF at once.
UnknownHandle(i) ==
    /\ UsesHandle /\ Descriptor(i) = NoFd
    /\ Slots!Return(i)
    /\ call' = NoCall
    /\ acked' = IF call.op = "write" THEN [acked EXCEPT ![call.path] = @ \cup AfterWrite(@)]
                                     ELSE acked
    /\ opened' = IF call.op \in {"release", "releasedir"}
                 THEN [opened EXCEPT ![call.handle] = NoPath] ELSE opened
    /\ UNCHANGED <<fds, fd_counter, cache, msgs, repair, worldVars>>

\* A DIR of a server that was restarted since, or an error in its place.
StaleDir(i) == call.op \in {"readdir", "releasedir"} /\ NoDirAt(Server(i), Descriptor(i))

Plain(i) ==
    call.op \notin {"open", "opendir", "read"} /\ (UsesHandle => Descriptor(i) # NoFd)

Request(i) ==
    CASE call.op = "getattr"  -> Reply(Server(i), OK)
      [] call.op = "mknod"    -> Mknod(Server(i), call.path, Now(i))
      [] call.op = "unlink"   -> Unlink(Server(i), call.path)
      [] call.op = "mkdir"    -> Mkdir(Server(i), call.path)
      [] call.op = "rmdir"    -> Rmdir(Server(i), call.path)
      [] call.op = "rename"   -> Rename(Server(i), call.path, call.to)
      [] call.op = "utime"    -> Utime(Server(i), call.path, call.time)
      [] call.op = "readdir"  -> Reply(Readdir(Server(i), Descriptor(i)).server, OK)
      [] call.op = "releasedir" -> Releasedir(Server(i), Descriptor(i))
      [] call.op = "truncate" -> Truncate(Server(i), call.path, Now(i))
      [] call.op = "write"    -> Write(Server(i), call.path, Descriptor(i), call.data, Now(i))
      [] call.op = "release"  -> Release(Server(i), Descriptor(i))

\* Variant of Result: client_write, too, returns the last answer.
ResultOfLast(i, status) == status

\* The last answer is the result, but client_write keeps that of slot 0.
Result(i, status) == IF call.op = "write" /\ i # 0 THEN call.retval ELSE status

Entries(i) == IF call.op = "readdir" THEN Readdir(Server(i), Descriptor(i)).entries ELSE {}

\* pwrite() to a copy whose damage the hash still shows.
Mixes(i) ==
    /\ call.op = "write" /\ faults.damage > 0 /\ ~Closed(Server(i), Descriptor(i))
    /\ LET file == Server(i).inode[Server(i).open[Descriptor(i)]] IN file.data # file.hash

Execute(i) ==
    /\ Slots!Answered(i)
    /\ Plain(i) /\ Reachable(i) /\ ~StaleDir(i)
    /\ OnServer(i, Request(i).server)
    /\ call' = [call EXCEPT !.retval = Result(i, Request(i).status), !.entries = Entries(i)]
    /\ faults' = [faults EXCEPT !.mixed = @ \/ Mixes(i)]
    /\ UNCHANGED <<fds, fd_counter, cache, msgs, repair, opened, acked, now>>

\* The server uses the number as an address.  Either it dies, and the reply is
\* uninitialised memory, or it finds an empty directory or nothing to close.
ExecuteStale(i) ==
    /\ Slots!Answered(i)
    /\ Plain(i) /\ Reachable(i) /\ StaleDir(i)
    /\ \E sv \in {Server(i), Killed(Server(i))}, status \in {OK, -1} :
          /\ OnServer(i, sv)
          /\ call' = [call EXCEPT !.retval = status]
    /\ UNCHANGED <<fds, fd_counter, cache, msgs, repair, opened, acked, now, faults>>

Lost(i) ==
    /\ Plain(i)
    /\ ~Reachable(i)
    /\ Slots!RequestLost(i)
    /\ fds' = FdsFollow(fds, i)
    /\ call' = [call EXCEPT !.retval = Result(i, ERRCONNECTION)]
    /\ UNCHANGED <<fd_counter, cache, msgs, repair, opened, acked, worldVars>>

-----------------------------------------------------------------------------
(* client_open.                                                             *)

Requesting(op, i) == call.op = op /\ ~repair.on /\ Slots!Requested(i)

Opening(i) == Requesting("open", i)

Kept(m) == [status |-> m.status, hash |-> m.hash, mtime |-> m.mtime, kept |-> TRUE]

\* Variant of WithFd: the entry of another handle is replaced.
WithFdOfFirst(i, d) == [fds EXCEPT ![i][0] = d]

WithFd(i, d) == [fds EXCEPT ![i][call.handle] = d]

\* msgs[i - 1] is NULL when the loop has passed slot i - 1 over.
Comparable(i) == i # 0 => msgs[i - 1].kept

\* Variant of Differs: the hash of the slot before is not compared.
DiffersNever(i, m) == FALSE

Differs(i, m) == i # 0 /\ msgs[i - 1].hash # m.hash

OpenAgreed(i) ==
    /\ Opening(i) /\ Reachable(i) /\ Comparable(i)
    /\ \E m \in Open(Server(i), call.path) :
          /\ m.status >= 0 /\ ~Differs(i, m)
          /\ OnServer(i, m.server)
          /\ msgs' = [msgs EXCEPT ![i] = Kept(m)]
          /\ fds' = WithFd(i, m.status)
    /\ Slots!Answered(i)
    /\ UNCHANGED <<fd_counter, cache, call, repair, opened, acked, now, faults>>

\* Variants of Repair: the copy that was found wrong is the source, a newer copy is
\* the source even if its own hash shows it damaged, and the index before the first
\* one is not taken modulo the number of servers.
RepairFromDamaged(i, m) == [on |-> TRUE, target |-> Source(i), source |-> i, at |-> i]
RepairByTime(i, m) ==
    IF Differs(i, m) /\ msgs[i - 1].mtime < m.mtime
    THEN RepairFromDamaged(i, m)
    ELSE [on |-> TRUE, target |-> i, source |-> Source(i), at |-> i]
RepairBefore(i, m) == [on |-> TRUE, target |-> i, source |-> i - 1, at |-> i]

\* Which copy is restored from which: the one before, unless both are sound
\* and this one is newer.
Repair(i, m) ==
    IF m.status # ERRHASH /\ Differs(i, m) /\ msgs[i - 1].mtime < m.mtime
    THEN [on |-> TRUE, target |-> Source(i), source |-> i, at |-> i]
    ELSE [on |-> TRUE, target |-> i, source |-> Source(i), at |-> i]

OpenDisagreed(i) ==
    /\ Opening(i) /\ Reachable(i) /\ Comparable(i)
    /\ \E m \in Open(Server(i), call.path) :
          /\ m.status = ERRHASH \/ Differs(i, m)
          /\ OnServer(i, m.server)
          /\ msgs' = [msgs EXCEPT ![i] = Kept(m)]
          /\ fds' = WithFd(i, m.status)
          /\ repair' = Repair(i, m)
    /\ UNCHANGED <<servers, hotswap, threads, fuse>>
    /\ UNCHANGED <<fd_counter, cache, call, opened, acked, now, faults>>

\* Any other error is returned; msgs[i] is freed i + 1 times.
OpenFailed(i) ==
    /\ Opening(i) /\ Reachable(i) /\ Comparable(i)
    /\ \E m \in Open(Server(i), call.path) :
          /\ m.status < 0 /\ m.status # ERRHASH /\ ~Differs(i, m)
          /\ OnServer(i, m.server)
          /\ fds' = WithFd(i, m.status)
    /\ IF i = 0 THEN Slots!Return(i) ELSE Slots!Crash(i)
    /\ call' = NoCall
    /\ msgs' = [j \in Slot |-> NoMsg]
    /\ UNCHANGED <<fd_counter, cache, repair, opened, acked, now, faults>>

OpenLost(i) ==
    /\ Opening(i) /\ ~Reachable(i) /\ Comparable(i)
    /\ Slots!RequestLost(i)
    /\ fds' = FdsFollow(WithFd(i, ERRCONNECTION), i)
    /\ msgs' = Forget(i)
    /\ UNCHANGED <<fd_counter, cache, call, repair, opened, acked, worldVars>>

OpenCrashes(i) ==
    /\ Opening(i) /\ ~Comparable(i)
    /\ Slots!Crash(i)
    /\ UNCHANGED <<clientVars, worldVars>>

Repairing(op, i) == call.op = op /\ repair.on /\ repair.at = i
RepairFrom == Server(repair.source)
RepairTo == Server(repair.target)
Restores(time) ==
    /\ Fetches(repair.target, repair.source)
    /\ \E read \in ReadAll(RepairFrom, {call.path}) :
          OnServers(repair.target, Restored(RepairTo, call.path, RepairFrom, time),
                    repair.source, read)

\* The loop goes back to the slot whose copy was replaced ...
Restore(i) ==
    /\ Repairing("open", i)
    /\ Restores(Now(repair.target))
    /\ Slots!Repaired(i, repair.target)
    /\ repair' = NoRepair
    /\ UNCHANGED <<fds, fd_counter, cache, call, msgs, opened, acked, now, faults>>

\* ... or on to the next slot when the copy could not be replaced.
RestoreLost(i) ==
    /\ Repairing("open", i)
    /\ ~RepairTo.up
    /\ Slots!Answered(i)
    /\ repair' = NoRepair
    /\ UNCHANGED <<fds, fd_counter, cache, call, msgs, opened, acked, worldVars>>

\* The server dies in the request.  The status the client then takes is an
\* ERRCONNECTION or what was in the memory of the reply.
RestoreKills(i) ==
    /\ Repairing("open", i)
    /\ RepairTo.up /\ ~RepairFrom.up
    /\ OnServer(repair.target, RestoreDies(RepairTo, call.path, Now(repair.target)))
    /\ Slots!Answered(i) \/ Slots!Repaired(i, repair.target)
    /\ repair' = NoRepair
    /\ call' = [call EXCEPT !.quiet = FALSE]
    /\ UNCHANGED <<fds, fd_counter, cache, msgs, opened, acked, now, faults>>

-----------------------------------------------------------------------------
(* client_opendir.                                                          *)

OpendirDone(i) ==
    /\ Requesting("opendir", i) /\ Reachable(i)
    /\ Slots!Answered(i)
    /\ \E m \in Opendir(Server(i), call.path) :
          /\ m.status >= 0
          /\ OnServer(i, m.server)
          /\ fds' = WithFd(i, m.status)
    /\ UNCHANGED <<fd_counter, cache, call, msgs, repair, opened, acked, now, faults>>

\* A server that does not have the directory is duplicated once more, and asked
\* again; the error of slot 0 is returned.
OpendirMissing(i) ==
    /\ Requesting("opendir", i) /\ Reachable(i)
    /\ \E m \in Opendir(Server(i), call.path) : m.status < 0
    /\ fds' = WithFd(i, ENOENT)
    /\ IF i > 0 THEN /\ repair' = [on |-> TRUE, target |-> i, source |-> Source(i), at |-> i]
                     /\ UNCHANGED <<servers, hotswap, threads, fuse, call>>
                ELSE Slots!Return(i) /\ call' = NoCall /\ UNCHANGED repair
    /\ UNCHANGED <<fd_counter, cache, msgs, opened, acked, worldVars>>

OpendirLost(i) ==
    /\ Requesting("opendir", i) /\ ~Reachable(i)
    /\ Slots!RequestLost(i)
    /\ fds' = FdsFollow(WithFd(i, ERRCONNECTION), i)
    /\ UNCHANGED <<fd_counter, cache, call, msgs, repair, opened, acked, worldVars>>

DuplicateAgain(i) ==
    /\ Repairing("opendir", i)
    /\ Slots!Duplicated(i)
    /\ Duplicates(i, Source(i))
    /\ repair' = NoRepair
    /\ UNCHANGED <<fds, fd_counter, cache, call, msgs, opened, acked, now, faults>>

\* The server dies, and the uninitialised status may be a 0 again; at any other the
\* error of the opendir is returned.
DuplicateDies(i) ==
    /\ Repairing("opendir", i)
    /\ DiesDuplicating(i, Source(i))
    /\ \/ Slots!Duplicated(i) /\ UNCHANGED <<call, fds>>
       \/ Slots!Return(i) /\ call' = NoCall /\ fds' = fds
       \/ Slots!DuplicateLost(i) /\ call' = NoCall /\ fds' = FdsFollow(fds, i)
    /\ repair' = NoRepair
    /\ UNCHANGED <<fd_counter, cache, msgs, opened, acked, now, faults>>

DuplicateLost(i) ==
    /\ Repairing("opendir", i)
    /\ ~Reachable(i)
    /\ Slots!DuplicateLost(i)
    /\ fds' = FdsFollow(fds, i)
    /\ call' = NoCall
    /\ repair' = NoRepair
    /\ UNCHANGED <<fd_counter, cache, msgs, opened, acked, worldVars>>

-----------------------------------------------------------------------------
(* client_read.  The cache answers if it has as much as is asked for; what  *)
(* it has, and what is read, is in ClientCache.                             *)

Reading(i) == call.op = "read" /\ Descriptor(i) # NoFd

ReadCached(i) ==
    /\ Reading(i)
    /\ call.path \in cache
    /\ Slots!AnsweredLocally(i)
    /\ call' = [call EXCEPT !.retval = OK]
    /\ UNCHANGED <<fds, fd_counter, cache, msgs, repair, opened, acked, worldVars>>

ReadServer(i) ==
    /\ Reading(i) /\ Reachable(i)
    /\ Slots!Answered(i)
    /\ call' = [call EXCEPT !.retval = OK]
    /\ cache' = cache \cup {call.path}
    /\ UNCHANGED <<fds, fd_counter, msgs, repair, opened, acked, worldVars>>

\* cache_write refuses the block, and drops every other, before it looks at the
\* buffer: only then does the client find the ERRCONNECTION and ask again.
ReadLost(i) ==
    /\ Reading(i) /\ ~Reachable(i)
    /\ cache # {}
    /\ Slots!RequestLost(i)
    /\ cache' = {}
    /\ fds' = FdsFollow(fds, i)
    /\ UNCHANGED <<fd_counter, call, msgs, repair, opened, acked, worldVars>>

\* cache_write copies from the address ERRCONNECTION, or strcpy() of a reply without
\* a NUL byte leaves the buffers.
ReadCrashes(i) ==
    /\ Reading(i)
    /\ Slots!Crash(i)
    /\ UNCHANGED <<clientVars, worldVars>>

-----------------------------------------------------------------------------
(* The operation returns.                                                   *)

Changes == {"mknod", "unlink", "truncate", "write", "mkdir", "rmdir", "rename"}

Outcome(old) ==
    CASE call.op \in {"unlink", "rmdir", "rename"} -> {Absent}
      [] call.op = "mkdir" -> {Directory}
      [] call.op = "write" -> AfterWrite(old)
      [] OTHER -> {Empty}

\* The contents an operation may have left where there were the contents `old'.
Either(old, new) == (IF call.retval = OK THEN {} ELSE old) \cup new

Reported ==
    IF call.op \notin Changes THEN acked
    ELSE [p \in Tree |->
            IF p = call.path THEN Either(acked[p], Outcome(acked[p]))
            ELSE IF p = call.to THEN Either(acked[p], acked[call.path]) ELSE acked[p]]

Renamed == call.op = "rename" /\ call.retval >= 0

\* (An entry of the old path is left if there were two.)
Cached ==
    IF call.op = "write" /\ call.retval >= 0 THEN cache \cup {call.path}
    ELSE IF Renamed /\ call.path \in cache THEN cache \cup {call.to} ELSE cache

Finish ==
    /\ Slots!Finish
    /\ acked' = Reported
    /\ cache' = Cached
    /\ opened' = CASE call.op \in {"open", "opendir"} -> [opened EXCEPT ![call.handle] = call.path]
                   [] call.op \in {"release", "releasedir"} -> [opened EXCEPT ![call.handle] = NoPath]
                   [] Renamed -> [h \in DOMAIN opened |->
                                    IF opened[h] = call.path THEN call.to ELSE opened[h]]
                   [] OTHER -> opened
    /\ call' = NoCall
    /\ msgs' = [i \in Slot |-> NoMsg]
    /\ UNCHANGED <<fds, fd_counter, repair, worldVars>>

-----------------------------------------------------------------------------
(* reconnect_thread and the world.                                          *)

ServerOf(t) == server[servers[threads[t].slot].name]

ThreadStep(t) ==
    /\ \/ Slots!PingAnswered(t) /\ ServerOf(t).up /\ fds' = fds
       \/ Slots!PingFailed(t) /\ ~ServerOf(t).up /\ fds' = fds
       \/ Slots!PingGivenUp(t) /\ ~ServerOf(t).up /\ fds' = fds
       \/ Slots!TakeSpareName(t) /\ fds' = fds
       \/ Slots!LeaveSpareName(t)
          /\ fds' = [fds EXCEPT ![threads[t].slot] = [h \in 0 .. Handles - 1 |-> NoFd]]
    /\ UNCHANGED <<fd_counter, cache, call, msgs, repair, opened, acked, worldVars>>

World(n, sv) ==
    /\ Slots!Running
    /\ server' = [server EXCEPT ![n] = sv]
    /\ call' = IF call = NoCall THEN call ELSE [call EXCEPT !.quiet = FALSE]
    /\ UNCHANGED <<servers, hotswap, threads, fuse, now>>
    /\ UNCHANGED <<fds, fd_counter, cache, msgs, repair, opened, acked>>

Fail(n, sv) ==
    /\ faults.failure < MaxFailures
    /\ server[n].up
    /\ World(n, sv)
    /\ faults' = [faults EXCEPT !.failure = @ + 1]

\* The server's process ends, and its descriptors with it.
Kill(n) == Fail(n, Killed(server[n]))

\* The server cannot be reached for a time.
Cut(n) == Fail(n, Unreachable(server[n]))

\* A killed server is started again, a cut one can be reached again.
Return(n) ==
    /\ ~server[n].up
    /\ World(n, Started(server[n]))
    /\ UNCHANGED faults

Damage(n, p, data) ==
    /\ faults.damage < MaxDamage
    /\ Exists(server[n], p) /\ data \notin {File(server[n], p).data, File(server[n], p).hash}
    /\ World(n, Damaged(server[n], p, data))
    /\ faults' = [faults EXCEPT !.damage = @ + 1]

\* The clocks of the servers are not those of one host.
Tick(ns) ==
    /\ Slots!Running
    /\ \A n \in ns : now[n] < MaxTime
    /\ now' = [n \in Names |-> IF n \in ns THEN now[n] + 1 ELSE now[n]]
    /\ \A n, m \in Names : now'[n] <= now'[m] + MaxSkew
    /\ UNCHANGED <<servers, hotswap, threads, fuse, clientVars, server, faults>>

Gone == Slots!Gone /\ UNCHANGED <<clientVars, worldVars>>

\* Bound: a request that takes more descriptors than MaxFd leaves is not followed.
Full ==
    /\ Slots!Running
    /\ \E n \in Names : Cardinality(FreeFds(server[n])) <= Cardinality(Paths)
    /\ UNCHANGED vars

Begin ==
    \/ \E p \in Paths :
          \/ BeginMknod(p) \/ BeginUnlink(p) \/ BeginTruncate(p) \/ BeginOpen(p)
          \/ \E q \in Paths \ {p} : BeginRename(p, q)
          \/ \E time \in Times : BeginUtime(p, time)
    \/ \E d \in Dirs : BeginMkdir(d) \/ BeginRmdir(d)
    \/ \E d \in Dirs \cup {Root} : BeginOpendir(d)
    \/ \E h \in 0 .. Handles - 1 :
          \/ BeginRead(h) \/ BeginRelease(h) \/ BeginReaddir(h)
          \/ \E fragment \in Fragments : BeginWrite(h, fragment)
    \/ BeginGetattr

Visit(i) ==
    \/ PassOver(i)
    \/ RestoreAllDone(i)
    \/ RestoreAllDies(i)
    \/ RestoreAllLost(i)
    \/ UnknownHandle(i)
    \/ Execute(i)
    \/ ExecuteStale(i)
    \/ Lost(i)
    \/ OpenAgreed(i)
    \/ OpenDisagreed(i)
    \/ OpenFailed(i)
    \/ OpenLost(i)
    \/ OpenCrashes(i)
    \/ Restore(i)
    \/ RestoreLost(i)
    \/ RestoreKills(i)
    \/ OpendirDone(i)
    \/ OpendirMissing(i)
    \/ OpendirLost(i)
    \/ DuplicateAgain(i)
    \/ DuplicateDies(i)
    \/ DuplicateLost(i)
    \/ ReadCached(i)
    \/ ReadServer(i)
    \/ ReadLost(i)
    \/ ReadCrashes(i)

Next ==
    \/ Begin
    \/ \E i \in Slot : Visit(i)
    \/ Finish
    \/ \E t \in Threads : ThreadStep(t)
    \/ \E n \in Names :
          \/ Kill(n) \/ Cut(n) \/ Return(n)
          \/ \E p \in Paths, data \in Data : Damage(n, p, data)
    \/ \E ns \in SUBSET Names \ {{}} : Tick(ns)
    \/ Gone
    \/ Full

Spec == Init /\ [][Next]_vars

\* The operation that runs goes on, and the scheduler runs every thread.
FairSpec ==
    /\ Spec
    /\ WF_vars((\E i \in Slot : Visit(i)) \/ Finish)
    /\ \A t \in Threads : WF_vars(ThreadStep(t))

-----------------------------------------------------------------------------
(* Refinement.                                                              *)

\* RaidStorage implements ServerSlots: whatever the servers do, the client's
\* slots change only as ServerSlots says, so its invariants hold here.
ImplementsServerSlots == Slots!Spec

-----------------------------------------------------------------------------
(* Safety.                                                                  *)

Idle == fuse.pc = "idle"

\* Between two operations the server the next read will ask has every file as
\* the last successful operation left it; after an operation that failed, as it
\* was before or as the operation would have left it (client_write reports what
\* slot 0 answered, reconnect() chooses who is in slot 0).
PrimaryHasWhatWasReported ==
    Idle /\ servers[0].state = Slots!UP =>
        \A p \in Tree : Content(Server(0), p) \in acked[p]

\* "All changes are made on all servers" (README.md:154): between two operations
\* servers that are UP have the same files.
MirrorsAgree ==
    Idle /\ (\A i \in Slot : servers[i].state = Slots!UP) =>
        \A i, j \in Slot, p \in Tree : Content(Server(i), p) = Content(Server(j), p)

\* The first listing of a directory that was opened has what was reported to be
\* in that directory: the handle leads to the right stream of the right server.
\* (server_readdir leaves the stream at its end, and a later listing is empty.)
Listed(i) ==
    LET there == {p \in Paths : Parent[p] = call.path} \cup (IF call.path = Root THEN Dirs ELSE {})
    IN  /\ {p \in there : Absent \notin acked[p]} \subseteq call'.entries
        /\ call'.entries \subseteq {p \in there : acked[p] # {Absent}}

ListingsAreTrue ==
    [][\A i \in Slot :
          /\ Execute(i) /\ call.op = "readdir"
          /\ ~Server(i).stream[Descriptor(i)].ended
          => Listed(i)]_vars

AfterOpen == Slots!LoopEnded /\ call.op = "open" /\ call.quiet

\* When client_open ends, and nothing failed during it (no server died in a
\* restore either), the copies on the servers whose answers it kept are equal
\* and carry their own hash, if they carry one at all.
OpenRepairs ==
    AfterOpen =>
        \A i, j \in Slot : msgs[i].kept /\ msgs[j].kept =>
            /\ MayPass(Server(i), call.path)
            /\ Content(Server(i), call.path) = Content(Server(j), call.path)

\* client_open chooses the right copy: what it leaves on slot 0 is what the last
\* successful operation left there, and not the damaged or the older content.
\* (A write of a part of a damaged file gives the damage in the rest of it a valid
\* hash, and nobody can tell it from the right copy.)
OpenKeepsWhatWasReported ==
    AfterOpen /\ ~faults.mixed => Content(Server(0), call.path) \in acked[call.path]

\* A server holds one descriptor for every handle that is open, one for the open or
\* opendir that runs, and one for every damage that was repaired: server_open leaves
\* it behind on the server with the damage, server_readall on the other.  An open
\* leaks with every repair, so its repairs come to an end.
OpenHandles == {h \in 0 .. Handles - 1 : opened[h] # NoPath}

DescriptorsAreBounded ==
    ~faults.mixed =>
        \A n \in Names :
            Cardinality(Fds \ FreeFds(server[n])) <=
                Cardinality(OpenHandles) + (IF call.op \in {"open", "opendir"} THEN 1 ELSE 0)
                + faults.damage

-----------------------------------------------------------------------------
(* Liveness.                                                                *)

\* After a failure the client goes on working (README.md:195): an operation that
\* was called comes to its end, or the client does, whatever it retries.
OperationsEnd == fuse.pc = "loop" ~> fuse.pc # "loop"

=============================================================================
