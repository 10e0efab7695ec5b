# A verification project for the RAID-over-FUSE file system

The program is a user-space file system. One client process mounts a FUSE
directory; every file operation on it becomes requests to the servers of one
storage. With `raid = 1` the storage is a mirror: every change is sent to all
servers, reads go to the server in slot 0, a server that stops answering is
marked DOWN and waited for by a thread, and after a time replaced by a hot-swap
server. This directory holds TLA+ modules for that behaviour, the configurations
with which TLC checks them, and proofs checked by TLAPS.

Paths below are relative to `src/`. `README.md:<n>` is a line of the program's
own documentation (`src/README.md`).

## 1. The system

### Inventory

| component | state it keeps | operations | interacts with |
|---|---|---|---|
| slots, `client/client.c` 34-80, `client_config.h` | `STORAGE.servers[]` (name, state, descriptor table), `hotswap` | `reconnect`, `restoreall`, `shut_down`, the loop of every operation | reconnect threads write the same slots; servers through the protocol |
| reconnect thread, `client_config.c` 149-200 | slot address, tries, whether the spare was used | ping once a second, mark STARTING, exchange the name with `hotswap` | the slots, without a lock |
| file operations, `client.c` 82-512 | `fd_counter`, replies kept by `client_open` | getattr, mknod, unlink, rename, truncate, utime, open, read, write, release, mkdir, rmdir, opendir, readdir, releasedir | slots, descriptor table, cache, servers |
| descriptor table, `client_config.c` 119-147 | per slot: client handle -> server descriptor | insert, get | moves with the slot; dropped with the name |
| cache, `client/client_cache.c` | LRU list of file contents, sizes | read, write, rename | `client_read`, `client_write`, `client_rename` |
| configuration, `client_config.c` 47-117 | - | parse, free | initial states of the servers |
| file manager, `server/server_methods.c` | the directory below the root, open descriptors | one function per request, `restore`, `readall`, `restoreall` | the other server of a mirror (nested requests) |
| hashes, `server/server_hasher.c` | `user.hash` of every file | `hasher`, `hasher_save_for` | file manager |
| event loop, `server/server.c` | epoll set, connections | accept, dispatch | file manager |
| protocol, `protocol.c`, `message.c` | one socket per request | connect, send, receive | all |
| logger, `logger.c` | log file | log; also `memswap` | - |

### How the parts interact

The FUSE thread is alone (`-s`). A *whole* operation is a loop over the slots
0 .. N-1: a DOWN slot is passed over, a STARTING one is first filled with
`restoreall` from the slot before it, then the request is sent. A request that
is not answered (`ERRCONNECTION`) calls `reconnect(i--)`: the server is marked
DOWN and exchanged with its right neighbour, and a thread is started on the slot
it lands in. Operations on slot 0 only (getattr, read, readdir) have no DOWN
test. Reconnect threads run beside this loop and write `state` and `name` of
their slot through its address.

### What is hard

* **Interleaving**: slots are exchanged (`memswap`) while threads hold addresses
  of slots; several threads copy names in and out of the one `hotswap` buffer.
* **Failure in the middle of a loop**: the loop index and the exchange have to
  match, or a server is skipped or asked twice; the result of an operation is
  that of another server than the one first asked.
* **Restart**: a restarted server has none of the descriptors the client keeps
  for it, and may give the same numbers to other files.
* **Repair**: `client_open` compares a reply with one kept from earlier in the
  loop, decides which copy is right, has it replaced and goes *back* in the loop.
* **Duplication**: the target is emptied before it is known that the source
  answers, and the source's state is not looked at.
* **Nested requests that fail**: a server that restores from one that does not
  answer uses the error code as an address and dies in the request.
* **Partial writes**: `pwrite` changes a part of a file and the hash of the whole
  is saved after it, right or not.
* **Unreliable delivery**: partial receives, empty receives, lost wakeups of an
  edge-triggered epoll, servers that block on each other.

### What makes each component correct

| component | properties |
|---|---|
| slots | slot 0 is never DOWN; exchanges skip no live server (that the client exits only when all are DOWN is not kept, section 3) |
| reconnect threads | a thread revives the server it was started for; a thread that is alone in the exchange with the spare loses and doubles no name; every step brings a thread nearer to its end |
| file operations | the primary has what was reported; without failures mirrors agree; open repairs, from the right copy, and returns; the client survives a failing server; every operation comes to its end |
| directories | a listing is the one of the directory that was opened, and has what was reported to be in it; a handle leads to the stream of the right server |
| file manager, hashes | a copy whose content was damaged is recognised and replaced by the right one; repairs cost a bounded number of descriptors |
| duplication | whatever a failed duplication leaves behind (a dead server, a status nobody wrote), the client's slots go on as they should |
| cache | of a file the cache was told everything about it has one entry, the beginning of the file; a read answered by the cache is the read the server would have answered |
| protocol, event loop | a request is executed at most once, alone on its server, and is called lost only if it was not executed; servers do not wait for each other; every request is answered |

The full list of hazards, each at its line and with the properties that would
catch it, is in `PROJECT.json`.

## 2. The modules

| module | models | code |
|---|---|---|
| `ServerSlots` | slots, `reconnect`, `restoreall`, the loop of every operation, reconnect threads | client.c 34-80 and the loops of 82-512, client_config.c 47-103 and 149-200, logger.c 77-82 |
| `FileServer` | one server: files, directories, hashes, descriptors, directory streams; every request as an operator | server_methods.c, server_hasher.c, the dispatch of server.c |
| `RaidStorage` | the fifteen operations of the client on a mirror of `FileServer`s, with failures and damages | client.c 82-512, client_config.c 105-147, client_cache.c (abstract) |
| `ReadThrough` | what the cache promises: reads are answered from the files, and handed over by `strcpy` | README.md:158, server_methods.c, client.c 334 |
| `ClientCache` | the list of cached files and its sizes, behind read, write, truncate, unlink and rename | client_cache.c, the cached operations of client.c |
| `Requests` | what a request is to those who make it | protocol.c, README.md:87-100 |
| `EventLoop` | connections, epoll events, nested requests, the death of a server | server.c, protocol.c, the requests of server_methods.c |
| `ServerSlotsProofs`, `ClientCacheProofs`, `EventLoopProofs` | theorems about the module each is named after | |
| `FileServerProofs` | lemmas: what every request does to a server | |
| `RaidStorageProofs`, `RaidStorageOpenProofs`, `RaidStorageSteadyProofs`, `RaidStorageDamageProofs` | theorems about `RaidStorage`: refinement and types, the repairs of open, the mirror while all servers answer, damaged files while they do | |
| `MCServerSlots`, `MCRaidStorage`, `MCClientCache`, `MCEventLoop` | symmetry sets and values of constants for TLC | |

`RaidStorage` composes `ServerSlots` and `FileServer`. It holds `INSTANCE
ServerSlots`, and every action of it that touches a slot *conjoins* the
`ServerSlots` action with what the request does on the server: `Execute(i)` is
`Slots!Answered(i)` and the request; `Lost(i)` is `Slots!RequestLost(i)` when the
server of the slot is not reachable.

Three pairs of modules are an abstract specification and the detailed one that
implements it:

* `ServerSlots` <- `RaidStorage` (`ImplementsServerSlots == Slots!Spec`, checked
  and proved). Every step of the storage is a step of the slots or leaves them
  alone. Actions whose guards do not come from `ServerSlots` (a repair that goes
  back in the loop, a restore or a restoreall in which the server dies and whose
  status nobody wrote, a directory that is duplicated until it can be opened) have
  to fit.
* `ReadThrough` <- `ClientCache` (`ServesTheFiles == Files!Spec`). The refinement
  forgets the list: what the kernel is answered is what the files have, whether
  the answer came from the cache or not. The code does not implement it
  (`cache_stale`). What it does implement is `ServesAllButStaleFiles`, checked and
  proved: every step that is not a read of a `stale` file is a step of
  `ReadThrough`. `client_read` hands data over with `strcpy` (client.c:334), which
  stops at the first NUL byte of a hole, leaves the rest of the kernel's buffer as
  it was, and runs on behind the buffers if there is none; that is so with and
  without a cache, so it is part of the abstract specification (`HandOver`).
* `Requests` <- `EventLoop` (`ImplementsRequests == Abstract!Spec`, checked and proved).
  Connections, the backlog, batches of events and half-closed sockets map to
  "asked, executing, executed, reset, ended". This is the grain `RaidStorage`
  takes for granted when a request with its execution and reply is one step:
  executed at most once, alone, and "lost" only if not executed. The level says
  what the code says and not more: a request whose server died before its reply
  ends as `any`, because `recv()` returns 0 and the reply is whatever was in the
  memory (protocol.c:149-159), and a plain one the server had not read may have the
  positive number of the socket as its status. `RaidStorage` has no crash in the
  middle of a client's request; its failures come between requests, or from a
  request that kills the server (`RestoreKills`, `RestoreAllDies`, `DuplicateDies`,
  the same deaths as `FetchLost` of `EventLoop`).

### Correspondence with the code

*State.* `servers[i]` is the slot's `name` and `state`; `fds[i]` its descriptor
table; `hotswap` the spare's name; `threads[t]` a running `reconnect_thread` with
its locals; `fuse` the position of the FUSE thread in the loop (`fuse.i` is the
code's `i`). `call` holds the arguments and `retval` of the running operation,
`msgs` the replies `client_open` keeps, `repair` the restore request it is about
to send (client.c 286-292), `cache` the files the cache may have an entry of.
`server[n]` is the server process with address n: `dir` maps a path to an inode,
`inode` to content, saved hash and mtime, `open` a descriptor to an inode; `dirs`
are its directories (all in the root), `stream` maps a descriptor to the directory a
`DIR` reads and whether it has come to its end, and `left` are the descriptors of
the `FILE`s that `server_readall` opened and nobody closes (server_methods.c:266).
`now[n]` is the clock of the host of n.

In `ClientCache`, `list` is the chain from `oldest` to `newest`; `Newest` is
`insert_new`, `Remaining` is `remove_entry`, `Find` is `find`. `cur_size` and
`new_size` wrap at `SizeT` (2^64 in the code, 8 in `cache`), the argument of
`get_space` goes through `int` (`AsInt`; `CInt` is 2^32 in the code, 4 in `cache`).

In `EventLoop`, `conn` are the connections with what either end has done with them;
`calls[i]` the connection a client or a server waits on in `recv()`; of a server,
`backlog` holds connections accept() was not called for, `edge` and `ready` are
events epoll has not reported yet, `events` those of the batch the loop is in, and
`sock` is the connection whose `while (get_message...)` loop runs. `outcome` is how the last
request of a client ended.

*History.* `fuse.done` (who replied to this operation), `fuse.gaps` (whether a
`restoreall` of it failed), `acked` (what each path may contain after what was
reported), `call.quiet` (nothing failed during this operation), `faults.mixed` (a
part of a file was written into a copy whose damage the hash still showed) and
`stale` of `ClientCache` (the files that were changed, removed, replaced or skipped
over behind the cache's back, for as long as it has an entry of them) exist for the
properties only; no guard of the program's actions reads them (`faults` also counts
failures and damages, for the bounds).

*Grain.* A visit of one slot is one step, with the request, its execution and
the reply; reconnect threads and failures happen between visits. This is what
the code allows to be observed: the FUSE thread tests the slot and sends one
request, a thread writes only its own DOWN slot (`ThreadsOwnDownSlots`, proved),
so a write of a thread during a visit commutes with it. The exchange of names is
three steps, as the three `strcpy` calls are. The restore of `client_open` is a
second step of the visit, so that a failure can come between the two requests.
A step of `ClientCache` is a whole operation (one FUSE thread, one server). A step
of `EventLoop` is one system call or the work between two of them.

*Data.* A content is a model value and its own hash (MD5 is taken for
injective). A write patches the content of its file with a fragment, some bytes at
an offset: `Patched[<<content, fragment>>]` is what `pwrite` makes of it, right or
damaged, and the hash of the result is saved (server_methods.c 180-184). `Halves`
are files of two blocks and writes of one of them (`raid_damage`); `Whole` are
writes of the whole file (the other runs).
Sizes are in `ClientCache`, where a file is a sequence of blocks (pages)
and a block of `realloc`ed memory nothing was copied to is `Unset`; a block of `Data` has no
NUL byte, a block `Zeros` begins with one.
`ERRCONNECTION` as a state is kept: a server that does not answer when the
configuration is parsed keeps the failed ping's result as its state, which the
loops take for "not DOWN" (`client_config.c` 62-75). `RaidStorage` starts with
all servers UP.

*Uninitialised data.* `res` of `client_write` and `client_release` (either sign),
the hash and time of an open that failed, the `old_hash` of a file without the
attribute (`NoHash`: a server died in `server_restore` after it had made the file), the
buffer of a read on a bad descriptor, the status of a restore or a restoreall whose server
died (it may be 0, and the dead server counts as UP), the reply of a server that
died in a request, what a `DIR` pointer of an earlier process leads to
(`ExecuteStale`), and whether `strcpy` finds a NUL byte in memory nobody wrote are
choices.

*The kernel.* libfuse runs with `-s`, looks a path up before it creates or opens
it, and renames a file that is open instead of unlinking it. `BeginCall` and
`Known`, `Unknown`, `IsOpen` say so; they are the environment, not the program. It
does not read behind the end of a file, and a directory that is open is not removed.

## 3. The runs

The slots are checked with three servers and one spare, the least with which two
reconnect threads run at a time and a DOWN server has live ones on both sides. The
storage is checked with two servers and one spare, that of the repository's `config`
file; one reconnect thread is then all the code can start, since only slot 1 can
hold a DOWN server (slot 0 going DOWN exchanges or exits).

| run | asks | bounds |
|---|---|---|
| `slots` | all the invariants of the slots; a thread alone in the exchange with the spare keeps the names; every step of a thread brings it nearer to its end | 3 servers, every initial state, 2 threads at a time, `Timeout = 2` |
| `raid_steady` | mirrors agree and have what was reported, with descriptors, caches, hashes and a directory; listings are true | no failure, all fifteen operations, 2 files (one in the directory), 2 handles |
| `raid_failure` | a server killed or cut off at any moment, back at once, back after the reconnect thread, or replaced by the spare: nothing reported is lost; open repairs the stale mirror from the newer copy | 1 failure, 1 file of two contents, 2 handles, no truncate, no utime, one clock |
| `raid_damage` | a file damaged on one disk and written in parts: open finds the damage and restores the right copy; the descriptors that servers lose to repairs are bounded, so the repairs end | 1 damage, 1 file of two blocks (four contents), writes of one block, 3 handles; no truncate, rename or directories |
| `raid_slots` | the storage implements `ServerSlots` | a failure and a damage with files, or two failures with directories; 1 file, 1 directory, 1 handle; getattr, mknod, open, mkdir, opendir, readdir |
| `raid_lost` (violation) | as `raid_failure`, with truncate | 1 failure |
| `raid_wrongfile` (violation) | as `raid_failure`, with a second file | 1 failure |
| `raid_hang` (violation) | every operation comes to its end | 1 failure, 1 directory |
| `cache` | of a file that is not stale there is one entry, the beginning of the file; every step but a read of a stale file is that of a client without a cache | 2 files of at most 2 blocks, `MaxSize = 1`, `SizeT = 8`, `CInt = 4`, at most 2 entries; read, write, truncate, unlink, rename |
| `cache_stale` (violation) | every step is that of a client without a cache | 1 file of one block; read, truncate |
| `loop` | the event loop implements `Requests`; no servers wait for each other; every request is answered unless two connections came for one event | 2 clients, 2 servers that restore from each other, 1 kill and any number of restarts |
| `loop_lost` (violation) | every request is answered | 2 clients, 1 server, nothing fails |

*Bounds.* `Timeout = 1` or 2 tries suffices because nothing depends on the try but
the last one; `Timeout = 2` (`slots`, `raid_failure`) also fires `PingFailed`.
`Handles` bounds how often a file or directory is opened in a behaviour, and
`MaxFd` is the highest descriptor of a server: a request that would need more
descriptors than a server has left is not followed (`Full` is the step that says so).
`MaxTime = 1` gives two modification
times: what `client_open` tells apart is older, equal and newer, and only of copies
whose hashes differ; in `raid_steady` they never differ unless a truncate left them
unsound, and then the copies are the same, so `MaxTime = 0` there. `MaxSkew` is how far
the clocks of two servers may be apart. Failures and
damages are bounded by number (`MaxFailures`, `MaxDamage`, `MaxKills`), not by
place: they happen between any two steps. Two failures are what it takes for a
server to be lost again while it is being filled (`RestoreAllLost`), so
`raid_slots` has two; it looks at the states without the history variables
`acked` and `call.quiet` (`SlotsView`), which no guard and no part of its property
reads, and without the results of operations; `FaultsBounded` bounds the faults of both
kinds together; its operations are one of each kind of visit. `Operations` names the
operations that are called. In `cache`, a limit of one
block with two-block files makes every growth a refusal or an eviction,
`SizeT = 8` lets `cur_size` and `new_size` wrap within the run, `CInt = 4` lets what
`get_space` is asked for become negative, and `FewEntries` bounds the
list: with renames onto cached paths, the code bounds it by memory only.
`Asks` are the requests of `loop` (`Mirrors`): a client that duplicates one server
from the other, restores a file the other way round, and the ping of a reconnect thread.

*Assumptions of the passing runs that the code does not keep.* With each of them
dropped, the property does not hold of the code.

* `raid_failure` and `raid_damage` leave truncate out, `raid_failure` has one file and
  no utime. `raid_lost` and `raid_wrongfile` are the same question with the case
  added. It also has `MaxSkew = 0`: with `MaxSkew = 1` a server that missed a write
  and whose clock is ahead has the newer copy, and `OpenKeepsWhatWasReported` is
  violated.
* `OpenKeepsWhatWasReported` and `DescriptorsAreBounded` say nothing once a part of a
  file was written into a copy that was damaged elsewhere (`faults.mixed`). The hash of the
  whole is saved, the damage is sound from then on, both copies are, and the time or
  the slot decides.
* `LoneExchangeKeepsNames` is of steps at which at most one thread is in the exchange with
  the spare. With three servers two threads do meet there, and then a name is lost or
  doubled; no lock of the code keeps them out.
* `ServesAllButStaleFiles` excludes the reads of stale files; `cache_stale` is such a
  read.
* `AnsweredUnlessStranded` excludes two connections for one event; `loop_lost` has them.

The passing runs show that everything else keeps its promise.

*Deadlock.* `CHECK_DEADLOCK` is on except in `loop`: a storage client that has exited or
crashed takes `Gone`, so every other state must have a step. In `loop`, where two
connections may have come for one event, both clients can be left waiting for a
server that has no event, and then nothing happens any more.

Each property of a passing run comes with a mutated definition (`MovesUnchecked`,
`RequestLostGoesOn`, `RestoreAllTrusted`, `RepairFromDamaged`, `RenamedNot`,
`BrokenUnread`, ... defined before the one they vary) under which TLC finds the
property violated.

### Disagreements the runs show

1. `raid_lost`: truncate leaves the old hash (server_methods.c:107), so the next
   open takes the truncated copy for damaged and restores the old content from
   the other slot, whatever its state (client.c:287).
2. `raid_wrongfile`: a restarted server gives the number of an open descriptor to
   another file, and a write through the old handle changes that file (client.c:352).
3. `raid_hang`: `server_restoreall` makes a directory only for a file in it, so an
   empty directory is missing on a server that was duplicated; `client_opendir`
   does not find it there, duplicates the server again, and so on for ever
   (client.c:424).
4. `cache_stale`: truncate (client.c:235) and unlink (client.c:165) do not reach the
   cache, and the next read is answered with what the file no longer has.
5. `loop_lost`: the listening socket is edge-triggered and an event calls
   `accept()` once (server.c:119); the second of two connections that arrive for
   one event waits until a third comes.

Also met while modelling, without a run of their own:

* *Slots.* `reconnect()` tests `servers[i + 1]` where it moves from `i2`
  (client.c:48): with three servers one that goes DOWN in slot 0 stops in slot 1, and
  when the next slot 0 goes DOWN the client unmounts with "all servers down" while
  slot 2 is UP. Two reconnect threads in the three `strcpy` calls
  (client_config.c:172-174) can give two slots the same name and lose one. Both need
  `N > 2`; `slots` has three servers and both happen in it, so neither "the client
  shuts down only when all are DOWN" nor "names differ" is among its
  properties (what holds of names is `LoneExchangeKeepsNames`). After two
  failures a STARTING slot 0 is duplicated from a DOWN slot 1, or from a spare that
  never had the data (client.c:64). A `restoreall` that loses its server moves the
  pointer instead of the
  index (client.c:74), so the server exchanged into the slot misses the operation.
  `server_restoreall` empties its root before it asks the source, and frees the address
  ERRCONNECTION when there is no answer (server_methods.c:305-312): the server dies
  with nothing on it, and the status the client reads is whatever was in its memory.
  An operation that passed every slot over returns its initial 0 (client.c:108).
* *Files.* `client_read` gives the address -132 to the cache when its server does not
  answer (client.c:328), which crashes the client (`ReadCrashes`) unless `cache_write` happens to
  refuse the block before it looks at it (`ReadLost`); README.md:195 has the client go on.
  It hands over what `strcpy` copies (client.c:334), so a read ends at the first NUL
  byte. A write that one mirror answers with EBADF is only logged
  (client.c:367), so mirrors differ until the next open. A file damaged on both
  servers is restored from the other damaged copy and gets a fresh hash
  (client.c:286; README.md:193 declares it damaged). A time in the future set by
  utime makes a stale copy the newer one (client.c:290). Every visit of
  `client_open` that finds ERRHASH leaves a descriptor open on the server
  (server_methods.c:43-48), after a truncate at each open; `server_readall`
  never closes the file it reads (server_methods.c:266), so a restore costs its source
  a descriptor and a restoreall one for every file. A second `readdir` on
  one handle is empty, since `server_readdir` leaves the stream at its end
  (server_methods.c:60).
* *Cache.* `get_space` never decreases `size`, so it empties the whole cache and
  refuses all the same; nothing is ever added to `cur_size`, so the limit is not kept
  (client_cache.c:55). An entry whose first access is not at its beginning has
  bytes nothing was copied to, and a later read below that offset is a hit
  (client_cache.c:82). A rename onto a cached path leaves two entries for it
  (client_cache.c:127).
* *Protocol.* A reply with data is two sends; when the server that asked has died
  the second raises SIGPIPE and the source of a restore ends as well
  (protocol.c:116). The client's own server killed while it restores leaves the
  source with a request nobody waits for; it is answered into a closed socket.
  `connect_to` leaves its socket open when `connect()` fails (protocol.c:70).

### Fairness

* `RaidStorage!FairSpec` (`raid_hang`): weak fairness of the running operation, which
  goes on (a single thread, every request of which is answered or lost), and of every
  reconnect thread (`sleep(1)` returns, the scheduler runs detached threads, and a ping
  ends). Nothing is assumed
  of the kernel, which need not call, or of servers, which need not return.
* `EventLoop!FairSpec` (`loop`, `loop_lost`): a server process that has something
  to do does it, and a client that has an answer or a broken connection takes it.
  No client has to ask and no server has to be restarted.

That is all; all of it is weak. `slots` needs no fairness: that a reconnect thread ends is
the action property `ReconnectsCountDown`, a count that every step of the thread
lowers and no other step raises, so a thread that is run at all gets to its end. That `client_open`
ends is shown as a safety
property too (`DescriptorsAreBounded`): each of its repairs leaves two descriptors open,
one on either server, so an open that repaired for ever would break the bound. That
operations other than `opendir` return when servers fail is not shown as a liveness
property; the runs only show that they never deadlock.

## 4. The proofs

### `ServerSlotsProofs`

For every `N > 0`, every set of names and threads and every timeout
(`SlotsAssumption`):

* `TypeCorrect`, `SlotZero`, `ThreadsOwnTheirSlots`, `NoLiveServerIsSkipped`,
  `PrimaryIsNeverSkipped`: the type invariant and four invariants of the run `slots`,
  from the inductive invariant `SlotsInv` (theorem `SlotsInvariant`);
* `LoneExchanges`: `Spec => LoneExchangeKeepsNames`, and `NamesOfLoneExchanges`: the names
  are kept in every behaviour in which no two threads are in the exchange with the spare at a
  time. That is a hypothesis about the scheduler, which the code does not enforce and
  only `N <= 2` implies;
* `ReconnectsEnd`: `Spec => ReconnectsCountDown`, so a reconnect thread has a bounded
  number of steps for every `Timeout`.

*Why an invariant of its own.* `LiveServersSeeEveryOperation` speaks of the end of
the loop, so it is not inductive. `PassedLiveSlotsReplied` says the same of
the slots the loop has left behind. It is preserved by a reconnect because slot i takes
either the server of slot i + 1, which is not behind the loop, or stays DOWN; and
by a thread because a thread writes only its own DOWN slot, which `ThreadsOwnDownSlots`
gives, and turns it into STARTING, which does not count as live. `ThreadsOwnDownSlots` in turn needs that a
reconnect never moves a DOWN server other than the one it has marked: `Moves` tests
exactly that, and `SlotZeroNeverDown` keeps slot 0 free of threads.
`GoneWithoutThreads` covers the client that has ended. `PrimaryReplied` is the
same idea for slot 0, which can change its server only while the loop is at it.
For names, `NameKept` says that a thread which has copied the name of its slot to `tmp` and
not yet overwritten it still finds it there: reconnect() moves no DOWN server, so it cannot
take the name from under the thread. The spare's name is in `hotswap`, or in the `tmp` of the one
thread that has taken it (`SpareName`).

The proof has one lemma per kind of step (`ReconnectTypes`, ...), cases by action
and, below, by conjunct.

### `RaidStorageProofs`

* `StorageImplementsSlots`: `Spec => ImplementsServerSlots`, for any number of
  servers, files, directories, handles, failures and damages. `BeginRefines`,
  `VisitRefines` and `WorldRefines` treat the calls, the visits and what happens
  to servers; `StepRefines` puts them together. No invariant is needed: every
  action either names the action of `ServerSlots` it is, or leaves the slots alone.
* `StorageKeepsTheSlots`: hence the invariants proved of `ServerSlots` hold of the
  storage. `SameSlots` says that the instance inside `RaidStorage` and the one of
  the proofs module are the same formulas.
* `StorageInvariant` and `StorageTypeCorrect`: type correctness for any number of
  servers, files, directories, handles, failures and damages. The inductive
  invariant `Types` adds to the types that every server is `Tidy` (a request may
  only be looked up by inode if the inode has no other name) and that the arguments
  of the running operation fit it (`Fits`). The types of the slots come from
  `ServerSlotsProofs` through the refinement (`StorageSlotTypes`).

### `ClientCacheProofs`

For all files, contents, sizes and limits, and all five operations in any order, with no
hypothesis: `CacheHasWhatTheFilesHave` (`Spec => []CachedBlocksAreTheFiles`) and
`OnlyStaleFilesAreServedWrong` (`Spec => ServesAllButStaleFiles`), from the inductive
invariant (theorem `Inductive`)

    Inv == list \in Seq(Cached) /\ disk \in Disks /\ Good(list, disk, stale)

`Good` says of every file that is not stale that the list has one entry of it at most, and
that this is the beginning of the file. One entry per path
is needed with the other: `find` and `remove_entry` stop at the first entry, so a second
one would survive a write. The invariant says nothing of `cur_size`: whatever it
and `new_size` have become, `CacheWrite` leaves the list without the path, empty, or
with the path's new entry, and each of these is good (`CacheWriteEntries`). Nor does it say
anything of stale files, whose entries may be anything and any number: what has to be shown is
that no operation on one of them makes another file stale, and that a file whose
last entry is gone is not stale any more (`SpoilsGood`). `FilledIsPrefix` and
`PatchedContent` are the facts about blocks, `RemainingEntries`, `NewestEntries`,
`ReplacedEntries` and `UsedEntries` those about
the list, and each operation has a lemma that it keeps `Inv` and is a step of
`ReadThrough` unless it reads a stale file.

### `EventLoopProofs`

For every set of clients, servers and requests and any number of deaths
(`EventLoopAssumption`: a request is between a client and servers, the clients are
not servers, and neither has one of the names that stand for nobody).

* `EventLoopInvariant`: the inductive invariant `Inv`. It relates the two ends of
  a connection. `CallersWaitOnTheirs` and `OpenIsWaitedOn`: a process waits in
  `recv()` on a connection of its own, and on the only one it has open.
  `ServedIsOwn` and `QueuedOnce`: a connection that is unread is in one queue of its server at most
  (backlog, ready, reported) and not the one being served, so it cannot be
  accepted or served twice. `AskingIsExecuting`: a server that waits does so in the middle of
  a request that still needs an answer. `ServersAskPlain` and `OnlyServersAbandon`:
  requests of servers are plain, and only a server's end leaves a request nobody waits
  for. None of them is inductive alone: that nothing waits twice needs that
  what is served is not queued, and that needs who closed what.
* `TypeCorrect`.
* `ServersDoNotWaitForEachOther`, under `OneRestorer`: all restores come from one
  client, and none has its own target as its source. Both are so in the code:
  the FUSE thread alone sends restores (client.c:65, 292), a reconnect thread only
  pings; and the source is the slot before or after, another server in a mirror.
  A server that waits is executing a restore (`RestoresWereAsked`); two of
  them would execute restores of one client, which waits for one.
* `EventLoopImplementsRequests`: every system call, event, nested request and
  death is a step of `Requests` or leaves it alone. The requests of servers are requests
  there too: a death frees, ends or resets at once what was asked of the server,
  which is the step that `Requests` calls its death. A server whose source does not answer
  is one of those that die (`FetchLost`).

### `FileServerProofs`

One lemma per request (`WriteIs`, `OpenIs`, `RestoredIs`, `DuplicateIs`, ...) for all
files, directories, contents and descriptors: what happens to the contents, the
names, the descriptors and whether the copies are sound or may pass for sound, and that the server stays
`Tidy`: no inode has two names, and no file lost its directory. There is always
an inode for a new file (`InodeForFile`), because there is one for every name and every
descriptor: counting, from the library's theorems on cardinality.

### `RaidStorageOpenProofs`

* `OpenRepairsNamed`: while no name of a server is lost or doubled, an open in which
  nothing failed leaves the copies it has seen equal, each with its own hash if it has one
  at all, for any number of servers, and whatever failed or was damaged before.
* `OpenRepairsWithLoneExchanges`: the names stay distinct while no two reconnect threads
  are in the exchange with the spare at a time (`NamesOfLoneExchanges`);
* `OpenRepairsOfTwo`: with at most two servers only one thread runs, so it holds
  without either hypothesis.

The invariant `OpenInv` says what the loop knows of the slots it has left behind:
the copy on a slot whose reply was kept may pass for sound and has the hash of the reply
(`KeptCopies`), the replies agree (`KeptAgree`), every slot before one with a kept reply
has one too (`KeptPrefix`), and what is about to be replaced is the copy the loop
is at or the one before (`RepairTarget`), so that the loop, which goes back to the
slot of the target, forgets what it knew of it. With two names for one server a
restore would change a copy behind the loop; that is what the hypothesis is for.

The first attempt failed for a good reason. A damaged copy may be restored from a
server that is dead: the target's process ends in the request (`RestoreKills`), its
file emptied with the old hash, and the client, which takes an uninitialised status, goes on
with the reply it had kept. The run has a damage or a failure, never both, and
did not see it. No server died from outside, but one died in the restore, so
`call.quiet` now says so.

### `RaidStorageSteadyProofs`

What holds as long as every slot's server answers (`AllAnswer`), for any number of
servers, files, directories and handles, all fifteen operations and any
number of damages:

* `MirrorsAgreeWhileAllAnswer`, `ReportsAreTrueWhileAllAnswer`,
  `OpenKeepsWhileAllAnswer`: while nothing is damaged, the mirrors have the same
  files between two operations, slot 0 has what was reported, and the repairs of
  open, which every truncate provokes, keep it;
* `ListingsAreTrueWhileAllAnswer`: while nothing is damaged, a listing has what was
  reported to be in the directory, and nothing that was reported not to be.

Between two operations all servers are alike; within one they are not. The invariant
`Steady` says that there is *one* state of the files (`view`) which the operation was
looked up in: the servers the loop has not reached are like it, those it has passed are
like what the operation makes of it (`Effect`). The same is said of where the open
handles lead (`HandlesBefore`, `HandlesAfter`), since a write changes the file the
handle leads to and not the one the path names. `Steady` also says what the lookup
found (`LookedUp`): without it an operation could succeed on one server and fail on
the next. With a damage, being alike is reduced to having the same names. All of this
is said while the client runs (`SteadyAlive`): a read may crash it even then, when
`strcpy` finds no NUL byte (client.c:334).

For the listings there is a second invariant, `Streaming`: the handle of an open
directory leads on every server to a stream of that directory (`Leads`), on the servers
the loop has passed as the running opendir or releasedir leaves it (`DirsAfter`). It is
inductive only with the clause that no two handles have one stream: the
releasedir of the one would close the other's. It also shows that no request meets
a stale `DIR`, and that no operation fails for want of a descriptor of its
handle (`NoHandleIsUnknown`), while all answer.

`AllAnswer` is a hypothesis about the environment and not about the program:
kills and cuts violate it, and so does a server that dies in a request. What it
leaves out is what `raid_failure` checks. Every behaviour of `raid_steady` satisfies it.

### `RaidStorageDamageProofs`

What a mirror is for: while every server answers (`AllAnswer`) and there are at least two,
a file that is damaged on one disk is not lost, for any number of servers, files,
contents and handles.

* `OpenKeepsAfterOneDamage`: after any one damage, if truncate is not among the
  operations, `OpenKeepsWhatWasReported`. This is the case `raid_damage` checks, with
  directories, rename and any number of files and handles added. As in the run, it holds until
  a part of a file is written into the damaged copy (`faults.mixed`): the code keeps
  nothing of the kind afterwards, and the property says so itself.
* `OpenKeepsWhileOneIsSound`: the same with any number of damages and with truncate,
  under `[]OneCopyDamaged`: at every moment, of any two copies of a file one carries its own
  hash. A truncate of a file that is not empty leaves all its copies with the old hash,
  so behaviours with such a truncate are outside of this hypothesis; they are covered
  while nothing is damaged (`RaidStorageSteadyProofs`).
* `SoundCopiesAreRight`: under the same hypothesis, between two operations every copy that
  carries its own hash, on whichever server, has what was reported.

The invariant `Mirrored` (theorem `MirroredWhileOneIsSound`) says that there is one state of
the files that was reported, and that every server has behind each name what it has there, or
a copy that its hash gives away; on the servers the loop has passed, what the operation makes
of it. It needs to know what open keeps of the slots it has passed (`Opened`: the hash of the
right content), and that what is about to be replaced is the copy the loop is at, because its
hash does not fit (`RepairFits`), so that the source is the other and, one of the two being
sound, the right one. `Hashed` says that no file lacks its hash: a copy without one may
pass at open whatever it contains, and only a server that dies in a restore leaves one.

`Alone` (theorem `MirroredAfterOneDamage`) gives `OneCopyDamaged` for one damage: without a
truncate no request makes a copy unsound that was sound (`NoWorse`), a rename takes an unsound
one along, and a damage spoils one copy.

### Only model-checked

* Liveness (out of the prover's reach: fairness and ENABLED):
  `AnsweredUnlessStranded`.
* With failures: `PrimaryHasWhatWasReported` and `OpenKeepsWhatWasReported` of
  `raid_failure`.
* With a damage: `DescriptorsAreBounded` of `raid_damage`; the descriptors are not part of
  any invariant proved here.
* `TypeOK` of `ClientCache`: the range of `cur_size` goes through a fold over the list,
  induction over data.

TLC also finds the violations.

## 5. Not modelled, and the plan

Not modelled:

* the text of the configuration file, logging, the wording of messages;
* memory safety except for the crashes named above;
* a message or its data received in part (protocol.c:79): `EventLoop` receives
  wholes. What a partial receive leaves is a message whose fields are zero, a
  question of the data and not of the order of events;
* the error events of epoll (server.c:111), which close a connection: a peer resets a
  connection only if it dies with a reply it has not read, and then the server is in
  the `get_message` loop of that connection and not in `epoll_wait`;
* directories in directories, the rename of a directory, and errors of a restore's
  own disk (no space, no permission);
* a write that is cut short by its server's death: a request is executed or it is not;
* a request that meets a server with no descriptor left (`Full`);
* `raid = 5`, which the code does not have.

What is left, most important first:

1. `DescriptorsAreBounded` as a theorem, for any number of servers and damages: an
   account of every descriptor of a server, those of `left` included.
2. `PrimaryHasWhatWasReported` with one failure, two servers and one file, the case
   `raid_failure` checks.
3. A framing module: send and receive of a message in parts, refined to the whole
   messages of `EventLoop`.
