--------------------------- MODULE RaidStorageProofs ---------------------------
(***************************************************************************)
(* What holds of the storage for every number of servers, files, handles   *)
(* and faults.                                                             *)
(*                                                                         *)
(* It implements the slots: each step of RaidStorage is a step of          *)
(* ServerSlots or leaves its variables alone.  What ServerSlotsProofs      *)
(* proves of the slots therefore holds of the client while its servers     *)
(* restore, fail and come back.                                            *)
(*                                                                         *)
(* It is type correct.  Beside the types of the variables the inductive    *)
(* invariant Types says of every server that it is Tidy (no inode has two  *)
(* names, no file lost its directory), which every request keeps, and of   *)
(* the operation that runs that its arguments fit it.                      *)
(***************************************************************************)
EXTENDS RaidStorage, FileServerProofs

SlotProofs == INSTANCE ServerSlotsProofs WITH
    servers <- servers, hotswap <- hotswap, threads <- threads, fuse <- fuse

-----------------------------------------------------------------------------
(* One lemma for each group of actions.                                     *)

\* An operation begins as one of the slots' operations.
LEMMA BeginRefines == Begin => Slots!Next
<1>1. \A c : BeginCall("all", c) => Slots!Begin("all")
  BY DEF BeginCall
<1>2. \A c : BeginCall("first", c) => Slots!Begin("first")
  BY DEF BeginCall
<1>3. \A mode \in {"all", "first"} : Slots!Begin(mode) => Slots!Next
  BY DEF Slots!Next
<1> QED
  BY <1>1, <1>2, <1>3
  DEF Begin, BeginOn, BeginHandle, BeginMknod, BeginMkdir, BeginRmdir, BeginRename, BeginUtime,
      BeginUnlink, BeginTruncate, BeginOpen, BeginOpendir, BeginGetattr, BeginWrite,
      BeginRelease, BeginReaddir, BeginRead

\* A visit of a slot is a visit there, or a repair and a death between two of them.
LEMMA VisitRefines ==
    ASSUME NEW i \in Slot, Visit(i)
    PROVE  Slots!Visit(i) \/ UNCHANGED Slots!slotVars
<1> USE DEF Slots!Visit
<1>1. CASE \/ PassOver(i) \/ RestoreAllDone(i) \/ RestoreAllDies(i) \/ RestoreAllLost(i)
           \/ UnknownHandle(i) \/ Execute(i) \/ ExecuteStale(i) \/ Lost(i)
  BY <1>1 DEF PassOver, RestoreAllDone, RestoreAllDies, RestoreAllLost, UnknownHandle,
              Execute, ExecuteStale, Lost
<1>2. CASE \/ OpenAgreed(i) \/ OpenFailed(i) \/ OpenLost(i) \/ OpenCrashes(i)
           \/ OpenDisagreed(i)
  BY <1>2 DEF OpenAgreed, OpenFailed, OpenLost, OpenCrashes, OpenDisagreed, Slots!slotVars
<1>3. CASE Restore(i) \/ RestoreLost(i) \/ RestoreKills(i)
  <2>1. Slots!Repaired(i, repair.target) => \E back \in Slot : Slots!Repaired(i, back)
    BY DEF Slots!Repaired, Slot
  <2> QED
    BY <1>3, <2>1 DEF Restore, RestoreLost, RestoreKills, Slot
<1>4. CASE \/ OpendirDone(i) \/ OpendirMissing(i) \/ OpendirLost(i)
           \/ DuplicateAgain(i) \/ DuplicateDies(i) \/ DuplicateLost(i)
  BY <1>4 DEF OpendirDone, OpendirMissing, OpendirLost, DuplicateAgain, DuplicateDies,
              DuplicateLost, Slots!slotVars
<1>5. CASE ReadCached(i) \/ ReadServer(i) \/ ReadLost(i) \/ ReadCrashes(i)
  BY <1>5 DEF ReadCached, ReadServer, ReadLost, ReadCrashes
<1> QED
  BY <1>1, <1>2, <1>3, <1>4, <1>5 DEF Visit

\* The world does not touch the client's slots.
LEMMA WorldRefines ==
    ASSUME \/ \E ns \in SUBSET Names \ {{}} : Tick(ns)
           \/ \E n \in Names : \/ Kill(n) \/ Cut(n) \/ Return(n)
                               \/ \E p \in Paths, data \in Data : Damage(n, p, data)
    PROVE  UNCHANGED Slots!slotVars
  BY DEF Tick, Kill, Cut, Return, Damage, Fail, World, Slots!slotVars

LEMMA StepRefines == [Next]_vars => [Slots!Next]_(Slots!slotVars)
<1>1. ASSUME NEW i \in Slot, Visit(i) PROVE [Slots!Next]_(Slots!slotVars)
  BY <1>1, VisitRefines DEF Slots!Next, Slot
<1>2. Finish => Slots!Next
  BY DEF Finish, Slots!Next
<1>3. ASSUME NEW t \in Threads, ThreadStep(t) PROVE Slots!Next
  BY <1>3 DEF ThreadStep, Slots!Next, Slots!ThreadStep
<1>4. Gone => UNCHANGED Slots!slotVars
  BY DEF Gone, Slots!Gone
<1>5. Full \/ UNCHANGED vars => UNCHANGED Slots!slotVars
  BY DEF Full, vars, Slots!slotVars
<1> QED
  BY <1>1, <1>2, <1>3, <1>4, <1>5, BeginRefines, WorldRefines DEF Next

-----------------------------------------------------------------------------
(* The theorems.                                                            *)

\* Whatever the servers do, fail or restore, the client's slots change only as
\* ServerSlots says.
THEOREM StorageImplementsSlots == Spec => ImplementsServerSlots
<1>1. Init => Slots!Init
  BY DEF Init
<1> QED
  BY <1>1, StepRefines, PTL DEF Spec, ImplementsServerSlots, Slots!Spec

\* The two instances of the slots are the same.
LEMMA SameSlots ==
    /\ SlotProofs!Init <=> Slots!Init
    /\ [SlotProofs!Next]_(SlotProofs!slotVars) <=> [Slots!Next]_(Slots!slotVars)
    /\ SlotProofs!SlotZeroNeverDown <=> Slots!SlotZeroNeverDown
    /\ SlotProofs!ThreadsOwnDownSlots <=> Slots!ThreadsOwnDownSlots
    /\ SlotProofs!LiveServersSeeEveryOperation <=> Slots!LiveServersSeeEveryOperation
    /\ SlotProofs!PrimaryExecutesEveryOperation <=> Slots!PrimaryExecutesEveryOperation
  BY DEF
      Slots!Slots, SlotProofs!Slots, Slots!NoName, SlotProofs!NoName, Slots!DOWN,
      SlotProofs!DOWN, Slots!UP, SlotProofs!UP, Slots!STARTING, SlotProofs!STARTING,
      Slots!ERRCONNECTION, SlotProofs!ERRCONNECTION, Slots!slotVars, SlotProofs!slotVars,
      Slots!Idle, SlotProofs!Idle, Slots!NoThread, SlotProofs!NoThread, Slots!DistinctNames,
      SlotProofs!DistinctNames, Slots!Init, SlotProofs!Init, Slots!Moves, SlotProofs!Moves,
      Slots!Landing, SlotProofs!Landing, Slots!Memswap, SlotProofs!Memswap,
      Slots!Reconnected, SlotProofs!Reconnected, Slots!Reconnect, SlotProofs!Reconnect,
      Slots!Limit, SlotProofs!Limit, Slots!AtSlot, SlotProofs!AtSlot, Slots!GoTo,
      SlotProofs!GoTo, Slots!Begin, SlotProofs!Begin, Slots!SkipDown, SlotProofs!SkipDown,
      Slots!RestoreAllDone, SlotProofs!RestoreAllDone, Slots!RestoreAllRefused,
      SlotProofs!RestoreAllRefused, Slots!RestoreAllLost, SlotProofs!RestoreAllLost,
      Slots!Requested, SlotProofs!Requested, Slots!Contacted, SlotProofs!Contacted,
      Slots!Answered, SlotProofs!Answered, Slots!AnsweredLocally,
      SlotProofs!AnsweredLocally, Slots!RequestLost, SlotProofs!RequestLost, Slots!Repaired,
      SlotProofs!Repaired, Slots!Duplicated, SlotProofs!Duplicated, Slots!DuplicateLost,
      SlotProofs!DuplicateLost, Slots!Return, SlotProofs!Return, Slots!Crash,
      SlotProofs!Crash, Slots!LoopEnded, SlotProofs!LoopEnded, Slots!Finish,
      SlotProofs!Finish, Slots!PingAnswered, SlotProofs!PingAnswered, Slots!PingFailed,
      SlotProofs!PingFailed, Slots!PingGivenUp, SlotProofs!PingGivenUp, Slots!TakeSpareName,
      SlotProofs!TakeSpareName, Slots!LeaveSpareName, SlotProofs!LeaveSpareName,
      Slots!ThreadStep, SlotProofs!ThreadStep, Slots!Visit, SlotProofs!Visit, Slots!Gone,
      SlotProofs!Gone, Slots!Next, SlotProofs!Next,
      Slots!SlotZeroNeverDown, SlotProofs!SlotZeroNeverDown, Slots!ThreadsOwnDownSlots,
      SlotProofs!ThreadsOwnDownSlots, Slots!PrimaryExecutesEveryOperation,
      SlotProofs!PrimaryExecutesEveryOperation, Slots!LiveServersSeeEveryOperation,
      SlotProofs!LiveServersSeeEveryOperation, Slots!Running, SlotProofs!Running,
      Slots!Active, SlotProofs!Active, Slots!Live, SlotProofs!Live

\* In the storage, too, reads never go to a server that is DOWN, exchanges never
\* move a server under its reconnect thread, and no live server is left out of an
\* operation, while servers fail, restore from each other and come back.
THEOREM StorageKeepsTheSlots ==
    Spec => [](/\ Slots!SlotZeroNeverDown
               /\ Slots!ThreadsOwnDownSlots
               /\ Slots!LiveServersSeeEveryOperation
               /\ Slots!PrimaryExecutesEveryOperation)
<1>1. SlotProofs!Spec => []SlotProofs!SlotZeroNeverDown
  BY RaidAssumption, SlotProofs!SlotZero
<1>2. SlotProofs!Spec => []SlotProofs!ThreadsOwnDownSlots
  BY RaidAssumption, SlotProofs!ThreadsOwnTheirSlots
<1>3. SlotProofs!Spec => []SlotProofs!LiveServersSeeEveryOperation
  BY RaidAssumption, SlotProofs!NoLiveServerIsSkipped
<1>4. SlotProofs!Spec => []SlotProofs!PrimaryExecutesEveryOperation
  BY RaidAssumption, SlotProofs!PrimaryIsNeverSkipped
<1> QED
  BY <1>1, <1>2, <1>3, <1>4, SameSlots, StorageImplementsSlots, PTL
  DEF ImplementsServerSlots, Slots!Spec, SlotProofs!Spec

-----------------------------------------------------------------------------
(* Type correctness.                                                        *)

Handle == 0 .. Handles - 1
Fd == Fds \cup {NoFd, ENOENT, ERRHASH, ERRCONNECTION}
Msg == [status : Int, hash : Data \cup {Junk}, mtime : Times, kept : BOOLEAN]
RepairRequest == [on : BOOLEAN, target : Slot, source : Slot, at : Slot]

OnFile == {"mknod", "unlink", "truncate", "open", "read", "write", "release", "rename", "utime"}
OnEntry == {"mkdir", "rmdir"}
OnDirectory == {"opendir", "readdir", "releasedir"}

Call == [op : OnFile \cup OnEntry \cup OnDirectory \cup {"getattr", "none"},
         path : Tree \cup {Root, NoPath}, to : Tree \cup {Root, NoPath}, handle : Handle,
         data : Fragments \cup {NoFragment}, time : Times, entries : SUBSET Tree, retval : Int, quiet : BOOLEAN]

\* An operation on files has a file as its argument, one on directories a directory,
\* and a write what it writes.
Fits(c) ==
    /\ c.op \in OnFile => c.path \in Paths
    /\ c.op = "rename" => c.to \in Paths \ {c.path}
    /\ c.op \in OnEntry => c.path \in Dirs
    /\ c.op \in OnDirectory => c.path \in Dirs \cup {Root}
    /\ c.op = "write" => c.data \in Fragments

ClientTypes ==
    /\ fds \in [Slot -> [Handle -> Fd]]
    /\ fd_counter \in 0 .. Handles
    /\ cache \subseteq Paths
    /\ opened \in [Handle -> Tree \cup {Root, NoPath}]
    /\ acked \in [Tree -> SUBSET (Data \cup {Absent, Directory})]
    /\ msgs \in [Slot -> Msg]
    /\ repair \in RepairRequest

CallTypes ==
    /\ call \in Call
    /\ Fits(call)
    /\ fuse.pc = "loop" => call.op # "none"

ServerTypes ==
    /\ server \in [Names -> FileServer]
    /\ \A n \in Names : Tidy(server[n])
    /\ now \in [Names -> Times]

Types == ClientTypes /\ CallTypes /\ ServerTypes

-----------------------------------------------------------------------------
(* Slots, descriptors and records.                                          *)

LEMMA SlotsAre == 0 \in Slot /\ N \in Nat \ {0} /\ Slot = 0 .. N - 1 /\ 0 \in Handle
  BY RaidAssumption DEF Slot, Slots!Slots, Handle

LEMMA NamesAre ==
    ASSUME Slots!TypeOK, NEW i \in Slot
    PROVE  servers[i].name \in Names
  BY DEF Slots!TypeOK, Slot

LEMMA LandingIs ==
    ASSUME NEW i \in Slot
    PROVE  Slots!Landing(i) \in Slot
  BY SlotsAre DEF Slots!Landing, Slots!Moves

LEMMA SourceIs ==
    ASSUME NEW i \in Slot
    PROVE  Source(i) \in Slot
  BY SlotsAre DEF Source

LEMMA StatusesAre ==
    /\ OK \in Int /\ ENOENT \in Int /\ EBADF \in Int /\ EEXIST \in Int /\ ENOTEMPTY \in Int
    /\ ERRHASH \in Int /\ ERRCONNECTION \in Int /\ Fds \subseteq Int
    /\ OK = 0 /\ ENOENT < 0 /\ ERRHASH < 0 /\ \A d \in Fds : d >= 0
  BY FileServerAssumption DEF OK, ENOENT, EBADF, EEXIST, ENOTEMPTY, ERRHASH, ERRCONNECTION, Slots!ERRCONNECTION, Fds

LEMMA ResultIs ==
    ASSUME NEW i \in Slot, call \in Call, NEW status \in Int
    PROVE  Result(i, status) \in Int
  BY DEF Result, Call

LEMMA RestingTypes ==
    NoMsg \in Msg /\ NoRepair \in RepairRequest /\ NoCall \in Call /\ Fits(NoCall) /\ NoCall.op = "none"
<1>1. NoMsg \in Msg
  BY StatusesAre, BlankIs DEF NoMsg, Msg
<1>2. NoRepair \in RepairRequest
  BY SlotsAre DEF NoRepair, RepairRequest
<1>3. NoCall \in Call
  BY StatusesAre, BlankIs, SlotsAre, FileServerAssumption DEF NoCall, Call
<1> QED
  BY <1>1, <1>2, <1>3 DEF Fits, NoCall, OnFile, OnEntry, OnDirectory

LEMMA WithFdIs ==
    ASSUME ClientTypes, call \in Call, NEW i \in Slot, NEW d \in Fd
    PROVE  WithFd(i, d) \in [Slot -> [Handle -> Fd]]
<1>1. call.handle \in Handle
  BY DEF Call
<1> QED
  BY <1>1 DEF WithFd, ClientTypes

LEMMA FdsFollowIs ==
    ASSUME NEW f \in [Slot -> [Handle -> Fd]], NEW i \in Slot
    PROVE  FdsFollow(f, i) \in [Slot -> [Handle -> Fd]]
  BY LandingIs DEF FdsFollow, Slots!Memswap

LEMMA ForgetIs ==
    ASSUME ClientTypes, NEW i \in Slot
    PROVE  Forget(i) \in [Slot -> Msg]
  BY RestingTypes DEF Forget, ClientTypes

\* One server does what it does, or two of them; the others nothing.
LEMMA OnServerIs ==
    ASSUME ServerTypes, Slots!TypeOK, NEW i \in Slot, NEW sv, Tidy(sv), OnServer(i, sv), now' = now
    PROVE  ServerTypes'
  BY NamesAre DEF ServerTypes, OnServer, Tidy

LEMMA OnServersIs ==
    ASSUME ServerTypes, Slots!TypeOK, NEW i \in Slot, NEW j \in Slot,
           NEW sv, Tidy(sv), NEW sw, Tidy(sw), OnServers(i, sv, j, sw), now' = now
    PROVE  ServerTypes'
  BY NamesAre DEF ServerTypes, OnServers, Tidy

LEMMA ServersAre ==
    ASSUME ServerTypes, Slots!TypeOK, NEW i \in Slot
    PROVE  Tidy(Server(i)) /\ Now(i) \in Times
  BY NamesAre DEF ServerTypes, Server, Now

\* Filling server i from server j.
LEMMA DuplicatesTypes ==
    ASSUME ServerTypes, Slots!TypeOK, NEW i \in Slot, NEW j \in Slot, Duplicates(i, j), now' = now
    PROVE  ServerTypes'
<1>1. PICK read \in ReadAll(Server(j), Paths) :
         OnServers(i, Duplicate(Server(i), Server(j), Now(i)), j, read)
  BY DEF Duplicates
<1>2. Tidy(Server(i)) /\ Tidy(Server(j)) /\ Now(i) \in Times
  BY ServersAre
<1>3. Tidy(read)
  BY <1>2, ReadAllIs
<1>4. Tidy(Duplicate(Server(i), Server(j), Now(i)))
  BY <1>2, DuplicateIs
<1> QED
  BY <1>1, <1>3, <1>4, OnServersIs

LEMMA DiesDuplicatingTypes ==
    ASSUME ServerTypes, Slots!TypeOK, NEW i \in Slot, NEW j \in Slot, DiesDuplicating(i, j), now' = now
    PROVE  ServerTypes'
<1>1. Tidy(Server(i))
  BY ServersAre
<1>2. Tidy(Emptied(Server(i)))
  BY <1>1, EmptiedIs
<1>3. Tidy(Killed(Emptied(Server(i))))
  BY <1>2, KilledIs
<1> QED
  BY <1>3, OnServerIs DEF DiesDuplicating

-----------------------------------------------------------------------------
(* The requests.                                                            *)

LEMMA RequestIs ==
    ASSUME Types, Slots!TypeOK, NEW i \in Slot, Plain(i), ~StaleDir(i), call.op # "none"
    PROVE  Tidy(Request(i).server) /\ Request(i).status \in Int /\ Entries(i) \subseteq Tree
<1> DEFINE sv == Server(i)
           time == Now(i)
<1>1. Tidy(sv) /\ time \in Times
  BY ServersAre DEF Types
<1>2. call \in Call /\ Fits(call)
  BY DEF Types, CallTypes
<1>3. call.op \in OnDirectory => call.op \in {"readdir", "releasedir"} /\ Descriptor(i) \in Fds
  BY DEF Plain, OnDirectory, StaleDir, NoDirAt
<1> USE StatusesAre
<1>4. CASE call.op = "getattr"
  BY <1>4, <1>1 DEF Request, Reply, Entries
<1>5. CASE call.op = "mknod"
  <2>1. call.path \in Paths /\ Request(i) = Mknod(sv, call.path, time) /\ Entries(i) = {}
    BY <1>5, <1>2 DEF Request, Entries, Fits, OnFile
  <2> HIDE DEF sv, time
  <2>2. /\ Tidy(Mknod(sv, call.path, time).server)
        /\ Mknod(sv, call.path, time).status \in {OK, EEXIST, ENOENT}
    BY <1>1, <2>1, MknodIs
  <2> QED
    BY <2>1, <2>2
<1>6. CASE call.op = "unlink"
  BY <1>6, <1>1, <1>2, UnlinkIs DEF Request, Entries, Fits, OnFile
<1>7. CASE call.op = "mkdir"
  BY <1>7, <1>1, <1>2, MkdirIs DEF Request, Entries, Fits, OnEntry
<1>8. CASE call.op = "rmdir"
  BY <1>8, <1>1, <1>2, RmdirIs DEF Request, Entries, Fits, OnEntry
<1>9. CASE call.op = "rename"
  <2>1. call.path \in Paths /\ call.to \in Paths \ {call.path}
    BY <1>9, <1>2 DEF Fits, OnFile
  <2>2. Request(i) = Rename(sv, call.path, call.to) /\ Entries(i) = {}
    BY <1>9 DEF Request, Entries
  <2> DEFINE p == call.path
             q == call.to
  <2> HIDE DEF sv, p, q
  <2>3. p \in Paths /\ q \in Paths \ {p}
    BY <2>1 DEF p, q
  <2>4. Tidy(Rename(sv, p, q).server) /\ Rename(sv, p, q).status \in {OK, ENOENT}
    <3>1. /\ Tidy(Rename(sv, p, q).server)
          /\ Rename(sv, p, q).status = IF Exists(sv, p) /\ HasParent(sv, q) THEN OK ELSE ENOENT
      BY <1>1, <2>3, RenameIs, Zenon
    <3> QED
      BY <3>1
  <2> QED
    BY <2>2, <2>4 DEF p, q
<1>10. CASE call.op = "utime"
  BY <1>10, <1>1, <1>2, UtimeIs DEF Request, Entries, Fits, OnFile, Call
<1>11. CASE call.op = "readdir"
  BY <1>11, <1>1, <1>3, ReaddirIs DEF Request, Entries, OnDirectory, Reply, SameFiles
<1>12. CASE call.op = "releasedir"
  BY <1>12, <1>1, <1>3, ReleasedirIs DEF Request, Entries, OnDirectory, SameFiles
<1>13. CASE call.op = "truncate"
  BY <1>13, <1>1, <1>2, TruncateIs DEF Request, Entries, Fits, OnFile
<1>14. CASE call.op = "write"
  <2>1. call.path \in Paths /\ call.data \in Fragments
    BY <1>14, <1>2 DEF Fits, OnFile
  <2>2. Request(i) = Write(sv, call.path, Descriptor(i), call.data, time) /\ Entries(i) = {}
    BY <1>14 DEF Request, Entries
  <2> DEFINE d == Descriptor(i)
  <2> HIDE DEF sv, time, d
  <2>3. Tidy(Write(sv, call.path, d, call.data, time).server)
        /\ Write(sv, call.path, d, call.data, time).status \in {OK, ENOENT, EBADF}
    BY <1>1, <2>1, WriteIs
  <2> QED
    BY <2>2, <2>3 DEF d
<1>15. CASE call.op = "release"
  BY <1>15, <1>1, ReleaseIs DEF Request, Entries
<1> QED
  BY <1>2, <1>4, <1>5, <1>6, <1>7, <1>8, <1>9, <1>10, <1>11, <1>12, <1>13, <1>14, <1>15
  DEF Plain, Call, OnFile, OnEntry, OnDirectory

-----------------------------------------------------------------------------
(* An operation begins and ends.                                            *)

LEMMA InitTypes == Init => Types
<1> SUFFICES ASSUME Init PROVE Types
  OBVIOUS
<1> USE DEF Init
<1>1. ClientTypes
  <2>1. fds \in [Slot -> [Handle -> Fd]] /\ fd_counter \in 0 .. Handles
    BY RaidAssumption DEF Handle, Fd
  <2>2. opened \in [Handle -> Tree \cup {Root, NoPath}] /\ cache \subseteq Paths
    BY DEF Handle
  <2>3. acked \in [Tree -> SUBSET (Data \cup {Absent, Directory})]
    OBVIOUS
  <2>4. msgs \in [Slot -> Msg] /\ repair \in RepairRequest
    BY RestingTypes
  <2> QED
    BY <2>1, <2>2, <2>3, <2>4 DEF ClientTypes
<1>2. CallTypes
  BY RestingTypes DEF CallTypes, Slots!Init, Slots!Idle
<1> DEFINE sv == [up |-> TRUE, dir |-> [p \in Paths |-> NoInode], dirs |-> {},
                  inode |-> [k \in Inodes |-> Blank], open |-> [d \in Fds |-> NoInode],
                  stream |-> [d \in Fds |-> NoStream], left |-> {}]
<1>3. sv \in FileServer
  BY BlankIs DEF FileServer
<1>4. Tidy(sv)
  BY <1>3 DEF Tidy
<1>5. ServerTypes
  BY <1>4, BlankIs DEF ServerTypes, Tidy
<1> QED
  BY <1>1, <1>2, <1>5 DEF Types

LEMMA BeginCallTypes ==
    ASSUME Types, NEW mode, NEW c \in Call, Fits(c), c.op # "none", BeginCall(mode, c),
           fd_counter' \in 0 .. Handles
    PROVE  Types'
<1>1. ClientTypes'
  BY DEF Types, ClientTypes, BeginCall
<1>2. CallTypes'
  BY DEF CallTypes, BeginCall
<1>3. ServerTypes'
  BY DEF Types, ServerTypes, BeginCall, worldVars
<1> QED
  BY <1>1, <1>2, <1>3 DEF Types

\* A call on a handle.
HandleCall(op, p, h, retval) ==
    [NoCall EXCEPT !.op = op, !.path = p, !.handle = h, !.retval = retval]
WriteCall(op, p, h, data, retval) ==
    [NoCall EXCEPT !.op = op, !.path = p, !.handle = h, !.data = data, !.retval = retval]

Results == {OK, -1}

LEMMA ResultsAre == Results \subseteq Int /\ -1 \in Results /\ OK \in Results
  BY StatusesAre DEF Results

LEMMA HandleCallIs ==
    ASSUME NEW op \in OnFile \cup OnDirectory, NEW p \in Tree \cup {Root, NoPath}, NEW h \in Handle,
           NEW retval \in Results
    PROVE  LET c == HandleCall(op, p, h, retval) IN c \in Call /\ c.op = op /\ c.path = p
  BY RestingTypes, ResultsAre DEF Call, HandleCall

LEMMA WriteCallIs ==
    ASSUME NEW op \in OnFile, NEW p \in Tree \cup {Root, NoPath}, NEW h \in Handle,
           NEW data \in Fragments, NEW retval \in Results
    PROVE  LET c == WriteCall(op, p, h, data, retval)
           IN  c \in Call /\ c.op = op /\ c.path = p /\ c.data = data
  BY RestingTypes, ResultsAre DEF Call, WriteCall

LEMMA BeginTypes == Types /\ Begin => Types'
<1> SUFFICES ASSUME Types, Begin PROVE Types'
  OBVIOUS
<1>0. /\ fd_counter \in 0 .. Handles /\ opened \in [Handle -> Tree \cup {Root, NoPath}]
  BY DEF Types, ClientTypes
<1>1. ASSUME NEW p \in Tree, NEW op \in (OnFile \cup OnEntry) \ {"rename", "write"}, BeginOn(op, p),
             op \in OnFile => p \in Paths, op \in OnEntry => p \in Dirs
      PROVE  Types'
  <2> DEFINE c == [NoCall EXCEPT !.op = op, !.path = p]
  <2>1. c \in Call /\ c.op = op /\ c.path = p
    BY RestingTypes DEF Call
  <2> HIDE DEF c
  <2>2. c \in Call /\ Fits(c) /\ c.op # "none"
    BY <1>1, <2>1 DEF Fits, OnFile, OnEntry, OnDirectory
  <2> QED
    BY <1>0, <1>1, <2>2, BeginCallTypes DEF BeginOn, c
<1>2. ASSUME NEW p \in Tree \cup {Root}, NEW op \in {"open", "opendir"}, BeginHandle(op, p),
             op = "open" => p \in Paths, op = "opendir" => p \in Dirs \cup {Root}
      PROVE  Types'
  <2> DEFINE c == [NoCall EXCEPT !.op = op, !.path = p, !.handle = fd_counter]
  <2>1. fd_counter \in Handle /\ fd_counter' \in 0 .. Handles
    BY <1>0, <1>2, RaidAssumption DEF BeginHandle, Handle
  <2>2. c \in Call /\ c.op = op /\ c.path = p
    BY <2>1, RestingTypes DEF Call, OnFile, OnDirectory
  <2> HIDE DEF c
  <2>3. c \in Call /\ Fits(c) /\ c.op # "none"
    BY <1>2, <2>2 DEF Fits, OnFile, OnEntry, OnDirectory
  <2> QED
    BY <1>2, <2>1, <2>3, BeginCallTypes DEF BeginHandle, c
<1>3. ASSUME NEW p \in Paths, NEW q \in Paths \ {p}, BeginRename(p, q) PROVE Types'
  <2> DEFINE op == "rename"
             c == [NoCall EXCEPT !.op = op, !.path = p, !.to = q]
  <2>1. c \in Call /\ c.op = op /\ c.path = p /\ c.to = q
    BY RestingTypes DEF Call, OnFile, Tree
  <2> HIDE DEF c
  <2>2. c \in Call /\ Fits(c) /\ c.op # "none"
    BY <2>1 DEF Fits, OnFile, OnEntry, OnDirectory
  <2> QED
    BY <1>0, <1>3, <2>2, BeginCallTypes DEF BeginRename, c
<1>4. ASSUME NEW p \in Paths, NEW time \in Times, BeginUtime(p, time) PROVE Types'
  <2> DEFINE op == "utime"
             c == [NoCall EXCEPT !.op = op, !.path = p, !.time = time]
  <2>1. c \in Call /\ c.op = op /\ c.path = p
    BY RestingTypes DEF Call, OnFile, Tree
  <2> HIDE DEF c
  <2>2. c \in Call /\ Fits(c) /\ c.op # "none"
    BY <2>1 DEF Fits, OnFile, OnEntry, OnDirectory
  <2> QED
    BY <1>0, <1>4, <2>2, BeginCallTypes DEF BeginUtime, c
<1>5. CASE BeginGetattr
  <2> DEFINE c == [NoCall EXCEPT !.op = "getattr"]
  <2>1. c \in Call /\ Fits(c) /\ c.op # "none"
    BY RestingTypes DEF Call, Fits, NoCall, OnFile, OnEntry, OnDirectory
  <2> HIDE DEF c
  <2> QED
    BY <1>0, <1>5, <2>1, BeginCallTypes DEF BeginGetattr, c
\* The operations on a handle.
<1>6. ASSUME NEW c \in Call, NEW h \in Handle, NEW mode, BeginCall(mode, c), UNCHANGED fd_counter,
             c.op = "write" => c.data \in Fragments,
             c.op \in {"read", "write", "release", "readdir", "releasedir"}, c.path = opened[h],
             c.op \in OnFile => opened[h] \in Paths, c.op \in OnDirectory => opened[h] \in Dirs \cup {Root}
      PROVE  Types'
  <2>1. Fits(c) /\ c.op # "none"
    BY <1>6 DEF Fits, OnFile, OnEntry, OnDirectory
  <2> QED
    BY <1>0, <1>6, <2>1, BeginCallTypes
<1>7. ASSUME NEW h \in Handle, BeginRead(h) PROVE Types'
  <2> DEFINE p == opened[h]
             retval == -1
             c == HandleCall("read", p, h, retval)
  <2>1. p \in Tree \cup {Root, NoPath} /\ retval \in Results /\ "read" \in OnFile
    BY <1>0, ResultsAre DEF OnFile
  <2>2. BeginCall("first", c) /\ UNCHANGED fd_counter /\ p \in Paths
    BY <1>7 DEF BeginRead, HandleCall
  <2>3. p = opened[h]
    OBVIOUS
  <2> HIDE DEF p, retval, c
  <2>4. c \in Call /\ c.op = "read" /\ c.path = p
    BY <2>1, HandleCallIs DEF c
  <2> QED
    BY <1>6, <2>2, <2>3, <2>4 DEF OnDirectory
<1>8. ASSUME NEW h \in Handle, BeginReaddir(h) PROVE Types'
  <2> DEFINE c == [NoCall EXCEPT !.op = "readdir", !.path = opened[h], !.handle = h]
  <2>1. c \in Call /\ c.op = "readdir" /\ c.path = opened[h]
    BY <1>0, RestingTypes DEF Call, OnDirectory
  <2> HIDE DEF c
  <2> QED
    BY <1>6, <1>8, <2>1 DEF BeginReaddir, OnFile, OnDirectory, c
<1>9. ASSUME NEW h \in Handle, BeginRelease(h) PROVE Types'
  <2> DEFINE p == opened[h]
             op == IF p \in Paths THEN "release" ELSE "releasedir"
  <2>1. PICK res : res \in Results /\ BeginCall("all", HandleCall(op, p, h, res))
    BY <1>9 DEF BeginRelease, HandleCall, Results
  <2> DEFINE c == HandleCall(op, p, h, res)
  <2>2. p \in Tree \cup {Root, NoPath} /\ op \in OnFile \cup OnDirectory /\ res \in Results
    BY <1>0, <2>1 DEF OnFile, OnDirectory
  <2>5. /\ op \in {"release", "releasedir"}
        /\ op \in OnFile => p \in Paths
        /\ op \in OnDirectory => p \in Dirs \cup {Root}
    BY <1>0, <1>9 DEF BeginRelease, OnFile, OnDirectory, Tree
  <2>3. BeginCall("all", c) /\ UNCHANGED fd_counter /\ p = opened[h]
    BY <1>9, <2>1 DEF BeginRelease
  <2> HIDE DEF p, op, c
  <2>4. c \in Call /\ c.op = op /\ c.path = p
    BY <2>2, HandleCallIs DEF c
  <2> QED
    BY <1>6, <2>3, <2>4, <2>5
<1>10. ASSUME NEW h \in Handle, NEW data \in Fragments, BeginWrite(h, data) PROVE Types'
  <2> DEFINE p == opened[h]
             op == "write"
  <2>1. PICK res : res \in Results /\ BeginCall("all", WriteCall(op, p, h, data, res))
    BY <1>10 DEF BeginWrite, WriteCall, Results
  <2> DEFINE c == WriteCall(op, p, h, data, res)
  <2>2. p \in Tree \cup {Root, NoPath} /\ op \in OnFile /\ res \in Results
    BY <1>0, <2>1 DEF OnFile
  <2>3. BeginCall("all", c) /\ UNCHANGED fd_counter /\ p = opened[h] /\ p \in Paths /\ op = "write"
    BY <1>10, <2>1 DEF BeginWrite
  <2> HIDE DEF p, op, c
  <2>4. c \in Call /\ c.op = op /\ c.path = p /\ c.data = data
    BY <2>2, WriteCallIs DEF c
  <2> QED
    BY <1>6, <2>3, <2>4 DEF OnDirectory
<1>11. ASSUME NEW p \in Paths, BeginMknod(p) \/ BeginUnlink(p) \/ BeginTruncate(p) \/ BeginOpen(p)
       PROVE  Types'
  BY <1>1, <1>2, <1>11
  DEF BeginMknod, BeginUnlink, BeginTruncate, BeginOpen, OnFile, OnEntry, Tree
<1>12. ASSUME NEW d \in Dirs, BeginMkdir(d) \/ BeginRmdir(d) PROVE Types'
  BY <1>1, <1>12 DEF BeginMkdir, BeginRmdir, OnFile, OnEntry, Tree
<1>13. ASSUME NEW d \in Dirs \cup {Root}, BeginOpendir(d) PROVE Types'
  BY <1>2, <1>13 DEF BeginOpendir, Tree
<1> QED
  BY <1>3, <1>4, <1>5, <1>7, <1>8, <1>9, <1>10, <1>11, <1>12, <1>13 DEF Begin, Handle

-----------------------------------------------------------------------------
(* A visit.                                                                 *)

\* Only an operation that runs visits a slot, and that of its position.
LEMMA VisitsAreOfCalls ==
    ASSUME NEW i \in Slot, Visit(i)
    PROVE  fuse.pc = "loop"
<1> USE DEF Slots!AtSlot, Slots!Requested
<1>1. CASE \/ PassOver(i) \/ RestoreAllDone(i) \/ RestoreAllDies(i) \/ RestoreAllLost(i)
           \/ UnknownHandle(i) \/ Execute(i) \/ ExecuteStale(i) \/ Lost(i)
  BY <1>1 DEF PassOver, RestoreAllDone, RestoreAllDies, RestoreAllLost, UnknownHandle,
              Execute, ExecuteStale, Lost, Slots!SkipDown, Slots!RestoreAllDone,
              Slots!RestoreAllRefused, Slots!RestoreAllLost, Slots!Return, Slots!Answered,
              Slots!RequestLost
<1>2. CASE \/ OpenAgreed(i) \/ OpenFailed(i) \/ OpenLost(i) \/ OpenCrashes(i)
           \/ OpenDisagreed(i)
  BY <1>2 DEF OpenAgreed, OpenFailed, OpenLost, OpenCrashes, OpenDisagreed,
              Opening, Requesting
<1>3. CASE \/ Restore(i) \/ RestoreLost(i) \/ RestoreKills(i)
           \/ DuplicateAgain(i) \/ DuplicateDies(i) \/ DuplicateLost(i)
  BY <1>3 DEF Restore, RestoreLost, RestoreKills, DuplicateAgain, DuplicateDies, DuplicateLost,
              Slots!Repaired, Slots!Answered, Slots!Duplicated, Slots!DuplicateLost, Slots!Return
<1>4. CASE \/ OpendirDone(i) \/ OpendirMissing(i) \/ OpendirLost(i)
           \/ ReadCached(i) \/ ReadServer(i) \/ ReadLost(i) \/ ReadCrashes(i)
  BY <1>4 DEF OpendirDone, OpendirMissing, OpendirLost, ReadCached, ReadServer, ReadLost,
              ReadCrashes, Requesting, Slots!AnsweredLocally, Slots!Answered, Slots!RequestLost,
              Slots!Crash
<1> QED
  BY <1>1, <1>2, <1>3, <1>4 DEF Visit

\* The call goes on with a result, or is over and the client has left the loop.
LEMMA CallGoesOn ==
    ASSUME CallTypes, fuse.pc = "loop",
           \/ call' = call
           \/ call' = [call EXCEPT !.quiet = FALSE]
           \/ \E status \in Int : call' = [call EXCEPT !.retval = status]
           \/ \E status \in Int, e \in SUBSET Tree :
                 call' = [call EXCEPT !.retval = status, !.entries = e]
    PROVE  CallTypes'
<1>1. call \in Call /\ Fits(call) /\ call.op # "none"
  BY DEF CallTypes
<1>2. /\ call' \in Call
      /\ call'.op = call.op /\ call'.path = call.path /\ call'.to = call.to
      /\ call'.data = call.data
  BY <1>1 DEF Call
<1> QED
  BY <1>1, <1>2 DEF CallTypes, Fits

LEMMA AfterWriteIs ==
    ASSUME call.data \in Fragments, NEW old
    PROVE  AfterWrite(old) \subseteq Data
  BY FileServerAssumption DEF AfterWrite

LEMMA CallIsOver ==
    ASSUME call' = NoCall, fuse'.pc # "loop"
    PROVE  CallTypes'
  BY RestingTypes DEF CallTypes

LEMMA ServersStay ==
    ASSUME ServerTypes, server' = server, now' = now
    PROVE  ServerTypes'
  BY DEF ServerTypes

LEMMA RestoreAllTypes ==
    ASSUME Types, Slots!TypeOK, NEW i \in Slot,
           \/ PassOver(i) \/ RestoreAllDone(i) \/ RestoreAllDies(i) \/ RestoreAllLost(i)
    PROVE  Types'
<1>0. ClientTypes /\ CallTypes /\ ServerTypes /\ fuse.pc = "loop"
  BY VisitsAreOfCalls DEF Types, Visit
<1>1. CallTypes'
  BY <1>0, CallGoesOn DEF PassOver, RestoreAllDone, RestoreAllDies, RestoreAllLost, clientVars
<1>2. Source(i) \in Slot
  BY SourceIs
<1>3. CASE PassOver(i)
  <2>1. ServerTypes'
    BY <1>0, <1>3, ServersStay DEF PassOver, worldVars
  <2>2. ClientTypes'
    BY <1>0, <1>3, ForgetIs DEF PassOver, ClientTypes
  <2> QED
    BY <1>1, <2>1, <2>2 DEF Types
<1>4. CASE RestoreAllDone(i)
  <2>1. ServerTypes'
    BY <1>0, <1>2, <1>4, DuplicatesTypes DEF RestoreAllDone
  <2>2. ClientTypes'
    BY <1>0, <1>4 DEF RestoreAllDone, ClientTypes, clientVars
  <2> QED
    BY <1>1, <2>1, <2>2 DEF Types
<1>5. CASE RestoreAllDies(i)
  <2>1. ServerTypes'
    BY <1>0, <1>2, <1>5, DiesDuplicatingTypes DEF RestoreAllDies
  <2>2. fds' \in [Slot -> [Handle -> Fd]] /\ msgs' \in [Slot -> Msg]
    BY <1>0, <1>5, ForgetIs, FdsFollowIs DEF RestoreAllDies, ClientTypes
  <2>3. ClientTypes'
    BY <1>0, <1>5, <2>2 DEF RestoreAllDies, ClientTypes
  <2> QED
    BY <1>1, <2>1, <2>3 DEF Types
<1>6. CASE RestoreAllLost(i)
  <2>1. ServerTypes'
    BY <1>0, <1>6, ServersStay DEF RestoreAllLost, worldVars
  <2>2. ClientTypes'
    BY <1>0, <1>6, ForgetIs, FdsFollowIs DEF RestoreAllLost, ClientTypes
  <2> QED
    BY <1>1, <2>1, <2>2 DEF Types
<1> QED
  BY <1>3, <1>4, <1>5, <1>6

LEMMA ExecuteTypes ==
    ASSUME Types, Slots!TypeOK, NEW i \in Slot,
           UnknownHandle(i) \/ Execute(i) \/ ExecuteStale(i) \/ Lost(i)
    PROVE  Types'
<1>0. ClientTypes /\ CallTypes /\ ServerTypes /\ fuse.pc = "loop" /\ call \in Call /\ call.op # "none"
  BY VisitsAreOfCalls DEF Types, Visit, CallTypes
<1>1. CASE UnknownHandle(i)
  <2>1. CallTypes'
    BY <1>1, CallIsOver DEF UnknownHandle, Slots!Return, Slots!Idle
  <2>2. ServerTypes'
    BY <1>0, <1>1, ServersStay DEF UnknownHandle, worldVars
  <2>3. acked' \in [Tree -> SUBSET (Data \cup {Absent, Directory})]
    <3>1. call.op = "write" => call.data \in Fragments
      BY <1>0 DEF CallTypes, Fits
    <3> QED
      BY <1>0, <1>1, <3>1, AfterWriteIs DEF UnknownHandle, ClientTypes
  <2>4. opened' \in [Handle -> Tree \cup {Root, NoPath}]
    BY <1>0, <1>1 DEF UnknownHandle, ClientTypes
  <2>5. ClientTypes'
    BY <1>0, <1>1, <2>3, <2>4 DEF UnknownHandle, ClientTypes
  <2> QED
    BY <2>1, <2>2, <2>5 DEF Types
<1>2. CASE Execute(i)
  <2>1. Tidy(Request(i).server) /\ Request(i).status \in Int /\ Entries(i) \in SUBSET Tree
    BY <1>0, <1>2, RequestIs DEF Execute
  <2>2. Result(i, Request(i).status) \in Int
    BY <1>0, <2>1, ResultIs
  <2>3. CallTypes'
    BY <1>0, <1>2, <2>1, <2>2, CallGoesOn DEF Execute
  <2>4. ServerTypes'
    BY <1>0, <1>2, <2>1, OnServerIs DEF Execute
  <2>5. ClientTypes'
    BY <1>0, <1>2 DEF Execute, ClientTypes
  <2> QED
    BY <2>3, <2>4, <2>5 DEF Types
<1>3. CASE ExecuteStale(i)
  <2>1. PICK sv \in {Server(i), Killed(Server(i))}, status \in {OK, -1} :
           OnServer(i, sv) /\ call' = [call EXCEPT !.retval = status]
    BY <1>3 DEF ExecuteStale
  <2>2. Tidy(sv) /\ status \in Int
    <3>1. Tidy(Server(i)) /\ Tidy(Killed(Server(i)))
      BY <1>0, ServersAre, KilledIs
    <3>2. status \in Int
      BY StatusesAre
    <3> QED
      BY <2>1, <3>1, <3>2
  <2>3. CallTypes'
    BY <1>0, <2>1, <2>2, CallGoesOn
  <2>4. ServerTypes'
    BY <1>0, <1>3, <2>1, <2>2, OnServerIs DEF ExecuteStale
  <2>5. ClientTypes'
    BY <1>0, <1>3 DEF ExecuteStale, ClientTypes
  <2> QED
    BY <2>3, <2>4, <2>5 DEF Types
<1>4. CASE Lost(i)
  <2>1. Result(i, ERRCONNECTION) \in Int
    BY <1>0, StatusesAre, ResultIs
  <2>2. CallTypes'
    BY <1>0, <1>4, <2>1, CallGoesOn DEF Lost
  <2>3. ServerTypes'
    BY <1>0, <1>4, ServersStay DEF Lost, worldVars
  <2>4. ClientTypes'
    BY <1>0, <1>4, FdsFollowIs DEF Lost, ClientTypes
  <2> QED
    BY <2>2, <2>3, <2>4 DEF Types
<1> QED
  BY <1>1, <1>2, <1>3, <1>4

\* What client_open keeps of a reply.
LEMMA KeptIs ==
    ASSUME ClientTypes, CallTypes, ServerTypes, Slots!TypeOK, NEW i \in Slot, call.op = "open",
           NEW m \in Open(Server(i), call.path)
    PROVE  /\ call.path \in Paths
           /\ Tidy(Server(i)) /\ Tidy(m.server) /\ m.status \in Fd
           /\ [msgs EXCEPT ![i] = Kept(m)] \in [Slot -> Msg]
           /\ WithFd(i, m.status) \in [Slot -> [Handle -> Fd]]
           /\ Repair(i, m) \in RepairRequest
<1>1. call.path \in Paths /\ call \in Call
  BY DEF CallTypes, Fits, OnFile
<1>2. Tidy(Server(i))
  BY ServersAre
<1>3. /\ Tidy(m.server) /\ m.status \in Fds \cup {ENOENT, ERRHASH}
      /\ m.hash \in Data \cup {Junk} /\ m.mtime \in Times
  BY <1>1, <1>2, OpenIs
<1>4. m.status \in Fd /\ m.status \in Int
  BY <1>3, StatusesAre DEF Fd
<1>5. Kept(m) \in Msg
  BY <1>3, <1>4 DEF Kept, Msg
<1>6. Source(i) \in Slot
  BY SourceIs
<1>7. Repair(i, m) \in RepairRequest
  BY <1>6 DEF Repair, RepairRequest
<1>8. [msgs EXCEPT ![i] = Kept(m)] \in [Slot -> Msg]
  BY <1>5 DEF ClientTypes
<1> QED
  BY <1>1, <1>2, <1>3, <1>4, <1>7, <1>8, WithFdIs

LEMMA OpenTypes ==
    ASSUME Types, Slots!TypeOK, NEW i \in Slot,
           \/ OpenAgreed(i) \/ OpenDisagreed(i) \/ OpenFailed(i) \/ OpenLost(i)
           \/ OpenCrashes(i)
    PROVE  Types'
<1>0. ClientTypes /\ CallTypes /\ ServerTypes /\ fuse.pc = "loop" /\ call \in Call
  BY VisitsAreOfCalls DEF Types, Visit, CallTypes
<1>1. CASE OpenAgreed(i)
  <2>1. PICK m \in Open(Server(i), call.path) :
           OnServer(i, m.server) /\ msgs' = [msgs EXCEPT ![i] = Kept(m)] /\ fds' = WithFd(i, m.status)
    BY <1>1 DEF OpenAgreed
  <2>2. call.op = "open" /\ call' = call
    BY <1>1 DEF OpenAgreed, Opening, Requesting
  <2>3. CallTypes'
    BY <1>0, <2>2, CallGoesOn
  <2>4. ServerTypes'
    BY <1>0, <1>1, <2>1, <2>2, KeptIs, OnServerIs DEF OpenAgreed
  <2>5. fds' \in [Slot -> [Handle -> Fd]] /\ msgs' \in [Slot -> Msg]
    BY <1>0, <2>1, <2>2, KeptIs
  <2>6. ClientTypes'
    BY <1>0, <1>1, <2>5 DEF OpenAgreed, ClientTypes
  <2> QED
    BY <2>3, <2>4, <2>6 DEF Types
<1>2. CASE OpenDisagreed(i)
  <2>1. PICK m \in Open(Server(i), call.path) :
           /\ OnServer(i, m.server) /\ msgs' = [msgs EXCEPT ![i] = Kept(m)]
           /\ fds' = WithFd(i, m.status) /\ repair' = Repair(i, m)
    BY <1>2 DEF OpenDisagreed
  <2>2. call.op = "open" /\ call' = call
    BY <1>2 DEF OpenDisagreed, Opening, Requesting
  <2>3. CallTypes'
    BY <1>0, <2>2, CallGoesOn
  <2>4. ServerTypes'
    BY <1>0, <1>2, <2>1, <2>2, KeptIs, OnServerIs DEF OpenDisagreed
  <2>5. fds' \in [Slot -> [Handle -> Fd]] /\ msgs' \in [Slot -> Msg] /\ repair' \in RepairRequest
    BY <1>0, <2>1, <2>2, KeptIs
  <2>6. ClientTypes'
    BY <1>0, <1>2, <2>5 DEF OpenDisagreed, ClientTypes
  <2> QED
    BY <2>3, <2>4, <2>6 DEF Types
<1>3. CASE OpenFailed(i)
  <2>1. PICK m \in Open(Server(i), call.path) :
           OnServer(i, m.server) /\ fds' = WithFd(i, m.status)
    BY <1>3 DEF OpenFailed
  <2>2. call.op = "open"
    BY <1>3 DEF OpenFailed, Opening, Requesting
  <2>3. CallTypes'
    BY <1>3, CallIsOver DEF OpenFailed, Slots!Return, Slots!Crash, Slots!Idle
  <2>4. ServerTypes'
    BY <1>0, <1>3, <2>1, <2>2, KeptIs, OnServerIs DEF OpenFailed
  <2>5. fds' \in [Slot -> [Handle -> Fd]] /\ msgs' \in [Slot -> Msg]
    BY <1>0, <1>3, <2>1, <2>2, KeptIs, RestingTypes DEF OpenFailed
  <2>6. ClientTypes'
    BY <1>0, <1>3, <2>5 DEF OpenFailed, ClientTypes
  <2> QED
    BY <2>3, <2>4, <2>6 DEF Types
<1>4. CASE OpenLost(i)
  <2>1. CallTypes'
    BY <1>0, <1>4, CallGoesOn DEF OpenLost
  <2>2. ServerTypes'
    BY <1>0, <1>4, ServersStay DEF OpenLost, worldVars
  <2>3. FdsFollow(WithFd(i, ERRCONNECTION), i) \in [Slot -> [Handle -> Fd]]
    BY <1>0, WithFdIs, FdsFollowIs DEF Fd
  <2>4. ClientTypes'
    BY <1>0, <1>4, <2>3, ForgetIs DEF OpenLost, ClientTypes
  <2> QED
    BY <2>1, <2>2, <2>4 DEF Types
<1>5. CASE OpenCrashes(i)
  <2>1. CallTypes' /\ ClientTypes'
    BY <1>0, <1>5, CallGoesOn DEF OpenCrashes, clientVars, ClientTypes
  <2>2. ServerTypes'
    BY <1>0, <1>5, ServersStay DEF OpenCrashes, worldVars
  <2> QED
    BY <2>1, <2>2 DEF Types
<1> QED
  BY <1>1, <1>2, <1>3, <1>4, <1>5

\* What a restore does to the server that gets it.
LEMMA TargetIs ==
    ASSUME ServerTypes, Slots!TypeOK, ClientTypes, NEW sv, Tidy(sv),
           OnServer(repair.target, sv), now' = now
    PROVE  ServerTypes'
<1>1. repair.target \in Slot
  BY DEF ClientTypes, RepairRequest
<1> QED
  BY <1>1, OnServerIs

LEMMA RestoreTypes ==
    ASSUME Types, Slots!TypeOK, NEW i \in Slot, Restore(i) \/ RestoreLost(i) \/ RestoreKills(i)
    PROVE  Types'
<1>0. ClientTypes /\ CallTypes /\ ServerTypes /\ fuse.pc = "loop"
  BY VisitsAreOfCalls DEF Types, Visit
<1>1. call.path \in Paths
  BY <1>0 DEF CallTypes, Fits, OnFile, Restore, RestoreLost, RestoreKills, Repairing
<1>2. repair.target \in Slot /\ repair.source \in Slot
  BY <1>0 DEF ClientTypes, RepairRequest
<1>3. Tidy(RepairTo) /\ Tidy(RepairFrom) /\ Now(repair.target) \in Times
  BY <1>0, <1>2, ServersAre DEF RepairTo, RepairFrom
<1>4. CallTypes' /\ ClientTypes'
  BY <1>0, CallGoesOn, RestingTypes DEF Restore, RestoreLost, RestoreKills, ClientTypes
<1>5. CASE Restore(i)
  <2>1. PICK read \in ReadAll(RepairFrom, {call.path}) :
           OnServers(repair.target, Restored(RepairTo, call.path, RepairFrom, Now(repair.target)),
                     repair.source, read)
    BY <1>5 DEF Restore, Restores
  <2>2. Tidy(Restored(RepairTo, call.path, RepairFrom, Now(repair.target))) /\ Tidy(read)
    BY <1>1, <1>3, RestoredIs, ReadAllIs
  <2>3. ServerTypes'
    BY <1>0, <1>2, <1>5, <2>1, <2>2, OnServersIs DEF Restore
  <2> QED
    BY <1>4, <2>3 DEF Types
<1>6. CASE RestoreLost(i)
  BY <1>0, <1>4, <1>6, ServersStay DEF RestoreLost, worldVars, Types
<1>7. CASE RestoreKills(i)
  <2>1. Tidy(RestoreDies(RepairTo, call.path, Now(repair.target)))
    BY <1>1, <1>3, RestoreDiesIs
  <2>2. ServerTypes'
    BY <1>0, <1>7, <2>1, TargetIs DEF RestoreKills
  <2> QED
    BY <1>4, <2>2 DEF Types
<1> QED
  BY <1>5, <1>6, <1>7

LEMMA OpendirTypes ==
    ASSUME Types, Slots!TypeOK, NEW i \in Slot,
           \/ OpendirDone(i) \/ OpendirMissing(i) \/ OpendirLost(i)
           \/ DuplicateAgain(i) \/ DuplicateDies(i) \/ DuplicateLost(i)
    PROVE  Types'
<1>0. ClientTypes /\ CallTypes /\ ServerTypes /\ fuse.pc = "loop" /\ call \in Call
  BY VisitsAreOfCalls DEF Types, Visit, CallTypes
<1>1. Tidy(Server(i)) /\ Source(i) \in Slot
  BY <1>0, ServersAre, SourceIs
<1>2. ENOENT \in Fd /\ ERRCONNECTION \in Fd /\ Fds \subseteq Fd
  BY DEF Fd
<1>3. CASE OpendirDone(i)
  <2>1. PICK m \in Opendir(Server(i), call.path) : OnServer(i, m.server) /\ fds' = WithFd(i, m.status)
    BY <1>3 DEF OpendirDone
  <2>2. call.path \in Dirs \cup {Root} /\ call' = call
    BY <1>0, <1>3 DEF OpendirDone, Requesting, CallTypes, Fits, OnDirectory
  <2>3. Tidy(m.server) /\ m.status \in Fd
    BY <1>1, <1>2, <2>2, OpendirIs DEF SameFiles
  <2>4. ServerTypes'
    BY <1>0, <1>3, <2>1, <2>3, OnServerIs DEF OpendirDone
  <2>5. CallTypes'
    BY <1>0, <2>2, CallGoesOn
  <2>6. fds' \in [Slot -> [Handle -> Fd]]
    BY <1>0, <2>1, <2>3, WithFdIs
  <2>7. ClientTypes'
    BY <1>0, <1>3, <2>6 DEF OpendirDone, ClientTypes
  <2> QED
    BY <2>4, <2>5, <2>7 DEF Types
<1>4. CASE OpendirMissing(i)
  <2>1. ServerTypes'
    BY <1>0, <1>4, ServersStay DEF OpendirMissing, worldVars
  <2>2. CallTypes'
    <3>1. CASE call' = call
      BY <1>0, <3>1, CallGoesOn
    <3>2. CASE call' = NoCall /\ Slots!Return(i)
      BY <3>2, CallIsOver DEF Slots!Return, Slots!Idle
    <3> QED
      BY <1>4, <3>1, <3>2 DEF OpendirMissing
  <2>3. fds' \in [Slot -> [Handle -> Fd]]
    BY <1>0, <1>2, <1>4, WithFdIs DEF OpendirMissing
  <2>4. repair' \in RepairRequest
    <3>1. [on |-> TRUE, target |-> i, source |-> Source(i), at |-> i] \in RepairRequest
      BY SourceIs DEF RepairRequest
    <3> QED
      BY <1>0, <1>4, <3>1 DEF OpendirMissing, ClientTypes
  <2>5. ClientTypes'
    BY <1>0, <1>4, <2>3, <2>4 DEF OpendirMissing, ClientTypes
  <2> QED
    BY <2>1, <2>2, <2>5 DEF Types
<1>5. CASE OpendirLost(i)
  <2>1. ServerTypes' /\ CallTypes'
    BY <1>0, <1>5, ServersStay, CallGoesOn DEF OpendirLost, worldVars
  <2>2. fds' \in [Slot -> [Handle -> Fd]]
    BY <1>0, <1>2, <1>5, WithFdIs, FdsFollowIs DEF OpendirLost
  <2>3. ClientTypes'
    BY <1>0, <1>5, <2>2 DEF OpendirLost, ClientTypes
  <2> QED
    BY <2>1, <2>3 DEF Types
<1>6. CASE DuplicateAgain(i)
  <2>1. ServerTypes'
    BY <1>0, <1>1, <1>6, DuplicatesTypes DEF DuplicateAgain
  <2>2. CallTypes' /\ ClientTypes'
    BY <1>0, <1>6, CallGoesOn, RestingTypes DEF DuplicateAgain, ClientTypes
  <2> QED
    BY <2>1, <2>2 DEF Types
<1>7. CASE DuplicateDies(i) \/ DuplicateLost(i)
  <2>1. CallTypes'
    <3>1. CASE call' = call
      BY <1>0, <3>1, CallGoesOn
    <3>2. CASE call' = NoCall /\ (Slots!Return(i) \/ Slots!DuplicateLost(i))
      BY <3>2, CallIsOver DEF Slots!Return, Slots!DuplicateLost, Slots!Reconnect, Slots!Idle
    <3> QED
      BY <1>7, <3>1, <3>2 DEF DuplicateDies, DuplicateLost
  <2>2. ServerTypes'
    BY <1>0, <1>1, <1>7, DiesDuplicatingTypes, ServersStay DEF DuplicateDies, DuplicateLost, worldVars
  <2>3. fds' \in [Slot -> [Handle -> Fd]]
    BY <1>0, <1>7, FdsFollowIs DEF DuplicateDies, DuplicateLost, ClientTypes
  <2>4. ClientTypes'
    BY <1>0, <1>7, <2>3, RestingTypes DEF DuplicateDies, DuplicateLost, ClientTypes
  <2> QED
    BY <2>1, <2>2, <2>4 DEF Types
<1> QED
  BY <1>3, <1>4, <1>5, <1>6, <1>7

LEMMA ReadTypes ==
    ASSUME Types, Slots!TypeOK, NEW i \in Slot,
           ReadCached(i) \/ ReadServer(i) \/ ReadLost(i) \/ ReadCrashes(i)
    PROVE  Types'
<1>0. ClientTypes /\ CallTypes /\ ServerTypes /\ fuse.pc = "loop"
  BY VisitsAreOfCalls DEF Types, Visit, CallTypes
<1>1. ServerTypes'
  BY <1>0, ServersStay DEF ReadCached, ReadServer, ReadLost, ReadCrashes, worldVars
<1>2. call.op = "read" => call.path \in Paths
  BY <1>0 DEF CallTypes, Fits, OnFile
<1>3. CASE ReadCached(i) \/ ReadServer(i)
  <2>1. CallTypes'
    BY <1>0, <1>3, StatusesAre, CallGoesOn DEF ReadCached, ReadServer
  <2>2. cache' \subseteq Paths
    BY <1>0, <1>2, <1>3 DEF ReadCached, ReadServer, Reading, ClientTypes
  <2>3. ClientTypes'
    BY <1>0, <1>3, <2>2 DEF ReadCached, ReadServer, ClientTypes
  <2> QED
    BY <1>1, <2>1, <2>3 DEF Types
<1>4. CASE ReadLost(i)
  <2>1. CallTypes'
    BY <1>0, <1>4, CallGoesOn DEF ReadLost
  <2>2. ClientTypes'
    BY <1>0, <1>4, FdsFollowIs DEF ReadLost, ClientTypes
  <2> QED
    BY <1>1, <2>1, <2>2 DEF Types
<1>5. CASE ReadCrashes(i)
  BY <1>0, <1>1, <1>5, CallGoesOn DEF ReadCrashes, clientVars, ClientTypes, Types
<1> QED
  BY <1>3, <1>4, <1>5

LEMMA VisitTypes ==
    ASSUME Types, Slots!TypeOK, NEW i \in Slot, Visit(i)
    PROVE  Types'
  BY RestoreAllTypes, ExecuteTypes, OpenTypes, RestoreTypes, OpendirTypes, ReadTypes DEF Visit

-----------------------------------------------------------------------------
(* An operation returns, threads and the world.                             *)

LEMMA FinishTypes == Types /\ Finish => Types'
<1> SUFFICES ASSUME Types, Finish PROVE Types'
  OBVIOUS
<1>0. /\ ClientTypes /\ CallTypes /\ ServerTypes /\ call \in Call /\ Fits(call)
      /\ call.op \in Changes => call.path \in Tree
      /\ call.op = "write" => call.path \in Paths /\ call.data \in Fragments
      /\ call.op = "rename" => call.path \in Paths /\ call.to \in Paths
  BY DEF Types, CallTypes, Fits, Changes, OnFile, OnEntry, Tree
<1>1. CallTypes'
  BY CallIsOver DEF Finish, Slots!Finish, Slots!Idle
<1>2. ServerTypes'
  BY <1>0, ServersStay DEF Finish, worldVars
<1>3. acked' \in [Tree -> SUBSET (Data \cup {Absent, Directory})]
  <2>1. \A old : Outcome(old) \in SUBSET (Data \cup {Absent, Directory})
    BY <1>0, AfterWriteIs, FileServerAssumption DEF Outcome
  <2>2. acked' = Reported /\ acked \in [Tree -> SUBSET (Data \cup {Absent, Directory})]
    BY <1>0 DEF Finish, ClientTypes
  <2>3. \A old, new \in SUBSET (Data \cup {Absent, Directory}) :
           Either(old, new) \in SUBSET (Data \cup {Absent, Directory})
    BY DEF Either
  <2>4. CASE call.op \notin Changes
    BY <2>2, <2>4 DEF Reported
  <2>5. CASE call.op \in Changes
    <3>1. acked[call.path] \in SUBSET (Data \cup {Absent, Directory})
      BY <1>0, <2>2, <2>5
    <3>2. \A p \in Tree : Reported[p] \in SUBSET (Data \cup {Absent, Directory})
      BY <2>1, <2>2, <2>3, <2>5, <3>1 DEF Reported
    <3> QED
      BY <2>2, <2>5, <3>2 DEF Reported
  <2> QED
    BY <2>4, <2>5
<1>4. cache' \subseteq Paths
  BY <1>0 DEF Finish, Cached, Renamed, ClientTypes
<1>5. opened' \in [Handle -> Tree \cup {Root, NoPath}]
  BY <1>0 DEF Finish, ClientTypes, Renamed, Call
<1>6. ClientTypes'
  BY <1>0, <1>3, <1>4, <1>5, RestingTypes DEF Finish, ClientTypes
<1> QED
  BY <1>1, <1>2, <1>6 DEF Types

LEMMA ThreadTypes ==
    ASSUME Types, Slots!TypeOK, NEW t \in Threads, ThreadStep(t)
    PROVE  Types'
<1>0. ClientTypes /\ CallTypes /\ ServerTypes
  BY DEF Types
<1>1. CallTypes'
  BY <1>0
  DEF ThreadStep, CallTypes, Slots!PingAnswered, Slots!PingFailed, Slots!PingGivenUp,
      Slots!TakeSpareName, Slots!LeaveSpareName
<1>2. ServerTypes'
  BY <1>0, ServersStay DEF ThreadStep, worldVars
<1>3. fds' \in [Slot -> [Handle -> Fd]]
  <2>1. [h \in 0 .. Handles - 1 |-> NoFd] \in [Handle -> Fd]
    BY DEF Handle, Fd
  <2> QED
    BY <1>0, <2>1 DEF ThreadStep, ClientTypes
<1>4. ClientTypes'
  BY <1>0, <1>3 DEF ThreadStep, ClientTypes
<1> QED
  BY <1>1, <1>2, <1>4 DEF Types

\* The failures and the returns of a server, and damage to its disk.
LEMMA FaultIs ==
    ASSUME Types, NEW n \in Names, NEW sv, Tidy(sv), World(n, sv)
    PROVE  Types'
<1>0. ClientTypes /\ CallTypes /\ ServerTypes /\ call \in Call
  BY DEF Types, CallTypes
<1>1. CallTypes'
  <2>1. CASE call' = call
    BY <1>0, <2>1 DEF World, CallTypes
  <2>2. CASE call' = [call EXCEPT !.quiet = FALSE]
    <3>1. /\ call' \in Call /\ call'.op = call.op /\ call'.path = call.path
          /\ call'.to = call.to /\ call'.data = call.data
      BY <1>0, <2>2 DEF Call
    <3> QED
      BY <1>0, <3>1 DEF World, CallTypes, Fits
  <2> QED
    BY <2>1, <2>2 DEF World
<1>2. ServerTypes'
  BY <1>0 DEF World, ServerTypes, Tidy
<1>3. ClientTypes'
  BY <1>0 DEF World, ClientTypes
<1> QED
  BY <1>1, <1>2, <1>3 DEF Types

LEMMA WorldTypes ==
    ASSUME Types,
           \/ \E ns \in SUBSET Names \ {{}} : Tick(ns)
           \/ \E n \in Names : \/ Kill(n) \/ Cut(n) \/ Return(n)
                               \/ \E p \in Paths, data \in Data : Damage(n, p, data)
    PROVE  Types'
<1>0. ClientTypes /\ CallTypes /\ ServerTypes
  BY DEF Types
<1>1. ASSUME NEW ns \in SUBSET Names, Tick(ns) PROVE Types'
  <2>1. now' \in [Names -> Times]
    BY <1>0, <1>1, FileServerAssumption DEF Tick, ServerTypes, Times
  <2> QED
    BY <1>0, <1>1, <2>1 DEF Tick, clientVars, Types, ClientTypes, CallTypes, ServerTypes
<1>2. ASSUME NEW n \in Names, Kill(n) \/ Cut(n) \/ Return(n) PROVE Types'
  <2>1. Tidy(server[n])
    BY <1>0 DEF ServerTypes
  <2>2. Tidy(Killed(server[n]))
    BY <2>1, KilledIs
  <2> DEFINE on == TRUE
             off == FALSE
  <2>3. on \in BOOLEAN /\ off \in BOOLEAN
    OBVIOUS
  <2>4. Started(server[n]) = Reached(server[n], on) /\ Unreachable(server[n]) = Reached(server[n], off)
    BY DEF Started, Unreachable, Reached
  <2> HIDE DEF on, off
  <2>5. Tidy(Started(server[n])) /\ Tidy(Unreachable(server[n]))
    BY <2>1, <2>3, <2>4, ReachedIs
  <2> QED
    BY <1>2, <2>2, <2>5, FaultIs DEF Kill, Cut, Return, Fail
<1>3. ASSUME NEW n \in Names, NEW p \in Paths, NEW data \in Data, Damage(n, p, data) PROVE Types'
  <2>1. Tidy(server[n]) /\ Exists(server[n], p)
    BY <1>0, <1>3 DEF ServerTypes, Damage
  <2>2. Tidy(Damaged(server[n], p, data))
    BY <2>1, DamagedIs
  <2> QED
    BY <1>3, <2>2, FaultIs DEF Damage
<1> QED
  BY <1>1, <1>2, <1>3

-----------------------------------------------------------------------------
(* The theorems.                                                            *)

LEMMA SameSlotTypes == SlotProofs!TypeOK <=> Slots!TypeOK
  BY DEF SlotProofs!TypeOK, Slots!TypeOK, SlotProofs!Slots, Slots!Slots, SlotProofs!States,
         Slots!States, SlotProofs!Thread, Slots!Thread, SlotProofs!Tries, Slots!Tries,
         SlotProofs!Fuse, Slots!Fuse, SlotProofs!NoName, Slots!NoName, SlotProofs!DOWN, Slots!DOWN,
         SlotProofs!UP, Slots!UP, SlotProofs!STARTING, Slots!STARTING,
         SlotProofs!ERRCONNECTION, Slots!ERRCONNECTION

\* The client's slots have their types in the storage, too.
THEOREM StorageSlotTypes == Spec => []Slots!TypeOK
<1>1. SlotProofs!Spec => []SlotProofs!TypeOK
  BY RaidAssumption, SlotProofs!TypeCorrect
<1> QED
  BY <1>1, SameSlots, SameSlotTypes, StorageImplementsSlots, PTL
  DEF ImplementsServerSlots, Slots!Spec, SlotProofs!Spec

LEMMA StepTypes == Types /\ Slots!TypeOK /\ [Next]_vars => Types'
<1> SUFFICES ASSUME Types, Slots!TypeOK, [Next]_vars PROVE Types'
  OBVIOUS
<1>1. ASSUME NEW i \in Slot, Visit(i) PROVE Types'
  BY <1>1, VisitTypes
<1>2. ASSUME NEW t \in Threads, ThreadStep(t) PROVE Types'
  BY <1>2, ThreadTypes
<1>3. CASE Gone \/ Full \/ UNCHANGED vars
  <2>1. UNCHANGED vars
    BY <1>3 DEF Gone, Full, Slots!Gone, Slots!slotVars, vars
  <2> QED
    BY <2>1 DEF vars, clientVars, worldVars, Types, ClientTypes, CallTypes, ServerTypes
<1> QED
  BY <1>1, <1>2, <1>3, BeginTypes, FinishTypes, WorldTypes DEF Next

\* Whatever fails, is restored or is damaged, no server's file system is left in
\* disorder (no inode with two names, no file without its directory), and every
\* operation runs on arguments that fit it.
THEOREM StorageInvariant == Spec => []Types
  BY StorageSlotTypes, InitTypes, StepTypes, PTL DEF Spec

\* The variables of the storage have their types.
THEOREM StorageTypeCorrect == Spec => []TypeOK
<1>1. Types /\ Slots!TypeOK => TypeOK
  <2> SUFFICES ASSUME Types, Slots!TypeOK PROVE TypeOK
    OBVIOUS
  <2>1. /\ {call.path, call.to} \subseteq Tree \cup {Root, NoPath} /\ call.entries \subseteq Tree
        /\ call.handle \in 0 .. Handles - 1 /\ call.data \in Fragments \cup {NoFragment}
    BY DEF Types, CallTypes, Call, Handle
  <2>2. \A i \in Slot : msgs[i].hash \in Data \cup {Junk} /\ msgs[i].mtime \in Times
    BY DEF Types, ClientTypes, Msg
  <2>3. repair.target \in Slot /\ repair.source \in Slot /\ repair.at \in Slot
    BY DEF Types, ClientTypes, RepairRequest
  <2> QED
    BY <2>1, <2>2, <2>3 DEF TypeOK, Types, ClientTypes, ServerTypes, Handle, Fd
<1> QED
  BY <1>1, StorageSlotTypes, StorageInvariant, PTL

=============================================================================
