------------------------- MODULE RaidStorageOpenProofs -------------------------
(***************************************************************************)
(* client_open repairs: when its loop ends the copies it has seen are      *)
(* equal and pass their hash.  The loop goes back and forth, servers       *)
(* behind it may be replaced or be the ones a copy is restored to, and     *)
(* reconnect threads run beside it.  The inductive invariant OpenInv says  *)
(* what the loop knows of the slots it has left behind, and which restore  *)
(* requests it may be about to send.                                       *)
(***************************************************************************)
EXTENDS RaidStorageProofs

\* A restore is sent for the slot the loop is at, by the operation that asked for it.
RepairOfCall ==
    repair.on => /\ fuse.pc = "loop" /\ fuse.mode = "all" /\ call.op \in {"open", "opendir"}
                 /\ repair.at = fuse.i /\ Slots!Live(repair.at)

OpensEverywhere == fuse.pc = "loop" /\ call.op = "open" => fuse.mode = "all"

\* The loop of client_open, undisturbed so far.
QuietOpen == fuse.pc = "loop" /\ call.op = "open" /\ call.quiet

\* The copy of slot j is what the reply of slot j said.
Copy(j) ==
    /\ Slots!Live(j) /\ Reachable(j)
    /\ MayPass(Server(j), call.path)
    /\ Content(Server(j), call.path) = msgs[j].hash

Passed(j) == j < fuse.i /\ msgs[j].kept

KeptCopies == \A j \in Slot : Passed(j) => Copy(j)
KeptAgree == \A i, j \in Slot : Passed(i) /\ Passed(j) => msgs[i].hash = msgs[j].hash
KeptPrefix == \A i, j \in Slot : i < j /\ Passed(j) => msgs[i].kept

\* What is restored is the copy the loop is at or the one before, and its server answers.
RepairTarget ==
    repair.on => /\ Reachable(repair.at)
                 /\ \/ repair.target = repair.at
                    \/ repair.at > 0 /\ repair.target = repair.at - 1 /\ msgs[repair.target].kept

OpenInv == RepairOfCall /\ OpensEverywhere /\ (QuietOpen => KeptCopies /\ KeptAgree /\ KeptPrefix /\ RepairTarget)

-----------------------------------------------------------------------------
(* What the steps leave alone.                                              *)

Settled == Types /\ Slots!TypeOK /\ Slots!ThreadsOwnDownSlots /\ Slots!ServersKeepTheirNames

\* A request to one slot changes no other slot's server.
LEMMA OthersStay ==
    ASSUME Settled, fuse.pc = "loop", NEW i \in Slot, NEW sv, OnServer(i, sv),
           NEW j \in Slot, j # i
    PROVE  server'[servers[j].name] = Server(j)
<1>1. servers[i].name # servers[j].name
  BY DEF Settled, Slots!ServersKeepTheirNames, Slots!Running, Slots!NamesDiffer, Slot
<1>2. server \in [Names -> FileServer] /\ servers[i].name \in Names /\ servers[j].name \in Names
  BY NamesAre DEF Settled, Types, ServerTypes
<1> QED
  BY <1>1, <1>2 DEF OnServer, Server

\* The files of a server are what they were; its descriptors need not be.
Alike(r, sv) == r.up = sv.up /\ r.dir = sv.dir /\ r.dirs = sv.dirs /\ r.inode = sv.inode

\* A server that gets a copy of the files of another: the others are as they were,
\* and the other is but for what it has left open.
LEMMA OthersAlike ==
    ASSUME Settled, fuse.pc = "loop", NEW i \in Slot, NEW s \in Slot, NEW sv, NEW ps,
           NEW read \in ReadAll(Server(s), ps), OnServers(i, sv, s, read), Fetches(i, s),
           NEW j \in Slot, j # i
    PROVE  Alike(server'[servers[j].name], Server(j))
<1>1. servers[i].name # servers[j].name
  BY DEF Settled, Slots!ServersKeepTheirNames, Slots!Running, Slots!NamesDiffer, Slot
<1>2. server \in [Names -> FileServer] /\ servers[s].name \in Names /\ servers[j].name \in Names
  BY NamesAre DEF Settled, Types, ServerTypes
<1>3. Alike(read, Server(s))
  <2>1. Tidy(Server(s))
    BY ServersAre DEF Settled, Types
  <2> QED
    BY <2>1, ReadAllIs DEF Alike, SameNames
<1>4. CASE servers[j].name = servers[s].name
  BY <1>1, <1>2, <1>3, <1>4 DEF OnServers, Server
<1>5. CASE servers[j].name # servers[s].name
  BY <1>1, <1>2, <1>5 DEF OnServers, Server, Alike
<1> QED
  BY <1>4, <1>5

LEMMA ThisOne ==
    ASSUME Settled, NEW i \in Slot, NEW sv, OnServer(i, sv)
    PROVE  server'[servers[i].name] = sv
<1>1. server \in [Names -> FileServer] /\ servers[i].name \in Names
  BY NamesAre DEF Settled, Types, ServerTypes
<1> QED
  BY <1>1 DEF OnServer

\* An exchange of reconnect() is at and behind the slot of the loop.
LEMMA SlotsBeforeStay ==
    ASSUME Settled, NEW i \in Slot, NEW next, Slots!Reconnect(i, next), NEW j \in Slot, j < i
    PROVE  servers'[j] = servers[j]
<1>1. Slots!Landing(i) \in {i, i + 1} /\ j # i /\ j # Slots!Landing(i)
  BY SlotsAre DEF Slots!Landing
<1>2. servers \in [Slot -> [name : Names, state : Slots!States]]
  BY DEF Settled, Slots!TypeOK, Slot
<1>3. Slots!Landing(i) \in Slot
  BY LandingIs
<1> QED
  BY <1>1, <1>2, <1>3 DEF Slots!Reconnect, Slots!Reconnected, Slots!Memswap

LEMMA CopyStays ==
    ASSUME NEW j \in Slot, Copy(j), servers'[j] = servers[j],
           Alike(server'[servers[j].name], Server(j)),
           call'.path = call.path, msgs'[j] = msgs[j]
    PROVE  Copy(j)'
<1> DEFINE p == call.path
<1>1. Alike(Server(j)', Server(j))
  BY DEF Server
<1>3. \A r, sv : Alike(r, sv) => /\ MayPass(r, p) <=> MayPass(sv, p)
                                 /\ Content(r, p) = Content(sv, p)
  BY DEF Alike, MayPass, Content, Exists, File
<1>4. /\ Server(j)'.up = Server(j).up
      /\ MayPass(Server(j)', p) <=> MayPass(Server(j), p)
      /\ Content(Server(j)', p) = Content(Server(j), p)
  BY <1>1, <1>3 DEF Alike
<1>2. Slots!Live(j)' <=> Slots!Live(j)
  BY DEF Slots!Live, Slots!DOWN, Slots!STARTING
<1> QED
  BY <1>2, <1>4 DEF Copy, Reachable

\* The loop goes back, or stays where it is: it knows what it knew.
LEMMA KeptStays ==
    ASSUME Types, KeptCopies, KeptAgree, KeptPrefix, fuse.i \in 0 .. N, fuse'.i \in 0 .. N,
           fuse'.i <= fuse.i,
           \A j \in Slot : j < fuse'.i => msgs'[j] = msgs[j] /\ (Copy(j) => Copy(j)')
    PROVE  (KeptCopies /\ KeptAgree /\ KeptPrefix)'
<1>1. \A j \in Slot : Passed(j)' => Passed(j) /\ msgs'[j] = msgs[j] /\ (Copy(j) => Copy(j)')
  BY SlotsAre DEF Passed
<1>2. \A i, j \in Slot : i < j /\ Passed(j)' => msgs'[i] = msgs[i]
  BY SlotsAre DEF Passed
<1> QED
  BY <1>1, <1>2 DEF KeptCopies, KeptAgree, KeptPrefix

\* The loop goes on: it adds the slot it was at, whose copy is like the one before.
LEMMA KeptGrows ==
    ASSUME Types, KeptCopies, KeptAgree, KeptPrefix, fuse.i \in Slot, fuse'.i = fuse.i + 1,
           \A j \in Slot : j < fuse.i => msgs'[j] = msgs[j] /\ (Copy(j) => Copy(j)'),
           msgs'[fuse.i].kept =>
              /\ \A j \in Slot : j = fuse.i => Copy(j)'
              /\ fuse.i # 0 => msgs[fuse.i - 1].kept /\ msgs[fuse.i - 1].hash = msgs'[fuse.i].hash
    PROVE  (KeptCopies /\ KeptAgree /\ KeptPrefix)'
<1> DEFINE k == fuse.i
<1>0. k \in Slot /\ k \in Nat /\ \A j \in Slot : j \in Nat /\ (j < k + 1 <=> j < k \/ j = k)
  BY SlotsAre
<1>1. \A j \in Slot : j < k => (Passed(j)' <=> Passed(j)) /\ msgs'[j] = msgs[j] /\ (Copy(j) => Copy(j)')
  BY <1>0 DEF Passed
<1>2. ASSUME NEW j \in Slot, Passed(j)', ~(j < k) PROVE j = k /\ msgs'[k].kept
  <2>1. j < fuse'.i /\ msgs'[j].kept
    BY <1>2 DEF Passed
  <2>2. j = k
    BY <1>0, <1>2, <2>1
  <2> QED
    BY <2>1, <2>2
<1>3. KeptCopies'
  BY <1>1, <1>2 DEF KeptCopies
<1>4. ASSUME msgs'[k].kept, k # 0, NEW j \in Slot, j < k
      PROVE  msgs[j].kept /\ (Passed(j) => msgs[j].hash = msgs'[k].hash)
  <2>1. k - 1 \in Slot /\ Passed(k - 1) /\ msgs[k - 1].hash = msgs'[k].hash
    BY <1>0, <1>4, SlotsAre DEF Passed
  <2>2. msgs[j].kept
    <3>1. j = k - 1 \/ j < k - 1
      BY <1>0, <1>4
    <3> QED
      BY <2>1, <3>1 DEF KeptPrefix, Passed
  <2> QED
    BY <2>1, <2>2 DEF KeptAgree
<1>5. KeptAgree'
  <2> SUFFICES ASSUME NEW i \in Slot, NEW j \in Slot, Passed(i)', Passed(j)'
               PROVE  msgs'[i].hash = msgs'[j].hash
    BY DEF KeptAgree
  <2>1. CASE i < k /\ j < k
    BY <1>1, <2>1 DEF KeptAgree
  <2>2. CASE i < k /\ ~(j < k)
    BY <1>0, <1>1, <1>2, <1>4, <2>2
  <2>3. CASE ~(i < k) /\ j < k
    BY <1>0, <1>1, <1>2, <1>4, <2>3
  <2>4. CASE ~(i < k) /\ ~(j < k)
    BY <1>2, <2>4
  <2> QED
    BY <2>1, <2>2, <2>3, <2>4
<1>6. KeptPrefix'
  <2> SUFFICES ASSUME NEW i \in Slot, NEW j \in Slot, i < j, Passed(j)' PROVE msgs'[i].kept
    BY DEF KeptPrefix
  <2>1. CASE j < k
    <3>1. i < k /\ Passed(j)
      BY <1>0, <1>1, <2>1
    <3> QED
      BY <1>1, <3>1 DEF KeptPrefix
  <2>2. CASE ~(j < k)
    <3>1. j = k /\ msgs'[k].kept /\ i < k /\ k # 0
      BY <1>0, <1>2, <2>2
    <3> QED
      BY <1>1, <1>4, <3>1
  <2> QED
    BY <2>1, <2>2
<1> QED
  BY <1>3, <1>5, <1>6

-----------------------------------------------------------------------------
(* The steps of other operations, and the end of one.                       *)

LEMMA FuseIs ==
    ASSUME Settled
    PROVE  fuse.i \in 0 .. N /\ fuse.mode \in {"all", "first"} /\ fuse.done \subseteq Names
  BY DEF Settled, Slots!TypeOK, Slots!Fuse

\* When no restore is asked for, only the loop of client_open is of interest.
LEMMA OutOfOpen ==
    ASSUME ~repair'.on, fuse'.pc = "loop" => call'.op # "open"
    PROVE  OpenInv'
  BY DEF OpenInv, RepairOfCall, OpensEverywhere, QuietOpen

\* A loop that was left asks for no restore.
LEMMA NothingAsked ==
    ASSUME Settled, OpenInv,
           \/ fuse.pc # "loop" \/ call.op \notin {"open", "opendir"} \/ fuse.i \notin Slot
           \/ fuse.mode # "all"
           \/ servers[fuse.i].state \in {Slots!DOWN, Slots!STARTING}
    PROVE  ~repair.on
<1>1. repair.at \in Slot
  BY DEF Settled, Types, ClientTypes, RepairRequest
<1> QED
  BY <1>1 DEF OpenInv, RepairOfCall, Slots!Live

\* The loop asks every server that is neither DOWN nor STARTING.
LEMMA RequestedIsLive ==
    ASSUME NEW i \in Slot, Slots!Requested(i), fuse.mode = "all"
    PROVE  fuse.pc = "loop" /\ fuse.i = i /\ Slots!Live(i)
  BY DEF Slots!Requested, Slots!AtSlot, Slots!Live

LEMMA ReconnectGoesTo ==
    ASSUME NEW i \in Slot, NEW next, Slots!Reconnect(i, next)
    PROVE  fuse' = next \/ fuse'.pc # "loop"
  BY DEF Slots!Reconnect, Slots!Idle

LEMMA PlainSteps ==
    ASSUME Settled, OpenInv, NEW i \in Slot,
           \/ UnknownHandle(i) \/ Execute(i) \/ ExecuteStale(i) \/ Lost(i)
           \/ ReadCached(i) \/ ReadServer(i) \/ ReadLost(i) \/ ReadCrashes(i)
    PROVE  OpenInv'
<1>0. call \in Call
  BY DEF Settled, Types, CallTypes
<1>1. CASE UnknownHandle(i) \/ ReadCrashes(i)
  <2>1. call.op \notin {"open", "opendir"} /\ fuse'.pc # "loop" /\ repair' = repair
    BY <1>1 DEF UnknownHandle, UsesHandle, ReadCrashes, Reading, Slots!Return, Slots!Crash,
                Slots!Idle, clientVars
  <2> QED
    BY <2>1, NothingAsked, OutOfOpen
<1>2. CASE Execute(i) \/ ExecuteStale(i) \/ Lost(i) \/ ReadCached(i) \/ ReadServer(i) \/ ReadLost(i)
  <2>1. call.op \notin {"open", "opendir"} /\ repair' = repair
    BY <1>2 DEF Execute, ExecuteStale, Lost, Plain, ReadCached, ReadServer, ReadLost, Reading
  <2>2. call'.op = call.op
    BY <1>0, <1>2 DEF Call, Execute, ExecuteStale, Lost, ReadCached, ReadServer, ReadLost
  <2> QED
    BY <2>1, <2>2, NothingAsked, OutOfOpen
<1> QED
  BY <1>1, <1>2

LEMMA OpendirSteps ==
    ASSUME Settled, OpenInv, NEW i \in Slot,
           \/ OpendirDone(i) \/ OpendirMissing(i) \/ OpendirLost(i)
           \/ DuplicateAgain(i) \/ DuplicateDies(i) \/ DuplicateLost(i)
    PROVE  OpenInv'
<1>1. CASE OpendirDone(i) \/ OpendirLost(i)
  <2>1. call.op = "opendir" /\ call' = call /\ ~repair.on /\ repair' = repair
    BY <1>1 DEF OpendirDone, OpendirLost, Requesting
  <2> QED
    BY <2>1, OutOfOpen
<1>2. CASE DuplicateAgain(i) \/ DuplicateDies(i) \/ DuplicateLost(i)
  <2>1. call.op = "opendir" /\ call' \in {call, NoCall} /\ repair' = NoRepair
    BY <1>2 DEF DuplicateAgain, DuplicateDies, DuplicateLost, Repairing
  <2> QED
    BY <2>1, OutOfOpen DEF NoRepair, NoCall
<1>3. CASE OpendirMissing(i)
  <2>1. call.op = "opendir" /\ Slots!Requested(i) /\ ~repair.on
    BY <1>3 DEF OpendirMissing, Requesting
  <2>2. CASE i > 0
    <3>1. /\ repair' = [on |-> TRUE, target |-> i, source |-> Source(i), at |-> i]
          /\ servers' = servers /\ fuse' = fuse /\ call' = call
      BY <1>3, <2>2 DEF OpendirMissing
    <3>2. fuse.mode = "all"
      BY <2>1, <2>2, FuseIs, SlotsAre DEF Slots!Requested, Slots!AtSlot, Slots!Limit
    <3>3. fuse.pc = "loop" /\ fuse.i = i /\ Slots!Live(i)
      BY <2>1, <3>2, RequestedIsLive
    <3> QED
      BY <2>1, <3>1, <3>2, <3>3
      DEF OpenInv, RepairOfCall, OpensEverywhere, QuietOpen, Slots!Live, Slots!DOWN, Slots!STARTING
  <2>3. CASE ~(i > 0)
    <3>1. call' = NoCall /\ repair' = repair
      BY <1>3, <2>3 DEF OpendirMissing
    <3> QED
      BY <2>1, <3>1, OutOfOpen DEF NoCall
  <2> QED
    BY <2>2, <2>3
<1> QED
  BY <1>1, <1>2, <1>3

LEMMA FinishStep ==
    ASSUME Settled, OpenInv, Finish
    PROVE  OpenInv'
<1>1. fuse.i \notin Slot \/ fuse.mode # "all"
  BY SlotsAre DEF Finish, Slots!Finish, Slots!LoopEnded, Slots!Limit
<1>2. ~repair.on /\ repair' = repair /\ fuse'.pc # "loop"
  BY <1>1, NothingAsked DEF Finish, Slots!Finish, Slots!Idle
<1> QED
  BY <1>2, OutOfOpen

-----------------------------------------------------------------------------
(* The loop of client_open.                                                 *)

\* An operation begins.
LEMMA BeginStep ==
    ASSUME Settled, OpenInv, Begin
    PROVE  OpenInv'
<1> DEFINE Begun(mode, c) == BeginCall(mode, c) /\ (c.op = "open" => mode = "all")
<1>1. \E mode, c : Begun(mode, c)
  <2>1. ASSUME NEW c, BeginCall("all", c) PROVE \E mode, d : Begun(mode, d)
    BY <2>1
  <2>2. ASSUME NEW c, BeginCall("first", c), c.op # "open" PROVE \E mode, d : Begun(mode, d)
    BY <2>2
  <2> HIDE DEF Begun
  <2>3. \A op, p : BeginOn(op, p) \/ BeginHandle(op, p) => \E mode, d : Begun(mode, d)
    BY <2>1 DEF BeginOn, BeginHandle
  <2>4. ASSUME NEW p \in Paths,
               \/ BeginMknod(p) \/ BeginUnlink(p) \/ BeginTruncate(p) \/ BeginOpen(p)
               \/ \E q \in Paths \ {p} : BeginRename(p, q)
               \/ \E time \in Times : BeginUtime(p, time)
        PROVE  \E mode, c : Begun(mode, c)
    BY <2>1, <2>3, <2>4 DEF BeginMknod, BeginUnlink, BeginTruncate, BeginOpen, BeginRename, BeginUtime
  <2>5. ASSUME NEW d \in Dirs \cup {Root}, BeginMkdir(d) \/ BeginRmdir(d) \/ BeginOpendir(d)
        PROVE  \E mode, c : Begun(mode, c)
    BY <2>3, <2>5 DEF BeginMkdir, BeginRmdir, BeginOpendir
  <2>6. ASSUME NEW h \in Handle, BeginRead(h) PROVE \E mode, c : Begun(mode, c)
    <3> DEFINE c == [NoCall EXCEPT !.op = "read", !.path = opened[h], !.handle = h, !.retval = -1]
    <3>1. c.op # "open"
      BY DEF NoCall
    <3>2. BeginCall("first", c)
      BY <2>6 DEF BeginRead
    <3> HIDE DEF c
    <3> QED
      BY <2>2, <3>1, <3>2
  <2>7. ASSUME NEW h \in Handle, BeginReaddir(h) PROVE \E mode, c : Begun(mode, c)
    <3> DEFINE c == [NoCall EXCEPT !.op = "readdir", !.path = opened[h], !.handle = h]
    <3>1. c.op # "open"
      BY DEF NoCall
    <3>2. BeginCall("first", c)
      BY <2>7 DEF BeginReaddir
    <3> HIDE DEF c
    <3> QED
      BY <2>2, <3>1, <3>2
  <2>8. ASSUME BeginGetattr PROVE \E mode, c : Begun(mode, c)
    <3> DEFINE c == [NoCall EXCEPT !.op = "getattr"]
    <3>1. c.op # "open"
      BY DEF NoCall
    <3>2. BeginCall("first", c)
      BY <2>8 DEF BeginGetattr
    <3> HIDE DEF c
    <3> QED
      BY <2>2, <3>1, <3>2
  <2>9. ASSUME NEW h \in Handle, BeginRelease(h) \/ \E fragment \in Fragments : BeginWrite(h, fragment)
        PROVE  \E mode, c : Begun(mode, c)
    BY <2>1, <2>9 DEF BeginRelease, BeginWrite
  <2> QED
    BY <2>4, <2>5, <2>6, <2>7, <2>8, <2>9 DEF Begin, Handle
<1>2. PICK mode, c : BeginCall(mode, c) /\ (c.op = "open" => mode = "all")
  BY <1>1
<1>3. ~repair.on /\ repair' = repair
  BY <1>2, NothingAsked DEF BeginCall, Slots!Begin
<1>4. call' = c /\ fuse'.mode = mode /\ fuse'.i = 0
  BY <1>2 DEF BeginCall, Slots!Begin, Slots!Idle
<1>5. \A j \in Slot : ~Passed(j)'
  BY <1>4, SlotsAre DEF Passed
<1> QED
  BY <1>2, <1>3, <1>4, <1>5
  DEF OpenInv, RepairOfCall, OpensEverywhere, QuietOpen, KeptCopies, KeptAgree, KeptPrefix, RepairTarget

\* Slots and servers behind which the loop is.
LEMMA BehindStays ==
    ASSUME Settled, fuse.pc = "loop", NEW i \in Slot, call'.path = call.path,
           \A j \in Slot : j < i => /\ servers'[j] = servers[j] /\ msgs'[j] = msgs[j]
                                    /\ Alike(server'[servers[j].name], Server(j))
    PROVE  \A j \in Slot : j < i => msgs'[j] = msgs[j] /\ (Copy(j) => Copy(j)')
  BY CopyStays

\* A slot is passed over: the loop goes on without its reply.
LEMMA PassedOver ==
    ASSUME Settled, OpenInv, fuse.pc = "loop", NEW i \in Slot, fuse.i = i,
           repair' = repair, ~repair.on, call' = call, fuse'.mode = fuse.mode,
           fuse'.i = i + 1, msgs' = Forget(i),
           \A j \in Slot : j < i => servers'[j] = servers[j] /\ server'[servers[j].name] = Server(j)
    PROVE  OpenInv'
<1>1. \A j \in Slot : j < i => msgs'[j] = msgs[j]
  BY SlotsAre DEF Forget, Settled, Types, ClientTypes
<1>2. ~msgs'[i].kept
  BY DEF Forget, NoMsg, Settled, Types, ClientTypes
<1>3. \A j \in Slot : j < i => msgs'[j] = msgs[j] /\ (Copy(j) => Copy(j)')
  BY <1>1, BehindStays DEF Alike
<1>4. QuietOpen => (KeptCopies /\ KeptAgree /\ KeptPrefix)'
  BY <1>2, <1>3, KeptGrows DEF OpenInv, Settled
<1> QED
  BY <1>4 DEF OpenInv, RepairOfCall, OpensEverywhere, QuietOpen, RepairTarget

LEMMA PassOverSteps ==
    ASSUME Settled, OpenInv, NEW i \in Slot, PassOver(i) \/ RestoreAllLost(i)
    PROVE  OpenInv'
<1>1. /\ fuse.pc = "loop" /\ fuse.i = i
      /\ servers[i].state \in {Slots!DOWN, Slots!STARTING}
      /\ repair' = repair /\ call' = call /\ msgs' = Forget(i) /\ server' = server
  BY DEF PassOver, RestoreAllLost, Slots!SkipDown, Slots!RestoreAllLost, Slots!AtSlot, worldVars
<1>2. ~repair.on
  BY <1>1, NothingAsked
<1>3. \A j \in Slot : j < i => servers'[j] = servers[j] /\ server'[servers[j].name] = Server(j)
  <2>1. CASE PassOver(i)
    BY <1>1, <2>1 DEF PassOver, Slots!SkipDown, Server
  <2>2. CASE RestoreAllLost(i)
    BY <1>1, <2>2, SlotsBeforeStay DEF RestoreAllLost, Slots!RestoreAllLost, Server
  <2> QED
    BY <2>1, <2>2
<1>4. fuse'.pc # "loop" \/ (fuse'.mode = fuse.mode /\ fuse'.i = i + 1)
  <2>1. fuse \in Slots!Fuse
    BY DEF Settled, Slots!TypeOK
  <2>2. CASE PassOver(i)
    BY <2>1, <2>2 DEF PassOver, Slots!SkipDown, Slots!GoTo, Slots!Fuse
  <2>3. CASE RestoreAllLost(i)
    <3> DEFINE next == [Slots!GoTo(i + 1) EXCEPT !.gaps = @ \cup {"lost"}]
    <3>1. next.mode = fuse.mode /\ next.i = i + 1
      BY <2>1 DEF Slots!GoTo, Slots!Fuse
    <3>2. Slots!Reconnect(i, next)
      BY <2>3 DEF RestoreAllLost, Slots!RestoreAllLost
    <3> HIDE DEF next
    <3> QED
      BY <3>1, <3>2, ReconnectGoesTo
  <2> QED
    BY <2>2, <2>3
<1> QED
  BY <1>1, <1>2, <1>3, <1>4, PassedOver, OutOfOpen

\* A server that dies in a restoreall disturbs the open.
LEMMA RestoreAllDiesStep ==
    ASSUME Settled, OpenInv, NEW i \in Slot, RestoreAllDies(i)
    PROVE  OpenInv'
<1>0. fuse \in Slots!Fuse /\ call \in Call
  BY DEF Settled, Slots!TypeOK, Types, CallTypes
<1>1. /\ fuse.pc = "loop" /\ fuse.i = i
      /\ servers[i].state \in {Slots!DOWN, Slots!STARTING}
      /\ repair' = repair /\ call'.op = call.op /\ ~call'.quiet
  BY <1>0 DEF RestoreAllDies, Slots!RestoreAllDone, Slots!RestoreAllRefused,
              Slots!RestoreAllLost, Slots!AtSlot, Call
<1>2. ~repair.on
  BY <1>1, NothingAsked
<1>3. fuse'.pc # "loop" \/ fuse'.mode = fuse.mode
  <2>1. CASE Slots!RestoreAllDone(i) \/ Slots!RestoreAllRefused(i)
    BY <1>0, <2>1 DEF Slots!RestoreAllDone, Slots!RestoreAllRefused, Slots!GoTo, Slots!Fuse
  <2>2. CASE Slots!RestoreAllLost(i)
    <3> DEFINE next == [Slots!GoTo(i + 1) EXCEPT !.gaps = @ \cup {"lost"}]
    <3>1. next.mode = fuse.mode
      BY <1>0 DEF Slots!GoTo, Slots!Fuse
    <3>2. Slots!Reconnect(i, next)
      BY <2>2 DEF Slots!RestoreAllLost
    <3> HIDE DEF next
    <3> QED
      BY <3>1, <3>2, ReconnectGoesTo
  <2> QED
    BY <2>1, <2>2 DEF RestoreAllDies
<1> QED
  BY <1>1, <1>2, <1>3 DEF OpenInv, RepairOfCall, OpensEverywhere, QuietOpen

\* The loop goes back to slot i or stays there, with the replies it had.
LEMMA GoesBack ==
    ASSUME Settled, OpenInv, fuse.pc = "loop", NEW i \in Slot, i <= fuse.i,
           ~repair'.on, call' = call, fuse'.mode = fuse.mode, fuse'.i = i,
           \A j \in Slot : j < i => /\ servers'[j] = servers[j] /\ msgs'[j] = msgs[j]
                                    /\ Alike(server'[servers[j].name], Server(j))
    PROVE  OpenInv'
<1>1. \A j \in Slot : j < i => msgs'[j] = msgs[j] /\ (Copy(j) => Copy(j)')
  BY BehindStays
<1>2. fuse.i \in 0 .. N /\ fuse'.i \in 0 .. N
  BY FuseIs, SlotsAre
<1>3. QuietOpen => (KeptCopies /\ KeptAgree /\ KeptPrefix)'
  BY <1>1, <1>2, KeptStays DEF OpenInv, Settled
<1> QED
  BY <1>3 DEF OpenInv, RepairOfCall, OpensEverywhere, QuietOpen, RepairTarget

\* restoreall() of slot i, or an open that lost its server: the slots behind are
\* what they were.
LEMMA StaysSteps ==
    ASSUME Settled, OpenInv, NEW i \in Slot, RestoreAllDone(i) \/ OpenLost(i)
    PROVE  OpenInv'
<1>1. fuse.pc = "loop" /\ fuse.i = i /\ repair' = repair /\ call' = call
  BY DEF RestoreAllDone, OpenLost, Slots!RestoreAllDone, Opening, Requesting,
         Slots!Requested, Slots!AtSlot, clientVars
<1>2. ~repair.on
  <2>1. CASE RestoreAllDone(i)
    BY <1>1, <2>1, NothingAsked DEF RestoreAllDone, Slots!RestoreAllDone
  <2>2. CASE OpenLost(i)
    BY <2>2 DEF OpenLost, Opening, Requesting
  <2> QED
    BY <2>1, <2>2
<1>3. ASSUME NEW j \in Slot, j < i
      PROVE  /\ servers'[j] = servers[j] /\ msgs'[j] = msgs[j]
             /\ Alike(server'[servers[j].name], Server(j))
  <2>0. j # i
    BY <1>3, SlotsAre
  <2>1. CASE RestoreAllDone(i)
    <3>1. servers'[j] = servers[j] /\ msgs' = msgs
      BY <2>0, <2>1 DEF RestoreAllDone, Slots!RestoreAllDone, Settled, Slots!TypeOK, Slot, clientVars
    <3>2. Source(i) \in Slot /\ Duplicates(i, Source(i))
      BY <2>1, SourceIs DEF RestoreAllDone
    <3>3. Alike(server'[servers[j].name], Server(j))
      BY <1>1, <2>0, <3>2, OthersAlike DEF Duplicates
    <3> QED
      BY <3>1, <3>3
  <2>2. CASE OpenLost(i)
    <3>1. servers'[j] = servers[j] /\ server' = server
      BY <1>3, <2>2, SlotsBeforeStay DEF OpenLost, Slots!RequestLost, worldVars
    <3>2. msgs'[j] = msgs[j]
      BY <2>0, <2>2 DEF OpenLost, Forget, Settled, Types, ClientTypes
    <3> QED
      BY <3>1, <3>2 DEF Server, Alike
  <2> QED
    BY <2>1, <2>2
<1>4. fuse'.pc # "loop" \/ fuse' = fuse
  BY ReconnectGoesTo DEF RestoreAllDone, Slots!RestoreAllDone, OpenLost, Slots!RequestLost
<1> QED
  BY <1>1, <1>2, <1>3, <1>4, SlotsAre, GoesBack, OutOfOpen

\* What the reply of an open says of the server that sent it.
LEMMA OpenedAt ==
    ASSUME Settled, NEW i \in Slot, Opening(i), Reachable(i), fuse.mode = "all",
           NEW m \in Open(Server(i), call.path), OnServer(i, m.server),
           servers' = servers, call' = call, msgs' = [msgs EXCEPT ![i] = Kept(m)]
    PROVE  /\ msgs'[i].kept /\ msgs'[i].hash = m.hash
           /\ m.status >= 0 => Copy(i)'
           /\ Reachable(i)'
           /\ \A j \in Slot : j < i => /\ servers'[j] = servers[j] /\ msgs'[j] = msgs[j]
                                       /\ server'[servers[j].name] = Server(j)
<1>1. call.path \in Paths /\ Tidy(Server(i)) /\ call.op = "open"
  BY KeptIs DEF Settled, Types, Opening, Requesting
<1>2. Server(i)' = m.server
  BY ThisOne DEF Server
<1>3. msgs'[i] = Kept(m)
  BY DEF Settled, Types, ClientTypes
<1>4. Slots!Live(i)
  BY RequestedIsLive DEF Opening, Requesting
<1>5. Slots!Live(i)'
  BY <1>4 DEF Slots!Live, Slots!DOWN, Slots!STARTING
<1>6. Reachable(i)'
  BY <1>1, <1>2, OpenIs DEF Reachable
<1>7. ASSUME m.status >= 0 PROVE Copy(i)'
  <2> DEFINE p == call.path
  <2>0. MayPass(Server(i), p)
    BY <1>1, <1>7, OpenIs
  <2>1. MayPass(m.server, p) /\ Content(m.server, p) = Content(Server(i), p)
    BY <1>1, <2>0, OpenIs DEF SameContents, Tree
  <2>2. Exists(Server(i), p)
    BY <2>0 DEF MayPass
  <2>3. m.hash = Content(Server(i), p)
    BY <1>1, <2>2, OpenIs
  <2>4. MayPass(Server(i), p)' /\ Content(Server(i), p)' = m.hash
    BY <1>2, <2>1, <2>3
  <2> QED
    BY <1>3, <1>5, <1>6, <2>4 DEF Copy, Kept
<1>8. \A j \in Slot : j < i => j # i
  BY SlotsAre
<1> QED
  BY <1>3, <1>6, <1>7, <1>8, OthersStay
  DEF Kept, Opening, Requesting, Slots!Requested, Slots!AtSlot, Settled, Types, ClientTypes

LEMMA SourceBefore ==
    ASSUME NEW i \in Slot, i # 0
    PROVE  Source(i) = i - 1 /\ i > 0
  BY SlotsAre DEF Source

LEMMA OpenSteps ==
    ASSUME Settled, OpenInv, NEW i \in Slot,
           OpenAgreed(i) \/ OpenDisagreed(i) \/ OpenFailed(i) \/ OpenCrashes(i)
    PROVE  OpenInv'
<1>1. /\ fuse.pc = "loop" /\ fuse.i = i /\ fuse.mode = "all" /\ ~repair.on
      /\ call.op = "open" /\ Opening(i) /\ Slots!Live(i)
  <2>1. Opening(i)
    BY DEF OpenAgreed, OpenDisagreed, OpenFailed, OpenCrashes
  <2>2. fuse.pc = "loop" /\ call.op = "open"
    BY <2>1 DEF Opening, Requesting, Slots!Requested, Slots!AtSlot
  <2>3. fuse.mode = "all"
    BY <2>2 DEF OpenInv, OpensEverywhere
  <2> QED
    BY <2>1, <2>2, <2>3, RequestedIsLive DEF Opening, Requesting
<1>2. CASE OpenFailed(i) \/ OpenCrashes(i)
  <2>1. fuse'.pc # "loop" /\ repair' = repair
    BY <1>2 DEF OpenFailed, OpenCrashes, Slots!Return, Slots!Crash, Slots!Idle, clientVars
  <2> QED
    BY <1>1, <2>1, OutOfOpen
<1>3. CASE OpenAgreed(i)
  <2>1. PICK m \in Open(Server(i), call.path) :
           /\ m.status >= 0 /\ ~Differs(i, m)
           /\ OnServer(i, m.server) /\ msgs' = [msgs EXCEPT ![i] = Kept(m)]
    BY <1>3 DEF OpenAgreed
  <2>2. /\ Reachable(i) /\ Comparable(i) /\ servers' = servers /\ call' = call
        /\ repair' = repair /\ fuse'.mode = fuse.mode /\ fuse'.i = i + 1
    <3>1. fuse \in Slots!Fuse
      BY DEF Settled, Slots!TypeOK
    <3> QED
      BY <1>3, <3>1 DEF OpenAgreed, Slots!Answered, Slots!Contacted, Slots!Fuse
  <2>3. /\ msgs'[i].hash = m.hash /\ Copy(i)'
        /\ \A j \in Slot : j < i => /\ servers'[j] = servers[j] /\ msgs'[j] = msgs[j]
                                    /\ server'[servers[j].name] = Server(j)
    BY <1>1, <2>1, <2>2, OpenedAt
  <2>4. i # 0 => msgs[i - 1].kept /\ msgs[i - 1].hash = msgs'[i].hash
    BY <2>1, <2>2, <2>3 DEF Comparable, Differs
  <2>5. \A j \in Slot : j < i => msgs'[j] = msgs[j] /\ (Copy(j) => Copy(j)')
    BY <1>1, <2>2, <2>3, BehindStays DEF Alike
  <2>6. QuietOpen => (KeptCopies /\ KeptAgree /\ KeptPrefix)'
    BY <1>1, <2>2, <2>3, <2>4, <2>5, KeptGrows DEF OpenInv, Settled
  <2> QED
    BY <1>1, <2>2, <2>6 DEF OpenInv, RepairOfCall, OpensEverywhere, QuietOpen, RepairTarget
<1>4. CASE OpenDisagreed(i)
  <2>1. PICK m \in Open(Server(i), call.path) :
           /\ OnServer(i, m.server) /\ msgs' = [msgs EXCEPT ![i] = Kept(m)]
           /\ repair' = Repair(i, m)
    BY <1>4 DEF OpenDisagreed
  <2>2. /\ Reachable(i) /\ Comparable(i) /\ servers' = servers /\ call' = call /\ fuse' = fuse
    BY <1>4 DEF OpenDisagreed
  <2>3. /\ Reachable(i)'
        /\ \A j \in Slot : j < i => /\ servers'[j] = servers[j] /\ msgs'[j] = msgs[j]
                                    /\ server'[servers[j].name] = Server(j)
    BY <1>1, <2>1, <2>2, OpenedAt
  <2>4. \A j \in Slot : j < i => msgs'[j] = msgs[j] /\ (Copy(j) => Copy(j)')
    BY <1>1, <2>2, <2>3, BehindStays DEF Alike
  <2>5. QuietOpen => (KeptCopies /\ KeptAgree /\ KeptPrefix)'
    <3>1. fuse.i \in 0 .. N /\ fuse'.i = i /\ fuse'.i <= fuse.i
      BY <1>1, <2>2, FuseIs, SlotsAre
    <3> QED
      BY <1>1, <2>2, <2>4, <3>1, KeptStays DEF OpenInv, Settled
  <2>6. /\ repair'.at = i
        /\ \/ repair'.target = i
           \/ repair'.target = i - 1 /\ i > 0 /\ msgs'[i - 1].kept
    <3>1. repair'.at = i /\ (repair'.target = i \/ (repair'.target = Source(i) /\ i # 0))
      BY <2>1 DEF Repair, Differs
    <3>2. ASSUME i # 0 PROVE Source(i) = i - 1 /\ i > 0 /\ i - 1 \in Slot /\ msgs'[i - 1].kept
      BY <2>2, <2>3, <3>2, SourceBefore, SlotsAre DEF Comparable
    <3> QED
      BY <3>1, <3>2
  <2>7. Slots!Live(i)'
    BY <1>1, <2>2 DEF Slots!Live, Slots!DOWN, Slots!STARTING
  <2> QED
    BY <1>1, <2>2, <2>3, <2>5, <2>6, <2>7
    DEF OpenInv, RepairOfCall, OpensEverywhere, QuietOpen, RepairTarget
<1> QED
  BY <1>2, <1>3, <1>4

LEMMA RestoreSteps ==
    ASSUME Settled, OpenInv, NEW i \in Slot, Restore(i) \/ RestoreLost(i) \/ RestoreKills(i)
    PROVE  OpenInv'
<1>1. /\ fuse.pc = "loop" /\ fuse.i = i /\ fuse.mode = "all" /\ call.op = "open"
      /\ repair.on /\ repair.at = i /\ ~repair'.on
  BY DEF Restore, RestoreLost, RestoreKills, Repairing, OpenInv, RepairOfCall, NoRepair
<1>2. repair.target \in Slot
  BY DEF Settled, Types, ClientTypes, RepairRequest
<1>3. CASE RestoreKills(i)
  <2>1. ~call'.quiet
    BY <1>3 DEF RestoreKills, Settled, Types, CallTypes, Call
  <2>2. call'.op = "open" /\ fuse'.mode = "all"
    <3>1. fuse \in Slots!Fuse
      BY DEF Settled, Slots!TypeOK
    <3> QED
      BY <1>1, <1>3, <3>1
      DEF RestoreKills, Settled, Types, CallTypes, Call, Slots!Answered, Slots!Repaired,
          Slots!Contacted, Slots!Fuse
  <2> QED
    BY <1>1, <2>1, <2>2 DEF OpenInv, RepairOfCall, OpensEverywhere, QuietOpen
<1>4. CASE RestoreLost(i)
  <2>1. ~QuietOpen
    <3> SUFFICES ASSUME QuietOpen PROVE FALSE
      OBVIOUS
    <3>1. KeptCopies /\ RepairTarget /\ ~Reachable(repair.target)
      BY <1>4 DEF OpenInv, RestoreLost, RepairTo, Reachable
    <3>2. Passed(repair.target)
      BY <1>1, <1>2, <3>1, SlotsAre DEF RepairTarget, Passed
    <3> QED
      BY <1>2, <3>1, <3>2 DEF KeptCopies, Copy
  <2>2. call' = call /\ fuse'.mode = fuse.mode /\ fuse'.pc = fuse.pc
    <3>1. fuse \in Slots!Fuse
      BY DEF Settled, Slots!TypeOK
    <3> QED
      BY <1>4, <3>1 DEF RestoreLost, Slots!Answered, Slots!Contacted, Slots!Fuse
  <2> QED
    BY <1>1, <2>1, <2>2 DEF OpenInv, RepairOfCall, OpensEverywhere, QuietOpen
<1>5. CASE Restore(i)
  <2> DEFINE k == repair.target
             from == repair.source
  <2>1. /\ Slots!Repaired(i, k) /\ call' = call /\ msgs' = msgs /\ servers' = servers
        /\ Fetches(k, from)
    BY <1>5 DEF Restore, Restores, Slots!Repaired
  <2>2. PICK read \in ReadAll(Server(from), {call.path}) :
           OnServers(k, Restored(RepairTo, call.path, RepairFrom, Now(k)), from, read)
    BY <1>5 DEF Restore, Restores, RepairFrom
  <2>3. fuse'.mode = fuse.mode /\ fuse'.i = k /\ k <= i
    <3>1. fuse \in Slots!Fuse
      BY DEF Settled, Slots!TypeOK
    <3> QED
      BY <2>1, <3>1, SlotsAre DEF Slots!Repaired, Slots!Contacted, Slots!Fuse
  <2> HIDE DEF k, from
  <2>4. k \in Slot /\ k <= fuse.i /\ from \in Slot
    BY <1>1, <1>2, <2>3 DEF k, from, Settled, Types, ClientTypes, RepairRequest
  <2>5. \A j \in Slot : j < k => /\ servers'[j] = servers[j] /\ msgs'[j] = msgs[j]
                                 /\ Alike(server'[servers[j].name], Server(j))
    <3>1. \A j \in Slot : j < k => j # k
      BY <2>4, SlotsAre
    <3> QED
      BY <1>1, <2>1, <2>2, <2>4, <3>1, OthersAlike
  <2> QED
    BY <1>1, <2>1, <2>3, <2>4, <2>5, GoesBack
<1> QED
  BY <1>3, <1>4, <1>5

-----------------------------------------------------------------------------
(* Beside the loop.                                                         *)

\* A reconnect thread writes into the slot it was started on, which is DOWN.
LEMMA ThreadSteps ==
    ASSUME Settled, OpenInv, NEW t \in Threads, ThreadStep(t)
    PROVE  OpenInv'
<1>1. /\ fuse' = fuse /\ call' = call /\ msgs' = msgs /\ repair' = repair /\ server' = server
  BY DEF ThreadStep, Slots!PingAnswered, Slots!PingFailed, Slots!PingGivenUp,
         Slots!TakeSpareName, Slots!LeaveSpareName, worldVars
<1>2. ASSUME NEW j \in Slot, Slots!Live(j) PROVE servers'[j] = servers[j]
  <2>1. Slots!Active(t)
    BY DEF ThreadStep, Slots!PingAnswered, Slots!PingFailed, Slots!PingGivenUp,
           Slots!TakeSpareName, Slots!LeaveSpareName, Slots!Active
  <2>2. j # threads[t].slot
    BY <1>2, <2>1 DEF Settled, Slots!ThreadsOwnDownSlots, Slots!Live
  <2>3. servers \in [Slot -> [name : Names, state : Slots!States]]
    BY DEF Settled, Slots!TypeOK, Slot
  <2> QED
    BY <2>2, <2>3
    DEF ThreadStep, Slots!PingAnswered, Slots!PingFailed, Slots!PingGivenUp,
        Slots!TakeSpareName, Slots!LeaveSpareName
<1>3. \A j \in Slot : Copy(j) => Copy(j)'
  BY <1>1, <1>2, CopyStays DEF Copy, Server, Alike
<1>4. KeptCopies /\ KeptAgree /\ KeptPrefix => (KeptCopies /\ KeptAgree /\ KeptPrefix)'
  BY <1>1, <1>3 DEF KeptCopies, KeptAgree, KeptPrefix, Passed
<1>5. RepairOfCall => (repair.on => servers'[repair.at] = servers[repair.at])
  BY <1>2 DEF RepairOfCall, Settled, Types, ClientTypes, RepairRequest
<1>6. RepairOfCall => RepairOfCall'
  BY <1>1, <1>5 DEF RepairOfCall, Slots!Live, Slots!DOWN, Slots!STARTING
<1>7. RepairOfCall /\ RepairTarget => RepairTarget'
  BY <1>1, <1>5 DEF RepairTarget, Reachable, Server
<1> QED
  BY <1>1, <1>4, <1>6, <1>7 DEF OpenInv, OpensEverywhere, QuietOpen

\* A failure, a return or a damage: the open that runs is not undisturbed.
LEMMA WorldSteps ==
    ASSUME Settled, OpenInv,
           \E n \in Names : \/ Kill(n) \/ Cut(n) \/ Return(n)
                            \/ \E p \in Paths, data \in Data : Damage(n, p, data)
    PROVE  OpenInv'
<1>1. /\ servers' = servers /\ fuse' = fuse /\ repair' = repair
      /\ call' = IF call = NoCall THEN call ELSE [call EXCEPT !.quiet = FALSE]
  BY DEF Kill, Cut, Return, Damage, Fail, World
<1>2. call'.op = call.op /\ (fuse.pc = "loop" => ~call'.quiet)
  BY <1>1 DEF Settled, Types, CallTypes, Call, NoCall
<1> QED
  BY <1>1, <1>2
  DEF OpenInv, RepairOfCall, OpensEverywhere, QuietOpen, Slots!Live, Slots!DOWN, Slots!STARTING

LEMMA OpenInvStep == Settled /\ OpenInv /\ [Next]_vars => OpenInv'
<1> SUFFICES ASSUME Settled, OpenInv, [Next]_vars PROVE OpenInv'
  OBVIOUS
<1>1. ASSUME NEW i \in Slot, Visit(i) PROVE OpenInv'
  BY <1>1, PassOverSteps, RestoreAllDiesStep, StaysSteps, PlainSteps, OpenSteps, RestoreSteps, OpendirSteps DEF Visit
<1>2. ASSUME \/ \E ns \in SUBSET Names \ {{}} : Tick(ns)
             \/ Gone \/ Full \/ UNCHANGED vars
      PROVE  OpenInv'
  <2>1. /\ servers' = servers /\ fuse' = fuse /\ repair' = repair /\ call' = call
        /\ msgs' = msgs /\ server' = server
    BY <1>2 DEF Tick, Gone, Full, Slots!Gone, Slots!slotVars, vars, clientVars, worldVars
  <2>2. \A j \in Slot : /\ Slots!Live(j)' <=> Slots!Live(j)
                        /\ Server(j)' = Server(j)
    BY <2>1 DEF Slots!Live, Slots!DOWN, Slots!STARTING, Server
  <2>3. repair.at \in Slot
    BY DEF Settled, Types, ClientTypes, RepairRequest
  <2> QED
    BY <2>1, <2>2, <2>3
    DEF OpenInv, RepairOfCall, OpensEverywhere, QuietOpen, KeptCopies, KeptAgree, KeptPrefix,
        RepairTarget, Passed, Copy, Reachable
<1> QED
  BY <1>1, <1>2, BeginStep, FinishStep, ThreadSteps, WorldSteps DEF Next

-----------------------------------------------------------------------------
(* The theorems.                                                            *)

LEMMA OpenInit == Init => OpenInv
  BY DEF Init, OpenInv, RepairOfCall, OpensEverywhere, QuietOpen, NoRepair, Slots!Init, Slots!Idle

LEMMA EndOfLoop == OpenInv => OpenRepairs
<1> SUFFICES ASSUME OpenInv, AfterOpen, NEW i \in Slot, NEW j \in Slot, msgs[i].kept, msgs[j].kept
             PROVE  /\ MayPass(Server(i), call.path)
                    /\ Content(Server(i), call.path) = Content(Server(j), call.path)
  BY DEF OpenRepairs
<1>1. QuietOpen /\ fuse.i = N
  BY DEF AfterOpen, Slots!LoopEnded, Slots!Limit, OpenInv, OpensEverywhere, QuietOpen
<1>2. Passed(i) /\ Passed(j)
  BY <1>1, SlotsAre DEF Passed
<1> QED
  BY <1>1, <1>2 DEF OpenInv, KeptCopies, KeptAgree, Copy

\* client_open repairs (client.c:260-310), for any number of servers as long as
\* the exchange with the spare keeps their addresses apart.
THEOREM OpenRepairsNamed == Spec /\ []Slots!ServersKeepTheirNames => []OpenRepairs
  BY OpenInit, OpenInvStep, EndOfLoop, StorageInvariant, StorageSlotTypes, StorageKeepsTheSlots, PTL
  DEF Spec, Settled

LEMMA SameNamesKept ==
    /\ SlotProofs!ServersKeepTheirNames <=> Slots!ServersKeepTheirNames
    /\ SlotProofs!AtMostOneInExchange <=> Slots!AtMostOneInExchange
  BY DEF SlotProofs!ServersKeepTheirNames, Slots!ServersKeepTheirNames, SlotProofs!Running,
         Slots!Running, SlotProofs!Slots, Slots!Slots, SlotProofs!SpareName, Slots!SpareName,
         SlotProofs!NamesDiffer, Slots!NamesDiffer, SlotProofs!AtMostOneInExchange,
         Slots!AtMostOneInExchange, SlotProofs!InExchange, Slots!InExchange

\* They are kept apart while no two reconnect threads are in the exchange with the
\* one hotswap at a time (client_config.c:172), so after an open that no failure
\* disturbed the copies it asked for are equal and carry their own hash, whatever
\* was damaged before, and whoever has failed and come back since.
THEOREM OpenRepairsWithLoneExchanges == Spec /\ []Slots!AtMostOneInExchange => []OpenRepairs
<1>1. SlotProofs!Spec /\ []SlotProofs!AtMostOneInExchange => []SlotProofs!ServersKeepTheirNames
  BY RaidAssumption, SlotProofs!NamesOfLoneExchanges
<1>2. Spec /\ []Slots!AtMostOneInExchange => []Slots!ServersKeepTheirNames
  BY <1>1, SameSlots, SameNamesKept, StorageImplementsSlots, PTL
  DEF ImplementsServerSlots, Slots!Spec, SlotProofs!Spec
<1> QED
  BY <1>2, OpenRepairsNamed, PTL

\* Of two servers only one can be DOWN, so nothing is assumed of the threads.
THEOREM OpenRepairsOfTwo == N <= 2 /\ Spec => []OpenRepairs
<1>1. N <= 2 /\ SlotProofs!Spec => []SlotProofs!AtMostOneInExchange
  BY RaidAssumption, SlotProofs!OneThreadOfTwo
<1>2. N <= 2 /\ Spec => []Slots!AtMostOneInExchange
  BY <1>1, SameSlots, SameNamesKept, StorageImplementsSlots, PTL
  DEF ImplementsServerSlots, Slots!Spec, SlotProofs!Spec
<1> QED
  BY <1>2, OpenRepairsWithLoneExchanges

=============================================================================
