------------------------ MODULE RaidStorageDamageProofs ------------------------
(***************************************************************************)
(* What a mirror is for: a file that is damaged on the disk of one server  *)
(* is not lost.  While every server answers, of any two copies of a file   *)
(* one at least carries its own hash, and nothing has been written into a  *)
(* copy that does not, client_open brings back what was reported of the    *)
(* file, and never copies what is damaged.                                 *)
(*                                                                         *)
(* Steady says which names there are on the servers, and nothing of their  *)
(* contents once something was damaged.  The inductive invariant Mirrored  *)
(* says that behind every name there is on every server what was reported, *)
(* or a copy that its hash gives away; Hashed, that no file is without a   *)
(* hash.                                                                   *)
(* One damage leaves of any two copies one sound (Alone), as long as       *)
(* nothing is truncated.                                                   *)
(***************************************************************************)
EXTENDS RaidStorageSteadyProofs

\* The content that belongs there, or, once something was damaged, a copy that does
\* not carry its own hash.
RightAt(sv, x, c) ==
    \/ Content(sv, x) = c
    \/ /\ faults.damage # 0
       /\ x \in Paths /\ {Content(sv, x), c} \subseteq Data /\ ~Sound(sv, x)

Right(sv, view) == \A x \in Tree : RightAt(sv, x, view[x])

\* What client_open keeps of the slots it has left: a hash of the right content, and
\* as long as nothing disturbs it their copies are sound.
Opened(view) ==
    call.op = "open" =>
        \A j \in Slot : j < fuse.i => /\ msgs[j].hash = view[call.path]
                                      /\ call.quiet => Sound(Server(j), call.path)

Mirrors(view) ==
    /\ \A x \in Tree : view[x] \in acked[x]
    /\ call.op = "rmdir" /\ call.retval = OK /\ Done(0) => ~HasChildren(view, call.path)
    /\ \A i \in Slot : Right(Server(i), IF Done(i) THEN Effect(view) ELSE view)
    /\ Opened(view)

\* What is replaced is the copy the loop is at, because its hash does not fit it.
RepairFits ==
    repair.on => /\ repair.target = fuse.i /\ repair.source = Source(fuse.i)
                 /\ ~Sound(Server(repair.target), call.path)

Mirrored == RepairFits /\ \E view \in View : Mirrors(view)

OneCopyDamaged ==
    \A p \in Paths, i, j \in Slot : i # j /\ Exists(Server(i), p) /\ Exists(Server(j), p) =>
        Sound(Server(i), p) \/ Sound(Server(j), p)

-----------------------------------------------------------------------------
(* A server that is right.                                                  *)

LEMMA ContentsAre ==
    ASSUME NEW sv, Tidy(sv)
    PROVE  /\ \A p \in Paths : Exists(sv, p) => Content(sv, p) \in Data /\ Content(sv, p) = File(sv, p).data
           /\ \A x \in Tree : Content(sv, x) \in Data \cup {Absent, Directory}
<1>1. sv \in FileServer
  BY DEF Tidy
<1>2. \A p \in Paths : Exists(sv, p) => File(sv, p).data \in Data /\ Content(sv, p) = File(sv, p).data
  BY <1>1, Fields DEF Content, File, Inode
<1>3. \A d \in Dirs : Content(sv, d) \in {Absent, Directory}
  BY DEF Content
<1>4. \A x \in Tree : ~Exists(sv, x) => Content(sv, x) = Absent
  BY DEF Content
<1> QED
  BY <1>2, <1>3, <1>4 DEF Tree

\* It has the names that the view has.
LEMMA RightTree ==
    ASSUME NEW sv, NEW view, Right(sv, view)
    PROVE  SameTree(sv, view)
<1> SUFFICES ASSUME NEW x \in Tree PROVE Content(sv, x) = Absent <=> view[x] = Absent
  BY DEF SameTree
<1> QED
  BY NamesApart DEF Right, RightAt

\* A sound copy is what belongs there.
LEMMA SoundIsRight ==
    ASSUME NEW sv, NEW view, Right(sv, view), NEW p \in Paths, Sound(sv, p)
    PROVE  Content(sv, p) = view[p]
  BY NamesApart DEF Right, RightAt

LEMMA RightKept ==
    ASSUME NEW sv, NEW r, NEW view, Right(sv, view), SameContents(r, sv), SameSoundness(r, sv)
    PROVE  Right(r, view)
<1> SUFFICES ASSUME NEW x \in Tree PROVE RightAt(r, x, view[x])
  BY DEF Right
<1> QED
  BY DEF Right, RightAt, SameContents, SameSoundness

\* A request that changes one path, or the two of a rename.
LEMMA RightChanged ==
    ASSUME NEW sv, NEW r, NEW view \in View, Right(sv, view),
           \A x \in Tree : x # call.path /\ x # call.to => Content(r, x) = Content(sv, x),
           SoundnessBut(r, sv, call.path, call.to),
           call.path \in Tree => RightAt(r, call.path, Becomes(view)),
           call.to \in Tree /\ call.to # call.path => RightAt(r, call.to, view[call.path])
    PROVE  Right(r, Effect(view))
<1> SUFFICES ASSUME NEW x \in Tree PROVE RightAt(r, x, Effect(view)[x])
  BY DEF Right
<1>1. Effect(view)[x] = IF x = call.path THEN Becomes(view)
                        ELSE IF x = call.to THEN view[call.path] ELSE view[x]
  BY DEF Effect
<1>2. CASE x = call.path \/ x = call.to
  BY <1>1, <1>2
<1>3. CASE x # call.path /\ x # call.to
  <2>1. RightAt(sv, x, view[x]) /\ Content(r, x) = Content(sv, x)
    BY <1>3 DEF Right
  <2>2. x \in Paths => (Sound(r, x) <=> Sound(sv, x))
    BY <1>3 DEF SoundnessBut
  <2> QED
    BY <1>1, <1>3, <2>1, <2>2 DEF RightAt
<1> QED
  BY <1>2, <1>3

-----------------------------------------------------------------------------
(* A server executes the request.                                           *)

\* The operation was called on what its lookup found, which is what there is.
AskedOf(i, view) ==
    /\ view \in View /\ Right(Server(i), view) /\ faults \in Faults
    /\ \E before : Asked(i, before)

LEMMA AskedOfIs ==
    ASSUME NEW i \in Slot, NEW view, AskedOf(i, view)
    PROVE  /\ Tidy(Server(i)) /\ call \in Call /\ Fits(call) /\ Now(i) \in Times /\ view \in View
           /\ Right(Server(i), view) /\ LookedUp(view) /\ CallFits /\ faults \in Faults
           /\ call.op # "rename" => call.to = NoPath
           /\ call.to \notin Paths => call.to \notin Tree
           /\ \A x \in Tree : Exists(Server(i), x) <=> view[x] # Absent
           /\ \A p \in Paths : HasParent(Server(i), p) <=> HasRoom(view, p)
           /\ \A d \in Dirs : Children(Server(i), d) = {} <=> ~HasChildren(view, d)
<1>1. PICK before : Asked(i, before)
  BY DEF AskedOf
<1>2. /\ Tidy(Server(i)) /\ Like(Server(i), before) /\ call \in Call /\ Fits(call) /\ Now(i) \in Times
      /\ call.op # "rename" => call.to = NoPath
      /\ call.to \notin Paths => call.to \notin Tree
  BY <1>1, AskedIs
<1> DEFINE sv == Server(i)
<1>3. Tidy(sv) /\ SameTree(sv, view) /\ SameTree(sv, before)
  BY <1>2, RightTree DEF AskedOf, SameTree, Like, Same
<1> HIDE DEF sv
<1>4. /\ \A x \in Tree : Exists(sv, x) <=> view[x] # Absent
      /\ \A p \in Paths : HasParent(sv, p) <=> HasRoom(view, p)
      /\ \A d \in Dirs : Children(sv, d) = {} <=> ~HasChildren(view, d)
  BY <1>3, TreeLookUp
<1>5. /\ \A x \in Tree : Exists(sv, x) <=> before[x] # Absent
      /\ \A p \in Paths : HasParent(sv, p) <=> HasRoom(before, p)
  BY <1>3, TreeLookUp
<1>6. LookedUp(view)
  <2>1. LookedUp(before)
    BY <1>1 DEF Asked
  <2>2. /\ call.op \in {"truncate", "open", "rename", "mknod"} => call.path \in Paths
        /\ call.op = "rename" => call.to \in Paths
        /\ call.op = "opendir" /\ call.path # Root => call.path \in Tree
    BY <1>2 DEF Fits, OnFile, OnDirectory, Tree
  <2> QED
    BY <1>4, <1>5, <2>1, <2>2, NamesApart DEF LookedUp
<1> QED
  BY <1>1, <1>2, <1>4, <1>6 DEF AskedOf, Asked, sv

LEMMA OneRight ==
    ASSUME NEW i \in Slot, NEW view, AskedOf(i, view), call.op # "rename",
           NEW r, \A x \in Tree \ {call.path} : Content(r, x) = Content(Server(i), x),
           SoundnessBut(r, Server(i), call.path, call.path),
           call.path \in Tree => Content(r, call.path) = Becomes(view)
    PROVE  Right(r, Effect(view))
<1>1. /\ view \in View /\ Right(Server(i), view) /\ call.to \notin Tree
  BY AskedOfIs, NamesApart
<1>2. SoundnessBut(r, Server(i), call.path, call.to)
  BY DEF SoundnessBut
<1>3. call.path \in Tree => RightAt(r, call.path, Becomes(view))
  BY DEF RightAt
<1> QED
  BY <1>1, <1>2, <1>3, RightChanged

\* The requests that change no content.
LEMMA SameRight ==
    ASSUME NEW i \in Slot, NEW view, AskedOf(i, view), call.to \notin Tree,
           call.op \notin {"mknod", "truncate", "write", "mkdir", "unlink", "rename", "rmdir"},
           NEW r, SameContents(r, Server(i)), SameSoundness(r, Server(i))
    PROVE  Effect(view) = view /\ Right(r, Effect(view)) /\ Right(r, view)
<1>1. Effect(view) = view
  BY AskedOfIs, NoEffect
<1> QED
  BY <1>1, AskedOfIs, RightKept

LEMMA MknodRight ==
    ASSUME NEW i \in Slot, NEW view, AskedOf(i, view), call.op = "mknod"
    PROVE  Right(Request(i).server, Effect(view))
<1> DEFINE sv == Server(i)
           p == call.path
           r == Mknod(sv, p, Now(i)).server
<1>1. Request(i).server = r
  BY DEF Request
<1>2. p \in Paths /\ Tidy(sv) /\ Now(i) \in Times
  BY AskedOfIs DEF Fits, OnFile
<1>3. ~Exists(sv, p) /\ HasParent(sv, p)
  BY <1>2, AskedOfIs, NamesApart DEF LookedUp
<1>4. Becomes(view) = Empty
  BY AskedOfIs DEF Becomes, CallFits
<1> HIDE DEF sv, p
<1>5. /\ \A x \in Tree \ {p} : Content(r, x) = Content(sv, x)
      /\ Content(r, p) = Empty /\ SoundnessBut(r, sv, p, p)
  BY <1>2, <1>3, MknodIs
<1> HIDE DEF r
<1> QED
  BY <1>1, <1>4, <1>5, OneRight DEF sv, p

LEMMA UnlinkRight ==
    ASSUME NEW i \in Slot, NEW view, AskedOf(i, view), call.op = "unlink"
    PROVE  Right(Request(i).server, Effect(view))
<1> DEFINE sv == Server(i)
           p == call.path
           r == Unlink(sv, p).server
<1>1. Request(i).server = r
  BY DEF Request
<1>2. p \in Paths /\ Tidy(sv)
  BY AskedOfIs DEF Fits, OnFile
<1>3. Becomes(view) = Absent
  BY DEF Becomes
<1> HIDE DEF sv, p
<1>4. /\ \A x \in Tree \ {p} : Content(r, x) = Content(sv, x)
      /\ Content(r, p) = Absent /\ SoundnessBut(r, sv, p, p)
  BY <1>2, UnlinkIs
<1> HIDE DEF r
<1> QED
  BY <1>1, <1>3, <1>4, OneRight DEF sv, p

LEMMA TruncateRight ==
    ASSUME NEW i \in Slot, NEW view, AskedOf(i, view), call.op = "truncate"
    PROVE  Right(Request(i).server, Effect(view))
<1> DEFINE sv == Server(i)
           p == call.path
           r == Truncate(sv, p, Now(i)).server
<1>1. Request(i).server = r
  BY DEF Request
<1>2. p \in Paths /\ Tidy(sv) /\ Now(i) \in Times
  BY AskedOfIs DEF Fits, OnFile
<1>3. Exists(sv, p)
  BY <1>2, AskedOfIs, NamesApart DEF LookedUp
<1>4. Becomes(view) = Empty
  BY AskedOfIs DEF Becomes, CallFits
<1> HIDE DEF sv, p
<1>5. /\ \A x \in Tree \ {p} : Content(r, x) = Content(sv, x)
      /\ Content(r, p) = Empty /\ SoundnessBut(r, sv, p, p)
  BY <1>2, <1>3, TruncateIs
<1> HIDE DEF r
<1> QED
  BY <1>1, <1>4, <1>5, OneRight DEF sv, p

\* The handle that is written to leads to the file the path names.
LEMMA WrittenTo ==
    ASSUME NEW i \in Slot, NEW view, Asked(i, view), call.op = "write"
    PROVE  /\ Descriptor(i) \in Fds /\ Server(i).open[Descriptor(i)] # NoInode
           /\ Server(i).open[Descriptor(i)] = Server(i).dir[call.path]
<1>1. call.path \in Paths /\ call.handle \in Handle /\ Holds(Server(i), fds[i], HandlesBefore)
  BY AskedIs DEF Fits, OnFile, Call
<1>2. opened[call.handle] = call.path
  BY DEF Asked, CallFits, HandlesFit
<1> QED
  BY <1>1, <1>2, OtherHandles DEF Holds, Descriptor

\* What is written goes into the copy that belongs there.
LEMMA WriteRight ==
    ASSUME NEW i \in Slot, NEW view, AskedOf(i, view), call.op = "write", ~Mixes(i)
    PROVE  Right(Request(i).server, Effect(view))
<1> DEFINE sv == Server(i)
           p == call.path
           d == Descriptor(i)
           r == Write(sv, p, d, call.data, Now(i)).server
<1>1. Request(i).server = r
  BY DEF Request
<1>2. p \in Paths /\ p \in Tree /\ Tidy(sv) /\ Now(i) \in Times /\ call.data \in Fragments /\ Right(sv, view)
  BY AskedOfIs, NamesApart DEF Fits, OnFile, Call
<1>3. d \in Fds /\ sv.open[d] # NoInode /\ sv.open[d] = sv.dir[p]
  BY WrittenTo DEF AskedOf
<1>4. faults.damage = 0 \/ sv.inode[sv.open[d]].data = sv.inode[sv.open[d]].hash
  BY <1>3, AskedOfIs DEF Mixes, Closed, Faults
<1> HIDE DEF sv, p, d
<1>5. Exists(sv, p) /\ Content(sv, p) \in Data
  BY <1>2, <1>3, Seen, ContentsAre
<1>6. faults.damage = 0 \/ Sound(sv, p)
  BY <1>3, <1>4, <1>5 DEF Sound, File
<1>7. Content(sv, p) = view[p]
  BY <1>2, <1>6 DEF Right, RightAt
<1>8. Becomes(view) = Patched[<<Content(sv, p), call.data>>]
  BY <1>5, <1>7 DEF Becomes, p
<1>9. /\ \A x \in Tree \ {p} : Content(r, x) = Content(sv, x)
      /\ Content(r, p) = Patched[<<Content(sv, p), call.data>>] /\ SoundnessBut(r, sv, p, p)
  BY <1>2, <1>3, WriteIs
<1> HIDE DEF r
<1> QED
  BY <1>1, <1>8, <1>9, OneRight DEF sv, p

LEMMA MkdirRight ==
    ASSUME NEW i \in Slot, NEW view, AskedOf(i, view), call.op = "mkdir"
    PROVE  Right(Request(i).server, Effect(view))
<1> DEFINE sv == Server(i)
           d == call.path
           r == Mkdir(sv, d).server
<1>1. Request(i).server = r
  BY DEF Request
<1>2. d \in Dirs /\ Tidy(sv)
  BY AskedOfIs DEF Fits, OnEntry
<1>3. Becomes(view) = Directory
  BY DEF Becomes
<1> HIDE DEF sv, d
<1>4. /\ \A x \in Tree \ {d} : Content(r, x) = Content(sv, x)
      /\ Content(r, d) = Directory /\ SameSoundness(r, sv)
  BY <1>2, MkdirIs
<1> HIDE DEF r
<1>5. SoundnessBut(r, sv, d, d)
  BY <1>4 DEF SameSoundness, SoundnessBut
<1> QED
  BY <1>1, <1>3, <1>4, <1>5, OneRight DEF sv, d

LEMMA RmdirRight ==
    ASSUME NEW i \in Slot, NEW view, AskedOf(i, view), call.op = "rmdir"
    PROVE  /\ Right(Request(i).server, Effect(view))
           /\ Request(i).status = OK => ~HasChildren(view, call.path)
<1> DEFINE sv == Server(i)
           d == call.path
           r == Rmdir(sv, d).server
<1>1. Request(i) = Rmdir(sv, d)
  BY DEF Request
<1>2. d \in Dirs /\ d \in Tree /\ d \notin Paths /\ Tidy(sv) /\ Right(sv, view)
  BY AskedOfIs, NamesApart DEF Fits, OnEntry
<1>3. /\ Children(sv, d) = {} <=> ~HasChildren(view, d)
      /\ d \in sv.dirs <=> Content(sv, d) # Absent
      /\ Content(sv, d) = view[d]
  BY <1>2, AskedOfIs, Seen DEF Right, RightAt
<1>4. Becomes(view) = IF HasChildren(view, d) THEN view[d] ELSE Absent
  BY DEF Becomes
<1> HIDE DEF sv, d
<1>5. /\ \A x \in Tree \ {d} : Content(r, x) = Content(sv, x)
      /\ Content(r, d) = IF d \in sv.dirs /\ Children(sv, d) = {} THEN Absent ELSE Content(sv, d)
      /\ Rmdir(sv, d).status = OK <=> d \in sv.dirs /\ Children(sv, d) = {}
      /\ SameSoundness(r, sv)
  BY <1>2, RmdirIs
<1>6. Content(r, d) = Becomes(view)
  BY <1>3, <1>4, <1>5
<1> HIDE DEF r
<1>7. SoundnessBut(r, sv, d, d)
  BY <1>5 DEF SameSoundness, SoundnessBut
<1>8. Right(r, Effect(view))
  BY <1>5, <1>6, <1>7, OneRight DEF sv, d
<1> QED
  BY <1>1, <1>3, <1>5, <1>8 DEF r, d

\* The file takes its content, its hash and what does not fit of them along.
LEMMA RenameRight ==
    ASSUME NEW i \in Slot, NEW view, AskedOf(i, view), call.op = "rename"
    PROVE  Right(Request(i).server, Effect(view))
<1> DEFINE sv == Server(i)
           p == call.path
           q == call.to
           r == Rename(sv, p, q).server
<1>1. Request(i).server = r
  BY DEF Request
<1>2. /\ p \in Paths /\ q \in Paths \ {p} /\ p \in Tree /\ Tidy(sv)
      /\ view \in View /\ Right(sv, view)
  BY AskedOfIs, NamesApart DEF Fits, OnFile
<1>3. Exists(sv, p) /\ HasParent(sv, q)
  BY <1>2, AskedOfIs DEF LookedUp
<1>4. Becomes(view) = Absent
  BY DEF Becomes
<1> HIDE DEF sv, p, q
<1>5. /\ Content(r, q) = Content(sv, p)
      /\ Content(r, p) = Absent
      /\ \A x \in Tree \ {p, q} : Content(r, x) = Content(sv, x)
      /\ SoundnessMoved(r, sv, p, q)
  BY <1>2, <1>3, RenameIs
<1> HIDE DEF r
<1>6. RightAt(r, q, view[p]) /\ SoundnessBut(r, sv, p, q)
  BY <1>2, <1>5 DEF Right, RightAt, SoundnessMoved
<1>7. RightAt(r, p, Becomes(view))
  BY <1>4, <1>5 DEF RightAt
<1>8. \A x \in Tree : x # p /\ x # q => Content(r, x) = Content(sv, x)
  BY <1>5
<1> QED
  BY <1>1, <1>2, <1>5, <1>6, <1>7, <1>8, RightChanged DEF p, q

LEMMA OtherRight ==
    ASSUME NEW i \in Slot, NEW view, AskedOf(i, view), ~StaleDir(i),
           call.op \in {"getattr", "utime", "readdir", "release", "releasedir"}
    PROVE  Right(Request(i).server, Effect(view))
<1> DEFINE sv == Server(i)
           r == Request(i).server
<1>1. Tidy(sv) /\ call \in Call /\ Fits(call) /\ call.to \notin Tree
  BY AskedOfIs, NamesApart
<1>2. SameContents(r, sv) /\ SameSoundness(r, sv)
  <2>1. CASE call.op = "getattr"
    BY <2>1 DEF Request, Reply, SameContents, SameSoundness
  <2>2. CASE call.op = "utime"
    BY <1>1, <2>2, UtimeIs DEF Request, Fits, OnFile, Call
  <2>3. CASE call.op = "release"
    BY <1>1, <2>3, ReleaseIs DEF Request
  <2>4. CASE call.op \in {"readdir", "releasedir"}
    <3>1. Descriptor(i) \in Fds
      BY <2>4 DEF StaleDir, NoDirAt
    <3> QED
      BY <1>1, <2>4, <3>1, ReaddirIs, ReleasedirIs DEF Request, Reply, SameFiles
  <2> QED
    BY <2>1, <2>2, <2>3, <2>4
<1> HIDE DEF r
<1> QED
  BY <1>1, <1>2, SameRight DEF r

\* Every request takes a server that is right to where the operation leads.
LEMMA RequestRight ==
    ASSUME NEW i \in Slot, NEW view, AskedOf(i, view), Plain(i), ~StaleDir(i), ~Mixes(i), call.op # "none"
    PROVE  /\ Right(Request(i).server, Effect(view))
           /\ call.op = "rmdir" /\ Request(i).status = OK => ~HasChildren(view, call.path)
<1>1. call \in Call
  BY AskedOfIs
<1> QED
  BY <1>1, MknodRight, UnlinkRight, TruncateRight, MkdirRight, RmdirRight, WriteRight, RenameRight,
     OtherRight
  DEF Plain, Call, OnFile, OnEntry, OnDirectory

-----------------------------------------------------------------------------
(* Every file has a saved hash.  Only a server that dies in a restore makes *)
(* one without (RestoreDies).                                               *)

AllHashed(sv) == \A n \in Inodes : sv.inode[n].hash # NoHash
Hashed == \A n \in Names : AllHashed(server[n])

LEMMA HashesAre ==
    Blank.hash # NoHash /\ Empty \in Data /\ \A data \in Data : data # NoHash
  BY FileServerAssumption DEF Blank, NoHash

LEMMA HashesKept ==
    ASSUME NEW sv, NEW r, AllHashed(sv),
           \A n \in Inodes : r.inode[n].hash \in {sv.inode[n].hash, Blank.hash} \cup Data
    PROVE  AllHashed(r)
  BY HashesAre DEF AllHashed

LEMMA SweptHashed ==
    ASSUME NEW sv \in FileServer, AllHashed(sv)
    PROVE  AllHashed(Swept(sv))
<1>1. Swept(sv).inode = [n \in Inodes |-> IF n \in InUse(sv) THEN sv.inode[n] ELSE Blank]
  BY DEF Swept, FileServer
<1>2. \A n \in Inodes : Swept(sv).inode[n] \in {sv.inode[n], Blank}
  BY <1>1
<1> QED
  BY <1>2, HashesKept

\* A server whose files are the same but for the content and the time.
LEMMA RearrangedHashed ==
    ASSUME NEW sv, Tidy(sv), AllHashed(sv), NEW up \in BOOLEAN,
           NEW dir \in [Paths -> Inodes \cup {NoInode}], NEW dirs \in SUBSET Dirs,
           NEW open \in [Fds -> Inodes \cup {NoInode}], NEW stream \in [Fds -> Stream],
           NEW left \in SUBSET Fds, NEW r,
           r = [up |-> up, dir |-> dir, dirs |-> dirs, inode |-> sv.inode, open |-> open,
                stream |-> stream, left |-> left]
    PROVE  AllHashed(r) /\ AllHashed(Swept(r))
<1>1. sv.inode \in [Inodes -> Inode]
  BY Fields DEF Tidy
<1>2. r \in FileServer /\ r.inode = sv.inode
  BY <1>1 DEF FileServer
<1>3. AllHashed(r)
  BY <1>2 DEF AllHashed
<1> QED
  BY <1>2, <1>3, SweptHashed

LEMMA WithFileHashed ==
    ASSUME NEW sv, Tidy(sv), AllHashed(sv), NEW p \in Paths, NEW data \in Data, NEW time \in Times
    PROVE  AllHashed(WithFile(sv, p, Fresh(data, time)))
<1> DEFINE n == IF Exists(sv, p) THEN sv.dir[p] ELSE NewInode(sv)
           file == Fresh(data, time)
           r == WithFile(sv, p, file)
<1>1. sv \in FileServer /\ sv.inode \in [Inodes -> Inode]
  BY Fields DEF Tidy
<1>2. r.inode = [sv.inode EXCEPT ![n] = file]
  BY <1>1 DEF WithFile, FileServer
<1>3. file.hash \in Data
  BY FreshIs
<1> HIDE DEF n, file, r
<1>4. \A m \in Inodes : r.inode[m].hash \in {sv.inode[m].hash} \cup Data
  BY <1>1, <1>2, <1>3
<1> QED
  BY <1>4, HashesKept DEF r, file

\* The files of the other side are what they were, or are written and hashed.
LEMMA RehashedHashed ==
    ASSUME NEW sv, Tidy(sv), AllHashed(sv), NEW p \in Paths, Exists(sv, p)
    PROVE  AllHashed(Rehashed(sv, p))
<1> DEFINE n == sv.dir[p]
           data == File(sv, p).data
           r == Rehashed(sv, p)
<1>1. sv \in FileServer /\ sv.inode \in [Inodes -> Inode] /\ n \in Inodes
  BY Fields DEF Tidy
<1>2. data \in Data
  BY <1>1 DEF File, Inode
<1>3. r.inode = [sv.inode EXCEPT ![n].hash = data]
  BY <1>1 DEF Rehashed, FileServer
<1> HIDE DEF n, data, r
<1>4. \A m \in Inodes : r.inode[m].hash \in {sv.inode[m].hash} \cup Data
  BY <1>1, <1>2, <1>3 DEF Inode
<1> QED
  BY <1>4, HashesKept DEF r

LEMMA RefilledHashed ==
    ASSUME NEW sv, Tidy(sv), AllHashed(sv), NEW n \in Inodes, NEW data, NEW time
    PROVE  AllHashed(Refilled(sv, n, data, time))
<1> DEFINE r == Refilled(sv, n, data, time)
<1>1. sv \in FileServer /\ sv.inode \in [Inodes -> Inode]
  BY Fields DEF Tidy
<1>2. r.inode = [sv.inode EXCEPT ![n].data = data, ![n].mtime = time]
  BY <1>1 DEF Refilled, FileServer
<1> HIDE DEF r
<1>3. \A m \in Inodes : r.inode[m].hash = sv.inode[m].hash
  BY <1>1, <1>2 DEF Inode
<1> QED
  BY <1>3, HashesKept DEF r

LEMMA RequestHashed ==
    ASSUME NEW i \in Slot, Types, Slots!TypeOK, AllHashed(Server(i)), Plain(i), ~StaleDir(i),
           call.op # "none"
    PROVE  AllHashed(Request(i).server)
<1> DEFINE sv == Server(i)
           r == Request(i).server
           p == call.path
           q == call.to
           d == Descriptor(i)
           time == Now(i)
<1>1. Tidy(sv) /\ call \in Call /\ Fits(call) /\ time \in Times
  BY ServersAre DEF Types, CallTypes
<1>2. /\ sv.up \in BOOLEAN /\ sv.dir \in [Paths -> Inodes \cup {NoInode}] /\ sv.dirs \in SUBSET Dirs
      /\ sv.open \in [Fds -> Inodes \cup {NoInode}] /\ sv.stream \in [Fds -> Stream]
      /\ sv.left \in SUBSET Fds /\ sv.inode \in [Inodes -> Inode] /\ NoInode \in Inodes \cup {NoInode}
  BY <1>1, Fields DEF Tidy
<1>3. sv = [up |-> sv.up, dir |-> sv.dir, dirs |-> sv.dirs, inode |-> sv.inode,
            open |-> sv.open, stream |-> sv.stream, left |-> sv.left]
  BY <1>1, ServerIs
<1>4. \A x \in Paths : Exists(sv, x) => sv.dir[x] \in Inodes
  BY <1>1, Fields DEF Tidy
<1>5. AllHashed(sv) /\ NoStream \in Stream /\ Empty \in Data
  BY BlankIs, HashesAre
<1>a. CASE call.op = "getattr"
  BY <1>5, <1>a DEF Request, Reply
<1>b. CASE call.op = "mknod"
  <2>1. r = Mknod(sv, p, time).server /\ p \in Paths
    BY <1>1, <1>b DEF Request, Fits, OnFile
  <2> HIDE DEF sv, p, r, time
  <2>2. Exists(sv, p) => AllHashed(Rehashed(sv, p))
    BY <1>1, <1>5, <2>1, RehashedHashed
  <2>3. AllHashed(WithFile(sv, p, Fresh(Empty, time)))
    BY <1>1, <1>5, <2>1, WithFileHashed
  <2> QED
    BY <1>5, <2>1, <2>2, <2>3 DEF Mknod, Reply, r
<1>c. CASE call.op = "unlink"
  <2>1. r = Unlink(sv, p).server /\ p \in Paths
    BY <1>1, <1>c DEF Request, Fits, OnFile
  <2> HIDE DEF sv, p, r
  <2> DEFINE dir == [sv.dir EXCEPT ![p] = NoInode]
             x == [sv EXCEPT !.dir[p] = NoInode]
  <2>2. dir \in [Paths -> Inodes \cup {NoInode}]
    BY <1>2
  <2>3. x = [up |-> sv.up, dir |-> dir, dirs |-> sv.dirs, inode |-> sv.inode,
             open |-> sv.open, stream |-> sv.stream, left |-> sv.left]
    BY <1>1 DEF Tidy, FileServer
  <2>4. r = sv \/ r = Swept(x)
    BY <2>1 DEF Unlink, Reply
  <2> HIDE DEF x, dir
  <2>5. AllHashed(x) /\ AllHashed(Swept(x))
    BY <1>1, <1>2, <1>5, <2>2, <2>3, RearrangedHashed
  <2> QED
    BY <1>5, <2>4, <2>5 DEF r
<1>d. CASE call.op = "mkdir"
  <2>1. r = Mkdir(sv, p).server /\ p \in Dirs
    BY <1>1, <1>d DEF Request, Fits, OnEntry
  <2> HIDE DEF sv, p, r
  <2> DEFINE dirs == sv.dirs \cup {p}
             x == [sv EXCEPT !.dirs = @ \cup {p}]
  <2>2. dirs \in SUBSET Dirs
    BY <1>2, <2>1
  <2>3. x = [up |-> sv.up, dir |-> sv.dir, dirs |-> dirs, inode |-> sv.inode,
             open |-> sv.open, stream |-> sv.stream, left |-> sv.left]
    BY <1>3
  <2>4. r = sv \/ r = x
    BY <2>1 DEF Mkdir, Reply
  <2> HIDE DEF x, dirs
  <2>5. AllHashed(x) /\ AllHashed(Swept(x))
    BY <1>1, <1>2, <1>5, <2>2, <2>3, RearrangedHashed
  <2> QED
    BY <1>5, <2>4, <2>5 DEF r
<1>e. CASE call.op = "rmdir"
  <2>1. r = Rmdir(sv, p).server
    BY <1>e DEF Request
  <2> HIDE DEF sv, p, r
  <2> DEFINE dirs == sv.dirs \ {p}
             x == [sv EXCEPT !.dirs = @ \ {p}]
  <2>2. dirs \in SUBSET Dirs
    BY <1>2
  <2>3. x = [up |-> sv.up, dir |-> sv.dir, dirs |-> dirs, inode |-> sv.inode,
             open |-> sv.open, stream |-> sv.stream, left |-> sv.left]
    BY <1>3
  <2>4. r = sv \/ r = x
    BY <2>1 DEF Rmdir, Reply
  <2> HIDE DEF x, dirs
  <2>5. AllHashed(x) /\ AllHashed(Swept(x))
    BY <1>1, <1>2, <1>5, <2>2, <2>3, RearrangedHashed
  <2> QED
    BY <1>5, <2>4, <2>5 DEF r
<1>f. CASE call.op = "rename"
  <2>1. r = Rename(sv, p, q).server /\ p \in Paths /\ q \in Paths
    BY <1>1, <1>f DEF Request, Fits, OnFile
  <2> HIDE DEF sv, p, q, r
  <2> DEFINE dir == [sv.dir EXCEPT ![q] = sv.dir[p], ![p] = NoInode]
             x == [sv EXCEPT !.dir[q] = sv.dir[p], !.dir[p] = NoInode]
  <2>2. dir \in [Paths -> Inodes \cup {NoInode}]
    BY <1>2, <2>1
  <2>3. x = [up |-> sv.up, dir |-> dir, dirs |-> sv.dirs, inode |-> sv.inode,
             open |-> sv.open, stream |-> sv.stream, left |-> sv.left]
    <3>1. x = [sv EXCEPT !.dir = dir]
      BY <1>1 DEF Tidy, FileServer
    <3> HIDE DEF dir, x
    <3> QED
      BY <1>3, <3>1
  <2>4. r = sv \/ r = Swept(x)
    BY <2>1 DEF Rename, Reply
  <2> HIDE DEF x, dir
  <2>5. AllHashed(x) /\ AllHashed(Swept(x))
    BY <1>1, <1>2, <1>5, <2>2, <2>3, RearrangedHashed
  <2> QED
    BY <1>5, <2>4, <2>5 DEF r
<1>g. CASE call.op = "utime"
  <2>1. r = Utime(sv, p, call.time).server /\ p \in Paths
    BY <1>1, <1>g DEF Request, Fits, OnFile
  <2> HIDE DEF sv, p, r
  <2>2. ASSUME Exists(sv, p), r = [sv EXCEPT !.inode[sv.dir[p]].mtime = call.time]
        PROVE  AllHashed(r)
    <3> DEFINE n == sv.dir[p]
    <3>1. r.inode = [sv.inode EXCEPT ![n].mtime = call.time] /\ n \in Inodes
      BY <1>3, <1>4, <2>1, <2>2
    <3> HIDE DEF n
    <3>2. \A m \in Inodes : r.inode[m].hash = sv.inode[m].hash
      BY <1>2, <3>1 DEF Inode
    <3> QED
      BY <1>5, <3>2, HashesKept
  <2> QED
    BY <1>5, <2>1, <2>2 DEF Utime, Reply, r
<1>h. CASE call.op = "readdir" \/ call.op = "releasedir"
  <2>1. d \in Fds /\ (r = Readdir(sv, d).server \/ r = Releasedir(sv, d).server)
    BY <1>h DEF Request, Reply, Releasedir, StaleDir, NoDirAt
  <2> HIDE DEF sv, d, r
  <2>2. Readdir(sv, d).server.inode = sv.inode /\ Releasedir(sv, d).server.inode = sv.inode
    BY <1>3 DEF Readdir, Releasedir, Reply
  <2> QED
    BY <1>5, <2>1, <2>2 DEF AllHashed, r
<1>i. CASE call.op = "truncate"
  <2>1. r = Truncate(sv, p, time).server /\ p \in Paths
    BY <1>1, <1>i DEF Request, Fits, OnFile
  <2> HIDE DEF sv, p, r, time
  <2>2. Exists(sv, p) => r = Refilled(sv, sv.dir[p], Empty, time)
    BY <2>1 DEF Truncate, Reply, Refilled
  <2>3. ~Exists(sv, p) => r = sv
    BY <2>1 DEF Truncate, Reply
  <2> QED
    BY <1>1, <1>4, <1>5, <2>1, <2>2, <2>3, RefilledHashed DEF r
<1>j. CASE call.op = "write"
  <2> DEFINE n == sv.open[d]
             data == Patched[<<sv.inode[n].data, call.data>>]
             w == Refilled(sv, n, data, time)
  <2>1. r = Write(sv, p, d, call.data, time).server /\ p \in Paths /\ call.data \in Fragments
    BY <1>1, <1>j DEF Request, Fits, OnFile
  <2> HIDE DEF sv, p, d, r, time
  <2>2. CASE Closed(sv, d)
    BY <1>5, <2>1, <2>2 DEF Write, Reply, r
  <2>3. CASE ~Closed(sv, d)
    <3>1. n \in Inodes
      BY <1>2, <2>3 DEF Closed
    <3>2. data \in Data
      BY <1>2, <2>1, <3>1, FileServerAssumption DEF Inode
    <3>3. r = IF Exists(sv, p) THEN Rehashed(w, p) ELSE w
      BY <2>1, <2>3 DEF Write, Reply, Refilled
    <3>4. Tidy(w) /\ AllHashed(w) /\ SameNames(w, sv)
      BY <1>1, <1>5, <3>1, <3>2, RefilledIs, RefilledHashed
    <3> HIDE DEF w
    <3>5. Exists(w, p) <=> Exists(sv, p)
      BY <1>1, <2>1, <3>4, Fields DEF SameNames, Tidy
    <3>6. Exists(sv, p) => AllHashed(Rehashed(w, p))
      BY <2>1, <3>4, <3>5, RehashedHashed
    <3> QED
      BY <3>3, <3>4, <3>6 DEF r
  <2> QED
    BY <2>2, <2>3
<1>k. CASE call.op = "release"
  <2>1. r = Release(sv, d).server
    BY <1>k DEF Request
  <2> HIDE DEF sv, d, r
  <2> DEFINE open == [sv.open EXCEPT ![d] = NoInode]
             stream == [sv.stream EXCEPT ![d] = NoStream]
             left == sv.left \ {d}
             x == [sv EXCEPT !.open[d] = NoInode, !.stream[d] = NoStream, !.left = @ \ {d}]
  <2>2. /\ open \in [Fds -> Inodes \cup {NoInode}] /\ stream \in [Fds -> Stream]
        /\ left \in SUBSET Fds
    BY <1>2, <1>5
  <2>3. x = [up |-> sv.up, dir |-> sv.dir, dirs |-> sv.dirs, inode |-> sv.inode,
             open |-> open, stream |-> stream, left |-> left]
    <3>1. x = [sv EXCEPT !.open = open, !.stream = stream, !.left = left]
      BY <1>1 DEF Tidy, FileServer
    <3> HIDE DEF open, stream, left, x
    <3> QED
      BY <1>3, <3>1
  <2>4. r = sv \/ r = Swept(x)
    BY <2>1 DEF Release, Reply
  <2> HIDE DEF x, open, stream, left
  <2>5. AllHashed(x) /\ AllHashed(Swept(x))
    BY <1>1, <1>2, <1>5, <2>2, <2>3, RearrangedHashed
  <2> QED
    BY <1>5, <2>4, <2>5 DEF r
<1> QED
  BY <1>1, <1>a, <1>b, <1>c, <1>d, <1>e, <1>f, <1>g, <1>h, <1>i, <1>j, <1>k
  DEF Plain, Call, OnFile, OnEntry, OnDirectory

LEMMA RepliesHashed ==
    ASSUME NEW sv, Tidy(sv), AllHashed(sv)
    PROVE  /\ \A p \in Paths : \A m \in Open(sv, p) : AllHashed(m.server)
           /\ \A d \in Dirs \cup {Root} : \A m \in Opendir(sv, d) : AllHashed(m.server)
           /\ \A ps \in SUBSET Paths : \A r \in ReadAll(sv, ps) : AllHashed(r)
           /\ AllHashed(Killed(sv)) /\ AllHashed(Started(sv)) /\ AllHashed(Unreachable(sv))
<1>0. sv \in FileServer
  BY DEF Tidy
<1>1. ASSUME NEW p \in Paths, NEW m \in Open(sv, p) PROVE AllHashed(m.server)
  <2>1. m.server.inode = sv.inode
    BY <1>0, <1>1 DEF Open, FileServer
  <2> QED
    BY <2>1 DEF AllHashed
<1>2. ASSUME NEW d \in Dirs \cup {Root}, NEW m \in Opendir(sv, d) PROVE AllHashed(m.server)
  <2>1. m.server.inode = sv.inode
    BY <1>0, <1>2 DEF Opendir, Reply, FileServer
  <2> QED
    BY <2>1 DEF AllHashed
<1>3. ASSUME NEW ps \in SUBSET Paths, NEW r \in ReadAll(sv, ps) PROVE AllHashed(r)
  BY <1>3, ReadAllIs DEF AllHashed
<1>4. AllHashed(Started(sv)) /\ AllHashed(Unreachable(sv))
  <2>1. Started(sv).inode = sv.inode /\ Unreachable(sv).inode = sv.inode
    BY <1>0 DEF Started, Unreachable, FileServer
  <2> QED
    BY <2>1 DEF AllHashed
<1>5. AllHashed(Killed(sv))
  <2> DEFINE up == FALSE
             open == [d \in Fds |-> NoInode]
             stream == [d \in Fds |-> NoStream]
             w == WithLeft(sv, {})
             x == Rearranged(w, up, sv.dir, sv.dirs, open, stream)
  <2>1. /\ sv.dir \in [Paths -> Inodes \cup {NoInode}] /\ sv.dirs \in SUBSET Dirs
        /\ open \in [Fds -> Inodes \cup {NoInode}] /\ stream \in [Fds -> Stream] /\ up \in BOOLEAN
    BY <1>0, Fields, BlankIs
  <2>2. Killed(sv) = Swept(x)
    BY <1>0, <2>1 DEF Killed, Rearranged, FileServer, WithLeft
  <2>3. w.inode = sv.inode /\ Tidy(w) /\ w.left \in SUBSET Fds
    BY LeftIs, Fields DEF Tidy
  <2> HIDE DEF up, open, stream, w
  <2>4. x \in FileServer /\ x.inode = w.inode
    BY <2>1, <2>3 DEF Rearranged, Tidy, FileServer
  <2> HIDE DEF x
  <2>5. AllHashed(x)
    BY <2>3, <2>4 DEF AllHashed
  <2>6. AllHashed(Swept(x))
    BY <2>4, <2>5, SweptHashed
  <2> QED
    BY <2>2, <2>6
<1> QED
  BY <1>1, <1>2, <1>3, <1>4, <1>5

LEMMA RestoredHashed ==
    ASSUME NEW sv, Tidy(sv), AllHashed(sv), NEW source, Tidy(source), NEW p \in Paths, NEW time \in Times
    PROVE  AllHashed(Restored(sv, p, source, time))
<1> DEFINE w == WithParents(sv, {p})
           content == IF Exists(source, p) THEN File(source, p).data ELSE Empty
<1>1. Tidy(w) /\ w.inode = sv.inode
  BY WithParentsIs
<1>2. AllHashed(w)
  BY <1>1 DEF AllHashed
<1>3. content \in Data
  BY Fields, HashesAre DEF Tidy, File, Inode
<1>4. Restored(sv, p, source, time) = WithFile(w, p, Fresh(content, time))
  BY DEF Restored
<1> HIDE DEF w, content
<1> QED
  BY <1>1, <1>2, <1>3, <1>4, WithFileHashed

LEMMA DamagedHashed ==
    ASSUME NEW sv, Tidy(sv), AllHashed(sv), NEW p \in Paths, Exists(sv, p), NEW data \in Data
    PROVE  AllHashed(Damaged(sv, p, data))
<1> DEFINE n == sv.dir[p]
           r == Damaged(sv, p, data)
<1>1. sv.inode \in [Inodes -> Inode] /\ n \in Inodes
  BY Fields DEF Tidy
<1>2. r.inode = [sv.inode EXCEPT ![n].data = data]
  BY DEF Damaged, Tidy, FileServer
<1> HIDE DEF n, r
<1>3. \A m \in Inodes : r.inode[m].hash = sv.inode[m].hash
  BY <1>1, <1>2 DEF Inode
<1> QED
  BY <1>3, HashesKept DEF r

\* The servers that have changed have a hash for every file.
LEMMA PutHashed ==
    ASSUME Types, Slots!TypeOK, Hashed, NEW i \in Slot, NEW sv, AllHashed(sv), OnServer(i, sv)
    PROVE  Hashed'
<1>1. server' = [server EXCEPT ![servers[i].name] = sv] /\ servers[i].name \in Names
  BY NamesAre DEF OnServer
<1>2. \A n \in Names : server'[n] \in {server[n], sv}
  BY <1>1 DEF Types, ServerTypes
<1>3. \A n \in Names : AllHashed(server[n]) /\ AllHashed(server'[n])
  BY <1>2 DEF Hashed
<1> QED
  BY <1>3 DEF Hashed, AllHashed

LEMMA KeptHashed ==
    ASSUME Hashed, server' = server
    PROVE  Hashed'
  BY DEF Hashed, AllHashed

LEMMA HashedThere ==
    ASSUME Types, Slots!TypeOK, Hashed, NEW i \in Slot
    PROVE  AllHashed(Server(i)) /\ Tidy(Server(i)) /\ Now(i) \in Times
  BY NamesAre, ServersAre DEF Hashed, Server, Types

LEMMA VisitHashed ==
    ASSUME Calm, Hashed, NEW i \in Slot, Visit(i)
    PROVE  Hashed'
<1>1. /\ Types /\ Slots!TypeOK /\ AllHashed(Server(i)) /\ Tidy(Server(i))
      /\ call \in Call /\ Fits(call) /\ (fuse.pc = "loop" => call.op # "none")
  BY HashedThere DEF Calm, Types, CallTypes
<1>2. CASE Execute(i)
  <2>1. fuse.pc = "loop"
    BY <1>2, AnsweredIs DEF Execute
  <2>2. AllHashed(Request(i).server) /\ OnServer(i, Request(i).server)
    BY <1>1, <1>2, <2>1, RequestHashed DEF Execute
  <2> QED
    BY <1>1, <2>2, PutHashed
<1>3. CASE ExecuteStale(i) \/ ReadCached(i) \/ ReadServer(i)
  <2>1. fuse.pc = "loop" /\ servers' = servers
    BY <1>3, AnsweredIs DEF ExecuteStale, ReadCached, ReadServer
  <2>2. OnServer(i, Server(i))
    BY <1>3, <2>1, OnlyRead
  <2> QED
    BY <1>1, <2>2, PutHashed
<1>4. CASE UnknownHandle(i)
  BY <1>4, KeptHashed DEF UnknownHandle, worldVars
<1>5. CASE OpenAgreed(i) \/ OpenDisagreed(i)
  <2>1. call.path \in Paths
    BY <1>1, <1>5 DEF OpenAgreed, OpenDisagreed, Opening, Requesting, Fits, OnFile
  <2>2. PICK m \in Open(Server(i), call.path) : OnServer(i, m.server)
    BY <1>5 DEF OpenAgreed, OpenDisagreed
  <2>3. AllHashed(m.server)
    BY <1>1, <2>1, <2>2, RepliesHashed
  <2> QED
    BY <1>1, <2>2, <2>3, PutHashed
<1>6. CASE OpendirDone(i)
  <2>1. call.path \in Dirs \cup {Root}
    BY <1>1, <1>6 DEF OpendirDone, Requesting, Fits, OnDirectory
  <2>2. PICK m \in Opendir(Server(i), call.path) : OnServer(i, m.server)
    BY <1>6 DEF OpendirDone
  <2>3. AllHashed(m.server)
    BY <1>1, <2>1, <2>2, RepliesHashed
  <2> QED
    BY <1>1, <2>2, <2>3, PutHashed
<1>7. CASE Restore(i)
  <2>1. PICK t \in Slot, k \in Slot : t = repair.target /\ k = repair.source
    BY <1>1 DEF Types, ClientTypes, RepairRequest
  <2>2. call.path \in Paths
    BY <1>1, <1>7 DEF Restore, Repairing, Fits, OnFile
  <2> DEFINE r == Restored(Server(t), call.path, Server(k), Now(t))
  <2>3. PICK read \in ReadAll(Server(k), {call.path}) : OnServers(t, r, k, read)
    BY <1>7, <2>1 DEF Restore, Restores, RepairTo, RepairFrom
  <2>4. /\ AllHashed(Server(t)) /\ Tidy(Server(t)) /\ Now(t) \in Times
        /\ AllHashed(Server(k)) /\ Tidy(Server(k))
    BY <1>1, HashedThere
  <2>5. AllHashed(r) /\ AllHashed(read)
    <3>1. AllHashed(r)
      BY <2>2, <2>4, RestoredHashed
    <3>2. {call.path} \in SUBSET Paths
      BY <2>2
    <3> QED
      BY <2>3, <2>4, <3>1, <3>2, RepliesHashed
  <2> HIDE DEF r
  <2>6. server' = [server EXCEPT ![servers[t].name] = r, ![servers[k].name] = read]
    BY <2>3 DEF OnServers
  <2>7. \A n \in Names : server'[n] \in {server[n], r, read}
    BY <1>1, <2>6, NamesAre DEF Types, ServerTypes
  <2>8. \A n \in Names : AllHashed(server'[n])
    BY <2>5, <2>7 DEF Hashed
  <2> QED
    BY <2>8 DEF Hashed, AllHashed
<1> QED
  BY <1>2, <1>3, <1>4, <1>5, <1>6, <1>7, NotReached, NoneFails, Crashed DEF Visit

LEMMA WorldHashed ==
    ASSUME Types, Hashed, NEW n \in Names
    PROVE  /\ Kill(n) \/ Cut(n) \/ Return(n) => Hashed'
           /\ \A p \in Paths, data \in Data : Damage(n, p, data) => Hashed'
<1>1. Tidy(server[n]) /\ AllHashed(server[n])
  BY DEF Types, ServerTypes, Hashed
<1>2. ASSUME NEW sv, AllHashed(sv), server' = [server EXCEPT ![n] = sv] PROVE Hashed'
  <2>1. \A m \in Names : server'[m] \in {server[m], sv}
    BY <1>2 DEF Types, ServerTypes
  <2>2. \A m \in Names : AllHashed(server'[m])
    BY <1>2, <2>1 DEF Hashed
  <2> QED
    BY <2>2 DEF Hashed, AllHashed
<1>3. ASSUME Kill(n) \/ Cut(n) \/ Return(n) PROVE Hashed'
  <2>1. \E sv \in {Killed(server[n]), Unreachable(server[n]), Started(server[n])} :
           server' = [server EXCEPT ![n] = sv]
    BY <1>3 DEF Kill, Cut, Return, Fail, World
  <2> QED
    BY <1>1, <1>2, <2>1, RepliesHashed
<1>4. ASSUME NEW p \in Paths, NEW data \in Data, Damage(n, p, data) PROVE Hashed'
  <2>1. Exists(server[n], p) /\ server' = [server EXCEPT ![n] = Damaged(server[n], p, data)]
    BY <1>4 DEF Damage, World
  <2> QED
    BY <1>1, <1>2, <2>1, DamagedHashed
<1> QED
  BY <1>3, <1>4

\* However an operation begins, it has done nothing yet.
LEMMA BeginIs ==
    ASSUME Begin
    PROVE  /\ fuse.pc = "idle" /\ fuse'.pc = "loop" /\ fuse'.i = 0 /\ call'.op \in Operations
           /\ servers' = servers /\ acked' = acked /\ repair' = repair
           /\ server' = server /\ faults' = faults /\ fds' = fds /\ opened' = opened
<1>1. ASSUME NEW mode, NEW c, BeginCall(mode, c)
      PROVE  /\ fuse.pc = "idle" /\ fuse'.pc = "loop" /\ fuse'.i = 0 /\ call'.op \in Operations
             /\ servers' = servers /\ acked' = acked /\ repair' = repair
             /\ server' = server /\ faults' = faults /\ fds' = fds /\ opened' = opened
  BY <1>1 DEF BeginCall, Slots!Begin, Slots!Idle, worldVars
<1> QED
  BY <1>1
  DEF Begin, BeginMknod, BeginUnlink, BeginTruncate, BeginOpen, BeginRename, BeginUtime, BeginMkdir,
      BeginRmdir, BeginOpendir, BeginRead, BeginRelease, BeginReaddir, BeginWrite, BeginGetattr,
      BeginOn, BeginHandle

HashedAlive == Alive => Hashed

LEMMA StepHashed ==
    ASSUME Types, Slots!TypeOK, SteadyAlive, AllAnswer, AllAnswer', HashedAlive, [Next]_vars
    PROVE  HashedAlive'
<1> SUFFICES ASSUME Alive' PROVE Hashed'
  BY DEF HashedAlive
<1>1. Calm /\ Hashed
  BY StepIsCalm, AliveBefore DEF HashedAlive
<1>2. CASE Begin
  BY <1>1, <1>2, BeginIs, KeptHashed
<1>3. CASE Finish \/ Gone \/ Quiet
  BY <1>1, <1>3, KeptHashed DEF Finish, Gone, Quiet, Tick, Full, worldVars, vars
<1>4. ASSUME NEW t \in Threads, ThreadStep(t) PROVE Hashed'
  BY <1>1, <1>4, KeptHashed DEF ThreadStep, worldVars
<1>5. ASSUME NEW i \in Slot, Visit(i) PROVE Hashed'
  BY <1>1, <1>5, VisitHashed
<1>6. ASSUME NEW n \in Names, Kill(n) \/ Cut(n) \/ Return(n) PROVE Hashed'
  BY <1>1, <1>6, WorldHashed DEF Calm
<1>7. ASSUME NEW n \in Names, NEW p \in Paths, NEW data \in Data, Damage(n, p, data) PROVE Hashed'
  BY <1>1, <1>7, WorldHashed DEF Calm
<1> QED
  BY <1>2, <1>3, <1>4, <1>5, <1>6, <1>7 DEF Next, Quiet

\* While every server answers, none dies in a restore and every file has a saved hash.
LEMMA HashedWhileAllAnswer == Spec /\ []AllAnswer => []HashedAlive
<1>1. Init => HashedAlive
  <2>1. ASSUME Init, NEW n \in Names PROVE AllHashed(server[n])
    BY <2>1, HashesAre DEF Init, AllHashed
  <2> QED
    BY <2>1 DEF HashedAlive, Hashed
<1>2. /\ Types /\ Slots!TypeOK /\ SteadyAlive /\ AllAnswer /\ AllAnswer' /\ HashedAlive
      /\ [Next]_vars
      => HashedAlive'
  BY StepHashed
<1> QED
  BY <1>1, <1>2, StorageInvariant, StorageSlotTypes, SteadyWhileAllAnswer, PTL DEF Spec

-----------------------------------------------------------------------------
(* The visits.                                                              *)

Watched ==
    /\ N >= 2 /\ Calm /\ ~faults.mixed /\ ~faults'.mixed
    /\ Mirrored /\ Hashed /\ OneCopyDamaged /\ OneCopyDamaged'

\* What a visit finds.
LEMMA AtVisitRight ==
    ASSUME Watched, fuse.pc = "loop", fuse.i \in Slot, NEW view \in View, Mirrors(view)
    PROVE  /\ AskedOf(fuse.i, view) /\ CallFits /\ call \in Call /\ Fits(call)
           /\ call.op # "none" /\ AllSlotsUp /\ fuse \in Slots!Fuse
<1>1. PICK before \in View : Before(before)
  BY DEF Watched, Calm, Steady
<1>2. /\ Asked(fuse.i, before) /\ CallFits /\ call \in Call /\ Fits(call)
      /\ call.op # "none" /\ AllSlotsUp /\ fuse \in Slots!Fuse
  BY <1>1, AtVisit DEF Watched
<1>3. ~Done(fuse.i)
  BY SlotsAre DEF Done
<1>4. Right(Server(fuse.i), view)
  BY <1>3 DEF Mirrors
<1>5. faults \in Faults
  BY DEF Watched, Calm, Steady
<1> QED
  BY <1>2, <1>4, <1>5 DEF AskedOf

\* Nothing is repaired.
LEMMA NoRepairFits ==
    ASSUME ~repair'.on
    PROVE  RepairFits'
  BY DEF RepairFits

\* What has not changed is as right as it was.
LEMMA RightStays ==
    ASSUME faults'.damage = faults.damage, NEW i \in Slot, NEW sv, Server(i)' = sv, NEW view,
           NEW v, (IF Done(i) THEN Effect(view) ELSE view)' = v, Right(sv, v)
    PROVE  Right(Server(i), IF Done(i) THEN Effect(view) ELSE view)'
  BY DEF Right, RightAt

\* The servers of the other slots have what they had, the one of slot i is where the
\* loop is afterwards.
LEMMA VisitedRight ==
    ASSUME Watched, NEW view \in View, Mirrors(view), NEW i \in Slot,
           fuse.pc = "loop", fuse.i = i, fuse'.pc = "loop", fuse'.i \in {i, i + 1},
           SameCall, NEW sv, Server(i)' = sv,
           \A j \in Slot : j # i =>
               SameContents(Server(j)', Server(j)) /\ SameSoundness(Server(j)', Server(j)),
           Right(sv, IF fuse'.i = i + 1 THEN Effect(view) ELSE view),
           call.op = "rmdir" /\ call'.retval = OK => ~HasChildren(view, call.path),
           Opened(view)'
    PROVE  Mirrors(view)'
<1>1. \A j \in Slot : /\ j # i => (Done(j)' <=> Done(j))
                      /\ j = i => ~Done(j) /\ (Done(j)' <=> fuse'.i = i + 1)
  BY SlotsAre DEF Done
<1>2. Effect(view)' = Effect(view) /\ faults'.damage = faults.damage
  BY ViewStays DEF SameCall
<1>3. ASSUME NEW j \in Slot
      PROVE  Right(Server(j), IF Done(j) THEN Effect(view) ELSE view)'
  <2>1. CASE j = i
    <3> DEFINE v == IF fuse'.i = i + 1 THEN Effect(view) ELSE view
    <3>1. (IF Done(j) THEN Effect(view) ELSE view)' = v
      BY <1>1, <1>2, <2>1
    <3>2. Right(sv, v) /\ Server(j)' = sv
      BY <2>1
    <3> HIDE DEF v
    <3> QED
      BY <1>2, <3>1, <3>2, RightStays
  <2>2. CASE j # i
    <3> DEFINE v == IF Done(j) THEN Effect(view) ELSE view
    <3>1. (IF Done(j) THEN Effect(view) ELSE view)' = v
      BY <1>1, <1>2, <2>2
    <3>2. PICK r : r = Server(j)'
      OBVIOUS
    <3>3. Right(Server(j), v) /\ SameContents(r, Server(j)) /\ SameSoundness(r, Server(j))
      BY <2>2, <3>2 DEF Mirrors
    <3> HIDE DEF v
    <3>4. Right(r, v)
      BY <3>3, RightKept
    <3> QED
      BY <1>2, <3>1, <3>2, <3>4, RightStays
  <2> QED
    BY <2>1, <2>2
<1>4. \A x \in Tree : view[x] \in acked'[x]
  BY DEF Mirrors, SameCall
<1>5. call'.op = "rmdir" /\ call'.retval = OK => ~HasChildren(view, call'.path)
  BY DEF SameCall
<1>6. (call.op = "rmdir" /\ call.retval = OK /\ Done(0) => ~HasChildren(view, call.path))'
  BY <1>5 DEF HasChildren
<1> QED
  BY <1>3, <1>4, <1>6 DEF Mirrors

\* Only the server of slot i was asked.
LEMMA AnsweredRight ==
    ASSUME Watched, NEW view \in View, Mirrors(view), NEW i \in Slot,
           fuse.pc = "loop", fuse.i = i, fuse'.pc = "loop", fuse'.i \in {i, i + 1},
           servers' = servers, SameCall, NEW sv, OnServer(i, sv),
           Right(sv, IF fuse'.i = i + 1 THEN Effect(view) ELSE view),
           call.op = "rmdir" /\ call'.retval = OK => ~HasChildren(view, call.path),
           Opened(view)'
    PROVE  Mirrors(view)'
<1>1. Server(i)' = sv /\ \A j \in Slot : j # i => Server(j)' = Server(j)
  BY OthersAnswer DEF Watched, Calm, Steady
<1>2. ASSUME NEW j \in Slot, j # i
      PROVE  SameContents(Server(j)', Server(j)) /\ SameSoundness(Server(j)', Server(j))
  <2>1. Server(j)' = Server(j)
    BY <1>1, <1>2
  <2> QED
    BY <2>1 DEF SameContents, SameSoundness
<1> QED
  BY <1>1, <1>2, VisitedRight

LEMMA ExecuteRight ==
    ASSUME Watched, NEW i \in Slot, Execute(i)
    PROVE  Mirrored'
<1>1. PICK view \in View : Mirrors(view)
  BY DEF Watched, Mirrored
<1>2. /\ fuse.pc = "loop" /\ fuse.i = i /\ fuse'.pc = "loop" /\ fuse'.i = i + 1
      /\ servers' = servers
  BY AnsweredIs DEF Execute, Watched
<1>3. AskedOf(i, view) /\ CallFits /\ call \in Call /\ call.op # "none"
  BY <1>1, <1>2, AtVisitRight
<1>4. ~Mixes(i)
  <2>1. faults' = [faults EXCEPT !.mixed = @ \/ Mixes(i)] /\ faults \in Faults
    BY <1>3, AskedOfIs DEF Execute
  <2>2. ~faults'.mixed
    BY DEF Watched
  <2> HIDE DEF Mixes
  <2> QED
    BY <2>1, <2>2 DEF Faults
<1>5. /\ Right(Request(i).server, Effect(view))
      /\ call.op = "rmdir" /\ Request(i).status = OK => ~HasChildren(view, call.path)
  BY <1>3, <1>4, RequestRight DEF Execute
<1>6. faults'.damage = faults.damage
  BY <1>3, AskedOfIs DEF Execute, Faults
<1>7. /\ SameCall /\ call'.retval = Result(i, Request(i).status)
      /\ repair' = repair /\ OnServer(i, Request(i).server)
  BY <1>3, <1>6 DEF Execute, SameCall, Call
<1>8. call.op = "rmdir" => call'.retval = Request(i).status
  BY <1>7 DEF Result
<1>9. call.op # "open" /\ ~repair.on
  BY <1>3 DEF Execute, Plain, CallFits
<1>10. Opened(view)'
  BY <1>7, <1>9 DEF Opened, SameCall
<1>11. Mirrors(view)'
  BY <1>1, <1>2, <1>5, <1>7, <1>8, <1>10, AnsweredRight
<1> QED
  BY <1>7, <1>9, <1>11, NoRepairFits DEF Mirrored

LEMMA ReadRight ==
    ASSUME Watched, NEW i \in Slot, ExecuteStale(i) \/ ReadCached(i) \/ ReadServer(i)
    PROVE  Mirrored'
<1>1. PICK view \in View : Mirrors(view)
  BY DEF Watched, Mirrored
<1>2. /\ fuse.pc = "loop" /\ fuse.i = i /\ fuse'.pc = "loop" /\ fuse'.i = i + 1
      /\ servers' = servers
  BY AnsweredIs DEF ExecuteStale, ReadCached, ReadServer, Watched
<1>3. AskedOf(i, view) /\ CallFits /\ call \in Call
  BY <1>1, <1>2, AtVisitRight
<1>4. call.op \in {"read", "readdir", "releasedir"}
  BY DEF ExecuteStale, StaleDir, ReadCached, ReadServer, Reading
<1>5. OnServer(i, Server(i))
  BY <1>2, OnlyRead DEF Watched
<1>6. SameCall /\ repair' = repair
  BY <1>3, <1>4 DEF ExecuteStale, ReadCached, ReadServer, SameCall, Call, worldVars
<1>7. Right(Server(i), Effect(view))
  BY <1>3, <1>4, AskedOfIs, SameRight, NamesApart DEF SameContents, SameSoundness
<1>8. Opened(view)'
  BY <1>4, <1>6 DEF Opened, SameCall
<1>9. Mirrors(view)'
  BY <1>1, <1>2, <1>4, <1>5, <1>6, <1>7, <1>8, AnsweredRight
<1>10. ~repair'.on
  BY <1>3, <1>4, <1>6 DEF CallFits
<1> QED
  BY <1>9, <1>10, NoRepairFits DEF Mirrored

LEMMA OpendirRight ==
    ASSUME Watched, NEW i \in Slot, OpendirDone(i)
    PROVE  Mirrored'
<1>1. PICK view \in View : Mirrors(view)
  BY DEF Watched, Mirrored
<1>2. /\ fuse.pc = "loop" /\ fuse.i = i /\ fuse'.pc = "loop" /\ fuse'.i = i + 1
      /\ servers' = servers
  BY AnsweredIs DEF OpendirDone, Watched
<1>3. /\ AskedOf(i, view) /\ call.op = "opendir" /\ ~repair.on
      /\ call.path \in Dirs \cup {Root} /\ Tidy(Server(i))
  BY <1>1, <1>2, AtVisitRight, AskedOfIs DEF OpendirDone, Requesting, Fits, OnDirectory
<1>4. PICK m \in Opendir(Server(i), call.path) : OnServer(i, m.server)
  BY DEF OpendirDone
<1>5. SameContents(m.server, Server(i)) /\ SameSoundness(m.server, Server(i))
  BY <1>3, <1>4, OpendirIs DEF SameFiles
<1>6. Right(m.server, Effect(view))
  BY <1>3, <1>5, AskedOfIs, SameRight, NamesApart
<1>7. SameCall /\ repair' = repair
  BY DEF OpendirDone, SameCall
<1>8. Opened(view)'
  BY <1>3, <1>7 DEF Opened, SameCall
<1>9. Mirrors(view)'
  BY <1>1, <1>2, <1>3, <1>4, <1>6, <1>7, <1>8, AnsweredRight
<1> QED
  BY <1>3, <1>7, <1>9, NoRepairFits DEF Mirrored

\* A copy that can be opened is what belongs there, and the slot before has its hash.
LEMMA OpenFinds ==
    ASSUME Watched, NEW view \in View, Mirrors(view), NEW i \in Slot, fuse.pc = "loop", fuse.i = i,
           call.op = "open", NEW m \in Open(Server(i), call.path)
    PROVE  /\ call.path \in Paths /\ Effect(view) = view /\ Right(m.server, view)
           /\ Sound(m.server, call.path) <=> Sound(Server(i), call.path)
           /\ m.status >= 0 => Sound(Server(i), call.path)
           /\ Sound(Server(i), call.path) =>
                 m.hash = view[call.path] /\ m.status >= 0 /\ ~Differs(i, m)
           /\ ~Sound(Server(i), call.path) => m.status = ERRHASH
<1> DEFINE sv == Server(i)
           p == call.path
<1>1. AskedOf(i, view)
  BY AtVisitRight
<1>2. /\ Tidy(sv) /\ p \in Paths /\ p \in Tree /\ Right(sv, view) /\ view[p] # Absent
      /\ Exists(sv, p) /\ call.to \notin Tree
  BY <1>1, AskedOfIs, NamesApart DEF Fits, OnFile, LookedUp
<1> HIDE DEF sv, p
<1>3. m \in Open(sv, p)
  BY DEF sv, p
<1>4. /\ SameContents(m.server, sv) /\ SameSoundness(m.server, sv)
      /\ m.hash = Content(sv, p)
      /\ m.status >= 0 => MayPass(sv, p)
      /\ Sound(sv, p) => m.status \in Fds
      /\ m.status \in Fds \cup {ERRHASH}
  BY <1>2, <1>3, OpenIs
<1>5. Effect(view) = view /\ Right(m.server, view)
  <2> DEFINE r == m.server
  <2>1. SameContents(r, sv) /\ SameSoundness(r, sv)
    BY <1>4
  <2> HIDE DEF r
  <2>2. Effect(view) = view /\ Right(r, view)
    BY <1>1, <1>2, <2>1, SameRight DEF sv
  <2> QED
    BY <2>2 DEF r
<1>6. Sound(sv, p) => m.hash = view[p]
  BY <1>2, <1>4, SoundIsRight
<1>7. Sound(sv, p) => ~Differs(i, m)
  <2>1. i # 0 => i - 1 \in Slot /\ i - 1 < fuse.i
    BY SlotsAre
  <2>2. i # 0 => msgs[i - 1].hash = view[p]
    BY <2>1 DEF Mirrors, Opened, p
  <2> QED
    BY <1>6, <2>2 DEF Differs
<1>8. Sound(sv, p) => m.status >= 0
  BY <1>4, StatusesAre
<1>9. Sound(m.server, p) <=> Sound(sv, p)
  BY <1>2, <1>4 DEF SameSoundness
<1>10. MayPass(sv, p) => Sound(sv, p)
  <2>1. AllHashed(sv) /\ sv.dir[p] \in Inodes
    BY <1>2, HashedThere, Fields DEF Watched, Calm, Tidy, sv
  <2> QED
    BY <2>1 DEF MayPass, Sound, File, AllHashed
<1>11. m.status >= 0 => Sound(sv, p)
  BY <1>4, <1>10
<1>12. ~Sound(sv, p) => m.status = ERRHASH
  BY <1>4, <1>11, StatusesAre
<1> QED
  BY <1>2, <1>5, <1>6, <1>7, <1>8, <1>9, <1>11, <1>12, Zenon DEF sv, p

LEMMA OpenAgreedRight ==
    ASSUME Watched, NEW i \in Slot, OpenAgreed(i)
    PROVE  Mirrored'
<1>1. PICK view \in View : Mirrors(view)
  BY DEF Watched, Mirrored
<1>2. /\ fuse.pc = "loop" /\ fuse.i = i /\ fuse'.pc = "loop" /\ fuse'.i = i + 1
      /\ servers' = servers /\ call.op = "open" /\ ~repair.on /\ ClientTypes
  BY AnsweredIs DEF OpenAgreed, Opening, Requesting, Watched, Calm, Types
<1>3. PICK m \in Open(Server(i), call.path) :
         /\ m.status >= 0 /\ OnServer(i, m.server)
         /\ msgs' = [msgs EXCEPT ![i] = Kept(m)]
  BY DEF OpenAgreed
<1>4. SameCall /\ repair' = repair /\ call' = call
  BY DEF OpenAgreed, SameCall
<1>5. /\ Effect(view) = view /\ Right(m.server, view)
      /\ Sound(m.server, call.path) /\ m.hash = view[call.path]
  BY <1>1, <1>2, <1>3, OpenFinds
<1>6. Opened(view)'
  <2> SUFFICES ASSUME NEW j \in Slot, j < fuse'.i
               PROVE  /\ msgs'[j].hash = view[call.path]
                      /\ call.quiet => Sound(Server(j)', call.path)
    BY <1>4 DEF Opened
  <2>1. Server(i)' = m.server /\ (j # i => Server(j)' = Server(j))
    BY <1>2, <1>3, OthersAnswer DEF Watched, Calm, Steady
  <2>2. CASE j = i
    BY <1>2, <1>3, <1>5, <2>1, <2>2 DEF ClientTypes, Kept
  <2>3. CASE j # i
    <3>1. j < fuse.i /\ msgs'[j] = msgs[j]
      BY <1>2, <1>3, <2>3, SlotsAre DEF ClientTypes
    <3> QED
      BY <1>1, <1>2, <2>1, <2>3, <3>1 DEF Mirrors, Opened
  <2> QED
    BY <2>2, <2>3
<1>7. Mirrors(view)'
  BY <1>1, <1>2, <1>3, <1>4, <1>5, <1>6, AnsweredRight
<1> QED
  BY <1>2, <1>4, <1>7, NoRepairFits DEF Mirrored

\* The copy is replaced because it does not carry its own hash.
LEMMA OpenDisagreedRight ==
    ASSUME Watched, NEW i \in Slot, OpenDisagreed(i)
    PROVE  Mirrored'
<1>1. PICK view \in View : Mirrors(view)
  BY DEF Watched, Mirrored
<1>2. /\ fuse.pc = "loop" /\ fuse.i = i /\ fuse' = fuse /\ fuse'.pc = "loop" /\ fuse'.i = i
      /\ servers' = servers /\ call.op = "open" /\ ~repair.on /\ ClientTypes
  BY DEF OpenDisagreed, Opening, Requesting, Slots!Requested, Slots!AtSlot, Watched, Calm, Types
<1>3. PICK m \in Open(Server(i), call.path) :
         /\ m.status = ERRHASH \/ Differs(i, m)
         /\ OnServer(i, m.server)
         /\ msgs' = [msgs EXCEPT ![i] = Kept(m)]
         /\ repair' = Repair(i, m)
  BY DEF OpenDisagreed
<1>4. SameCall /\ call' = call
  BY DEF OpenDisagreed, SameCall
<1>5. /\ Effect(view) = view /\ Right(m.server, view)
      /\ ~Sound(Server(i), call.path) /\ ~Sound(m.server, call.path) /\ m.status = ERRHASH
  BY <1>1, <1>2, <1>3, OpenFinds, StatusesAre
<1>6. Server(i)' = m.server /\ \A j \in Slot : j # i => Server(j)' = Server(j)
  BY <1>2, <1>3, OthersAnswer DEF Watched, Calm, Steady
<1>7. Opened(view)'
  <2> SUFFICES ASSUME NEW j \in Slot, j < i
               PROVE  /\ msgs'[j].hash = view[call.path]
                      /\ call.quiet => Sound(Server(j)', call.path)
    BY <1>2, <1>4 DEF Opened
  <2>1. j # i /\ msgs'[j] = msgs[j] /\ Server(j)' = Server(j)
    BY <1>2, <1>3, <1>6, SlotsAre DEF ClientTypes
  <2> QED
    BY <1>1, <1>2, <2>1 DEF Mirrors, Opened
<1>8. Mirrors(view)'
  <2>1. fuse'.i # i + 1
    BY <1>2, SlotsAre
  <2> QED
    BY <1>1, <1>2, <1>3, <1>4, <1>5, <1>7, <2>1, AnsweredRight
<1>9. repair'.target = i /\ repair'.source = Source(i)
  BY <1>3, <1>5 DEF Repair
<1>10. RepairFits'
  BY <1>2, <1>4, <1>5, <1>6, <1>9 DEF RepairFits, Source
<1> QED
  BY <1>8, <1>10 DEF Mirrored

\* Of the two copies the one that is copied is sound, since the other is not.
LEMMA RestoreRight ==
    ASSUME Watched, NEW i \in Slot, Restore(i)
    PROVE  Mirrored'
<1>0. PICK t \in Slot, k \in Slot : t = repair.target /\ k = repair.source
  BY DEF Watched, Calm, Types, ClientTypes, RepairRequest
<1> DEFINE sv == Server(t)
           source == Server(k)
           p == call.path
           r == Restored(sv, p, source, Now(t))
<1>1. PICK view \in View : Mirrors(view)
  BY DEF Watched, Mirrored
<1>2. /\ call.op = "open" /\ repair.on /\ fuse.pc = "loop" /\ fuse.i = i
      /\ t = i /\ k = Source(i) /\ ~Sound(sv, p)
      /\ fuse'.pc = "loop" /\ fuse'.i = i /\ servers' = servers
  BY <1>0, SlotsAre
  DEF Restore, Repairing, Slots!Repaired, Slots!Requested, Slots!AtSlot, Slots!Contacted,
      Slots!Fuse, Slots!TypeOK, Watched, Calm, Mirrored, RepairFits
<1>3. k # i
  BY <1>2, SlotsAre, RaidAssumption DEF Watched, Source
<1>4. AskedOf(i, view)
  BY <1>1, <1>2, AtVisitRight
<1>5. /\ Tidy(sv) /\ p \in Paths /\ p \in Tree /\ Right(sv, view) /\ view[p] # Absent
      /\ Exists(sv, p) /\ call.to \notin Tree /\ Now(t) \in Times
  BY <1>2, <1>4, AskedOfIs, NamesApart DEF Fits, OnFile, LookedUp
<1>6. Effect(view) = view
  BY <1>2, <1>5, NoEffect
<1>7. Right(source, view) /\ Tidy(source)
  BY <1>1, <1>6, ServersAre DEF Mirrors, Watched, Calm, Types
<1>8. SameCall /\ call' = call /\ msgs' = msgs /\ ~repair'.on
  BY DEF Restore, SameCall, NoRepair
<1>9. Server(i)' = r /\ \A j \in Slot : j # i => Alike(Server(j)', Server(j))
  BY <1>0, <1>2, RestoresOne DEF Watched, Calm, Steady, Restore
<1>10. \A j \in Slot : j # i =>
          SameContents(Server(j)', Server(j)) /\ SameSoundness(Server(j)', Server(j))
  BY <1>9 DEF Alike
<1>11. Opened(view)'
  <2> SUFFICES ASSUME NEW j \in Slot, j < i
               PROVE  /\ msgs[j].hash = view[call.path]
                      /\ call.quiet => Sound(Server(j)', call.path)
    BY <1>2, <1>8 DEF Opened
  <2>1. j # i
    BY SlotsAre
  <2>2. Sound(Server(j), p) => Sound(Server(j)', p)
    BY <1>5, <1>10, <2>1 DEF SameSoundness
  <2> QED
    BY <1>1, <1>2, <2>2 DEF Mirrors, Opened
<1>12. OneCopyDamaged
  BY DEF Watched
<1>13. Exists(source, p) => Sound(source, p)
  BY <1>2, <1>3, <1>5, <1>12 DEF OneCopyDamaged
<1> HIDE DEF sv, source, p
<1>14. HasParent(sv, p)
  <2>1. \A q \in Paths : sv.dir[q] # NoInode => HasParent(sv, q)
    BY <1>5 DEF Tidy, HasParent
  <2> QED
    BY <1>5, <2>1, Seen
<1>15. Exists(source, p)
  BY <1>5, <1>7, RightTree, TreeLookUp
<1>16. Content(source, p) = view[p]
  BY <1>5, <1>7, <1>13, <1>15, SoundIsRight
<1>17. /\ Content(r, p) = Content(source, p)
       /\ \A x \in Tree \ {p} : Content(r, x) = Content(sv, x)
       /\ SoundnessBut(r, sv, p, p)
  BY <1>5, <1>7, <1>14, <1>15, RestoredIs
<1> HIDE DEF r
<1>18. Right(r, view)
  <2> SUFFICES ASSUME NEW x \in Tree PROVE RightAt(r, x, view[x])
    BY DEF Right
  <2>1. CASE x = p
    BY <1>16, <1>17, <2>1 DEF RightAt
  <2>2. CASE x # p
    <3>1. RightAt(sv, x, view[x]) /\ Content(r, x) = Content(sv, x)
      BY <1>5, <1>17, <2>2 DEF Right
    <3>2. x \in Paths => (Sound(r, x) <=> Sound(sv, x))
      BY <1>17, <2>2 DEF SoundnessBut
    <3> QED
      BY <3>1, <3>2 DEF RightAt
  <2> QED
    BY <2>1, <2>2
<1>19. Mirrors(view)'
  <2>1. fuse'.i # i + 1
    BY <1>2, SlotsAre
  <2> QED
    BY <1>1, <1>2, <1>8, <1>9, <1>10, <1>11, <1>18, <2>1, VisitedRight
<1> QED
  BY <1>8, <1>19, NoRepairFits DEF Mirrored

-----------------------------------------------------------------------------
(* An operation begins and ends.                                            *)

\* Between two operations all servers are right about the same files.
LEMMA RestsRight ==
    ASSUME fuse'.pc = "idle", call' = NoCall, servers' = servers, server' = server,
           faults' = faults, ~repair'.on,
           NEW view \in View, \A i \in Slot : Right(Server(i), view),
           \A x \in Tree : view[x] \in acked'[x]
    PROVE  Mirrored'
<1>1. call'.op = "none"
  BY DEF NoCall
<1>2. Opened(view)' /\ \A i \in Slot : ~Done(i)'
  BY <1>1 DEF Opened, Done
<1>3. ASSUME NEW i \in Slot PROVE Right(Server(i), IF Done(i) THEN Effect(view) ELSE view)'
  <2>1. Server(i)' = Server(i) /\ (IF Done(i) THEN Effect(view) ELSE view)' = view
    BY <1>2 DEF Server
  <2> QED
    BY <2>1, RightStays
<1>4. Mirrors(view)'
  BY <1>1, <1>2, <1>3 DEF Mirrors
<1> QED
  BY <1>4, NoRepairFits DEF Mirrored

LEMMA UnknownHandleRight ==
    ASSUME Watched, NEW i \in Slot, UnknownHandle(i)
    PROVE  Mirrored'
<1>1. PICK view \in View : Mirrors(view)
  BY DEF Watched, Mirrored
<1>2. fuse.pc = "loop" /\ fuse.i = i /\ call.op \in {"read", "readdir", "releasedir"}
  BY UnknownHandleIs DEF Watched
<1>3. AskedOf(i, view) /\ CallFits
  BY <1>1, <1>2, AtVisitRight
<1>4. Effect(view) = view
  BY <1>2, <1>3, AskedOfIs, NoEffect, NamesApart
<1>5. \A j \in Slot : Right(Server(j), view)
  BY <1>1, <1>4 DEF Mirrors
<1>6. /\ fuse'.pc = "idle" /\ call' = NoCall /\ servers' = servers /\ server' = server
      /\ ~repair'.on /\ acked' = acked /\ faults' = faults
  BY <1>2, <1>3 DEF UnknownHandle, Slots!Return, Slots!Idle, worldVars, CallFits
<1> QED
  BY <1>1, <1>5, <1>6, RestsRight DEF Mirrors

\* What is written is a file, on slot 0 as in the view.
LEMMA WrittenIsFile ==
    ASSUME Calm, Slots!LoopEnded, call.op = "write", NEW view \in View, Mirrors(view)
    PROVE  view[call.path] \in Data
<1> DEFINE p == call.path
           sv == Server(0)
<1>1. PICK before \in View : Before(before)
  BY DEF Calm, Steady
<1>2. 0 \in Slot /\ Done(0)
  BY SlotsAre, LoopHasBeen DEF Changes
<1>3. /\ p \in Paths /\ p \in Tree /\ call.handle \in Handle /\ opened[call.handle] = p
      /\ CallFits /\ Tidy(sv)
  BY <1>2, ServersAre, NamesApart
  DEF Calm, Steady, CallFits, HandlesFit, Types, CallTypes, Fits, OnFile, Call
<1>4. HandlesAfter[call.handle] = p
  BY <1>3, OtherHandles
<1>5. Holds(sv, fds[0], HandlesAfter)
  BY <1>1, <1>2 DEF Before, AsAfter
<1>6. sv.dir[p] # NoInode
  BY <1>3, <1>4, <1>5 DEF Holds
<1> HIDE DEF sv, p
<1>7. Content(sv, p) \in Data
  BY <1>3, <1>6, Seen, ContentsAre
<1>8. RightAt(sv, p, Effect(view)[p])
  BY <1>2, <1>3 DEF Mirrors, Right, sv
<1>9. Effect(view)[p] \in Data
  BY <1>7, <1>8 DEF RightAt
<1>10. Effect(view)[p] = IF view[p] \in Data THEN Patched[<<view[p], call.data>>] ELSE view[p]
  BY <1>3 DEF Effect, Becomes, p
<1> QED
  BY <1>9, <1>10 DEF p

LEMMA FinishRight ==
    ASSUME Watched, Finish
    PROVE  Mirrored'
<1>1. PICK view \in View : Mirrors(view)
  BY DEF Watched, Mirrored
<1>2. Slots!LoopEnded /\ Calm
  BY DEF Finish, Slots!Finish, Watched
<1>3. /\ fuse'.pc = "idle" /\ call' = NoCall /\ servers' = servers /\ server' = server
      /\ repair' = repair /\ acked' = Reported /\ faults' = faults
  BY DEF Finish, Slots!Finish, Slots!Idle, worldVars
<1>4. Effect(view) \in View
  BY <1>1, <1>2, EffectIs DEF Calm, Steady, CallFits, Types, CallTypes
<1>5. ~repair.on /\ \A i \in Slot : Right(Server(i), Effect(view))
  <2>1. CASE \A i \in Slot : Done(i)
    BY <1>1, <1>2, <2>1, LoopHasBeen DEF Mirrors
  <2>2. CASE Effect(view) = view
    BY <1>1, <1>2, <2>2, LoopHasBeen DEF Mirrors
  <2> QED
    BY <1>2, <2>1, <2>2, LoopHasBeen
<1>6. call.op = "rmdir" /\ call.retval = OK => ~HasChildren(view, call.path)
  BY <1>1, <1>2, LoopHasBeen DEF Mirrors, Changes
<1>7. call.op = "write" => view[call.path] \in Data
  BY <1>1, <1>2, WrittenIsFile
<1>8. \A x \in Tree : Effect(view)[x] \in acked'[x]
  BY <1>1, <1>2, <1>3, <1>6, <1>7, LeftIsReported DEF Mirrors
<1>9. ~repair'.on
  BY <1>3, <1>5
<1> QED
  BY <1>3, <1>4, <1>5, <1>8, <1>9, RestsRight

LEMMA BeginRight ==
    ASSUME Watched, Begin
    PROVE  Mirrored'
<1>1. PICK view \in View : Mirrors(view)
  BY DEF Watched, Mirrored
<1>2. /\ fuse.pc = "idle" /\ fuse'.pc = "loop" /\ fuse'.i = 0 /\ servers' = servers
      /\ server' = server /\ acked' = acked /\ repair' = repair /\ faults' = faults
  BY BeginIs
<1>3. ~repair.on
  BY <1>2 DEF Watched, Calm, Steady, CallFits
<1>4. \A i \in Slot : ~(i < 0) /\ ~Done(i) /\ ~Done(i)'
  BY <1>2, SlotsAre DEF Done
<1>5. ASSUME NEW i \in Slot PROVE Right(Server(i), IF Done(i) THEN Effect(view) ELSE view)'
  <2>1. Server(i)' = Server(i) /\ (IF Done(i) THEN Effect(view) ELSE view)' = view
    BY <1>2, <1>4 DEF Server
  <2>2. Right(Server(i), view)
    BY <1>1, <1>4 DEF Mirrors
  <2> QED
    BY <1>2, <2>1, <2>2, RightStays
<1>6. Opened(view)'
  BY <1>2, <1>4 DEF Opened
<1>7. Mirrors(view)'
  BY <1>1, <1>2, <1>4, <1>5, <1>6, SlotsAre DEF Mirrors
<1> QED
  BY <1>2, <1>3, <1>7, NoRepairFits DEF Mirrored

-----------------------------------------------------------------------------
(* The world.                                                               *)

\* What the world does to the files of a slot.
LEMMA WorldRight ==
    ASSUME Watched, Fair, NEW view \in View, Mirrors(view),
           \A i \in Slot : \A v \in View : Right(Server(i), v) => \A x \in Tree :
              \/ Content(Server(i)', x) = v[x]
              \/ /\ faults'.damage # 0 /\ x \in Paths /\ ~Sound(Server(i)', x)
                 /\ {Content(Server(i)', x), v[x]} \subseteq Data,
           \A i \in Slot, p \in Paths :
              Sound(Server(i), p) /\ ~Sound(Server(i)', p) => call = NoCall \/ ~call'.quiet,
           \A i \in Slot, p \in Paths : Sound(Server(i)', p) => Sound(Server(i), p)
    PROVE  Mirrored'
<1>1. /\ call'.op = call.op /\ call'.path = call.path /\ call'.to = call.to
      /\ call'.handle = call.handle /\ call'.data = call.data /\ call'.retval = call.retval
      /\ call'.quiet => call.quiet
      /\ call \in Call /\ Fits(call) /\ (call.op # "rename" => call.to = NoPath)
  BY DEF Fair, Watched, Calm, Types, CallTypes, Call, Steady, CallFits
<1>2. Effect(view)' = Effect(view) /\ Effect(view) \in View
  BY <1>1, OperationStays, EffectIs DEF Fair
<1>3. ASSUME NEW i \in Slot PROVE Right(Server(i), IF Done(i) THEN Effect(view) ELSE view)'
  <2> DEFINE v == IF Done(i) THEN Effect(view) ELSE view
  <2>1. v \in View /\ Right(Server(i), v)
    BY <1>2 DEF Mirrors
  <2>2. Done(i)' <=> Done(i)
    BY DEF Done, Fair
  <2>3. v' = v
    BY <1>2, <2>2
  <2> HIDE DEF v
  <2>4. PICK w \in View : w = v
    BY <2>1
  <2>5. \A x \in Tree :
           \/ Content(Server(i)', x) = w[x]
           \/ /\ faults'.damage # 0 /\ x \in Paths /\ ~Sound(Server(i)', x)
              /\ {Content(Server(i)', x), w[x]} \subseteq Data
    BY <2>1, <2>4
  <2>6. Right(Server(i), v)'
    BY <2>3, <2>4, <2>5 DEF Right, RightAt
  <2> QED
    BY <2>6 DEF v
<1>4. Opened(view)'
  <2> SUFFICES ASSUME call.op = "open", NEW j \in Slot, j < fuse.i
               PROVE  /\ msgs[j].hash = view[call.path]
                      /\ call'.quiet => Sound(Server(j)', call.path)
    BY <1>1 DEF Opened, Fair
  <2>1. call.path \in Paths /\ call # NoCall
    BY <1>1 DEF Fits, OnFile, NoCall
  <2>2. msgs[j].hash = view[call.path] /\ (call.quiet => Sound(Server(j), call.path))
    BY DEF Mirrors, Opened
  <2> QED
    BY <1>1, <2>1, <2>2
<1>5. (call.op = "rmdir" /\ call.retval = OK /\ Done(0) => ~HasChildren(view, call.path))'
  BY <1>1 DEF Mirrors, Fair, Done, HasChildren
<1>6. Mirrors(view)'
  BY <1>3, <1>4, <1>5 DEF Mirrors, Fair
<1>7. RepairFits'
  <2>1. repair' = repair /\ call'.path = call.path /\ fuse' = fuse
    BY <1>1 DEF Fair
  <2>2. CASE repair.on
    <3>1. PICK t \in Slot : t = repair.target
      BY DEF Watched, Calm, Types, ClientTypes, RepairRequest
    <3>2. call.path \in Paths
      BY <1>1, <2>2 DEF Watched, Calm, Steady, CallFits, Fits, OnFile
    <3>3. t = fuse.i /\ repair.source = Source(fuse.i) /\ ~Sound(Server(t), call.path)
      BY <2>2, <3>1 DEF Watched, Mirrored, RepairFits
    <3>4. ~Sound(Server(t)', call.path)
      BY <3>2, <3>3
    <3> QED
      BY <2>1, <3>1, <3>3, <3>4 DEF RepairFits, Source, Server
  <2> QED
    BY <2>1, <2>2 DEF RepairFits
<1> QED
  BY <1>6, <1>7 DEF Mirrored

LEMMA FaultRight ==
    ASSUME Watched, Fair, Unharmed
    PROVE  Mirrored'
<1>1. PICK view \in View : Mirrors(view)
  BY DEF Watched, Mirrored
<1>2. \A i \in Slot : Server(i)' = Server(i)
  BY DEF Unharmed
<1>3. ASSUME NEW i \in Slot, NEW v \in View, Right(Server(i), v), NEW x \in Tree
      PROVE  \/ Content(Server(i)', x) = v[x]
             \/ /\ faults'.damage # 0 /\ x \in Paths /\ ~Sound(Server(i)', x)
                /\ {Content(Server(i)', x), v[x]} \subseteq Data
  BY <1>2, <1>3 DEF Right, RightAt, Unharmed
<1> QED
  BY <1>1, <1>2, <1>3, WorldRight

\* A copy that is damaged does not carry its own hash.
LEMMA DamageRight ==
    ASSUME Watched, NEW n \in Names, NEW p \in Paths, NEW data \in Data, Damage(n, p, data)
    PROVE  Mirrored'
<1>1. PICK view \in View : Mirrors(view)
  BY DEF Watched, Mirrored
<1>2. Fair /\ (call # NoCall => ~call'.quiet) /\ faults'.damage # 0
  BY DamageHits DEF Watched, Calm, Steady, Faults
<1>3. ASSUME NEW i \in Slot
      PROVE  /\ \A q \in Paths : Sound(Server(i)', q) => Sound(Server(i), q)
             /\ \A v \in View : Right(Server(i), v) => \A x \in Tree :
                   \/ Content(Server(i)', x) = v[x]
                   \/ /\ faults'.damage # 0 /\ x \in Paths /\ ~Sound(Server(i)', x)
                      /\ {Content(Server(i)', x), v[x]} \subseteq Data
  <2>0. PICK sv, r : sv = Server(i) /\ r = Server(i)'
    OBVIOUS
  <2>1. Tidy(sv)
    BY <2>0, ServersAre DEF Watched, Calm, Types
  <2>2. \/ r = sv
        \/ Exists(sv, p) /\ data # File(sv, p).hash /\ r = Damaged(sv, p, data)
    BY <2>0, DamageHits DEF Watched
  <2>3. CASE r = sv
    BY <1>2, <2>0, <2>3 DEF Right, RightAt
  <2>4. CASE Exists(sv, p) /\ data # File(sv, p).hash /\ r = Damaged(sv, p, data)
    <3>1. /\ \A x \in Tree \ {p} : Content(r, x) = Content(sv, x)
          /\ Content(r, p) = data /\ SoundnessBut(r, sv, p, p) /\ ~Sound(r, p)
      BY <2>1, <2>4, DamagedIs
    <3>2. Content(sv, p) \in Data
      BY <2>1, <2>4, ContentsAre
    <3>3. \A q \in Paths : Sound(r, q) => Sound(sv, q)
      BY <3>1 DEF SoundnessBut
    <3>4. ASSUME NEW v \in View, Right(sv, v), NEW x \in Tree
          PROVE  \/ Content(r, x) = v[x]
                 \/ x \in Paths /\ ~Sound(r, x) /\ {Content(r, x), v[x]} \subseteq Data
      <4>1. RightAt(sv, x, v[x])
        BY <3>4 DEF Right
      <4>2. CASE x = p
        BY <3>1, <3>2, <4>1, <4>2 DEF RightAt
      <4>3. CASE x # p
        <5>1. x \in Paths => (Sound(r, x) <=> Sound(sv, x))
          BY <3>1, <4>3 DEF SoundnessBut
        <5> QED
          BY <3>1, <4>1, <4>3, <5>1 DEF RightAt
      <4> QED
        BY <4>2, <4>3
    <3> QED
      BY <1>2, <2>0, <3>3, <3>4
  <2> QED
    BY <2>2, <2>3, <2>4
<1> QED
  BY <1>1, <1>2, <1>3, WorldRight

-----------------------------------------------------------------------------
(* The theorems.                                                            *)

LEMMA VisitRight ==
    ASSUME Watched, NEW i \in Slot, Visit(i)
    PROVE  Mirrored'
<1>1. Calm
  BY DEF Watched
<1> QED
  BY <1>1, NotReached, NoneFails, Crashed, ExecuteRight, ReadRight, OpenAgreedRight,
     OpenDisagreedRight, OpendirRight, RestoreRight, UnknownHandleRight
  DEF Visit

\* Nothing unwrites a part that was written into a damaged copy.
LEMMA MixedBefore ==
    ASSUME Calm, [Next]_vars, ~faults'.mixed
    PROVE  ~faults.mixed
<1>1. faults \in Faults
  BY DEF Calm, Steady
<1>2. Begin => faults' = faults
  BY BeginIs
<1>3. Finish \/ Gone \/ Quiet => faults' = faults
  BY DEF Finish, Gone, Quiet, Tick, Full, worldVars, vars
<1>4. \A t \in Threads : ThreadStep(t) => faults' = faults
  BY DEF ThreadStep, worldVars
<1>5. ASSUME NEW i \in Slot, Visit(i) PROVE faults'.mixed = faults.mixed \/ Execute(i)
  BY <1>5, NotReached, NoneFails, Crashed
  DEF Visit, UnknownHandle, ExecuteStale, OpenAgreed, OpenDisagreed, Restore, OpendirDone,
      ReadCached, ReadServer, worldVars
<1>6. \A i \in Slot : Execute(i) => faults' = [faults EXCEPT !.mixed = @ \/ Mixes(i)]
  BY DEF Execute
<1>7. \A n \in Names : Kill(n) \/ Cut(n) \/ Return(n) => faults'.mixed = faults.mixed
  BY <1>1 DEF Kill, Cut, Return, Fail, Faults
<1>8. \A n \in Names, p \in Paths, data \in Data : Damage(n, p, data) => faults'.mixed = faults.mixed
  BY <1>1 DEF Damage, Faults
<1>9. \A i \in Slot : Execute(i) => ~faults.mixed
  <2> SUFFICES ASSUME NEW i \in Slot, Execute(i) PROVE ~faults.mixed
    OBVIOUS
  <2> HIDE DEF Mixes
  <2> QED
    BY <1>1, <1>6 DEF Faults
<1> QED
  BY <1>2, <1>3, <1>4, <1>5, <1>7, <1>8, <1>9 DEF Next, Quiet

\* As long as nothing has crashed the client, and nothing is mixed.
MirroredAlive == Alive /\ ~faults.mixed => Mirrored

LEMMA StepRight ==
    ASSUME N >= 2, Types, Slots!TypeOK, SteadyAlive, AllAnswer, AllAnswer', HashedAlive,
           MirroredAlive, OneCopyDamaged, OneCopyDamaged', [Next]_vars
    PROVE  MirroredAlive'
<1> SUFFICES ASSUME Alive', ~faults'.mixed PROVE Mirrored'
  BY DEF MirroredAlive
<1>1. Calm
  BY StepIsCalm
<1>2. Watched
  BY <1>1, MixedBefore DEF Watched, MirroredAlive, HashedAlive, Calm
<1>3. ASSUME NEW t \in Threads, ThreadStep(t) PROVE FALSE
  BY <1>1, <1>3
  DEF ThreadStep, Slots!PingAnswered, Slots!PingFailed, Slots!PingGivenUp, Slots!TakeSpareName,
      Slots!LeaveSpareName, Calm, Steady, AllSlotsUp
<1>4. ~Gone
  BY <1>1 DEF Gone, Slots!Gone, Calm, Alive
<1>5. ASSUME NEW n \in Names, Kill(n) \/ Cut(n) \/ Return(n) PROVE Mirrored'
  BY <1>1, <1>2, <1>5, FaultsElsewhere, FaultRight
<1>6. ASSUME Quiet PROVE Mirrored'
  BY <1>1, <1>2, <1>6, NothingHappens, FaultRight
<1> QED
  BY <1>2, <1>3, <1>4, <1>5, <1>6, BeginRight, VisitRight, FinishRight, DamageRight DEF Next, Quiet

LEMMA InitRight == Init => Mirrored
<1> SUFFICES ASSUME Init PROVE Mirrored
  OBVIOUS
<1> DEFINE view == [x \in Tree |-> Absent]
<1>1. Types /\ fuse.pc = "idle" /\ call.op = "none" /\ ~repair.on
  BY InitTypes DEF Init, Slots!Init, Slots!Idle, NoCall, NoRepair
<1>2. ASSUME NEW i \in Slot PROVE ~Done(i) /\ Right(Server(i), view)
  <2>1. servers[i].name \in Names
    BY DEF Init, Slots!Init, Slot
  <2>2. Server(i).dir = [p \in Paths |-> NoInode] /\ Server(i).dirs = {} /\ Tidy(Server(i))
    BY <1>1, <2>1 DEF Init, Server, Types, ServerTypes
  <2>3. \A x \in Tree : Content(Server(i), x) = Absent
    BY <2>2, Seen DEF Tree
  <2> QED
    BY <1>1, <2>3 DEF Done, Right, RightAt
<1>3. view \in View /\ \A x \in Tree : view[x] \in acked[x]
  BY DEF View, Init
<1> HIDE DEF view
<1>4. Mirrors(view)
  BY <1>1, <1>2, <1>3 DEF Mirrors, Opened
<1> QED
  BY <1>1, <1>3, <1>4 DEF Mirrored, RepairFits

\* While every server answers, of two copies of a file one is sound, and no part of a
\* file is written into a copy that is not, whatever is damaged meanwhile: every server
\* has behind each name what one state of the files that was reported has there, or a
\* copy that its hash gives away; and what is being repaired is such a copy.
THEOREM MirroredWhileOneIsSound ==
    ASSUME N >= 2
    PROVE  Spec /\ []AllAnswer /\ []OneCopyDamaged => []MirroredAlive
<1>1. Init => MirroredAlive
  BY InitRight DEF MirroredAlive
<1>2. /\ Types /\ Slots!TypeOK /\ SteadyAlive /\ AllAnswer /\ AllAnswer' /\ HashedAlive
      /\ MirroredAlive /\ OneCopyDamaged /\ OneCopyDamaged' /\ [Next]_vars
      => MirroredAlive'
  BY StepRight
<1> QED
  BY <1>1, <1>2, StorageInvariant, StorageSlotTypes, SteadyWhileAllAnswer, HashedWhileAllAnswer, PTL
  DEF Spec

\* Behind a name that was opened there is on slot 0 what belongs there.
LEMMA OpenKeeps ==
    Types /\ Slots!TypeOK /\ SteadyAlive /\ MirroredAlive => OpenKeepsWhatWasReported
<1> SUFFICES ASSUME Types, Slots!TypeOK, SteadyAlive, MirroredAlive, AfterOpen, ~faults.mixed
             PROVE  Content(Server(0), call.path) \in acked[call.path]
  BY DEF OpenKeepsWhatWasReported
<1>1. fuse.pc = "loop" /\ fuse.i = Slots!Limit /\ call.op = "open" /\ call.quiet
  BY DEF AfterOpen, Slots!LoopEnded
<1>2. Steady /\ Mirrored
  BY <1>1 DEF SteadyAlive, MirroredAlive, Alive
<1>3. PICK view \in View : Mirrors(view)
  BY <1>2 DEF Mirrored
<1>4. 0 \in Slot /\ Done(0) /\ 0 < fuse.i
  BY <1>1, SlotsAre, RaidAssumption DEF Slots!Limit, Done
<1>5. call.path \in Paths /\ call.path \in Tree /\ call.to \notin Tree
  BY <1>1, <1>2, NamesApart DEF Types, CallTypes, Fits, OnFile, Steady, CallFits
<1>6. Effect(view) = view
  BY <1>1, <1>5, NoEffect
<1>7. Right(Server(0), view) /\ Sound(Server(0), call.path)
  BY <1>1, <1>3, <1>4, <1>6 DEF Mirrors, Opened
<1>8. Content(Server(0), call.path) = view[call.path]
  BY <1>5, <1>7, SoundIsRight
<1> QED
  BY <1>3, <1>5, <1>8 DEF Mirrors

\* client_open chooses the right copy: as long as one of two copies is sound it
\* leaves on the server that is read from what was reported, and never the damage,
\* wherever it was done and whatever was opened, written or renamed in between.
THEOREM OpenKeepsWhileOneIsSound ==
    ASSUME N >= 2
    PROVE  Spec /\ []AllAnswer /\ []OneCopyDamaged => []OpenKeepsWhatWasReported
  BY OpenKeeps, StorageInvariant, StorageSlotTypes, SteadyWhileAllAnswer, MirroredWhileOneIsSound, PTL

\* Between two operations a copy that carries its own hash has what was reported.
SoundCopiesAreReported ==
    Idle /\ ~faults.mixed =>
        \A i \in Slot, p \in Paths : Sound(Server(i), p) => Content(Server(i), p) \in acked[p]

\* The hash of a copy can be trusted (server_hasher.c) as long as no part of a file was
\* written into a damaged copy: while one of two copies is sound, every copy that is has
\* what was reported of the file, on whichever server it is.
THEOREM SoundCopiesAreRight ==
    ASSUME N >= 2
    PROVE  Spec /\ []AllAnswer /\ []OneCopyDamaged => []SoundCopiesAreReported
<1>1. MirroredAlive => SoundCopiesAreReported
  <2> SUFFICES ASSUME MirroredAlive, Idle, ~faults.mixed, NEW i \in Slot, NEW p \in Paths,
                      Sound(Server(i), p)
               PROVE  Content(Server(i), p) \in acked[p]
    BY DEF SoundCopiesAreReported
  <2>1. PICK view \in View : Mirrors(view)
    BY DEF MirroredAlive, Mirrored, Alive, Idle
  <2>2. Right(Server(i), view)
    BY <2>1 DEF Mirrors, Done, Idle
  <2>3. Content(Server(i), p) = view[p]
    BY <2>2, SoundIsRight
  <2> QED
    BY <2>1, <2>3, NamesApart DEF Mirrors
<1> QED
  BY <1>1, MirroredWhileOneIsSound, PTL

-----------------------------------------------------------------------------
(* One damage spoils one copy, and what operations do spoils none, unless   *)
(* they truncate: server_truncate leaves the old hash with the new content. *)

Spoilt(sv, x) == Content(sv, x) # Absent /\ ~Sound(sv, x)
NoneSpoilt(sv) == \A x \in Paths : ~Spoilt(sv, x)
OneSpoilt(sv) == \A x, y \in Paths : Spoilt(sv, x) /\ Spoilt(sv, y) => x = y
NoWorse(r, sv) == (NoneSpoilt(sv) => NoneSpoilt(r)) /\ (OneSpoilt(sv) => OneSpoilt(r))

Alone ==
    /\ faults.damage = 0 => \A i \in Slot : NoneSpoilt(Server(i))
    /\ faults.damage <= 1 =>
          /\ \A i \in Slot : OneSpoilt(Server(i))
          /\ \A i, j \in Slot : i # j => NoneSpoilt(Server(i)) \/ NoneSpoilt(Server(j))

Calling == call.op \in Operations \cup {"none"}

LEMMA SameNoWorse ==
    ASSUME NEW sv, NEW r, SameContents(r, sv), SameSoundness(r, sv)
    PROVE  NoWorse(r, sv)
<1>1. ASSUME NEW x \in Paths PROVE Spoilt(r, x) => Spoilt(sv, x)
  BY NamesApart DEF SameContents, SameSoundness, Spoilt
<1> QED
  BY <1>1 DEF NoWorse, NoneSpoilt, OneSpoilt

\* A request that leaves what it was about sound, or removes it.
LEMMA OneNoWorse ==
    ASSUME NEW sv, NEW r, NEW p \in Paths,
           \A x \in Tree \ {p} : Content(r, x) = Content(sv, x),
           SoundnessBut(r, sv, p, p), Sound(r, p) \/ Content(r, p) = Absent
    PROVE  NoWorse(r, sv)
<1>1. ASSUME NEW x \in Paths PROVE Spoilt(r, x) => Spoilt(sv, x)
  <2>1. CASE x = p
    BY <2>1 DEF Spoilt
  <2>2. CASE x # p
    <3>1. (Sound(r, x) <=> Sound(sv, x)) /\ Content(r, x) = Content(sv, x)
      BY <2>2, NamesApart DEF SoundnessBut
    <3> QED
      BY <3>1 DEF Spoilt
  <2> QED
    BY <2>1, <2>2
<1> QED
  BY <1>1 DEF NoWorse, NoneSpoilt, OneSpoilt

\* A rename takes a copy that is spoilt along.
LEMMA MovedNoWorse ==
    ASSUME NEW sv, NEW r, NEW p \in Paths, NEW q \in Paths \ {p},
           \A x \in Tree \ {p, q} : Content(r, x) = Content(sv, x),
           Content(r, q) = Content(sv, p), Content(r, p) = Absent, SoundnessMoved(r, sv, p, q)
    PROVE  NoWorse(r, sv)
<1>1. ~Spoilt(r, p)
  BY DEF Spoilt
<1>2. Spoilt(r, q) => Spoilt(sv, p)
  BY DEF Spoilt, SoundnessMoved
<1>3. ASSUME NEW x \in Paths, x # p, x # q PROVE Spoilt(r, x) => Spoilt(sv, x)
  <2>1. (Sound(r, x) <=> Sound(sv, x)) /\ Content(r, x) = Content(sv, x)
    BY <1>3, NamesApart DEF SoundnessMoved, SoundnessBut
  <2> QED
    BY <2>1 DEF Spoilt
<1> QED
  BY <1>1, <1>2, <1>3 DEF NoWorse, NoneSpoilt, OneSpoilt

\* What is written has its own hash, the damage around it included.
LEMMA WriteNoWorse ==
    ASSUME NEW sv, Tidy(sv), NEW p \in Paths, NEW d \in Fds, NEW fragment \in Fragments,
           NEW time \in Times, sv.open[d] # NoInode, sv.open[d] = sv.dir[p]
    PROVE  NoWorse(Write(sv, p, d, fragment, time).server, sv)
<1> DEFINE r == Write(sv, p, d, fragment, time).server
<1>1. Sound(r, p)
  BY WriteIs
<1>2. /\ \A x \in Tree \ {p} : Content(r, x) = Content(sv, x)
      /\ Content(r, p) = Patched[<<Content(sv, p), fragment>>] /\ SoundnessBut(r, sv, p, p)
  BY WriteIs
<1> HIDE DEF r
<1>3. NoWorse(r, sv)
  BY <1>1, <1>2, OneNoWorse
<1> QED
  BY <1>3 DEF r

\* The requests on files.
LEMMA FileNoWorse ==
    ASSUME NEW i \in Slot, NEW view, Asked(i, view),
           call.op \in {"mknod", "unlink", "write", "rename"}
    PROVE  NoWorse(Request(i).server, Server(i))
<1> DEFINE sv == Server(i)
           p == call.path
           q == call.to
           d == Descriptor(i)
           r == Request(i).server
<1>1. /\ p \in Paths /\ Tidy(sv) /\ Like(sv, view) /\ Now(i) \in Times
      /\ call.op = "write" => call.data \in Fragments
      /\ call.op = "rename" => q \in Paths \ {p}
  BY AskedIs DEF Fits, OnFile, Call
<1>2. /\ call.op = "mknod" => ~Exists(sv, p) /\ HasParent(sv, p)
      /\ call.op = "rename" => Exists(sv, p) /\ HasParent(sv, q)
  BY <1>1, LookUp, NamesApart DEF Asked, LookedUp
<1>3. call.op = "write" => d \in Fds /\ sv.open[d] # NoInode /\ sv.open[d] = sv.dir[p]
  BY WrittenTo
<1>4. /\ call.op = "mknod" => r = Mknod(sv, p, Now(i)).server
      /\ call.op = "unlink" => r = Unlink(sv, p).server
      /\ call.op = "write" => r = Write(sv, p, d, call.data, Now(i)).server
      /\ call.op = "rename" => r = Rename(sv, p, q).server
  BY DEF Request
<1> HIDE DEF sv, p, q, d, r
<1>5. CASE call.op = "mknod"
  <2>1. /\ \A x \in Tree \ {p} : Content(r, x) = Content(sv, x)
        /\ SoundnessBut(r, sv, p, p) /\ Sound(r, p)
    BY <1>1, <1>2, <1>4, <1>5, MknodIs
  <2> QED
    BY <1>1, <2>1, OneNoWorse DEF r, sv
<1>6. CASE call.op = "unlink"
  <2>1. /\ \A x \in Tree \ {p} : Content(r, x) = Content(sv, x)
        /\ SoundnessBut(r, sv, p, p) /\ Content(r, p) = Absent
    BY <1>1, <1>4, <1>6, UnlinkIs
  <2> QED
    BY <1>1, <2>1, OneNoWorse DEF r, sv
<1>7. CASE call.op = "write"
  <2>1. r = Write(sv, p, d, call.data, Now(i)).server
    BY <1>4, <1>7
  <2>2. /\ p \in Paths /\ Tidy(sv) /\ Now(i) \in Times /\ call.data \in Fragments
        /\ d \in Fds /\ sv.open[d] # NoInode /\ sv.open[d] = sv.dir[p]
    BY <1>1, <1>3, <1>7
  <2>3. NoWorse(r, sv)
    BY <2>1, <2>2, WriteNoWorse
  <2> QED
    BY <2>3 DEF r, sv
<1>8. CASE call.op = "rename"
  <2>0. q \in Paths \ {p} /\ Exists(sv, p) /\ HasParent(sv, q) /\ r = Rename(sv, p, q).server
    BY <1>1, <1>2, <1>4, <1>8
  <2>1. /\ Content(r, q) = Content(sv, p) /\ Content(r, p) = Absent
        /\ \A x \in Tree \ {p, q} : Content(r, x) = Content(sv, x)
        /\ SoundnessMoved(r, sv, p, q)
    BY <1>1, <2>0, RenameIs
  <2> QED
    BY <1>1, <2>0, <2>1, MovedNoWorse DEF r, sv
<1> QED
  BY <1>5, <1>6, <1>7, <1>8

\* The others.
LEMMA OtherNoWorse ==
    ASSUME NEW i \in Slot, NEW view, Asked(i, view), ~StaleDir(i),
           call.op \in {"getattr", "mkdir", "rmdir", "utime", "readdir", "release", "releasedir"}
    PROVE  NoWorse(Request(i).server, Server(i))
<1> DEFINE sv == Server(i)
           p == call.path
           r == Request(i).server
<1>1. Tidy(sv) /\ call \in Call /\ Fits(call)
  BY AskedIs
<1>2. CASE call.op \in {"mkdir", "rmdir"}
  <2>1. p \in Dirs /\ r \in {Mkdir(sv, p).server, Rmdir(sv, p).server}
    BY <1>1, <1>2 DEF Fits, OnEntry, Request
  <2> HIDE DEF sv, p, r
  <2>2. SameSoundness(r, sv) /\ \A x \in Tree \ {p} : Content(r, x) = Content(sv, x)
    BY <1>1, <2>1, MkdirIs, RmdirIs
  <2>3. ASSUME NEW x \in Paths PROVE Spoilt(r, x) => Spoilt(sv, x)
    <3>1. (Sound(r, x) <=> Sound(sv, x)) /\ Content(r, x) = Content(sv, x)
      BY <2>1, <2>2, NamesApart DEF SameSoundness
    <3> QED
      BY <3>1 DEF Spoilt
  <2> QED
    BY <2>3 DEF NoWorse, NoneSpoilt, OneSpoilt, r, sv
<1>3. CASE call.op \in {"getattr", "utime", "readdir", "release", "releasedir"}
  <2>1. SameContents(r, sv) /\ SameSoundness(r, sv)
    <3>1. CASE call.op = "getattr"
      BY <3>1 DEF Request, Reply, SameContents, SameSoundness
    <3>2. CASE call.op = "utime"
      BY <1>1, <3>2, UtimeIs DEF Request, Fits, OnFile, Call
    <3>3. CASE call.op = "release"
      BY <1>1, <3>3, ReleaseIs DEF Request
    <3>4. CASE call.op \in {"readdir", "releasedir"}
      <4>1. Descriptor(i) \in Fds
        BY <3>4 DEF StaleDir, NoDirAt
      <4> QED
        BY <1>1, <3>4, <4>1, ReaddirIs, ReleasedirIs DEF Request, Reply, SameFiles
    <3> QED
      BY <1>3, <3>1, <3>2, <3>3, <3>4
  <2> HIDE DEF sv, r
  <2> QED
    BY <2>1, SameNoWorse DEF sv, r
<1> QED
  BY <1>2, <1>3

LEMMA RequestNoWorse ==
    ASSUME NEW i \in Slot, NEW view, Asked(i, view), Plain(i), ~StaleDir(i),
           call.op \notin {"none", "truncate"}
    PROVE  NoWorse(Request(i).server, Server(i))
<1>1. call \in Call
  BY AskedIs
<1> QED
  BY <1>1, FileNoWorse, OtherNoWorse DEF Plain, Call, OnFile, OnEntry, OnDirectory

\* A visit does something to one server.
LEMMA VisitedNoWorse ==
    ASSUME Calm, servers' = servers, NEW i \in Slot, NEW sv, OnServer(i, sv), NoWorse(sv, Server(i))
    PROVE  \A j \in Slot : NoWorse(Server(j)', Server(j))
<1>1. Server(i)' = sv /\ \A j \in Slot : j # i => Server(j)' = Server(j)
  BY OthersAnswer DEF Calm, Steady
<1> QED
  BY <1>1 DEF NoWorse

LEMMA VisitNoWorse ==
    ASSUME Calm, call.op # "truncate", NEW i \in Slot, Visit(i)
    PROVE  \A j \in Slot : NoWorse(Server(j)', Server(j))
<1>1. PICK view \in View : Before(view)
  BY DEF Calm, Steady
<1>2. ASSUME fuse.pc = "loop", fuse.i = i
      PROVE  Asked(i, view) /\ call.op # "none" /\ Fits(call) /\ Tidy(Server(i))
  BY <1>1, <1>2, AtVisit, AskedIs
<1>3. CASE Execute(i)
  <2>1. fuse.pc = "loop" /\ fuse.i = i /\ servers' = servers
    BY <1>3, AnsweredIs DEF Execute
  <2>2. NoWorse(Request(i).server, Server(i))
    BY <1>2, <1>3, <2>1, RequestNoWorse DEF Execute
  <2> QED
    BY <1>3, <2>1, <2>2, VisitedNoWorse DEF Execute
<1>4. CASE ExecuteStale(i) \/ ReadCached(i) \/ ReadServer(i)
  <2>1. fuse.pc = "loop" /\ fuse.i = i /\ servers' = servers
    BY <1>4, AnsweredIs DEF ExecuteStale, ReadCached, ReadServer
  <2>2. OnServer(i, Server(i))
    BY <1>4, <2>1, OnlyRead
  <2> QED
    BY <2>1, <2>2, VisitedNoWorse DEF NoWorse
<1>5. CASE OpenAgreed(i) \/ OpenDisagreed(i)
  <2>1. fuse.pc = "loop" /\ fuse.i = i /\ call.op = "open" /\ servers' = servers
    BY <1>5
    DEF OpenAgreed, OpenDisagreed, Opening, Requesting, Slots!Requested, Slots!AtSlot, Slots!Answered
  <2>2. PICK m \in Open(Server(i), call.path) : OnServer(i, m.server)
    BY <1>5 DEF OpenAgreed, OpenDisagreed
  <2>3. SameContents(m.server, Server(i)) /\ SameSoundness(m.server, Server(i))
    BY <1>2, <2>1, <2>2, OpenIs DEF Fits, OnFile
  <2>4. NoWorse(m.server, Server(i))
    BY <2>3, SameNoWorse
  <2> QED
    BY <2>1, <2>2, <2>4, VisitedNoWorse
<1>6. CASE OpendirDone(i)
  <2>1. fuse.pc = "loop" /\ fuse.i = i /\ call.op = "opendir" /\ servers' = servers
    BY <1>6, AnsweredIs DEF OpendirDone, Requesting
  <2>2. PICK m \in Opendir(Server(i), call.path) : OnServer(i, m.server)
    BY <1>6 DEF OpendirDone
  <2>3. SameContents(m.server, Server(i)) /\ SameSoundness(m.server, Server(i))
    BY <1>2, <2>1, <2>2, OpendirIs DEF Fits, OnDirectory, SameFiles
  <2>4. NoWorse(m.server, Server(i))
    BY <2>3, SameNoWorse
  <2> QED
    BY <2>1, <2>2, <2>4, VisitedNoWorse
<1>7. CASE Restore(i)
  <2>1. PICK t \in Slot, k \in Slot : t = repair.target /\ k = repair.source
    BY DEF Calm, Types, ClientTypes, RepairRequest
  <2>2. call.op = "open" /\ servers' = servers
    BY <1>7 DEF Restore, Repairing, Slots!Repaired
  <2> DEFINE sv == Server(t)
             source == Server(k)
             p == call.path
             r == Restored(sv, p, source, Now(t))
  <2>3. Server(t)' = r /\ \A j \in Slot : j # t => Alike(Server(j)', Server(j))
    BY <1>7, <2>1, <2>2, RestoresOne DEF Restore, Calm, Steady
  <2>4. Tidy(sv) /\ Tidy(source) /\ Like(sv, view) /\ view[p] # Absent /\ p \in Paths /\ p \in Tree
    BY <1>1, <2>2, OpeningView, NamesApart
  <2>5. Now(t) \in Times
    BY ServersAre DEF Calm, Types
  <2> HIDE DEF sv, source, p
  <2>6. Exists(sv, p)
    BY <2>4, LookUp
  <2>7. HasParent(sv, p)
    <3>1. \A q \in Paths : sv.dir[q] # NoInode => HasParent(sv, q)
      BY <2>4 DEF Tidy, HasParent
    <3> QED
      BY <2>4, <2>6, <3>1, Seen
  <2>8. /\ \A x \in Tree \ {p} : Content(r, x) = Content(sv, x)
        /\ SoundnessBut(r, sv, p, p) /\ Sound(r, p)
    BY <2>4, <2>5, <2>7, RestoredIs
  <2> HIDE DEF r
  <2>9. NoWorse(r, sv)
    BY <2>4, <2>8, OneNoWorse
  <2>10. ASSUME NEW j \in Slot, j # t PROVE NoWorse(Server(j)', Server(j))
    BY <2>3, <2>10, SameNoWorse DEF Alike
  <2> QED
    BY <2>3, <2>9, <2>10 DEF sv
<1>8. CASE UnknownHandle(i)
  BY <1>8 DEF UnknownHandle, Slots!Return, worldVars, Server, NoWorse
<1> QED
  BY <1>3, <1>4, <1>5, <1>6, <1>7, <1>8, NotReached, NoneFails, Crashed DEF Visit

LEMMA VisitFaults ==
    ASSUME Calm, NEW i \in Slot, Visit(i)
    PROVE  faults'.damage = faults.damage
<1>1. faults \in Faults
  BY DEF Calm, Steady
<1>2. CASE Execute(i)
  <2>1. faults' = [faults EXCEPT !.mixed = @ \/ Mixes(i)]
    BY <1>2 DEF Execute
  <2> HIDE DEF Mixes
  <2> QED
    BY <1>1, <2>1 DEF Faults
<1>3. CASE ~Execute(i)
  BY <1>3, NotReached, NoneFails, Crashed
  DEF Visit, UnknownHandle, ExecuteStale, OpenAgreed, OpenDisagreed, Restore, OpendirDone,
      ReadCached, ReadServer, worldVars
<1> QED
  BY <1>2, <1>3

LEMMA VisitAlone ==
    ASSUME Calm, Alone, call.op # "truncate", NEW i \in Slot, Visit(i)
    PROVE  Alone'
<1>1. ASSUME NEW j \in Slot
      PROVE  /\ NoneSpoilt(Server(j)) => NoneSpoilt(Server(j)')
             /\ OneSpoilt(Server(j)) => OneSpoilt(Server(j)')
  BY VisitNoWorse DEF NoWorse
<1>2. \A j \in Slot : /\ NoneSpoilt(Server(j))' <=> NoneSpoilt(Server(j)')
                      /\ OneSpoilt(Server(j))' <=> OneSpoilt(Server(j)')
  BY DEF NoneSpoilt, OneSpoilt, Spoilt
<1> QED
  BY <1>1, <1>2, VisitFaults DEF Alone

\* Damage spoils the copy it hits.
LEMMA DamageAlone ==
    ASSUME Calm, Alone, NEW n \in Names, NEW p \in Paths, NEW data \in Data, Damage(n, p, data)
    PROVE  Alone'
<1>1. faults'.damage = faults.damage + 1 /\ faults.damage \in Nat
  BY DamageHits DEF Calm, Steady, Faults
<1>2. CASE faults.damage # 0
  BY <1>1, <1>2 DEF Alone
<1>3. CASE faults.damage = 0
  <2>1. ASSUME NEW i \in Slot
        PROVE  /\ \A x \in Paths : Spoilt(Server(i)', x) => x = p /\ servers[i].name = n
               /\ NoneSpoilt(Server(i))
    <3> DEFINE sv == Server(i)
               r == Server(i)'
    <3>1. NoneSpoilt(sv)
      BY <1>3 DEF Alone
    <3>2. Tidy(sv)
      BY ServersAre DEF Calm, Types
    <3>3. \/ r = sv
          \/ servers[i].name = n /\ Exists(sv, p) /\ r = Damaged(sv, p, data)
      BY DamageHits
    <3> HIDE DEF sv, r
    <3>4. CASE r = sv
      BY <3>1, <3>4 DEF NoneSpoilt, sv, r
    <3>5. CASE servers[i].name = n /\ Exists(sv, p) /\ r = Damaged(sv, p, data)
      <4>1. SoundnessBut(r, sv, p, p) /\ \A x \in Tree \ {p} : Content(r, x) = Content(sv, x)
        BY <3>2, <3>5, DamagedIs
      <4>2. ASSUME NEW x \in Paths, x # p PROVE ~Spoilt(r, x)
        <5>1. (Sound(r, x) <=> Sound(sv, x)) /\ Content(r, x) = Content(sv, x)
          BY <4>1, <4>2, NamesApart DEF SoundnessBut
        <5> QED
          BY <3>1, <5>1 DEF Spoilt, NoneSpoilt
      <4> QED
        BY <3>1, <3>5, <4>2 DEF sv, r
    <3> QED
      BY <3>3, <3>4, <3>5
  <2>2. \A i, j \in Slot : i # j => servers[i].name # servers[j].name
    BY DEF Calm, Steady, AllSlotsUp
  <2>3. \A i \in Slot : OneSpoilt(Server(i))'
    BY <2>1 DEF OneSpoilt, Spoilt
  <2>4. \A i, j \in Slot : i # j => NoneSpoilt(Server(i))' \/ NoneSpoilt(Server(j))'
    BY <2>1, <2>2 DEF NoneSpoilt, Spoilt
  <2> QED
    BY <1>1, <1>3, <2>3, <2>4 DEF Alone
<1> QED
  BY <1>2, <1>3

LEMMA StepAlone ==
    ASSUME Calm, Alone, call.op # "truncate", [Next]_vars
    PROVE  Alone'
<1>2. ASSUME faults'.damage = faults.damage, \A i \in Slot : Server(i)' = Server(i) PROVE Alone'
  BY <1>2 DEF Alone, NoneSpoilt, OneSpoilt, Spoilt
<1>3. CASE Begin
  BY <1>2, <1>3, BeginIs DEF Server
<1>4. CASE Finish
  BY <1>2, <1>4 DEF Finish, Slots!Finish, worldVars, Server
<1>5. ASSUME NEW t \in Threads, ThreadStep(t) PROVE FALSE
  BY <1>5
  DEF ThreadStep, Slots!PingAnswered, Slots!PingFailed, Slots!PingGivenUp, Slots!TakeSpareName,
      Slots!LeaveSpareName, Calm, Steady, AllSlotsUp
<1>6. ~Gone
  BY DEF Gone, Slots!Gone, Calm, Alive
<1>7. ASSUME NEW n \in Names, Kill(n) \/ Cut(n) \/ Return(n) PROVE Alone'
  BY <1>2, <1>7, FaultsElsewhere DEF Unharmed
<1>8. ASSUME Quiet PROVE Alone'
  BY <1>2, <1>8, NothingHappens DEF Unharmed
<1> QED
  BY <1>3, <1>4, <1>5, <1>6, <1>7, <1>8, VisitAlone, DamageAlone DEF Next, Quiet

LEMMA InitAlone == Init => Alone
<1> SUFFICES ASSUME Init, NEW i \in Slot, NEW x \in Paths PROVE ~Spoilt(Server(i), x)
  BY DEF Alone, NoneSpoilt, OneSpoilt
<1>1. servers[i].name \in Names
  BY DEF Init, Slots!Init, Slot
<1>2. Server(i).dir[x] = NoInode
  BY <1>1 DEF Init, Server
<1> QED
  BY <1>2, NamesApart DEF Spoilt, Content, Exists

LEMMA VisitCalling ==
    ASSUME Types, NEW i \in Slot, Visit(i)
    PROVE  call'.op \in {call.op, "none"}
<1>1. call \in Call /\ NoCall.op = "none"
  BY DEF Types, CallTypes, NoCall
<1>2. CASE call' = call \/ call' = NoCall
  BY <1>1, <1>2
<1>3. CASE Execute(i) \/ ExecuteStale(i) \/ Lost(i) \/ RestoreKills(i) \/ ReadCached(i) \/ ReadServer(i)
  BY <1>1, <1>3 DEF Execute, ExecuteStale, Lost, RestoreKills, ReadCached, ReadServer, Call
<1>4. CASE PassOver(i) \/ RestoreAllDone(i) \/ RestoreAllDies(i) \/ RestoreAllLost(i)
           \/ UnknownHandle(i)
  BY <1>1, <1>2, <1>4
  DEF Call, PassOver, RestoreAllDone, RestoreAllDies, RestoreAllLost, UnknownHandle, clientVars
<1>5. CASE OpenAgreed(i) \/ OpenDisagreed(i) \/ OpenFailed(i) \/ OpenLost(i)
           \/ OpenCrashes(i) \/ Restore(i) \/ RestoreLost(i)
  BY <1>2, <1>5
  DEF OpenAgreed, OpenDisagreed, OpenFailed, OpenLost, OpenCrashes, Restore,
      RestoreLost, clientVars
<1>6. CASE OpendirDone(i) \/ OpendirMissing(i) \/ OpendirLost(i) \/ DuplicateAgain(i)
           \/ DuplicateDies(i) \/ DuplicateLost(i) \/ ReadLost(i) \/ ReadCrashes(i)
  BY <1>1, <1>2, <1>6
  DEF OpendirDone, OpendirMissing, OpendirLost, DuplicateAgain, DuplicateDies, DuplicateLost,
      ReadLost, ReadCrashes, clientVars, Call
<1> QED
  BY <1>3, <1>4, <1>5, <1>6 DEF Visit

LEMMA StepCalling ==
    ASSUME Types, Calling, [Next]_vars
    PROVE  Calling'
<1>1. call \in Call /\ NoCall.op = "none"
  BY DEF Types, CallTypes, NoCall
<1>2. CASE Begin
  BY <1>2, BeginIs DEF Calling
<1>3. ASSUME NEW n \in Names, NEW sv, World(n, sv) PROVE call'.op = call.op
  BY <1>1, <1>3 DEF World, Call
<1>4. CASE \E n \in Names : \/ Kill(n) \/ Cut(n) \/ Return(n)
                            \/ \E p \in Paths, data \in Data : Damage(n, p, data)
  BY <1>3, <1>4 DEF Kill, Cut, Fail, Return, Damage, Calling
<1>5. CASE Finish
  BY <1>1, <1>5 DEF Finish, Calling
<1>6. CASE Quiet \/ Gone \/ \E t \in Threads : ThreadStep(t)
  BY <1>6 DEF Quiet, Tick, Full, Gone, vars, clientVars, ThreadStep, Calling
<1> QED
  BY <1>2, <1>4, <1>5, <1>6, VisitCalling DEF Next, Quiet, Calling

OneDamage == faults.damage <= 1

\* Copies of a file are in different slots.
LEMMA AloneIsOne ==
    /\ Types /\ Slots!TypeOK /\ Alone /\ OneDamage => OneCopyDamaged
    /\ Types' /\ Slots!TypeOK' /\ Alone' /\ OneDamage' => OneCopyDamaged'
<1>1. Types /\ Slots!TypeOK /\ Alone /\ OneDamage => OneCopyDamaged
  <2> SUFFICES ASSUME Types, Slots!TypeOK, Alone, OneDamage,
                      NEW p \in Paths, NEW i \in Slot, NEW j \in Slot, i # j,
                      Exists(Server(i), p), Exists(Server(j), p)
               PROVE  Sound(Server(i), p) \/ Sound(Server(j), p)
    BY DEF OneCopyDamaged
  <2>1. NoneSpoilt(Server(i)) \/ NoneSpoilt(Server(j))
    BY DEF Alone, OneDamage
  <2>2. Content(Server(i), p) # Absent /\ Content(Server(j), p) # Absent
    BY ServersAre, Seen, NamesApart DEF Types
  <2> QED
    BY <2>1, <2>2 DEF NoneSpoilt, Spoilt
<1> QED
  BY <1>1, PTL

\* What is damaged stays damaged in the history, and only damage adds to it.
LEMMA DamageGrows ==
    ASSUME Calm, [Next]_vars
    PROVE  OneDamage' => OneDamage
<1>1. faults.damage \in Nat
  BY DEF Calm, Steady, Faults
<1>2. CASE Begin
  BY <1>2, BeginIs DEF OneDamage
<1>3. ASSUME NEW i \in Slot, Visit(i) PROVE faults'.damage = faults.damage
  BY <1>3, VisitFaults
<1>4. ASSUME NEW n \in Names, Kill(n) \/ Cut(n) \/ Return(n) PROVE faults'.damage = faults.damage
  BY <1>4, FaultsElsewhere DEF Unharmed
<1>5. ASSUME NEW n \in Names, NEW p \in Paths, NEW data \in Data, Damage(n, p, data)
      PROVE  faults'.damage = faults.damage + 1
  BY <1>5, DamageHits
<1>6. CASE Finish \/ Quiet \/ Gone \/ \E t \in Threads : ThreadStep(t)
  BY <1>6 DEF Finish, Quiet, Tick, Full, Gone, vars, worldVars, ThreadStep, OneDamage
<1> QED
  BY <1>1, <1>2, <1>3, <1>4, <1>5, <1>6 DEF Next, Quiet, OneDamage

\* At most one copy is spoilt, and the servers are right but for it.
AloneAndMirrored == Calling /\ (Alive => Alone) /\ (OneDamage => MirroredAlive)

\* As long as nothing is truncated one damage leaves, of any two copies of a file, one
\* sound, wherever the damaged file is renamed to: so the servers stay right, unless a
\* part of the file is written into the damaged copy.
THEOREM MirroredAfterOneDamage ==
    ASSUME N >= 2, "truncate" \notin Operations
    PROVE  Spec /\ []AllAnswer => []AloneAndMirrored
<1>1. Init => AloneAndMirrored
  BY InitAlone, InitRight DEF AloneAndMirrored, MirroredAlive, Calling, Init, NoCall
<1>2. /\ Types /\ Types' /\ Slots!TypeOK /\ Slots!TypeOK' /\ SteadyAlive /\ AllAnswer /\ AllAnswer'
      /\ HashedAlive /\ AloneAndMirrored /\ [Next]_vars
      => AloneAndMirrored'
  <2> SUFFICES ASSUME Types, Types', Slots!TypeOK, Slots!TypeOK', SteadyAlive, AllAnswer, AllAnswer',
                      HashedAlive, AloneAndMirrored, [Next]_vars
               PROVE  AloneAndMirrored'
    OBVIOUS
  <2>1. Calling' /\ call.op # "truncate"
    BY StepCalling DEF AloneAndMirrored, Calling
  <2>2. ASSUME Alive' PROVE Calm /\ Alone /\ Alone'
    <3>1. Calm
      BY <2>2, StepIsCalm
    <3>2. Alone
      BY <3>1 DEF AloneAndMirrored, Calm
    <3> QED
      BY <2>1, <3>1, <3>2, StepAlone
  <2>3. ASSUME OneDamage', Alive' PROVE MirroredAlive'
    <3>1. Calm /\ Alone /\ Alone' /\ OneDamage
      BY <2>2, <2>3, DamageGrows
    <3>2. OneCopyDamaged /\ OneCopyDamaged'
      BY <2>3, <3>1, AloneIsOne
    <3>3. MirroredAlive
      BY <3>1 DEF AloneAndMirrored
    <3> QED
      BY <3>2, <3>3, StepRight
  <2>4. OneDamage' => MirroredAlive'
    BY <2>3 DEF MirroredAlive
  <2> QED
    BY <2>1, <2>2, <2>4 DEF AloneAndMirrored
<1> QED
  BY <1>1, <1>2, StorageInvariant, StorageSlotTypes, SteadyWhileAllAnswer, HashedWhileAllAnswer, PTL
  DEF Spec

\* client_open chooses the right copy after any one damage to any file, whatever was
\* opened, written, renamed or removed before and after it, as long as nothing is
\* truncated and no part of the file is written into the damaged copy: it leaves what
\* was reported on the server that is read from.
THEOREM OpenKeepsAfterOneDamage ==
    ASSUME N >= 2, "truncate" \notin Operations
    PROVE  Spec /\ []AllAnswer => [](faults.damage <= 1 => OpenKeepsWhatWasReported)
<1>1. /\ Types /\ Slots!TypeOK /\ SteadyAlive /\ AloneAndMirrored
      => (faults.damage <= 1 => OpenKeepsWhatWasReported)
  BY OpenKeeps DEF AloneAndMirrored, OneDamage
<1> QED
  BY <1>1, StorageInvariant, StorageSlotTypes, SteadyWhileAllAnswer, MirroredAfterOneDamage, PTL

=============================================================================
