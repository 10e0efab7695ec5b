------------------------ MODULE RaidStorageSteadyProofs ------------------------
(***************************************************************************)
(* While every server of the storage answers, the mirrors agree, and the   *)
(* server that the reads ask has what was reported, until a reply without  *)
(* a NUL byte crashes the client, if one does.                             *)
(* The operations go through the slots one by one, so what is              *)
(* the same on all servers between two operations is, within one, as it    *)
(* was before it on the servers the loop has not reached and as the        *)
(* operation leaves it on the others: the inductive invariant Steady says  *)
(* that there is one such state before, which the operation was looked up  *)
(* in, and where the open handles lead on either side of the loop.  The    *)
(* invariant Streaming says the same of the handles of directories; what   *)
(* is listed follows from both.                                            *)
(***************************************************************************)
EXTENDS RaidStorageProofs

AllAnswer == \A i \in Slot : Reachable(i)

View == [Tree -> Data \cup {Absent, Directory}]

HasChildren(view, d) == \E p \in Paths : Parent[p] = d /\ view[p] # Absent
HasRoom(view, p) == Parent[p] = Root \/ view[Parent[p]] # Absent

\* What the path of the operation leads to when a server has executed it.
Becomes(view) ==
    CASE call.op \in {"mknod", "truncate"} -> Empty
      [] call.op = "write" -> IF view[call.path] \in Data
                              THEN Patched[<<view[call.path], call.data>>] ELSE view[call.path]
      [] call.op = "mkdir" -> Directory
      [] call.op \in {"unlink", "rename"} -> Absent
      [] call.op = "rmdir" -> IF HasChildren(view, call.path) THEN view[call.path] ELSE Absent
      [] OTHER -> view[call.path]

Effect(view) ==
    [x \in Tree |-> IF x = call.path THEN Becomes(view)
                    ELSE IF x = call.to THEN view[call.path] ELSE view[x]]

\* The operation was called on what its lookup found.
LookedUp(view) ==
    /\ call.op \in {"truncate", "open", "rename"} => view[call.path] # Absent
    /\ call.op = "opendir" /\ call.path # Root => view[call.path] # Absent
    /\ call.op = "mknod" => view[call.path] = Absent /\ HasRoom(view, call.path)
    /\ call.op = "rename" => HasRoom(view, call.to)

\* Damage changes contents, and nothing else.
Same(a, b) == (a = Absent <=> b = Absent) /\ (faults.damage = 0 => a = b)
Like(sv, view) == \A x \in Tree : Same(Content(sv, x), view[x])

\* Where the handles lead on a server that has not executed the operation, and on
\* one that has.
HandlesBefore ==
    [h \in Handle |-> IF call.op = "open" /\ h = call.handle THEN NoPath ELSE opened[h]]
HandlesAfter ==
    [h \in Handle |-> IF call.op = "open" /\ h = call.handle THEN call.path
                      ELSE IF call.op = "release" /\ h = call.handle THEN NoPath
                      ELSE IF call.op = "rename" /\ opened[h] = call.path THEN call.to
                      ELSE opened[h]]

\* f are the descriptors the client keeps of server sv.
Holds(sv, f, handles) ==
    /\ \A h \in Handle : handles[h] \in Paths =>
          /\ f[h] \in Fds
          /\ sv.dir[handles[h]] # NoInode
          /\ sv.open[f[h]] = sv.dir[handles[h]]
    /\ \A g, h \in Handle : g # h /\ handles[g] \in Paths /\ handles[h] \in Paths => f[g] # f[h]

Done(i) == fuse.pc = "loop" /\ i < fuse.i

AsBefore(i, view) == Like(Server(i), view) /\ Holds(Server(i), fds[i], HandlesBefore)
AsAfter(i, view) == Like(Server(i), Effect(view)) /\ Holds(Server(i), fds[i], HandlesAfter)

Before(view) ==
    /\ LookedUp(view)
    /\ faults.damage = 0 => \A x \in Tree : view[x] \in acked[x]
    /\ call.op = "rmdir" /\ call.retval = OK /\ Done(0) => ~HasChildren(view, call.path)
    /\ \A i \in Slot : IF Done(i) THEN AsAfter(i, view) ELSE AsBefore(i, view)

\* No slot has lost its server.
AllSlotsUp ==
    /\ \A i \in Slot : servers[i].state = Slots!UP
    /\ \A i, j \in Slot : i # j => servers[i].name # servers[j].name
    /\ \A t \in Threads : threads[t].pc = "none"

ModeFits == call.op \notin {"getattr", "read", "readdir", "none"} => fuse.mode = "all"

HandlesFit ==
    /\ \A h \in Handle : h >= fd_counter => opened[h] = NoPath
    /\ call.op \in {"open", "opendir"} => call.handle < fd_counter /\ opened[call.handle] = NoPath
    /\ call.op \in {"write", "release"} => opened[call.handle] = call.path
    /\ call.op \in {"unlink", "rmdir"} => ~IsOpen(call.path)
    /\ call.op = "rename" => ~IsOpen(call.to)

CallFits ==
    /\ fuse.pc = "idle" => call = NoCall
    /\ ModeFits /\ HandlesFit
    /\ call.op # "rename" => call.to = NoPath
    /\ call.op = "rename" => call.retval = OK
    /\ call.op = "open" => \A j \in Slot : j < fuse.i => msgs[j].kept
    /\ repair.on => fuse.pc = "loop" /\ call.op = "open" /\ fuse.i \in Slot

Faults == [failure : Nat, damage : Nat, mixed : BOOLEAN]

\* Nothing has crashed the client.
Alive == fuse.pc \in {"idle", "loop"}

Steady ==
    /\ faults \in Faults
    /\ AllSlotsUp /\ CallFits
    /\ \E view \in View : Before(view)

SteadyAlive == Alive => Steady

-----------------------------------------------------------------------------
(* A server and a view of it.                                               *)

LEMMA NamesApart ==
    /\ Root \notin Tree /\ NoPath \notin Tree /\ NoPath \notin Paths
    /\ Paths \subseteq Tree /\ Dirs \subseteq Tree /\ Paths \cap Dirs = {}
    /\ Absent \notin Data /\ Absent # Directory /\ Empty \in Data
  BY FileServerAssumption DEF Root, NoPath, Tree, Absent, Directory

\* What there is on a server.
LEMMA Seen ==
    ASSUME NEW sv, Tidy(sv)
    PROVE  /\ \A x \in Tree : Exists(sv, x) <=> Content(sv, x) # Absent
           /\ \A p \in Paths : Exists(sv, p) <=> sv.dir[p] # NoInode
           /\ \A d \in Dirs : Exists(sv, d) <=> d \in sv.dirs
<1>1. \A p \in Paths : sv.dir[p] # NoInode => sv.inode[sv.dir[p]].data \in Data
  BY Fields DEF Tidy, Inode
<1>2. \A p \in Paths : Exists(sv, p) <=> sv.dir[p] # NoInode
  BY NamesApart DEF Exists
<1>3. \A d \in Dirs : Exists(sv, d) <=> d \in sv.dirs
  BY DEF Exists
<1>4. \A p \in Paths : Exists(sv, p) <=> Content(sv, p) # Absent
  BY <1>1, <1>2, ContentIs, NamesApart
<1>5. \A d \in Dirs : Exists(sv, d) <=> Content(sv, d) # Absent
  BY <1>3, ContentIs, NamesApart
<1> QED
  BY <1>2, <1>3, <1>4, <1>5 DEF Tree

\* The view has the files and directories of the server.
SameTree(sv, view) == \A x \in Tree : Content(sv, x) = Absent <=> view[x] = Absent

LEMMA TreeLookUp ==
    ASSUME NEW sv, Tidy(sv), NEW view, SameTree(sv, view)
    PROVE  /\ \A x \in Tree : Exists(sv, x) <=> view[x] # Absent
           /\ \A p \in Paths : HasParent(sv, p) <=> HasRoom(view, p)
           /\ \A d \in Dirs : Children(sv, d) = {} <=> ~HasChildren(view, d)
<1>1. \A x \in Tree : Exists(sv, x) <=> view[x] # Absent
  BY Seen DEF SameTree
<1>2. \A p \in Paths : HasParent(sv, p) <=> HasRoom(view, p)
  <2>1. \A p \in Paths : Parent[p] = Root \/ Parent[p] \in Dirs
    BY FileServerAssumption DEF Root
  <2> QED
    BY <1>1, <2>1, Seen, NamesApart, Fields DEF HasParent, HasRoom, Tidy
<1>3. \A d \in Dirs : Children(sv, d) = {} <=> ~HasChildren(view, d)
  <2> SUFFICES ASSUME NEW d \in Dirs PROVE Children(sv, d) = {} <=> ~HasChildren(view, d)
    OBVIOUS
  <2>1. d # Root
    BY NamesApart
  <2>2. Children(sv, d) = {p \in Paths : Parent[p] = d /\ Exists(sv, p)}
    BY <2>1 DEF Children
  <2> QED
    BY <1>1, <2>2, NamesApart DEF HasChildren
<1> QED
  BY <1>1, <1>2, <1>3

LEMMA LookUp ==
    ASSUME NEW sv, Tidy(sv), NEW view, Like(sv, view)
    PROVE  /\ \A x \in Tree : Exists(sv, x) <=> view[x] # Absent
           /\ \A p \in Paths : HasParent(sv, p) <=> HasRoom(view, p)
           /\ \A d \in Dirs : Children(sv, d) = {} <=> ~HasChildren(view, d)
<1>1. SameTree(sv, view)
  BY DEF SameTree, Like, Same
<1> QED
  BY <1>1, TreeLookUp

LEMMA StillLike ==
    ASSUME NEW sv, NEW r, NEW view, Like(sv, view), SameContents(r, sv)
    PROVE  Like(r, view)
  BY DEF Like, SameContents

\* A request that changes one path, or the two of a rename.
LEMMA LikeChanged ==
    ASSUME NEW sv, NEW r, NEW view \in View, Like(sv, view), call.op # "rename" => call.to = NoPath,
           \A x \in Tree : x # call.path /\ x # call.to => Content(r, x) = Content(sv, x),
           call.path \in Tree => Same(Content(r, call.path), Becomes(view)),
           call.to \in Tree => Same(Content(r, call.to), view[call.path])
    PROVE  Like(r, Effect(view))
<1> SUFFICES ASSUME NEW x \in Tree PROVE Same(Content(r, x), Effect(view)[x])
  BY DEF Like
<1> QED
  BY DEF Effect, Like, Same

\* An operation that changes nothing has no effect.
LEMMA NoEffect ==
    ASSUME NEW view \in View, call.to \notin Tree,
           call.op \notin {"mknod", "truncate", "write", "mkdir", "unlink", "rename", "rmdir"}
    PROVE  Effect(view) = view
<1>1. Becomes(view) = view[call.path]
  BY DEF Becomes
<1>2. \A x \in Tree : Effect(view)[x] = view[x]
  BY <1>1 DEF Effect
<1> QED
  BY <1>2 DEF Effect, View

LEMMA EffectIs ==
    ASSUME NEW view \in View, call \in Call, Fits(call), call.op # "rename" => call.to = NoPath
    PROVE  Effect(view) \in View
<1>1. Becomes(view) \in Data \cup {Absent, Directory} \/ call.path \notin Tree
  <2>1. call.op = "write" /\ view[call.path] \in Data => Patched[<<view[call.path], call.data>>] \in Data
    BY FileServerAssumption DEF Fits
  <2> QED
    BY <2>1, NamesApart DEF Becomes, View, Call
<1>2. call.to \in Tree => view[call.path] \in Data \cup {Absent, Directory}
  BY NamesApart DEF Fits, OnFile, Tree, View
<1> QED
  BY <1>1, <1>2 DEF Effect, View

\* The handles lead where they led, on a server that has executed the operation.
LEMMA HoldsChanged ==
    ASSUME NEW sv, NEW r, NEW f, Holds(sv, f, HandlesBefore),
           \A h \in Handle : HandlesAfter[h] \in Paths =>
              /\ HandlesBefore[h] \in Paths
              /\ r.dir[HandlesAfter[h]] = sv.dir[HandlesBefore[h]]
              /\ r.open[f[h]] = sv.open[f[h]]
    PROVE  Holds(r, f, HandlesAfter)
  BY DEF Holds

-----------------------------------------------------------------------------
(* A server executes the request.                                           *)

Asked(i, view) ==
    /\ Types /\ Slots!TypeOK /\ CallFits
    /\ view \in View /\ LookedUp(view) /\ AsBefore(i, view)

\* Where the handles of an operation on no handle lead.
LEMMA OtherHandles ==
    ASSUME call.op \notin {"open", "release", "rename"}, NEW h \in Handle
    PROVE  HandlesBefore[h] = opened[h] /\ HandlesAfter[h] = opened[h]
  BY DEF HandlesBefore, HandlesAfter

\* Requests that leave every name and descriptor alone.
LEMMA SameNamesHold ==
    ASSUME NEW sv, NEW r, NEW f, Holds(sv, f, HandlesBefore), r.dir = sv.dir, r.open = sv.open,
           call.op \notin {"open", "release", "rename"}
    PROVE  Holds(r, f, HandlesAfter)
  BY OtherHandles, HoldsChanged

LEMMA AskedIs ==
    ASSUME NEW i \in Slot, NEW view, Asked(i, view)
    PROVE  /\ Tidy(Server(i)) /\ Like(Server(i), view) /\ Holds(Server(i), fds[i], HandlesBefore)
           /\ call \in Call /\ Fits(call) /\ Now(i) \in Times /\ view \in View
           /\ call.op # "rename" => call.to = NoPath
           /\ call.to \notin Paths => call.to \notin Tree
  BY ServersAre, NamesApart DEF Asked, AsBefore, Types, CallTypes, CallFits, Fits

LEMMA ChangesNothing ==
    ASSUME NEW i \in Slot, NEW view, Asked(i, view), call.op \in {"getattr", "utime", "readdir", "releasedir"},
           NEW r, SameContents(r, Server(i)), r.dir = Server(i).dir, r.open = Server(i).open
    PROVE  Like(r, Effect(view)) /\ Holds(r, fds[i], HandlesAfter)
<1>1. Effect(view) = view
  BY AskedIs, NoEffect, NamesApart
<1> QED
  BY <1>1, AskedIs, StillLike, SameNamesHold

LEMMA OnePathChanges ==
    ASSUME NEW i \in Slot, NEW view, Asked(i, view), call.op # "rename", call.path \in Tree,
           NEW r, \A x \in Tree \ {call.path} : Content(r, x) = Content(Server(i), x),
           Same(Content(r, call.path), Becomes(view))
    PROVE  Like(r, Effect(view))
  BY AskedIs, LikeChanged, NamesApart

LEMMA MknodStep ==
    ASSUME NEW i \in Slot, NEW view, Asked(i, view), call.op = "mknod"
    PROVE  Like(Request(i).server, Effect(view)) /\ Holds(Request(i).server, fds[i], HandlesAfter)
<1> DEFINE sv == Server(i)
           p == call.path
           r == Mknod(sv, p, Now(i)).server
<1>1. Request(i).server = r
  BY DEF Request
<1>2. p \in Paths /\ Tidy(sv) /\ Like(sv, view) /\ Now(i) \in Times /\ Holds(sv, fds[i], HandlesBefore)
  BY AskedIs DEF Fits, OnFile
<1>3. ~Exists(sv, p) /\ HasParent(sv, p)
  BY <1>2, LookUp, NamesApart DEF Asked, LookedUp
<1>5. /\ r.open = sv.open
      /\ \A q \in Paths \ {p} : r.dir[q] = sv.dir[q]
      /\ \A x \in Tree \ {p} : Content(r, x) = Content(sv, x)
      /\ Content(r, p) = Empty
  BY <1>2, <1>3, MknodIs
<1>6. Becomes(view) = Empty
  BY DEF Becomes
<1>7. sv.dir[p] = NoInode
  BY <1>2, <1>3, Seen
<1> HIDE DEF sv, r
<1>8. Like(r, Effect(view))
  BY <1>2, <1>5, <1>6, OnePathChanges, NamesApart DEF sv, Same
<1>9. Holds(r, fds[i], HandlesAfter)
  <2>1. \A h \in Handle : HandlesAfter[h] = opened[h] /\ HandlesBefore[h] = opened[h]
    BY OtherHandles
  <2>2. \A h \in Handle : opened[h] \in Paths => opened[h] # p
    BY <1>2, <1>7, <2>1 DEF Holds
  <2> QED
    BY <1>2, <1>5, <2>1, <2>2, HoldsChanged
<1> QED
  BY <1>1, <1>8, <1>9

LEMMA UnlinkStep ==
    ASSUME NEW i \in Slot, NEW view, Asked(i, view), call.op = "unlink"
    PROVE  Like(Request(i).server, Effect(view)) /\ Holds(Request(i).server, fds[i], HandlesAfter)
<1> DEFINE sv == Server(i)
           p == call.path
           r == Unlink(sv, p).server
<1>1. Request(i).server = r
  BY DEF Request
<1>2. p \in Paths /\ Tidy(sv) /\ Like(sv, view) /\ Holds(sv, fds[i], HandlesBefore)
  BY AskedIs DEF Fits, OnFile
<1>3. /\ r.open = sv.open
      /\ \A q \in Paths \ {p} : r.dir[q] = sv.dir[q]
      /\ \A x \in Tree \ {p} : Content(r, x) = Content(sv, x)
      /\ Content(r, p) = Absent
  BY <1>2, UnlinkIs
<1>4. Becomes(view) = Absent
  BY DEF Becomes
<1>5. \A h \in Handle : opened[h] # p
  BY DEF Asked, CallFits, HandlesFit, IsOpen, Handle
<1> HIDE DEF sv, r
<1>6. Like(r, Effect(view))
  BY <1>2, <1>3, <1>4, OnePathChanges, NamesApart DEF sv, Same
<1>7. Holds(r, fds[i], HandlesAfter)
  <2>1. \A h \in Handle : HandlesAfter[h] = opened[h] /\ HandlesBefore[h] = opened[h]
    BY OtherHandles
  <2> QED
    BY <1>2, <1>3, <1>5, <2>1, HoldsChanged
<1> QED
  BY <1>1, <1>6, <1>7

LEMMA TruncateStep ==
    ASSUME NEW i \in Slot, NEW view, Asked(i, view), call.op = "truncate"
    PROVE  Like(Request(i).server, Effect(view)) /\ Holds(Request(i).server, fds[i], HandlesAfter)
<1> DEFINE sv == Server(i)
           p == call.path
           r == Truncate(sv, p, Now(i)).server
<1>1. Request(i).server = r
  BY DEF Request
<1>2. p \in Paths /\ Tidy(sv) /\ Like(sv, view) /\ Now(i) \in Times /\ Holds(sv, fds[i], HandlesBefore)
  BY AskedIs DEF Fits, OnFile
<1>3. Exists(sv, p)
  BY <1>2, LookUp, NamesApart DEF Asked, LookedUp
<1>4. /\ r.open = sv.open /\ r.dir = sv.dir
      /\ \A x \in Tree \ {p} : Content(r, x) = Content(sv, x)
      /\ Content(r, p) = Empty
  BY <1>2, <1>3, TruncateIs DEF SameNames
<1>5. Becomes(view) = Empty
  BY DEF Becomes
<1> HIDE DEF sv, r
<1>6. Like(r, Effect(view))
  BY <1>2, <1>4, <1>5, OnePathChanges, NamesApart DEF sv, Same
<1>7. Holds(r, fds[i], HandlesAfter)
  BY <1>2, <1>4, SameNamesHold
<1> QED
  BY <1>1, <1>6, <1>7

LEMMA MkdirStep ==
    ASSUME NEW i \in Slot, NEW view, Asked(i, view), call.op = "mkdir"
    PROVE  Like(Request(i).server, Effect(view)) /\ Holds(Request(i).server, fds[i], HandlesAfter)
<1> DEFINE sv == Server(i)
           d == call.path
           r == Mkdir(sv, d).server
<1>1. Request(i).server = r
  BY DEF Request
<1>2. d \in Dirs /\ Tidy(sv) /\ Holds(sv, fds[i], HandlesBefore)
  BY AskedIs DEF Fits, OnEntry
<1>3. /\ r.open = sv.open /\ r.dir = sv.dir
      /\ \A x \in Tree \ {d} : Content(r, x) = Content(sv, x)
      /\ Content(r, d) = Directory
  BY <1>2, MkdirIs
<1>4. Becomes(view) = Directory
  BY DEF Becomes
<1> HIDE DEF sv, r
<1>5. Like(r, Effect(view))
  BY <1>2, <1>3, <1>4, OnePathChanges, NamesApart DEF sv, Same
<1>6. Holds(r, fds[i], HandlesAfter)
  BY <1>2, <1>3, SameNamesHold
<1> QED
  BY <1>1, <1>5, <1>6

LEMMA RmdirStep ==
    ASSUME NEW i \in Slot, NEW view, Asked(i, view), call.op = "rmdir"
    PROVE  /\ Like(Request(i).server, Effect(view)) /\ Holds(Request(i).server, fds[i], HandlesAfter)
           /\ Request(i).status = OK => ~HasChildren(view, call.path)
<1> DEFINE sv == Server(i)
           d == call.path
           r == Rmdir(sv, d).server
<1>1. Request(i) = Rmdir(sv, d)
  BY DEF Request
<1>2. d \in Dirs /\ d \in Tree /\ Tidy(sv) /\ Like(sv, view) /\ Holds(sv, fds[i], HandlesBefore)
  BY AskedIs, NamesApart DEF Fits, OnEntry
<1>3. /\ r.open = sv.open /\ r.dir = sv.dir
      /\ \A x \in Tree \ {d} : Content(r, x) = Content(sv, x)
      /\ Content(r, d) = IF d \in sv.dirs /\ Children(sv, d) = {} THEN Absent ELSE Content(sv, d)
      /\ Rmdir(sv, d).status = OK <=> d \in sv.dirs /\ Children(sv, d) = {}
  BY <1>2, RmdirIs
<1>4. /\ Children(sv, d) = {} <=> ~HasChildren(view, d)
      /\ d \in sv.dirs <=> Content(sv, d) # Absent
  BY <1>2, LookUp, Seen
<1>5. Becomes(view) = IF HasChildren(view, d) THEN view[d] ELSE Absent
  BY DEF Becomes
<1>6. Same(Content(sv, d), view[d])
  BY <1>2 DEF Like
<1>7. Same(Content(r, d), Becomes(view))
  BY <1>3, <1>4, <1>5, <1>6 DEF Same
<1> HIDE DEF sv, r
<1>8. Like(r, Effect(view))
  BY <1>2, <1>3, <1>7, OnePathChanges DEF sv
<1>9. Holds(r, fds[i], HandlesAfter)
  BY <1>2, <1>3, SameNamesHold
<1> QED
  BY <1>1, <1>3, <1>4, <1>8, <1>9 DEF r

LEMMA WriteStep ==
    ASSUME NEW i \in Slot, NEW view, Asked(i, view), call.op = "write"
    PROVE  Like(Request(i).server, Effect(view)) /\ Holds(Request(i).server, fds[i], HandlesAfter)
<1> DEFINE sv == Server(i)
           p == call.path
           d == Descriptor(i)
           r == Write(sv, p, d, call.data, Now(i)).server
<1>1. Request(i).server = r
  BY DEF Request
<1>2. /\ p \in Paths /\ p \in Tree /\ Tidy(sv) /\ Now(i) \in Times /\ Holds(sv, fds[i], HandlesBefore)
      /\ call.data \in Fragments /\ call.handle \in Handle /\ Like(sv, view)
  BY AskedIs, NamesApart DEF Fits, OnFile, Call
<1>3. opened[call.handle] = p
  BY DEF Asked, CallFits, HandlesFit
<1>4. d \in Fds /\ sv.open[d] # NoInode /\ sv.open[d] = sv.dir[p]
  BY <1>2, <1>3, OtherHandles DEF Holds, Descriptor
<1>5. /\ SameNames(r, sv)
      /\ \A x \in Tree \ {p} : Content(r, x) = Content(sv, x)
      /\ Content(r, p) = Patched[<<Content(sv, p), call.data>>]
  BY <1>2, <1>4, WriteIs
<1>6. Content(sv, p) \in Data /\ Content(r, p) \in Data
  <2>1. sv.inode[sv.dir[p]].data \in Data
    BY <1>2, <1>4, Fields DEF Tidy, Inode
  <2>2. Content(sv, p) \in Data
    BY <1>2, <1>4, <2>1, ContentIs
  <2> QED
    BY <1>2, <1>5, <2>2, FileServerAssumption
<1> HIDE DEF sv, d, r
<1>9. Same(Content(r, p), Becomes(view))
  <2>1. Same(Content(sv, p), view[p])
    BY <1>2 DEF Like
  <2>2. Becomes(view) = IF view[p] \in Data THEN Patched[<<view[p], call.data>>] ELSE view[p]
    BY DEF Becomes
  <2>3. view[p] \in Data => Becomes(view) \in Data
    BY <1>2, <2>2, FileServerAssumption
  <2> QED
    BY <1>5, <1>6, <2>1, <2>2, <2>3, NamesApart DEF Same
<1>7. Like(r, Effect(view))
  BY <1>2, <1>5, <1>9, OnePathChanges DEF sv
<1>8. Holds(r, fds[i], HandlesAfter)
  BY <1>2, <1>5, SameNamesHold DEF SameNames
<1> QED
  BY <1>1, <1>7, <1>8

LEMMA ReleaseStep ==
    ASSUME NEW i \in Slot, NEW view, Asked(i, view), call.op = "release"
    PROVE  Like(Request(i).server, Effect(view)) /\ Holds(Request(i).server, fds[i], HandlesAfter)
<1> DEFINE sv == Server(i)
           d == Descriptor(i)
           r == Release(sv, d).server
           f == fds[i]
<1>1. Request(i).server = r
  BY DEF Request
<1>2. /\ Tidy(sv) /\ Like(sv, view) /\ Holds(sv, f, HandlesBefore) /\ call.handle \in Handle
      /\ call.path \in Paths /\ opened[call.handle] = call.path /\ d = f[call.handle]
  BY AskedIs DEF Call, Fits, OnFile, Asked, CallFits, HandlesFit, Descriptor
<1>3. /\ r.dir = sv.dir /\ SameContents(r, sv)
      /\ \A e \in Fds \ {d} : r.open[e] = sv.open[e]
  BY <1>2, ReleaseIs
<1>4. Effect(view) = view
  BY AskedIs, NoEffect, NamesApart
<1> HIDE DEF sv, d, r, f
<1>5. Like(r, view)
  BY <1>2, <1>3, StillLike
<1>6. \A h \in Handle : /\ HandlesBefore[h] = opened[h]
                        /\ HandlesAfter[h] = IF h = call.handle THEN NoPath ELSE opened[h]
  BY DEF HandlesBefore, HandlesAfter
<1>7. ASSUME NEW h \in Handle, HandlesAfter[h] \in Paths
      PROVE  HandlesBefore[h] = HandlesAfter[h] /\ f[h] \in Fds /\ f[h] # d
  <2>1. h # call.handle /\ opened[h] \in Paths
    BY <1>6, <1>7, NamesApart
  <2> QED
    BY <1>2, <1>6, <2>1 DEF Holds
<1>8. Holds(r, f, HandlesAfter)
  BY <1>2, <1>3, <1>7, HoldsChanged
<1> QED
  BY <1>1, <1>4, <1>5, <1>8 DEF f

LEMMA RenameStep ==
    ASSUME NEW i \in Slot, NEW view, Asked(i, view), call.op = "rename"
    PROVE  /\ Like(Request(i).server, Effect(view)) /\ Holds(Request(i).server, fds[i], HandlesAfter)
           /\ Request(i).status = OK
<1> DEFINE sv == Server(i)
           p == call.path
           q == call.to
           r == Rename(sv, p, q).server
           f == fds[i]
<1>1. Request(i) = Rename(sv, p, q)
  BY DEF Request
<1>2. /\ p \in Paths /\ q \in Paths \ {p} /\ p \in Tree /\ q \in Tree
      /\ Tidy(sv) /\ Like(sv, view) /\ Holds(sv, f, HandlesBefore)
  BY AskedIs, NamesApart DEF Fits, OnFile
<1>3. Exists(sv, p) /\ HasParent(sv, q)
  BY <1>2, LookUp DEF Asked, LookedUp
<1> HIDE DEF sv, p, q, f
<1>4. /\ r.open = sv.open /\ Rename(sv, p, q).status = OK
      /\ r.dir = [sv.dir EXCEPT ![q] = sv.dir[p], ![p] = NoInode]
      /\ Content(r, q) = Content(sv, p)
      /\ Content(r, p) = Absent
      /\ \A x \in Tree \ {p, q} : Content(r, x) = Content(sv, x)
  BY <1>2, <1>3, RenameIs
<1>5. sv.dir \in [Paths -> Inodes \cup {NoInode}]
  BY <1>2, Fields DEF Tidy
<1>6. r.dir[q] = sv.dir[p] /\ \A x \in Paths \ {p, q} : r.dir[x] = sv.dir[x]
  BY <1>2, <1>4, <1>5
<1> HIDE DEF r
<1>7. Becomes(view) = Absent
  BY DEF Becomes
<1>8. Like(r, Effect(view))
  <2>1. Same(Content(r, p), Becomes(view)) /\ Same(Content(r, q), view[p])
    BY <1>2, <1>4, <1>7 DEF Same, Like
  <2>2. \A x \in Tree : x # p /\ x # q => Content(r, x) = Content(sv, x)
    BY <1>4
  <2>3. view \in View
    BY AskedIs
  <2> QED
    BY <1>2, <2>1, <2>2, <2>3, LikeChanged DEF p, q
<1>9. \A h \in Handle : /\ HandlesBefore[h] = opened[h]
                        /\ HandlesAfter[h] = IF opened[h] = p THEN q ELSE opened[h]
  BY DEF HandlesBefore, HandlesAfter, p, q
<1>10. \A h \in Handle : opened[h] # q
  BY DEF Asked, CallFits, HandlesFit, IsOpen, Handle, q
<1>11. ASSUME NEW h \in Handle, HandlesAfter[h] \in Paths
       PROVE  HandlesBefore[h] \in Paths /\ r.dir[HandlesAfter[h]] = sv.dir[HandlesBefore[h]]
  <2>1. CASE opened[h] = p
    BY <1>2, <1>6, <1>9, <2>1
  <2>2. CASE opened[h] # p
    BY <1>6, <1>9, <1>10, <1>11, <2>2
  <2> QED
    BY <2>1, <2>2
<1>12. Holds(r, f, HandlesAfter)
  BY <1>2, <1>4, <1>11, HoldsChanged
<1> QED
  BY <1>1, <1>4, <1>8, <1>12 DEF r, f

LEMMA OtherSteps ==
    ASSUME NEW i \in Slot, NEW view, Asked(i, view), ~StaleDir(i),
           call.op \in {"getattr", "utime", "readdir", "releasedir"}
    PROVE  Like(Request(i).server, Effect(view)) /\ Holds(Request(i).server, fds[i], HandlesAfter)
<1> DEFINE sv == Server(i)
           r == Request(i).server
<1>1. Tidy(sv) /\ call \in Call /\ Fits(call)
  BY AskedIs
<1>2. SameContents(r, sv) /\ r.dir = sv.dir /\ r.open = sv.open
  <2>1. CASE call.op = "getattr"
    BY <2>1 DEF Request, Reply, SameContents
  <2>2. CASE call.op = "utime"
    BY <1>1, <2>2, UtimeIs DEF Request, Fits, OnFile, Call, SameNames
  <2>3. CASE call.op \in {"readdir", "releasedir"}
    <3>1. Descriptor(i) \in Fds
      BY <2>3 DEF StaleDir, NoDirAt
    <3> QED
      BY <1>1, <2>3, <3>1, ReaddirIs, ReleasedirIs DEF Request, Reply, SameFiles
  <2> QED
    BY <2>1, <2>2, <2>3
<1> HIDE DEF r
<1> QED
  BY <1>2, ChangesNothing DEF r

\* Every request has the same effect on every server that agrees with the view.
LEMMA RequestStep ==
    ASSUME NEW i \in Slot, NEW view, Asked(i, view), Plain(i), ~StaleDir(i), call.op # "none"
    PROVE  /\ Like(Request(i).server, Effect(view)) /\ Holds(Request(i).server, fds[i], HandlesAfter)
           /\ call.op = "rename" => Request(i).status = OK
           /\ call.op = "rmdir" /\ Request(i).status = OK => ~HasChildren(view, call.path)
<1>1. call \in Call
  BY AskedIs
<1> QED
  BY <1>1, MknodStep, UnlinkStep, TruncateStep, MkdirStep, RmdirStep, WriteStep, ReleaseStep,
     RenameStep, OtherSteps
  DEF Plain, Call, OnFile, OnEntry, OnDirectory

\* The reply of server_open: the new descriptor leads to the file.
LEMMA OpenStep ==
    ASSUME NEW i \in Slot, NEW view, Asked(i, view), call.op = "open",
           NEW m \in Open(Server(i), call.path)
    PROVE  /\ Like(m.server, view)
           /\ Holds(m.server, [fds[i] EXCEPT ![call.handle] = m.status], HandlesBefore)
           /\ m.status >= 0 => Holds(m.server, [fds[i] EXCEPT ![call.handle] = m.status], HandlesAfter)
           /\ m.status < 0 => m.status = ERRHASH
<1> DEFINE sv == Server(i)
           p == call.path
           r == m.server
           f == fds[i]
           k == call.handle
           g == [f EXCEPT ![k] = m.status]
<1>1. /\ p \in Paths /\ p \in Tree /\ Tidy(sv) /\ Like(sv, view) /\ Holds(sv, f, HandlesBefore) /\ k \in Handle
  BY AskedIs, NamesApart DEF Fits, OnFile, Call
<1>2. Exists(sv, p) /\ sv.dir[p] # NoInode
  <2>1. Exists(sv, p)
    BY <1>1, LookUp DEF Asked, LookedUp
  <2> QED
    BY <1>1, <2>1, Seen
<1>3. PICK d \in Fds : /\ sv.open[d] = NoInode
                       /\ r.open = [sv.open EXCEPT ![d] = sv.dir[p]]
                       /\ m.status \in {d, ERRHASH}
  BY <1>1, <1>2, OpenIs
<1>4. r.dir = sv.dir /\ SameContents(r, sv)
  BY <1>1, OpenIs
<1>5. sv.open \in [Fds -> Inodes \cup {NoInode}]
  BY <1>1, Fields DEF Tidy
<1>6. f \in [Handle -> Fd]
  BY DEF Asked, Types, ClientTypes
<1> HIDE DEF sv, p, r, f, k
<1>7. \A h \in Handle : /\ HandlesBefore[h] = IF h = k THEN NoPath ELSE opened[h]
                        /\ HandlesAfter[h] = IF h = k THEN p ELSE opened[h]
  BY DEF HandlesBefore, HandlesAfter, p, k
<1>8. \A h \in Handle : h # k => g[h] = f[h]
  BY <1>6
<1>9. g[k] = m.status
  BY <1>1, <1>6
<1>10. ASSUME NEW h \in Handle, h # k, opened[h] \in Paths
       PROVE  /\ g[h] \in Fds /\ g[h] # d
              /\ r.dir[opened[h]] # NoInode /\ r.open[g[h]] = r.dir[opened[h]]
              /\ \A e \in Handle : e # h /\ e # k /\ opened[e] \in Paths => g[e] # g[h]
  <2>1. HandlesBefore[h] = opened[h] /\ g[h] = f[h]
    BY <1>7, <1>8, <1>10
  <2>2. f[h] \in Fds /\ sv.dir[opened[h]] # NoInode /\ sv.open[f[h]] = sv.dir[opened[h]]
    BY <1>1, <1>10, <2>1 DEF Holds
  <2>3. f[h] # d
    BY <1>3, <2>2
  <2>4. \A e \in Handle : e # h /\ e # k /\ opened[e] \in Paths => f[e] # f[h]
    BY <1>1, <1>7, <1>10, <2>1 DEF Holds
  <2> QED
    BY <1>3, <1>4, <1>5, <1>8, <2>1, <2>2, <2>3, <2>4
<1> HIDE DEF g
<1>11. Holds(r, g, HandlesBefore)
  <2>1. \A h \in Handle : HandlesBefore[h] \in Paths =>
           h # k /\ opened[h] \in Paths /\ HandlesBefore[h] = opened[h]
    BY <1>7, NamesApart
  <2>2. ASSUME NEW h \in Handle, HandlesBefore[h] \in Paths
        PROVE  /\ g[h] \in Fds /\ r.dir[HandlesBefore[h]] # NoInode
               /\ r.open[g[h]] = r.dir[HandlesBefore[h]]
    BY <1>10, <2>1, <2>2
  <2>3. ASSUME NEW e \in Handle, NEW h \in Handle, e # h,
               HandlesBefore[e] \in Paths, HandlesBefore[h] \in Paths
        PROVE  g[e] # g[h]
    BY <1>10, <2>1, <2>3
  <2> QED
    BY <2>2, <2>3 DEF Holds
<1>12. ASSUME m.status >= 0 PROVE Holds(r, g, HandlesAfter)
  <2>1. g[k] = d
    BY <1>3, <1>9, <1>12, StatusesAre
  <2>2. r.open[d] = r.dir[p] /\ r.dir[p] # NoInode
    BY <1>2, <1>3, <1>4, <1>5
  <2>3. ASSUME NEW h \in Handle, HandlesAfter[h] \in Paths
        PROVE  /\ g[h] \in Fds /\ r.dir[HandlesAfter[h]] # NoInode
               /\ r.open[g[h]] = r.dir[HandlesAfter[h]]
    <3>1. CASE h = k
      BY <1>7, <2>1, <2>2, <3>1
    <3>2. CASE h # k
      BY <1>7, <1>10, <2>3, <3>2
    <3> QED
      BY <3>1, <3>2
  <2>4. ASSUME NEW e \in Handle, NEW h \in Handle, e # h,
               HandlesAfter[e] \in Paths, HandlesAfter[h] \in Paths
        PROVE  g[e] # g[h]
    <3>1. CASE e = k
      BY <1>7, <1>10, <2>1, <2>4, <3>1
    <3>2. CASE h = k
      BY <1>7, <1>10, <2>1, <2>4, <3>2
    <3>3. CASE e # k /\ h # k
      BY <1>7, <1>10, <2>4, <3>3
    <3> QED
      BY <3>1, <3>2, <3>3
  <2> QED
    BY <2>3, <2>4 DEF Holds
<1>13. m.status < 0 => m.status = ERRHASH
  BY <1>3, StatusesAre
<1> QED
  BY <1>1, <1>4, <1>11, <1>12, <1>13, StillLike DEF g, r, f, k

-----------------------------------------------------------------------------
(* A visit takes one server from before the operation to after it.          *)

SameCall ==
    /\ call'.op = call.op /\ call'.path = call.path /\ call'.to = call.to
    /\ call'.handle = call.handle
    /\ call.op = "write" => call'.data = call.data
    /\ opened' = opened /\ acked' = acked /\ faults'.damage = faults.damage

LEMMA OperationStays ==
    ASSUME call'.op = call.op, call'.path = call.path, call'.to = call.to,
           call'.handle = call.handle, opened' = opened,
           call.op = "write" => call'.data = call.data, NEW view
    PROVE  /\ Effect(view)' = Effect(view)
           /\ HandlesBefore' = HandlesBefore /\ HandlesAfter' = HandlesAfter
           /\ LookedUp(view)' <=> LookedUp(view)
<1>1. Becomes(view)' = Becomes(view)
  BY DEF Becomes, HasChildren
<1>2. Effect(view)' = Effect(view)
  BY <1>1 DEF Effect
<1>3. HandlesBefore' = HandlesBefore /\ HandlesAfter' = HandlesAfter
  BY DEF HandlesBefore, HandlesAfter
<1>4. LookedUp(view)' <=> LookedUp(view)
  BY DEF LookedUp, HasRoom
<1> QED
  BY <1>2, <1>3, <1>4

LEMMA ViewStays ==
    ASSUME SameCall, NEW view
    PROVE  /\ Effect(view)' = Effect(view)
           /\ HandlesBefore' = HandlesBefore /\ HandlesAfter' = HandlesAfter
           /\ \A a, b : Same(a, b)' <=> Same(a, b)
           /\ LookedUp(view)' <=> LookedUp(view)
           /\ \A d : HasChildren(view, d)' <=> HasChildren(view, d)
<1>1. \A a, b : Same(a, b)' <=> Same(a, b)
  BY DEF SameCall, Same
<1> QED
  BY <1>1, OperationStays DEF SameCall, HasChildren

LEMMA MirrorStays ==
    ASSUME SameCall, NEW i \in Slot, NEW view, NEW sv, Server(i)' = sv
    PROVE  /\ Like(sv, view) /\ Holds(sv, fds'[i], HandlesBefore) => AsBefore(i, view)'
           /\ Like(sv, Effect(view)) /\ Holds(sv, fds'[i], HandlesAfter) => AsAfter(i, view)'
<1>1. Like(sv, view) => Like(Server(i), view)'
  BY ViewStays DEF Like
<1>2. Like(sv, Effect(view)) => Like(Server(i), Effect(view))'
  BY ViewStays DEF Like
<1>3. Holds(sv, fds'[i], HandlesBefore) => Holds(Server(i), fds[i], HandlesBefore)'
  BY ViewStays DEF Holds
<1>4. Holds(sv, fds'[i], HandlesAfter) => Holds(Server(i), fds[i], HandlesAfter)'
  BY ViewStays DEF Holds
<1> QED
  BY <1>1, <1>2, <1>3, <1>4 DEF AsBefore, AsAfter

LEMMA CallStillFits ==
    ASSUME CallFits, SameCall, fuse.pc = "loop", fuse'.pc = "loop", fuse'.mode = fuse.mode,
           fd_counter' = fd_counter, call.op = "rename" => call'.retval = OK,
           call.op = "open" => \A j \in Slot : j < fuse'.i => msgs'[j].kept,
           repair'.on => call.op = "open" /\ fuse'.i \in Slot
    PROVE  CallFits'
<1>1. HandlesFit'
  BY DEF CallFits, HandlesFit, SameCall, IsOpen
<1>2. ModeFits'
  BY DEF CallFits, ModeFits, SameCall
<1> QED
  BY <1>1, <1>2 DEF CallFits, SameCall

\* The slots when nothing was exchanged.
LEMMA SlotsStay ==
    ASSUME AllSlotsUp, servers' = servers, threads' = threads
    PROVE  AllSlotsUp'
  BY DEF AllSlotsUp, Slots!UP

LEMMA OthersAnswer ==
    ASSUME Types, Slots!TypeOK, AllSlotsUp, servers' = servers, NEW i \in Slot, NEW sv, OnServer(i, sv)
    PROVE  /\ Server(i)' = sv
           /\ \A j \in Slot : j # i => Server(j)' = Server(j)
<1>1. /\ server \in [Names -> FileServer]
      /\ \A j \in Slot : servers[j].name \in Names /\ (j # i => servers[j].name # servers[i].name)
  BY NamesAre DEF Types, ServerTypes, AllSlotsUp
<1> QED
  BY <1>1 DEF OnServer, Server

\* The servers of the other slots are where they were, the one of slot i is where
\* the loop is afterwards.
LEMMA VisitedOne ==
    ASSUME Types, Slots!TypeOK, Steady, NEW view \in View, Before(view), NEW i \in Slot,
           fuse.pc = "loop", fuse.i = i, fuse'.pc = "loop", fuse'.i \in {i, i + 1},
           servers' = servers, SameCall, NEW sv, OnServer(i, sv),
           \A j \in Slot : j # i => fds'[j] = fds[j],
           fuse'.i = i + 1 => Like(sv, Effect(view)) /\ Holds(sv, fds'[i], HandlesAfter),
           fuse'.i = i => Like(sv, view) /\ Holds(sv, fds'[i], HandlesBefore),
           call.op = "rmdir" /\ call'.retval = OK => ~HasChildren(view, call.path)
    PROVE  Before(view)'
<1>1. \A j \in Slot : /\ j # i => (Done(j)' <=> Done(j))
                      /\ j = i => ~Done(j) /\ (Done(j)' <=> fuse'.i = i + 1)
  BY SlotsAre DEF Done
<1>2. Server(i)' = sv /\ \A j \in Slot : j # i => Server(j)' = Server(j)
  BY OthersAnswer DEF Steady
<1>3. ASSUME NEW j \in Slot, j # i
      PROVE  (IF Done(j) THEN AsAfter(j, view) ELSE AsBefore(j, view))'
  <2>1. IF Done(j) THEN AsAfter(j, view) ELSE AsBefore(j, view)
    BY DEF Before
  <2>2. fds'[j] = fds[j] /\ Server(j)' = Server(j) /\ (Done(j)' <=> Done(j))
    BY <1>1, <1>2, <1>3
  <2>3. /\ AsBefore(j, view) => AsBefore(j, view)'
        /\ AsAfter(j, view) => AsAfter(j, view)'
    BY <2>2, MirrorStays DEF AsBefore, AsAfter
  <2> QED
    BY <2>1, <2>2, <2>3
<1>4. (IF Done(i) THEN AsAfter(i, view) ELSE AsBefore(i, view))'
  <2>1. CASE fuse'.i = i + 1
    BY <1>1, <1>2, <2>1, MirrorStays
  <2>2. CASE fuse'.i # i + 1
    BY <1>1, <1>2, <2>2, MirrorStays
  <2> QED
    BY <2>1, <2>2
<1>5. LookedUp(view)' /\ (faults'.damage = 0 => \A x \in Tree : view[x] \in acked'[x])
  BY ViewStays DEF Before, SameCall
<1>6. call'.op = "rmdir" /\ call'.retval = OK => ~HasChildren(view, call'.path)
  BY DEF SameCall
<1>7. (call.op = "rmdir" /\ call.retval = OK /\ Done(0) => ~HasChildren(view, call.path))'
  BY <1>6 DEF HasChildren
<1> QED
  BY <1>3, <1>4, <1>5, <1>7, <1>4 DEF Before

-----------------------------------------------------------------------------
(* The visits.                                                              *)

Calm == Types /\ Slots!TypeOK /\ Steady /\ AllAnswer /\ AllAnswer' /\ Alive /\ Alive'

\* What a visit finds.
LEMMA AtVisit ==
    ASSUME Calm, fuse.pc = "loop", fuse.i \in Slot, NEW view \in View, Before(view)
    PROVE  /\ Asked(fuse.i, view) /\ Reachable(fuse.i)
           /\ servers[fuse.i].state = Slots!UP /\ CallFits /\ call \in Call /\ Fits(call)
           /\ call.op # "none" /\ fuse \in Slots!Fuse /\ AllSlotsUp
<1>1. ~Done(fuse.i)
  BY SlotsAre DEF Done
<1> QED
  BY <1>1 DEF Calm, Steady, Before, Asked, AllAnswer, AllSlotsUp, Types, CallTypes, Slots!TypeOK

LEMMA SteadyStays ==
    ASSUME Calm, faults' \in Faults,
           servers' = servers, threads' = threads,
           CallFits', NEW view \in View, Before(view)'
    PROVE  Steady'
  BY SlotsStay DEF Calm, Steady

\* No slot is DOWN or STARTING, and every server answers: what an operation does
\* about these is not reached.
LEMMA NotReached ==
    ASSUME Calm, NEW i \in Slot
    PROVE  /\ ~PassOver(i) /\ ~RestoreAllDone(i) /\ ~RestoreAllDies(i) /\ ~RestoreAllLost(i)
           /\ ~Lost(i) /\ ~OpenLost(i) /\ ~OpendirLost(i) /\ ~ReadLost(i)
           /\ ~RestoreLost(i) /\ ~RestoreKills(i)
           /\ ~DuplicateAgain(i) /\ ~DuplicateDies(i) /\ ~DuplicateLost(i)
<1>1. servers[i].state = Slots!UP /\ Reachable(i)
  BY DEF Calm, Steady, AllSlotsUp, AllAnswer
<1>2. Reachable(repair.target) /\ Reachable(repair.source)
  BY DEF Calm, AllAnswer, Types, ClientTypes, RepairRequest
<1>3. repair.on => call.op = "open"
  BY DEF Calm, Steady, CallFits
<1>4. Reachable(Source(i))
  BY SourceIs DEF Calm, AllAnswer
<1>5. ~RestoreAllDies(i) /\ ~DuplicateDies(i)
  BY <1>4 DEF RestoreAllDies, DuplicateDies, DiesDuplicating
<1> QED
  BY <1>1, <1>2, <1>3, <1>5
  DEF PassOver, RestoreAllDone, RestoreAllLost, Slots!SkipDown,
      Slots!RestoreAllDone, Slots!RestoreAllLost, Slots!UP, Slots!DOWN,
      Slots!STARTING, Lost, OpenLost, OpendirLost, ReadLost, RestoreLost, RestoreKills,
      RepairTo, RepairFrom, Reachable, DuplicateAgain, DuplicateLost, Repairing

\* Nothing crashes in a step after which the client is alive.
LEMMA Crashed ==
    ASSUME Calm, NEW i \in Slot
    PROVE  ~ReadCrashes(i)
<1>1. fuse'.pc # "crashed" /\ [Slots!Idle EXCEPT !.pc = "crashed"].pc = "crashed"
  BY DEF Calm, Alive, Slots!Idle
<1> QED
  BY <1>1 DEF ReadCrashes, Slots!Crash

\* A request was answered and the loop goes on.
LEMMA AnsweredIs ==
    ASSUME Calm, NEW i \in Slot, Slots!Answered(i) \/ Slots!AnsweredLocally(i)
    PROVE  /\ fuse.pc = "loop" /\ fuse.i = i /\ fuse'.pc = "loop" /\ fuse'.i = i + 1
           /\ fuse'.mode = fuse.mode /\ servers' = servers /\ threads' = threads
<1>1. fuse \in Slots!Fuse
  BY DEF Calm, Slots!TypeOK
<1> QED
  BY <1>1
  DEF Slots!Answered, Slots!AnsweredLocally, Slots!Requested, Slots!AtSlot, Slots!Contacted,
      Slots!GoTo, Slots!Fuse

LEMMA OkIs == OK = 0 /\ OK >= 0
  BY DEF OK

LEMMA ExecuteSteady ==
    ASSUME Calm, NEW i \in Slot, Execute(i)
    PROVE  Steady'
<1>1. PICK view \in View : Before(view)
  BY DEF Calm, Steady
<1>2. /\ fuse.pc = "loop" /\ fuse.i = i /\ fuse'.pc = "loop" /\ fuse'.i = i + 1
      /\ fuse'.mode = fuse.mode /\ servers' = servers /\ threads' = threads
  BY AnsweredIs DEF Execute
<1>3. /\ Asked(i, view) /\ CallFits /\ call \in Call /\ call.op # "none" /\ AllSlotsUp
  BY <1>1, <1>2, AtVisit
<1>4. /\ Like(Request(i).server, Effect(view)) /\ Holds(Request(i).server, fds[i], HandlesAfter)
      /\ call.op = "rename" => Request(i).status = OK
      /\ call.op = "rmdir" /\ Request(i).status = OK => ~HasChildren(view, call.path)
  BY <1>3, RequestStep DEF Execute
<1>5. /\ SameCall /\ call'.retval = Result(i, Request(i).status)
      /\ fds' = fds /\ fd_counter' = fd_counter /\ repair' = repair
      /\ OnServer(i, Request(i).server)
  BY <1>3 DEF Execute, SameCall, Call
<1>6. call.op \in {"rename", "rmdir"} => call'.retval = Request(i).status
  BY <1>5 DEF Result
<1>7. Before(view)'
  BY <1>1, <1>2, <1>4, <1>5, <1>6, SlotsAre, VisitedOne DEF Calm
<1>8. call.op # "open" /\ ~repair.on
  BY <1>3 DEF Execute, Plain, CallFits
<1>9. CallFits'
  BY <1>2, <1>3, <1>4, <1>5, <1>6, <1>8, CallStillFits
<1>10. faults' \in Faults
  BY DEF Execute, Calm, Steady, Faults, Mixes
<1> QED
  BY <1>2, <1>7, <1>9, <1>10, SteadyStays

\* An answer to which the server does nothing to its files.
LEMMA OnlyRead ==
    ASSUME Calm, NEW i \in Slot, fuse.pc = "loop", servers' = servers,
           ExecuteStale(i) \/ ReadCached(i) \/ ReadServer(i)
    PROVE  OnServer(i, Server(i))
<1>1. /\ server \in [Names -> FileServer] /\ servers[i].name \in Names
      /\ Reachable(i)' /\ Tidy(Server(i))
  BY NamesAre, ServersAre DEF Calm, Types, ServerTypes, AllAnswer
<1>2. CASE ReadCached(i) \/ ReadServer(i)
  BY <1>1, <1>2 DEF ReadCached, ReadServer, worldVars, OnServer, Server
<1>3. CASE ExecuteStale(i)
  <2>1. PICK sv \in {Server(i), Killed(Server(i))} : OnServer(i, sv)
    BY <1>3 DEF ExecuteStale
  <2>2. server'[servers[i].name] = sv
    BY <1>1, <2>1 DEF OnServer
  <2>3. sv.up
    BY <1>1, <2>2 DEF Reachable, Server
  <2>4. sv = Server(i)
    BY <1>1, <2>1, <2>3, KilledIs
  <2> QED
    BY <2>1, <2>4
<1> QED
  BY <1>2, <1>3

LEMMA ReadSteady ==
    ASSUME Calm, NEW i \in Slot, ExecuteStale(i) \/ ReadCached(i) \/ ReadServer(i)
    PROVE  Steady'
<1>1. PICK view \in View : Before(view)
  BY DEF Calm, Steady
<1>2. /\ fuse.pc = "loop" /\ fuse.i = i /\ fuse'.pc = "loop" /\ fuse'.i = i + 1
      /\ fuse'.mode = fuse.mode /\ servers' = servers /\ threads' = threads
  BY AnsweredIs DEF ExecuteStale, ReadCached, ReadServer
<1>3. /\ Asked(i, view) /\ CallFits /\ call \in Call /\ call.op # "none" /\ AllSlotsUp
  BY <1>1, <1>2, AtVisit
<1>4. call.op \in {"read", "readdir", "releasedir"}
  BY DEF ExecuteStale, StaleDir, ReadCached, ReadServer, Reading
<1>5. OnServer(i, Server(i))
  BY <1>2, OnlyRead
<1>6. SameCall /\ fds' = fds /\ fd_counter' = fd_counter /\ repair' = repair
  BY <1>3, <1>4 DEF ExecuteStale, ReadCached, ReadServer, SameCall, Call, worldVars
<1>7. Like(Server(i), Effect(view)) /\ Holds(Server(i), fds[i], HandlesAfter)
  <2>1. Effect(view) = view
    BY <1>3, <1>4, AskedIs, NoEffect, NamesApart
  <2> QED
    BY <1>3, <1>4, <2>1, AskedIs, SameNamesHold
<1>8. Before(view)'
  BY <1>1, <1>2, <1>4, <1>5, <1>6, <1>7, SlotsAre, VisitedOne DEF Calm
<1>9. CallFits'
  BY <1>2, <1>3, <1>4, <1>6, CallStillFits DEF CallFits
<1>10. faults' \in Faults
  BY DEF ExecuteStale, ReadCached, ReadServer, worldVars, Calm, Steady
<1> QED
  BY <1>2, <1>8, <1>9, <1>10, SteadyStays

LEMMA OpenSteady ==
    ASSUME Calm, NEW i \in Slot, OpenAgreed(i) \/ OpenDisagreed(i)
    PROVE  Steady'
<1>1. PICK view \in View : Before(view)
  BY DEF Calm, Steady
<1>2. call.op = "open" /\ ~repair.on /\ Slots!Requested(i)
  BY DEF OpenAgreed, OpenDisagreed, Opening, Requesting
<1>3. fuse.pc = "loop" /\ fuse.i = i
  BY <1>2 DEF Slots!Requested, Slots!AtSlot
<1>4. Asked(i, view) /\ CallFits /\ call \in Call /\ AllSlotsUp /\ ClientTypes
  BY <1>1, <1>3, AtVisit DEF Calm, Types
<1>5. PICK m \in Open(Server(i), call.path) :
         /\ OnServer(i, m.server)
         /\ msgs' = [msgs EXCEPT ![i] = Kept(m)]
         /\ fds' = WithFd(i, m.status)
         /\ OpenAgreed(i) => m.status >= 0
  BY DEF OpenAgreed, OpenDisagreed
<1>6. /\ Like(m.server, view)
      /\ Holds(m.server, [fds[i] EXCEPT ![call.handle] = m.status], HandlesBefore)
      /\ m.status >= 0 => Holds(m.server, [fds[i] EXCEPT ![call.handle] = m.status], HandlesAfter)
  BY <1>2, <1>4, <1>5, OpenStep
<1>7. /\ fds'[i] = [fds[i] EXCEPT ![call.handle] = m.status]
      /\ \A j \in Slot : j # i => fds'[j] = fds[j]
  BY <1>4, <1>5 DEF WithFd, ClientTypes
<1>8. Effect(view) = view
  BY <1>2, <1>4, AskedIs, NoEffect, NamesApart
<1>9. SameCall /\ fd_counter' = fd_counter /\ servers' = servers /\ threads' = threads
  BY DEF OpenAgreed, OpenDisagreed, SameCall, Slots!Answered
<1>10. /\ fuse'.pc = "loop" /\ fuse'.mode = fuse.mode
       /\ IF OpenAgreed(i) THEN fuse'.i = i + 1 /\ repair' = repair ELSE fuse'.i = i
  <2>1. CASE OpenAgreed(i)
    BY <2>1, AnsweredIs DEF OpenAgreed
  <2>2. CASE ~OpenAgreed(i)
    BY <1>3, <2>2 DEF OpenDisagreed
  <2> QED
    BY <2>1, <2>2
<1>11. Before(view)'
  <2>1. fuse'.i = i + 1 => OpenAgreed(i)
    BY <1>10, SlotsAre
  <2>2. /\ fuse'.i = i + 1 => Like(m.server, Effect(view)) /\ Holds(m.server, fds'[i], HandlesAfter)
        /\ fuse'.i = i => Like(m.server, view) /\ Holds(m.server, fds'[i], HandlesBefore)
    BY <1>5, <1>6, <1>7, <1>8, <2>1
  <2> QED
    BY <1>1, <1>2, <1>3, <1>5, <1>7, <1>9, <1>10, <2>2, VisitedOne DEF Calm
<1>12. \A j \in Slot : j < fuse'.i => msgs'[j].kept
  <2>1. msgs'[i].kept /\ \A j \in Slot : j # i => msgs'[j] = msgs[j]
    BY <1>4, <1>5 DEF ClientTypes, Kept
  <2>2. \A j \in Slot : j < fuse'.i /\ j # i => j < fuse.i
    BY <1>3, <1>10, SlotsAre
  <2> QED
    BY <1>2, <1>4, <2>1, <2>2 DEF CallFits
<1>13. CallFits'
  BY <1>2, <1>3, <1>4, <1>9, <1>10, <1>12, CallStillFits
<1>14. faults' \in Faults
  BY DEF OpenAgreed, OpenDisagreed, Calm, Steady
<1> QED
  BY <1>9, <1>10, <1>11, <1>13, <1>14, SteadyStays

LEMMA NoneFails ==
    ASSUME Calm, NEW i \in Slot
    PROVE  ~OpenFailed(i) /\ ~OpenCrashes(i) /\ ~OpendirMissing(i)
<1>1. PICK view \in View : Before(view)
  BY DEF Calm, Steady
<1>2. ASSUME fuse.pc = "loop", fuse.i = i
      PROVE  Asked(i, view) /\ CallFits /\ Fits(call)
  BY <1>1, <1>2, AtVisit
<1>3. ~OpenFailed(i)
  <2> SUFFICES ASSUME OpenFailed(i) PROVE FALSE
    OBVIOUS
  <2>1. call.op = "open" /\ fuse.pc = "loop" /\ fuse.i = i
    BY DEF OpenFailed, Opening, Requesting, Slots!Requested, Slots!AtSlot
  <2>2. PICK m \in Open(Server(i), call.path) : m.status < 0 /\ m.status # ERRHASH
    BY DEF OpenFailed
  <2> QED
    BY <1>2, <2>1, <2>2, OpenStep
<1>4. ~OpenCrashes(i)
  <2> SUFFICES ASSUME OpenCrashes(i) PROVE FALSE
    OBVIOUS
  <2>1. call.op = "open" /\ fuse.pc = "loop" /\ fuse.i = i /\ i # 0 /\ ~msgs[i - 1].kept
    BY DEF OpenCrashes, Opening, Requesting, Slots!Requested, Slots!AtSlot, Comparable
  <2>2. i - 1 \in Slot /\ i - 1 < fuse.i
    BY <2>1, SlotsAre
  <2> QED
    BY <1>2, <2>1, <2>2 DEF CallFits
<1>6. ~OpendirMissing(i)
  <2> SUFFICES ASSUME OpendirMissing(i) PROVE FALSE
    OBVIOUS
  <2>1. call.op = "opendir" /\ fuse.pc = "loop" /\ fuse.i = i
    BY DEF OpendirMissing, Requesting, Slots!Requested, Slots!AtSlot
  <2>2. PICK m \in Opendir(Server(i), call.path) : m.status < 0
    BY DEF OpendirMissing
  <2>3. Tidy(Server(i)) /\ Like(Server(i), view) /\ LookedUp(view) /\ call.path \in Dirs \cup {Root}
    BY <1>2, <2>1, AskedIs DEF Asked, Fits, OnDirectory
  <2>4. call.path # Root => call.path \in Server(i).dirs
    BY <2>1, <2>3, LookUp, Seen, NamesApart DEF LookedUp
  <2>5. m.status \in Fds
    BY <2>2, <2>4 DEF Opendir, LowestFd, FreeFds, Reply
  <2> QED
    BY <2>2, <2>5, FileServerAssumption DEF Fds
<1> QED
  BY <1>3, <1>4, <1>6

LEMMA OpendirSteady ==
    ASSUME Calm, NEW i \in Slot, OpendirDone(i)
    PROVE  Steady'
<1>1. PICK view \in View : Before(view)
  BY DEF Calm, Steady
<1>2. /\ fuse.pc = "loop" /\ fuse.i = i /\ fuse'.pc = "loop" /\ fuse'.i = i + 1
      /\ fuse'.mode = fuse.mode /\ servers' = servers /\ threads' = threads
  BY AnsweredIs DEF OpendirDone
<1>3. /\ Asked(i, view) /\ CallFits /\ call \in Call /\ AllSlotsUp /\ call.op = "opendir"
      /\ ClientTypes /\ call.path \in Dirs \cup {Root} /\ call.handle \in Handle
  BY <1>1, <1>2, AtVisit DEF OpendirDone, Requesting, Calm, Types, Fits, OnDirectory, Call
<1>4. PICK m \in Opendir(Server(i), call.path) : OnServer(i, m.server) /\ fds' = WithFd(i, m.status)
  BY DEF OpendirDone
<1>5. /\ Tidy(Server(i)) /\ Like(Server(i), view) /\ Holds(Server(i), fds[i], HandlesBefore)
  BY <1>3, AskedIs
<1>6. /\ SameContents(m.server, Server(i)) /\ m.server.dir = Server(i).dir
      /\ m.server.open = Server(i).open
  BY <1>3, <1>4, <1>5, OpendirIs DEF SameFiles
<1>7. Effect(view) = view
  BY <1>3, AskedIs, NoEffect, NamesApart
<1>8. Like(m.server, Effect(view))
  BY <1>5, <1>6, <1>7, StillLike
<1>9. /\ \A j \in Slot : j # i => fds'[j] = fds[j]
      /\ \A h \in Handle : h # call.handle => fds'[i][h] = fds[i][h]
  BY <1>3, <1>4 DEF WithFd, ClientTypes
<1>10. Holds(m.server, fds'[i], HandlesAfter)
  <2>1. opened[call.handle] = NoPath
    BY <1>3 DEF CallFits, HandlesFit
  <2>2. \A h \in Handle : /\ HandlesBefore[h] = opened[h] /\ HandlesAfter[h] = opened[h]
                          /\ opened[h] \in Paths => h # call.handle
    BY <1>3, <2>1, OtherHandles, NamesApart
  <2> QED
    BY <1>5, <1>6, <1>9, <2>2 DEF Holds
<1>11. SameCall /\ fd_counter' = fd_counter /\ repair' = repair /\ ~repair.on
  BY DEF OpendirDone, SameCall, Requesting
<1>12. Before(view)'
  BY <1>1, <1>2, <1>3, <1>4, <1>8, <1>9, <1>10, <1>11, SlotsAre, VisitedOne DEF Calm
<1>13. CallFits'
  BY <1>2, <1>3, <1>11, CallStillFits
<1>14. faults' \in Faults
  BY DEF OpendirDone, Calm, Steady
<1> QED
  BY <1>2, <1>12, <1>13, <1>14, SteadyStays

-----------------------------------------------------------------------------
(* client_open has a copy restored.                                         *)

\* While a file is opened all servers have the same files.
LEMMA OpeningView ==
    ASSUME Calm, call.op = "open", NEW view \in View, Before(view), NEW j \in Slot
    PROVE  /\ Tidy(Server(j)) /\ Like(Server(j), view) /\ Holds(Server(j), fds[j], HandlesBefore)
           /\ Done(j) => Holds(Server(j), fds[j], HandlesAfter)
           /\ Effect(view) = view /\ view[call.path] # Absent /\ call.path \in Paths
<1>1. call.path \in Paths /\ call.to = NoPath /\ Tidy(Server(j))
  BY ServersAre DEF Calm, Types, CallTypes, Fits, OnFile, Steady, CallFits
<1>2. Effect(view) = view
  BY <1>1, NoEffect, NamesApart
<1>3. Like(Server(j), view)
  BY <1>2 DEF Before, AsBefore, AsAfter
<1>4. \A h \in Handle : HandlesBefore[h] \in Paths => HandlesAfter[h] = HandlesBefore[h]
  BY NamesApart DEF HandlesBefore, HandlesAfter
<1>5. Holds(Server(j), fds[j], HandlesAfter) => Holds(Server(j), fds[j], HandlesBefore)
  BY <1>4 DEF Holds
<1> QED
  BY <1>1, <1>2, <1>3, <1>5 DEF Before, AsBefore, AsAfter, LookedUp

\* A server that only keeps more FILEs open.
Alike(r, sv) ==
    /\ SameContents(r, sv) /\ SameSoundness(r, sv)
    /\ r.dir = sv.dir /\ r.open = sv.open /\ r.stream = sv.stream

\* One copy is replaced; the server it comes from keeps the file open.
LEMMA RestoresOne ==
    ASSUME Types, Slots!TypeOK, AllSlotsUp, servers' = servers, NEW t \in Slot, t = repair.target,
           repair.source \in Slot, Restores(Now(repair.target))
    PROVE  /\ Server(t)' = Restored(Server(t), call.path, Server(repair.source), Now(t))
           /\ \A j \in Slot : j # t => Alike(Server(j)', Server(j))
<1>0. PICK k \in Slot : k = repair.source
  OBVIOUS
<1> DEFINE r == Restored(Server(t), call.path, Server(k), Now(t))
<1>1. PICK read \in ReadAll(Server(k), {call.path}) : OnServers(t, r, k, read)
  BY <1>0 DEF Restores, RepairTo, RepairFrom
<1>2. servers[t].name # servers[k].name
  BY <1>0 DEF Restores, Fetches
<1>3. /\ server \in [Names -> FileServer] /\ Tidy(Server(k))
      /\ \A j \in Slot : servers[j].name \in Names /\ (j # t => servers[j].name # servers[t].name)
                          /\ (j # k => servers[j].name # servers[k].name)
  BY NamesAre, ServersAre DEF Types, ServerTypes, AllSlotsUp
<1> HIDE DEF r
<1>4. server' = [server EXCEPT ![servers[t].name] = r, ![servers[k].name] = read]
  BY <1>1 DEF OnServers
<1>5. Server(t)' = r
  BY <1>2, <1>3, <1>4 DEF Server
<1>6. Server(k)' = read
  BY <1>2, <1>3, <1>4 DEF Server
<1>7. \A j \in Slot : j # t /\ j # k => Server(j)' = Server(j)
  BY <1>2, <1>3, <1>4 DEF Server
<1>8. Alike(read, Server(k))
  BY <1>1, <1>3, ReadAllIs DEF Alike, SameNames
<1>9. \A j \in Slot : j # t => Alike(Server(j)', Server(j))
  <2> SUFFICES ASSUME NEW j \in Slot, j # t PROVE Alike(Server(j)', Server(j))
    OBVIOUS
  <2>1. CASE j = k
    BY <1>6, <1>8, <2>1
  <2>2. CASE j # k
    <3>1. Server(j)' = Server(j)
      BY <1>7, <2>2
    <3> QED
      BY <3>1 DEF Alike, SameContents, SameSoundness
  <2> QED
    BY <2>1, <2>2
<1> QED
  BY <1>0, <1>5, <1>9 DEF r

LEMMA RestoreSteady ==
    ASSUME Calm, NEW i \in Slot, Restore(i)
    PROVE  Steady'
<1>0. PICK t \in Slot : t = repair.target
  BY DEF Calm, Types, ClientTypes, RepairRequest
<1> DEFINE sv == Server(t)
           source == Server(repair.source)
           p == call.path
           r == Restored(sv, p, source, Now(t))
           k == repair.source
<1>1. PICK view \in View : Before(view)
  BY DEF Calm, Steady
<1>2. /\ call.op = "open" /\ k \in Slot /\ Now(t) \in Times
      /\ call \in Call /\ CallFits /\ fuse \in Slots!Fuse /\ AllSlotsUp
  BY ServersAre
  DEF Restore, Repairing, Calm, Types, ClientTypes, CallTypes, RepairRequest, ServerTypes, Steady,
      Slots!TypeOK
<1>3. /\ fuse.pc = "loop" /\ fuse.i = i /\ fuse'.pc = "loop" /\ fuse'.mode = fuse.mode
      /\ fuse'.i = t /\ t <= i /\ servers' = servers /\ threads' = threads
  BY <1>0, <1>2, SlotsAre
  DEF Restore, Slots!Repaired, Slots!Requested, Slots!AtSlot, Slots!Contacted, Slots!Fuse
<1>4. SameCall /\ fds' = fds /\ fd_counter' = fd_counter /\ msgs' = msgs /\ ~repair'.on
  BY DEF Restore, SameCall, NoRepair
<1>5. /\ Server(t)' = r
      /\ \A j \in Slot : j # t => Alike(Server(j)', Server(j))
  BY <1>0, <1>2, <1>3, RestoresOne DEF Calm, Restore
<1>6. /\ Tidy(sv) /\ Like(sv, view) /\ Holds(sv, fds[t], HandlesBefore)
      /\ Tidy(source) /\ Like(source, view) /\ view[p] # Absent /\ p \in Paths /\ p \in Tree
  BY <1>1, <1>2, OpeningView, NamesApart
<1>7. Exists(sv, p) /\ Exists(source, p) /\ HasParent(sv, p)
  <2>1. Exists(sv, p) /\ Exists(source, p)
    BY <1>6, LookUp
  <2>2. \A q \in Paths : sv.dir[q] # NoInode => HasParent(sv, q)
    BY <1>6 DEF Tidy, HasParent
  <2> QED
    BY <1>6, <2>1, <2>2, Seen
<1>8. /\ r.open = sv.open /\ r.dir = sv.dir
      /\ Content(r, p) = Content(source, p)
      /\ \A x \in Tree \ {p} : Content(r, x) = Content(sv, x)
  BY <1>2, <1>6, <1>7, RestoredIs
<1> HIDE DEF sv, source, p, r, k
<1>9. Like(r, view)
  BY <1>6, <1>8 DEF Like
<1>10. Holds(r, fds[t], HandlesBefore)
  BY <1>6, <1>8 DEF Holds
<1>11. ASSUME NEW j \in Slot
       PROVE  (IF Done(j) THEN AsAfter(j, view) ELSE AsBefore(j, view))'
  <2>1. Done(j)' <=> j < t
    BY <1>3 DEF Done
  <2>2. j < t => Done(j)
    BY <1>2, <1>3, SlotsAre DEF Done
  <2>3. CASE j = t
    <3>1. AsBefore(j, view)'
      BY <1>4, <1>5, <1>9, <1>10, <2>3, MirrorStays
    <3>2. ~(j < t)
      BY <1>2, <2>3, SlotsAre
    <3> QED
      BY <2>1, <3>1, <3>2
  <2>4. CASE j # t
    <3>1. /\ Like(Server(j), view) /\ Holds(Server(j), fds[j], HandlesBefore)
          /\ Done(j) => Holds(Server(j), fds[j], HandlesAfter)
          /\ Effect(view) = view
      BY <1>1, <1>2, OpeningView
    <3>3. Alike(Server(j)', Server(j))
      BY <1>5, <2>4
    <3>4. /\ Like(Server(j)', view) /\ Holds(Server(j)', fds[j], HandlesBefore)
          /\ Done(j) => Holds(Server(j)', fds[j], HandlesAfter)
      BY <3>1, <3>3, StillLike DEF Alike, Holds
    <3>2. AsBefore(j, view)' /\ (Done(j) => AsAfter(j, view)')
      BY <1>4, <3>1, <3>4, MirrorStays
    <3> QED
      BY <2>1, <2>2, <3>2
  <2> QED
    BY <2>3, <2>4
<1>12. LookedUp(view)' /\ (faults'.damage = 0 => \A x \in Tree : view[x] \in acked'[x])
  BY <1>1, <1>4, ViewStays DEF Before, SameCall
<1>13. Before(view)'
  BY <1>2, <1>4, <1>11, <1>12 DEF Before, SameCall
<1>14. \A j \in Slot : j < fuse'.i => msgs'[j].kept
  <2>1. \A j \in Slot : j < fuse'.i => j < fuse.i
    BY <1>2, <1>3, SlotsAre
  <2> QED
    BY <1>2, <1>4, <2>1 DEF CallFits
<1>15. CallFits'
  BY <1>2, <1>3, <1>4, <1>14, CallStillFits
<1>16. faults' \in Faults
  BY DEF Restore, Calm, Steady
<1> QED
  BY <1>3, <1>13, <1>15, <1>16, SteadyStays

-----------------------------------------------------------------------------
(* An operation begins and ends.                                            *)

\* Between two operations all servers have the same files, whatever happened.
LEMMA RestsSteady ==
    ASSUME Calm, fuse'.pc = "idle", call' = NoCall, faults' = faults, servers' = servers,
           threads' = threads, server' = server, fds' = fds, fd_counter' = fd_counter, ~repair'.on,
           NEW view \in View,
           \A i \in Slot : Like(Server(i), view) /\ Holds(Server(i), fds[i], opened'),
           faults.damage = 0 => \A x \in Tree : view[x] \in acked'[x],
           \A h \in Handle : h >= fd_counter => opened'[h] = NoPath
    PROVE  Steady'
<1>1. call'.op = "none" /\ call'.to = NoPath
  BY DEF NoCall
<1>2. CallFits'
  BY <1>1 DEF CallFits, ModeFits, HandlesFit
<1>3. ASSUME NEW i \in Slot PROVE ~Done(i)' /\ AsBefore(i, view)'
  <2>1. Server(i)' = Server(i)
    BY DEF Server
  <2>2. \A h \in Handle : HandlesBefore'[h] = opened'[h]
    BY <1>1 DEF HandlesBefore
  <2>3. Like(Server(i), view)'
    BY <2>1 DEF Like, Same
  <2>4. Holds(Server(i), fds[i], HandlesBefore)'
    BY <2>1, <2>2 DEF Holds
  <2> QED
    BY <2>3, <2>4 DEF Done, AsBefore
<1>4. Before(view)'
  BY <1>1, <1>3 DEF Before, LookedUp
<1>5. faults' \in Faults
  BY DEF Calm, Steady
<1> QED
  BY <1>2, <1>4, <1>5, SteadyStays

\* Every server knows the handles of the files, so what is not known is a directory,
\* or a file that is read.
LEMMA UnknownHandleIs ==
    ASSUME Calm, NEW i \in Slot, UnknownHandle(i)
    PROVE  fuse.pc = "loop" /\ fuse.i = i /\ call.op \in {"read", "readdir", "releasedir"}
<1>1. PICK view \in View : Before(view)
  BY DEF Calm, Steady
<1>2. fuse.pc = "loop" /\ fuse.i = i
  BY DEF UnknownHandle, Slots!Return, Slots!Requested, Slots!AtSlot
<1>3. /\ Asked(i, view) /\ CallFits /\ call \in Call /\ Fits(call)
  BY <1>1, <1>2, AtVisit
<1>4. call.op \notin {"write", "release"}
  <2> SUFFICES ASSUME call.op \in {"write", "release"} PROVE FALSE
    OBVIOUS
  <2>1. call.handle \in Handle /\ HandlesBefore[call.handle] \in Paths
    BY <1>3, SlotsAre DEF Call, CallFits, HandlesFit, Fits, OnFile, HandlesBefore
  <2>2. Descriptor(i) \in Fds
    BY <1>3, <2>1, AskedIs DEF Holds, Descriptor
  <2> QED
    BY <2>2, StatusesAre, FileServerAssumption DEF UnknownHandle, NoFd, Fds
<1> QED
  BY <1>2, <1>4 DEF UnknownHandle, UsesHandle

LEMMA UnknownHandleSteady ==
    ASSUME Calm, NEW i \in Slot, UnknownHandle(i)
    PROVE  Steady'
<1>1. PICK view \in View : Before(view)
  BY DEF Calm, Steady
<1>2. fuse.pc = "loop" /\ fuse.i = i /\ call.op \in {"read", "readdir", "releasedir"}
  BY UnknownHandleIs
<1>3. /\ Asked(i, view) /\ CallFits /\ call \in Call /\ Fits(call)
  BY <1>1, <1>2, AtVisit
<1>4. call.op \notin {"write", "release"}
  BY <1>2
<1>5. call.op \in {"read", "readdir", "releasedir"} /\ ~repair.on
  BY <1>2, <1>3 DEF CallFits
<1>6. Effect(view) = view /\ \A h \in Handle : HandlesBefore[h] = opened[h] /\ HandlesAfter[h] = opened[h]
  BY <1>3, <1>5, AskedIs, NoEffect, OtherHandles, NamesApart
<1>7. \A h \in Handle : opened'[h] = opened[h] \/ opened'[h] = NoPath
  BY DEF UnknownHandle, Calm, Types, ClientTypes
<1>8. ASSUME NEW j \in Slot PROVE Like(Server(j), view) /\ Holds(Server(j), fds[j], opened')
  <2>1. Like(Server(j), view) /\ Holds(Server(j), fds[j], opened)
    BY <1>1, <1>6 DEF Before, AsBefore, AsAfter, Holds
  <2> QED
    BY <1>7, <2>1, NamesApart DEF Holds
<1>9. /\ fuse'.pc = "idle" /\ call' = NoCall /\ servers' = servers /\ threads' = threads
      /\ server' = server /\ fds' = fds /\ fd_counter' = fd_counter /\ faults' = faults
      /\ ~repair'.on /\ acked' = acked
  BY <1>4, <1>5 DEF UnknownHandle, Slots!Return, Slots!Idle, worldVars
<1>10. faults.damage = 0 => \A x \in Tree : view[x] \in acked'[x]
  BY <1>1, <1>9 DEF Before
<1>11. \A h \in Handle : h >= fd_counter => opened'[h] = NoPath
  BY <1>3, <1>7 DEF CallFits, HandlesFit
<1> QED
  BY <1>8, <1>9, <1>10, <1>11, RestsSteady

\* The loop of an operation that changes something has been at every slot.
LEMMA LoopHasBeen ==
    ASSUME Calm, Slots!LoopEnded, NEW view \in View
    PROVE  /\ \/ \A i \in Slot : Done(i)
              \/ Effect(view) = view /\ call.op \in {"getattr", "read", "readdir"}
           /\ call.op \in Changes => Done(0)
           /\ call.op \notin Changes => Effect(view) = view
           /\ ~repair.on
<1>1. /\ fuse.pc = "loop" /\ fuse.i = Slots!Limit /\ fuse \in Slots!Fuse /\ CallFits
      /\ call \in Call /\ Fits(call) /\ call.op # "none"
  BY DEF Calm, Slots!LoopEnded, Slots!TypeOK, Steady, Types, CallTypes
<1>2. call.op \notin Changes => Effect(view) = view
  BY <1>1, NoEffect, NamesApart DEF Changes, CallFits
<1>3. CASE fuse.mode = "all"
  <2>1. fuse.i = N
    BY <1>1, <1>3 DEF Slots!Limit
  <2>2. \A i \in Slot : Done(i)
    BY <1>1, <2>1, SlotsAre DEF Done
  <2>3. ~repair.on
    BY <1>1, <2>1, SlotsAre DEF CallFits
  <2> QED
    BY <1>2, <2>2, <2>3, SlotsAre
<1>4. CASE fuse.mode # "all"
  <2>1. call.op \in {"getattr", "read", "readdir"}
    BY <1>1, <1>4 DEF CallFits, ModeFits, Call
  <2>2. Effect(view) = view /\ ~repair.on /\ call.op \notin Changes
    BY <1>1, <1>2, <2>1 DEF Changes, CallFits
  <2> QED
    BY <2>1, <2>2
<1> QED
  BY <1>3, <1>4

\* When the loop has ended every server is where the operation takes it.
LEMMA LoopLeaves ==
    ASSUME Calm, Slots!LoopEnded, NEW view \in View, Before(view)
    PROVE  \A i \in Slot : Like(Server(i), Effect(view)) /\ Holds(Server(i), fds[i], HandlesAfter)
<1>1. CASE \A i \in Slot : Done(i)
  BY <1>1 DEF Before, AsAfter
<1>2. CASE Effect(view) = view /\ call.op \in {"getattr", "read", "readdir"}
  <2>1. \A h \in Handle : HandlesBefore[h] = HandlesAfter[h]
    BY <1>2, OtherHandles
  <2> QED
    BY <1>2, <2>1 DEF Before, AsBefore, AsAfter, Holds
<1> QED
  BY <1>1, <1>2, LoopHasBeen

\* What the operation left is what it reports.
LEMMA LeftIsReported ==
    ASSUME Calm, Slots!LoopEnded, NEW view \in View, \A y \in Tree : view[y] \in acked[y],
           call.op = "rmdir" /\ call.retval = OK => ~HasChildren(view, call.path),
           call.op = "write" => view[call.path] \in Data, NEW x \in Tree
    PROVE  Effect(view)[x] \in Reported[x]
<1>1. \A y \in Tree : view[y] \in acked[y]
  OBVIOUS
<1>2. CASE call.op \notin Changes
  <2>1. call.to \notin Tree
    BY <1>2, NamesApart DEF Changes, Calm, Steady, CallFits
  <2>2. Effect(view) = view
    BY <1>2, <2>1, NoEffect DEF Changes
  <2> QED
    BY <1>1, <1>2, <2>2 DEF Reported
<1>3. CASE call.op \in Changes
  <2>1. /\ Reported[x] = IF x = call.path THEN Either(acked[x], Outcome(acked[x]))
                         ELSE IF x = call.to THEN Either(acked[x], acked[call.path]) ELSE acked[x]
        /\ Effect(view)[x] = IF x = call.path THEN Becomes(view)
                             ELSE IF x = call.to THEN view[call.path] ELSE view[x]
    BY <1>3 DEF Reported, Effect
  <2>2. CASE x = call.path
    <3>1. CASE call.op \notin {"rmdir", "write"}
      <4>1. Outcome(acked[x]) = {Becomes(view)}
        BY <1>3, <3>1 DEF Becomes, Outcome, Changes
      <4> QED
        BY <2>1, <2>2, <4>1 DEF Either
    <3>3. CASE call.op = "write"
      <4>1. Becomes(view) = Patched[<<view[x], call.data>>] /\ view[x] \in acked[x] \cap Data
        BY <1>1, <2>2, <3>3 DEF Becomes
      <4>2. Becomes(view) \in AfterWrite(acked[x])
        BY <4>1 DEF AfterWrite
      <4>3. Outcome(acked[x]) = AfterWrite(acked[x])
        BY <3>3 DEF Outcome
      <4> QED
        BY <2>1, <2>2, <4>2, <4>3 DEF Either
    <3>2. CASE call.op = "rmdir"
      <4>1. Outcome(acked[x]) = {Absent}
        BY <3>2 DEF Outcome
      <4>2. Becomes(view) = IF HasChildren(view, call.path) THEN view[x] ELSE Absent
        BY <2>2, <3>2 DEF Becomes
      <4>3. HasChildren(view, call.path) => call.retval # OK
        BY <3>2
      <4> QED
        BY <1>1, <2>1, <2>2, <4>1, <4>2, <4>3 DEF Either
    <3> QED
      BY <3>1, <3>2, <3>3
  <2>3. CASE x # call.path /\ x = call.to
    <3>1. call.path \in Tree
      BY <1>3, NamesApart DEF Changes, Calm, Types, CallTypes, Fits, OnFile, OnEntry, Tree
    <3> QED
      BY <1>1, <2>1, <2>3, <3>1 DEF Either
  <2>4. CASE x # call.path /\ x # call.to
    BY <1>1, <2>1, <2>4
  <2> QED
    BY <2>2, <2>3, <2>4
<1> QED
  BY <1>2, <1>3

LEMMA FinishSteady ==
    ASSUME Calm, Finish
    PROVE  Steady'
<1>1. PICK view \in View : Before(view)
  BY DEF Calm, Steady
<1>2. /\ fuse.pc = "loop" /\ CallFits /\ call \in Call /\ Fits(call)
      /\ call.handle \in Handle /\ opened \in [Handle -> Tree \cup {Root, NoPath}]
      /\ fd_counter \in Int
  BY DEF Finish, Slots!Finish, Slots!LoopEnded, Calm, Types, CallTypes, ClientTypes, Steady, Call
<1>3. /\ fuse'.pc = "idle" /\ call' = NoCall /\ servers' = servers /\ threads' = threads
      /\ server' = server /\ fds' = fds /\ fd_counter' = fd_counter /\ faults' = faults
      /\ repair' = repair /\ acked' = Reported
  BY DEF Finish, Slots!Finish, Slots!Idle, worldVars
<1>4. Effect(view) \in View
  BY <1>1, <1>2, EffectIs DEF CallFits
<1>5. /\ \A i \in Slot : Like(Server(i), Effect(view)) /\ Holds(Server(i), fds[i], HandlesAfter)
      /\ ~repair.on
  BY <1>1, LoopLeaves, LoopHasBeen DEF Finish, Slots!Finish
<1>6. \A h \in Handle : HandlesAfter[h] =
         IF call.op = "open" /\ h = call.handle THEN call.path
         ELSE IF call.op = "release" /\ h = call.handle THEN NoPath
         ELSE IF call.op = "rename" /\ opened[h] = call.path THEN call.to
         ELSE opened[h]
  BY DEF HandlesAfter
<1>7. \A h \in Handle : /\ opened'[h] \in Paths => HandlesAfter[h] = opened'[h]
                        /\ h >= fd_counter => opened'[h] = NoPath
  <2>1. CASE call.op \in {"open", "opendir"}
    <3>1. opened' = [opened EXCEPT ![call.handle] = call.path]
      BY <2>1 DEF Finish, Renamed
    <3>2. call.op = "opendir" => call.path \notin Paths
      BY <1>2, NamesApart DEF Fits, OnDirectory
    <3>3. ~(call.handle >= fd_counter) /\ call.handle \in Int
      BY <1>2, <2>1 DEF CallFits, HandlesFit, Handle
    <3> QED
      BY <1>2, <1>6, <2>1, <3>1, <3>2, <3>3 DEF CallFits, HandlesFit
  <2>2. CASE call.op \in {"release", "releasedir"}
    <3>1. opened' = [opened EXCEPT ![call.handle] = NoPath]
      BY <2>2 DEF Finish, Renamed
    <3> QED
      BY <1>2, <1>6, <2>2, <3>1, NamesApart DEF CallFits, HandlesFit
  <2>3. CASE call.op = "rename"
    <3>1. Renamed /\ call.path \in Paths
      BY <1>2, <2>3, OkIs DEF Renamed, CallFits, Fits, OnFile
    <3>2. opened' = [h \in Handle |-> IF opened[h] = call.path THEN call.to ELSE opened[h]]
      BY <1>2, <2>3, <3>1 DEF Finish
    <3> QED
      BY <1>2, <1>6, <2>3, <3>1, <3>2, NamesApart DEF CallFits, HandlesFit
  <2>4. CASE call.op \notin {"open", "opendir", "release", "releasedir", "rename"}
    <3>1. opened' = opened
      BY <2>4 DEF Finish, Renamed
    <3> QED
      BY <1>2, <1>6, <2>4, <3>1 DEF CallFits, HandlesFit
  <2> QED
    BY <2>1, <2>2, <2>3, <2>4
<1>8. \A i \in Slot : Holds(Server(i), fds[i], opened')
  BY <1>5, <1>7 DEF Holds
<1>9. faults.damage = 0 => \A x \in Tree : Effect(view)[x] \in acked'[x]
  <2>1. call.op = "rmdir" /\ call.retval = OK => ~HasChildren(view, call.path)
    BY <1>1, LoopHasBeen DEF Before, Changes, Finish, Slots!Finish
  <2>2. ASSUME call.op = "write", faults.damage = 0 PROVE view[call.path] \in Data
    <3> DEFINE p == call.path
               sv == Server(0)
    <3>1. p \in Paths /\ p \in Tree /\ opened[call.handle] = p
      BY <1>2, <2>2, NamesApart DEF Fits, OnFile, CallFits, HandlesFit
    <3>2. HandlesAfter[call.handle] = p
      BY <1>2, <1>6, <2>2, <3>1
    <3>3. Holds(sv, fds[0], HandlesAfter) /\ Like(sv, Effect(view)) /\ Tidy(sv)
      BY <1>5, SlotsAre, ServersAre DEF Calm, Types
    <3>4. sv.dir[p] # NoInode
      BY <1>2, <3>1, <3>2, <3>3 DEF Holds
    <3>5. Content(sv, p) \in Data
      BY <3>1, <3>3, <3>4, ContentIs, Fields DEF Tidy, Inode
    <3>6. Effect(view)[p] = Content(sv, p)
      BY <2>2, <3>1, <3>3 DEF Like, Same
    <3>7. Effect(view)[p] = Becomes(view)
      BY <3>1 DEF Effect
    <3> QED
      BY <2>2, <3>5, <3>6, <3>7 DEF Becomes
  <2> QED
    BY <1>1, <1>3, <2>1, <2>2, LeftIsReported DEF Before, Finish, Slots!Finish
<1>10. \A h \in Handle : h >= fd_counter => opened'[h] = NoPath
  BY <1>7
<1> QED
  BY <1>3, <1>4, <1>5, <1>8, <1>9, <1>10, RestsSteady

\* What the lookups before an operation saw.
LEMMA BeforeBegin ==
    ASSUME Calm, fuse.pc = "idle", NEW view \in View, Before(view)
    PROVE  /\ \A x \in Tree : Exists(Server(0), x) <=> view[x] # Absent
           /\ \A p \in Paths : HasParent(Server(0), p) <=> HasRoom(view, p)
           /\ \A i \in Slot : Like(Server(i), view) /\ Holds(Server(i), fds[i], opened)
           /\ \A h \in Handle : h >= fd_counter => opened[h] = NoPath
           /\ ~repair.on /\ fd_counter \in Int /\ opened \in [Handle -> Tree \cup {Root, NoPath}]
<1>1. call.op = "none" /\ CallFits
  BY DEF Calm, Steady, CallFits, NoCall
<1>2. \A h \in Handle : HandlesBefore[h] = opened[h]
  BY <1>1, OtherHandles
<1>3. \A i \in Slot : Like(Server(i), view) /\ Holds(Server(i), fds[i], opened)
  BY <1>2 DEF Before, Done, AsBefore, Holds
<1>4. /\ \A x \in Tree : Exists(Server(0), x) <=> view[x] # Absent
      /\ \A p \in Paths : HasParent(Server(0), p) <=> HasRoom(view, p)
  BY <1>3, SlotsAre, ServersAre, LookUp DEF Calm, Types
<1>5. fd_counter \in Int /\ opened \in [Handle -> Tree \cup {Root, NoPath}]
  BY DEF Calm, Types, ClientTypes
<1> QED
  BY <1>1, <1>3, <1>4, <1>5 DEF CallFits, HandlesFit

LEMMA BeginCallSteady ==
    ASSUME Calm, NEW mode, NEW c \in Call, BeginCall(mode, c),
           NEW view \in View, Before(view), LookedUp(view)', ModeFits', HandlesFit',
           c.op # "rename" => c.to = NoPath, c.op = "rename" => c.retval = OK
    PROVE  Steady'
<1>1. /\ fuse.pc = "idle" /\ fuse'.pc = "loop" /\ fuse'.i = 0 /\ call' = c
      /\ servers' = servers /\ threads' = threads /\ server' = server /\ fds' = fds
      /\ opened' = opened /\ acked' = acked /\ faults' = faults /\ repair' = repair
  BY DEF BeginCall, Slots!Begin, Slots!Idle, worldVars
<1>2. /\ \A i \in Slot : Like(Server(i), view) /\ Holds(Server(i), fds[i], opened)
      /\ ~repair.on
  BY <1>1, BeforeBegin
<1>3. ASSUME NEW i \in Slot PROVE ~Done(i)' /\ AsBefore(i, view)'
  <2>1. Server(i)' = Server(i)
    BY <1>1 DEF Server
  <2>2. \A h \in Handle : HandlesBefore'[h] = opened[h] \/ HandlesBefore'[h] = NoPath
    BY <1>1 DEF HandlesBefore
  <2>3. Like(Server(i), view)'
    BY <1>1, <1>2, <2>1 DEF Like, Same
  <2>4. Holds(Server(i), fds[i], HandlesBefore)'
    BY <1>1, <1>2, <2>1, <2>2, NamesApart DEF Holds
  <2>5. ~Done(i)'
    BY <1>1, SlotsAre DEF Done
  <2> QED
    BY <2>3, <2>4, <2>5 DEF AsBefore
<1>4. Before(view)'
  <2>1. faults'.damage = 0 => \A x \in Tree : view[x] \in acked'[x]
    BY <1>1 DEF Before
  <2> QED
    BY <1>3, <2>1, SlotsAre DEF Before
<1>5. \A j \in Slot : ~(j < fuse'.i)
  BY <1>1, SlotsAre
<1>6. CallFits'
  BY <1>1, <1>2, <1>5 DEF CallFits
<1>7. faults' \in Faults
  BY <1>1 DEF Calm, Steady
<1> QED
  BY <1>1, <1>4, <1>6, <1>7, SteadyStays

\* The operations on a path.
LEMMA BeginOnSteady ==
    ASSUME Calm, NEW p \in Tree,
           NEW op \in {"mknod", "unlink", "truncate", "mkdir", "rmdir"}, BeginOn(op, p),
           op = "mknod" => Unknown(p) /\ p \in Paths /\ HasParent(Server(0), p),
           op = "truncate" => Known(p),
           op \in {"unlink", "rmdir"} => ~IsOpen(p)
    PROVE  Steady'
<1> DEFINE c == [NoCall EXCEPT !.op = op, !.path = p]
<1>1. PICK view \in View : Before(view)
  BY DEF Calm, Steady
<1>2. c \in Call /\ c.op = op /\ c.path = p /\ c.to = NoPath
  BY RestingTypes DEF Call, OnFile, OnEntry, NoCall
<1>3. BeginCall("all", c) /\ fd_counter' = fd_counter
  BY DEF BeginOn
<1> HIDE DEF c
<1>4. fuse.pc = "idle" /\ fuse'.mode = "all" /\ call' = c /\ opened' = opened
  BY <1>3 DEF BeginCall, Slots!Begin, Slots!Idle
<1>5. LookedUp(view)'
  BY <1>1, <1>2, <1>4, BeforeBegin DEF LookedUp, HasRoom, Known, Unknown
<1>6. HandlesFit'
  BY <1>1, <1>2, <1>3, <1>4, BeforeBegin DEF HandlesFit, IsOpen
<1>7. ModeFits'
  BY <1>4 DEF ModeFits
<1> QED
  BY <1>1, <1>2, <1>3, <1>5, <1>6, <1>7, BeginCallSteady

LEMMA BeginHandleSteady ==
    ASSUME Calm, NEW p \in Tree \cup {Root}, NEW op \in {"open", "opendir"}, BeginHandle(op, p),
           (op = "opendir" /\ p = Root) \/ (p \in Tree /\ Known(p))
    PROVE  Steady'
<1> DEFINE c == [NoCall EXCEPT !.op = op, !.path = p, !.handle = fd_counter]
<1>1. PICK view \in View : Before(view)
  BY DEF Calm, Steady
<1>2. BeginCall("all", c) /\ fd_counter' = fd_counter + 1 /\ fd_counter \in Handle
  BY RaidAssumption DEF BeginHandle, Handle, Calm, Types, ClientTypes
<1>3. c \in Call /\ c.op = op /\ c.path = p /\ c.to = NoPath /\ c.handle = fd_counter
  BY <1>2, RestingTypes DEF Call, OnFile, OnDirectory, NoCall
<1> HIDE DEF c
<1>4. fuse.pc = "idle" /\ fuse'.mode = "all" /\ call' = c /\ opened' = opened
  BY <1>2 DEF BeginCall, Slots!Begin, Slots!Idle
<1>5. LookedUp(view)'
  BY <1>1, <1>3, <1>4, BeforeBegin, NamesApart DEF LookedUp, Known
<1>6. HandlesFit'
  BY <1>1, <1>2, <1>3, <1>4, BeforeBegin DEF HandlesFit, Handle
<1>7. ModeFits'
  BY <1>4 DEF ModeFits
<1> QED
  BY <1>1, <1>2, <1>3, <1>5, <1>6, <1>7, BeginCallSteady

\* The operations on a handle, and those that look nothing up.
LEMMA BeginPlainSteady ==
    ASSUME Calm, NEW mode, NEW c \in Call, BeginCall(mode, c), fd_counter' = fd_counter,
           c.op \in {"utime", "getattr", "read", "readdir", "write", "release", "releasedir"},
           c.op \in {"write", "release"} => opened[c.handle] = c.path,
           c.op \notin {"getattr", "read", "readdir"} => mode = "all",
           c.to = NoPath
    PROVE  Steady'
<1>1. PICK view \in View : Before(view)
  BY DEF Calm, Steady
<1>2. fuse.pc = "idle" /\ fuse'.mode = mode /\ call' = c /\ opened' = opened
  BY DEF BeginCall, Slots!Begin, Slots!Idle
<1>3. LookedUp(view)'
  BY <1>2 DEF LookedUp
<1>4. HandlesFit'
  BY <1>1, <1>2, BeforeBegin DEF HandlesFit
<1>5. ModeFits'
  BY <1>2 DEF ModeFits
<1> QED
  BY <1>1, <1>3, <1>4, <1>5, BeginCallSteady

LEMMA BeginRenameSteady ==
    ASSUME Calm, NEW p \in Paths, NEW q \in Paths \ {p}, BeginRename(p, q)
    PROVE  Steady'
<1> DEFINE op == "rename"
           c == [NoCall EXCEPT !.op = op, !.path = p, !.to = q]
<1>1. PICK view \in View : Before(view)
  BY DEF Calm, Steady
<1>2. c \in Call /\ c.op = "rename" /\ c.path = p /\ c.to = q /\ c.retval = OK
  BY RestingTypes DEF Call, OnFile, NoCall, Tree
<1>3. /\ BeginCall("all", c) /\ fd_counter' = fd_counter
      /\ Known(p) /\ HasParent(Server(0), q) /\ ~IsOpen(q)
  BY DEF BeginRename
<1> HIDE DEF c, op
<1>4. fuse.pc = "idle" /\ fuse'.mode = "all" /\ call' = c /\ opened' = opened
  BY <1>3 DEF BeginCall, Slots!Begin, Slots!Idle
<1>5. LookedUp(view)'
  BY <1>1, <1>2, <1>3, <1>4, BeforeBegin, NamesApart DEF LookedUp, HasRoom, Known
<1>6. HandlesFit'
  BY <1>1, <1>2, <1>3, <1>4, BeforeBegin DEF HandlesFit, IsOpen
<1>7. ModeFits'
  BY <1>4 DEF ModeFits
<1> QED
  BY <1>1, <1>2, <1>3, <1>5, <1>6, <1>7, BeginCallSteady

\* The calls on a handle have no second path.
LEMMA HandleCallTo ==
    ASSUME NEW op, NEW p, NEW h, NEW retval
    PROVE  HandleCall(op, p, h, retval).to = NoPath /\ HandleCall(op, p, h, retval).handle = h
  BY DEF HandleCall, NoCall

LEMMA WriteCallTo ==
    ASSUME NEW op, NEW p, NEW h, NEW data, NEW retval
    PROVE  /\ WriteCall(op, p, h, data, retval).to = NoPath
           /\ WriteCall(op, p, h, data, retval).handle = h
  BY DEF WriteCall, NoCall

LEMMA BeginSteady ==
    ASSUME Calm, Begin
    PROVE  Steady'
<1>0. opened \in [Handle -> Tree \cup {Root, NoPath}]
  BY DEF Calm, Types, ClientTypes
<1>1. ASSUME NEW p \in Paths, BeginMknod(p) \/ BeginUnlink(p) \/ BeginTruncate(p) \/ BeginOpen(p)
      PROVE  Steady'
  BY <1>1, BeginOnSteady, BeginHandleSteady, NamesApart
  DEF BeginMknod, BeginUnlink, BeginTruncate, BeginOpen, Tree
<1>2. ASSUME NEW d \in Dirs, BeginMkdir(d) \/ BeginRmdir(d) PROVE Steady'
  BY <1>2, BeginOnSteady DEF BeginMkdir, BeginRmdir, Tree
<1>3. ASSUME NEW d \in Dirs \cup {Root}, BeginOpendir(d) PROVE Steady'
  BY <1>3, BeginHandleSteady DEF BeginOpendir, Tree
<1>4. ASSUME NEW p \in Paths, NEW time \in Times, BeginUtime(p, time) PROVE Steady'
  <2> DEFINE op == "utime"
             c == [NoCall EXCEPT !.op = op, !.path = p, !.time = time]
  <2>1. c \in Call /\ c.op = "utime" /\ c.to = NoPath
    BY RestingTypes DEF Call, OnFile, Tree, NoCall
  <2> HIDE DEF c
  <2>2. BeginCall("all", c) /\ fd_counter' = fd_counter
    BY <1>4 DEF BeginUtime, c
  <2> QED
    BY <2>1, <2>2, BeginPlainSteady
<1>5. CASE BeginGetattr
  <2> DEFINE c == [NoCall EXCEPT !.op = "getattr"]
  <2>1. c \in Call /\ c.op = "getattr" /\ c.to = NoPath
    BY RestingTypes DEF Call, NoCall
  <2> HIDE DEF c
  <2>2. BeginCall("first", c) /\ fd_counter' = fd_counter
    BY <1>5 DEF BeginGetattr, c
  <2> QED
    BY <2>1, <2>2, BeginPlainSteady
<1>6. ASSUME NEW h \in Handle, BeginRead(h) PROVE Steady'
  <2> DEFINE p == opened[h]
             retval == -1
             c == HandleCall("read", p, h, retval)
  <2>1. p \in Tree \cup {Root, NoPath} /\ retval \in Results /\ "read" \in OnFile
    BY <1>0, ResultsAre DEF OnFile
  <2>2. BeginCall("first", c) /\ fd_counter' = fd_counter
    BY <1>6 DEF BeginRead, HandleCall
  <2> HIDE DEF p, retval, c
  <2>3. c \in Call /\ c.op = "read" /\ c.to = NoPath
    BY <2>1, HandleCallIs, HandleCallTo DEF c
  <2> QED
    BY <2>2, <2>3, BeginPlainSteady
<1>7. ASSUME NEW h \in Handle, BeginReaddir(h) PROVE Steady'
  <2> DEFINE c == [NoCall EXCEPT !.op = "readdir", !.path = opened[h], !.handle = h]
  <2>1. c \in Call /\ c.op = "readdir" /\ c.to = NoPath
    BY <1>0, RestingTypes DEF Call, OnDirectory, NoCall
  <2> HIDE DEF c
  <2>2. BeginCall("first", c) /\ fd_counter' = fd_counter
    BY <1>7 DEF BeginReaddir, c
  <2> QED
    BY <2>1, <2>2, BeginPlainSteady
<1>8. ASSUME NEW h \in Handle, BeginRelease(h) PROVE Steady'
  <2> DEFINE p == opened[h]
             op == IF p \in Paths THEN "release" ELSE "releasedir"
  <2>1. PICK res : res \in Results /\ BeginCall("all", HandleCall(op, p, h, res))
    BY <1>8 DEF BeginRelease, HandleCall, Results
  <2> DEFINE c == HandleCall(op, p, h, res)
  <2>2. /\ p \in Tree \cup {Root, NoPath} /\ op \in OnFile \cup OnDirectory /\ p = opened[h]
        /\ op \in {"release", "releasedir"}
    BY <1>0, <2>1 DEF OnFile, OnDirectory
  <2>3. BeginCall("all", c) /\ fd_counter' = fd_counter
    BY <1>8, <2>1 DEF BeginRelease
  <2> HIDE DEF p, op, c
  <2>4. c \in Call /\ c.op = op /\ c.path = p /\ c.to = NoPath /\ c.handle = h
    BY <2>1, <2>2, HandleCallIs, HandleCallTo DEF c
  <2> QED
    BY <2>2, <2>3, <2>4, BeginPlainSteady
<1>9. ASSUME NEW h \in Handle, NEW data \in Fragments, BeginWrite(h, data) PROVE Steady'
  <2> DEFINE p == opened[h]
             op == "write"
  <2>1. PICK res : res \in Results /\ BeginCall("all", WriteCall(op, p, h, data, res))
    BY <1>9 DEF BeginWrite, WriteCall, Results
  <2> DEFINE c == WriteCall(op, p, h, data, res)
  <2>2. p \in Tree \cup {Root, NoPath} /\ op \in OnFile /\ p = opened[h] /\ op = "write"
    BY <1>0 DEF OnFile
  <2>3. BeginCall("all", c) /\ fd_counter' = fd_counter
    BY <1>9, <2>1 DEF BeginWrite
  <2> HIDE DEF p, op, c
  <2>4. c \in Call /\ c.op = op /\ c.path = p /\ c.to = NoPath /\ c.handle = h
    BY <2>1, <2>2, WriteCallIs, WriteCallTo DEF c
  <2> QED
    BY <2>2, <2>3, <2>4, BeginPlainSteady
<1> QED
  BY <1>1, <1>2, <1>3, <1>4, <1>5, <1>6, <1>7, <1>8, <1>9, BeginRenameSteady DEF Begin, Handle

-----------------------------------------------------------------------------
(* The world.                                                               *)

\* What the world may do while every server of a slot answers: the servers keep
\* what they have, or a file is damaged.
Fair ==
    /\ fuse' = fuse /\ servers' = servers /\ threads' = threads /\ fds' = fds
    /\ fd_counter' = fd_counter /\ msgs' = msgs /\ repair' = repair
    /\ opened' = opened /\ acked' = acked
    /\ call' = call \/ (call # NoCall /\ call' = [call EXCEPT !.quiet = FALSE])
    /\ faults' \in Faults

Unharmed ==
    /\ faults'.damage = faults.damage
    /\ \A i \in Slot : Server(i)' = Server(i)

Harmed ==
    /\ faults'.damage # 0
    /\ \A i \in Slot :
          /\ Server(i)'.dir = Server(i).dir /\ Server(i)'.open = Server(i).open
          /\ \A x \in Tree : Content(Server(i)', x) = Absent <=> Content(Server(i), x) = Absent

LEMMA WorldSteady ==
    ASSUME Calm, Fair, Unharmed \/ Harmed
    PROVE  Steady'
<1>1. PICK view \in View : Before(view)
  BY DEF Calm, Steady
<1>2. /\ call'.op = call.op /\ call'.path = call.path /\ call'.to = call.to
      /\ call'.handle = call.handle /\ call'.data = call.data /\ call'.retval = call.retval
      /\ call = NoCall => call' = NoCall
  BY DEF Fair, Calm, Types, CallTypes, Call
<1>3. CallFits'
  BY <1>2 DEF Calm, Steady, CallFits, ModeFits, HandlesFit, IsOpen, Fair
<1>4. /\ Effect(view)' = Effect(view)
      /\ HandlesBefore' = HandlesBefore /\ HandlesAfter' = HandlesAfter
      /\ LookedUp(view)' <=> LookedUp(view)
  BY <1>2, OperationStays DEF Fair
<1>5. faults'.damage = 0 => Unharmed
  BY DEF Harmed
<1>6. ASSUME NEW i \in Slot
      PROVE  (IF Done(i) THEN AsAfter(i, view) ELSE AsBefore(i, view))'
  <2>1. ASSUME NEW x \in Tree
        PROVE  /\ Content(Server(i)', x) = Absent <=> Content(Server(i), x) = Absent
               /\ faults'.damage = 0 =>
                     faults.damage = 0 /\ Content(Server(i)', x) = Content(Server(i), x)
    BY <1>5 DEF Unharmed, Harmed
  <2>2. Server(i)'.dir = Server(i).dir /\ Server(i)'.open = Server(i).open
    BY DEF Unharmed, Harmed
  <2>3. Like(Server(i), view) => Like(Server(i), view)'
    BY <2>1 DEF Like, Same
  <2>4. Like(Server(i), Effect(view)) => Like(Server(i), Effect(view))'
    BY <1>4, <2>1 DEF Like, Same
  <2>5. Holds(Server(i), fds[i], HandlesBefore) => Holds(Server(i), fds[i], HandlesBefore)'
    BY <1>4, <2>2 DEF Holds, Fair
  <2>6. Holds(Server(i), fds[i], HandlesAfter) => Holds(Server(i), fds[i], HandlesAfter)'
    BY <1>4, <2>2 DEF Holds, Fair
  <2>7. Done(i)' <=> Done(i)
    BY DEF Done, Fair
  <2>8. IF Done(i) THEN AsAfter(i, view) ELSE AsBefore(i, view)
    BY <1>1 DEF Before
  <2> QED
    BY <2>3, <2>4, <2>5, <2>6, <2>7, <2>8 DEF AsBefore, AsAfter
<1>7. faults'.damage = 0 => \A x \in Tree : view[x] \in acked'[x]
  BY <1>1, <1>5 DEF Before, Fair, Unharmed
<1>8. (call.op = "rmdir" /\ call.retval = OK /\ Done(0) => ~HasChildren(view, call.path))'
  BY <1>1, <1>2 DEF Before, Fair, Done, HasChildren
<1>9. LookedUp(view)'
  BY <1>1, <1>4 DEF Before
<1>10. Before(view)'
  BY <1>6, <1>7, <1>8, <1>9 DEF Before
<1> QED
  BY <1>3, <1>10, SteadyStays DEF Fair, Calm, Steady

\* Of the servers of the storage none fails or comes back.
LEMMA FaultsElsewhere ==
    ASSUME Calm, NEW n \in Names, Kill(n) \/ Cut(n) \/ Return(n)
    PROVE  Fair /\ Unharmed
<1>1. PICK sv : World(n, sv) /\ (~server[n].up \/ sv.up = FALSE)
  <2>1. Tidy(server[n])
    BY DEF Calm, Types, ServerTypes
  <2>2. Killed(server[n]).up = FALSE /\ Unreachable(server[n]).up = FALSE
    BY <2>1, KilledIs, Fields DEF Tidy, Unreachable, FileServer
  <2> QED
    BY <2>2 DEF Kill, Cut, Return, Fail
<1>2. server \in [Names -> FileServer] /\ server' = [server EXCEPT ![n] = sv] /\ servers' = servers
  BY <1>1 DEF World, Calm, Types, ServerTypes
<1>3. ASSUME NEW i \in Slot PROVE Server(i)' = Server(i)
  <2>1. Reachable(i) /\ Reachable(i)' /\ servers[i].name \in Names
    BY NamesAre DEF Calm, AllAnswer
  <2>2. servers[i].name # n
    BY <1>1, <1>2, <2>1 DEF Reachable, Server
  <2> QED
    BY <1>2, <2>1, <2>2 DEF Server
<1>4. faults' \in Faults /\ faults'.damage = faults.damage
  BY DEF Kill, Cut, Return, Fail, Calm, Steady, Faults
<1>5. Fair
  BY <1>1, <1>4 DEF World, Fair
<1> QED
  BY <1>3, <1>4, <1>5 DEF Unharmed

LEMMA FaultSteady ==
    ASSUME Calm, NEW n \in Names, Kill(n) \/ Cut(n) \/ Return(n)
    PROVE  Steady'
  BY FaultsElsewhere, WorldSteady

\* A damage is done to a copy of one server, and leaves a hash that does not fit.
LEMMA DamageHits ==
    ASSUME Calm, NEW n \in Names, NEW p \in Paths, NEW data \in Data, Damage(n, p, data)
    PROVE  /\ Fair /\ faults'.damage = faults.damage + 1
           /\ call # NoCall => ~call'.quiet
           /\ \A i \in Slot :
                 \/ Server(i)' = Server(i)
                 \/ /\ servers[i].name = n
                    /\ Exists(Server(i), p) /\ data # File(Server(i), p).hash
                    /\ Server(i)' = Damaged(Server(i), p, data)
<1> DEFINE r == Damaged(server[n], p, data)
<1>1. World(n, r) /\ Exists(server[n], p) /\ data # File(server[n], p).hash
  BY DEF Damage
<1> HIDE DEF r
<1>2. server \in [Names -> FileServer] /\ server' = [server EXCEPT ![n] = r] /\ servers' = servers
  BY <1>1 DEF World, Calm, Types, ServerTypes
<1>3. ASSUME NEW i \in Slot
      PROVE  /\ servers[i].name = n => Server(i)' = r /\ Server(i) = server[n]
             /\ servers[i].name # n => Server(i)' = Server(i)
  <2>1. servers[i].name \in Names
    BY NamesAre DEF Calm
  <2> QED
    BY <1>2, <2>1 DEF Server
<1>4. faults' \in Faults /\ faults'.damage = faults.damage + 1
  BY DEF Damage, Calm, Steady, Faults
<1>5. Fair
  BY <1>1, <1>4 DEF World, Fair
<1>6. call # NoCall => ~call'.quiet
  BY <1>1 DEF World, Calm, Types, CallTypes, Call
<1> QED
  BY <1>1, <1>3, <1>4, <1>5, <1>6 DEF r

LEMMA DamageSteady ==
    ASSUME Calm, NEW n \in Names, NEW p \in Paths, NEW data \in Data, Damage(n, p, data)
    PROVE  Steady'
<1>1. ASSUME NEW i \in Slot
      PROVE  /\ Server(i)'.dir = Server(i).dir /\ Server(i)'.open = Server(i).open
             /\ \A x \in Tree : Content(Server(i)', x) = Absent <=> Content(Server(i), x) = Absent
  <2> DEFINE sv == Server(i)
             r == Server(i)'
  <2>1. CASE r = sv
    BY <2>1
  <2>2. CASE Exists(sv, p) /\ r = Damaged(sv, p, data)
    <3>1. Tidy(sv) /\ Tidy(r) /\ SameNames(r, sv)
      BY <2>2, ServersAre, DamagedIs DEF Calm, Types
    <3> HIDE DEF sv, r
    <3>2. \A x \in Tree : Content(r, x) = Absent <=> Content(sv, x) = Absent
      BY <3>1, Seen DEF Tree, SameNames
    <3> QED
      BY <3>1, <3>2 DEF SameNames, sv, r
  <2> QED
    BY <2>1, <2>2, DamageHits
<1>2. Fair /\ faults'.damage # 0
  BY DamageHits DEF Calm, Steady, Faults
<1> QED
  BY <1>1, <1>2, WorldSteady DEF Harmed

Quiet == (\E ns \in SUBSET Names \ {{}} : Tick(ns)) \/ Full \/ UNCHANGED vars

LEMMA NothingHappens ==
    ASSUME Calm, Quiet
    PROVE  Fair /\ Unharmed
<1>1. Fair
  BY DEF Quiet, Tick, Full, vars, clientVars, worldVars, Fair, Calm, Steady
<1>2. Unharmed
  BY DEF Quiet, Tick, Full, vars, clientVars, worldVars, Unharmed, Server
<1> QED
  BY <1>1, <1>2

LEMMA QuietSteady ==
    ASSUME Calm, Quiet
    PROVE  Steady'
  BY NothingHappens, WorldSteady

-----------------------------------------------------------------------------
(* The theorems.                                                            *)

LEMMA VisitSteady ==
    ASSUME Calm, NEW i \in Slot, Visit(i)
    PROVE  Steady'
  BY NotReached, NoneFails, Crashed, ExecuteSteady, ReadSteady, OpenSteady, OpendirSteady, RestoreSteady,
     UnknownHandleSteady
  DEF Visit

\* A client that has crashed does nothing any more.
LEMMA AliveBefore ==
    ASSUME [Next]_vars, Alive'
    PROVE  Alive
<1>1. Begin => fuse.pc = "idle"
  BY DEF Begin, BeginMknod, BeginUnlink, BeginTruncate, BeginOpen, BeginRename, BeginUtime,
         BeginMkdir, BeginRmdir, BeginOpendir, BeginRead, BeginRelease, BeginReaddir, BeginWrite,
         BeginGetattr, BeginOn, BeginHandle, BeginCall, Slots!Begin
<1>2. \A i \in Slot : Visit(i) => fuse.pc = "loop"
  BY VisitsAreOfCalls
<1>3. Finish => fuse.pc = "loop"
  BY DEF Finish, Slots!Finish, Slots!LoopEnded
<1>4. \A t \in Threads : ThreadStep(t) => fuse' = fuse
  BY DEF ThreadStep, Slots!PingAnswered, Slots!PingFailed, Slots!PingGivenUp,
         Slots!TakeSpareName, Slots!LeaveSpareName
<1>5. \A n \in Names : Kill(n) \/ Cut(n) \/ Return(n) => fuse' = fuse
  BY DEF Kill, Cut, Return, Fail, World
<1>6. \A n \in Names, p \in Paths, data \in Data : Damage(n, p, data) => fuse' = fuse
  BY DEF Damage, World
<1>7. Quiet \/ Gone => fuse' = fuse
  BY DEF Quiet, Tick, Full, Gone, Slots!Gone, Slots!slotVars, vars
<1> QED
  BY <1>1, <1>2, <1>3, <1>4, <1>5, <1>6, <1>7 DEF Next, Alive, Quiet

LEMMA StepIsCalm ==
    ASSUME Types, Slots!TypeOK, SteadyAlive, AllAnswer, AllAnswer', [Next]_vars, Alive'
    PROVE  Calm
  BY AliveBefore DEF Calm, SteadyAlive

LEMMA StepSteady ==
    ASSUME Types, Slots!TypeOK, SteadyAlive, AllAnswer, AllAnswer', [Next]_vars
    PROVE  SteadyAlive'
<1> SUFFICES ASSUME Alive' PROVE Steady'
  BY DEF SteadyAlive
<1>1. Calm
  BY StepIsCalm
<1>2. ASSUME NEW t \in Threads, ThreadStep(t) PROVE FALSE
  BY <1>1, <1>2
  DEF ThreadStep, Slots!PingAnswered, Slots!PingFailed, Slots!PingGivenUp, Slots!TakeSpareName,
      Slots!LeaveSpareName, Calm, Steady, AllSlotsUp
<1>3. ~Gone
  BY <1>1 DEF Gone, Slots!Gone, Calm, Alive
<1> QED
  BY <1>1, <1>2, <1>3, BeginSteady, VisitSteady, FinishSteady, FaultSteady, DamageSteady,
     QuietSteady
  DEF Next, Quiet

LEMMA InitSteady == Init => Steady
<1> SUFFICES ASSUME Init PROVE Steady
  OBVIOUS
<1> DEFINE view == [x \in Tree |-> Absent]
<1>1. Types /\ call = NoCall /\ fuse.pc = "idle" /\ call.op = "none"
  BY InitTypes DEF Init, Slots!Init, Slots!Idle, NoCall
<1>2. AllSlotsUp
  BY DEF Init, AllSlotsUp, Slots!Init, Slots!DistinctNames, Slots!NoThread, Slot
<1>3. \A h \in Handle : opened[h] = NoPath
  BY DEF Init, Handle
<1>4. CallFits
  <2>1. call.to = NoPath /\ ~repair.on
    BY DEF Init, NoCall, NoRepair
  <2>2. ModeFits /\ HandlesFit
    BY <1>1, <1>3 DEF ModeFits, HandlesFit
  <2> QED
    BY <1>1, <2>1, <2>2 DEF CallFits
<1>5. ASSUME NEW i \in Slot PROVE ~Done(i) /\ AsBefore(i, view)
  <2>1. servers[i].name \in Names
    BY DEF Init, Slots!Init, Slot
  <2>2. Server(i).dir = [p \in Paths |-> NoInode] /\ Server(i).dirs = {} /\ Tidy(Server(i))
    BY <1>1, <2>1 DEF Init, Server, Types, ServerTypes
  <2>3. \A x \in Tree : Content(Server(i), x) = Absent
    BY <2>2, Seen DEF Tree
  <2>4. Like(Server(i), view)
    BY <2>3 DEF Like, Same
  <2>5. Holds(Server(i), fds[i], HandlesBefore)
    BY <1>3, NamesApart DEF Holds, HandlesBefore
  <2> QED
    BY <1>1, <2>4, <2>5 DEF Done, AsBefore
<1>6. Before(view)
  BY <1>1, <1>5, SlotsAre DEF Before, LookedUp, Init
<1>7. view \in View
  BY DEF View
<1>8. faults \in Faults
  BY DEF Init, Faults
<1> HIDE DEF view
<1> QED
  BY <1>1, <1>2, <1>4, <1>6, <1>7, <1>8 DEF Steady

\* While every server of the storage answers, whatever operations are called and
\* whatever is damaged on the disks, an operation that runs finds one state of the
\* files on all servers and leaves one; no server is lost, duplicated or restarted.
THEOREM SteadyWhileAllAnswer == Spec /\ []AllAnswer => []SteadyAlive
<1>1. Init => SteadyAlive
  BY InitSteady DEF SteadyAlive
<1>2. Types /\ Slots!TypeOK /\ SteadyAlive /\ AllAnswer /\ AllAnswer' /\ [Next]_vars => SteadyAlive'
  BY StepSteady
<1> QED
  BY <1>1, <1>2, StorageInvariant, StorageSlotTypes, PTL DEF Spec

\* Between two operations the servers are where the next one finds them.
LEMMA BetweenOperations ==
    ASSUME Steady, Idle, faults.damage = 0
    PROVE  \E view \in View :
              /\ \A i \in Slot, p \in Tree : Content(Server(i), p) = view[p]
              /\ \A p \in Tree : view[p] \in acked[p]
<1>1. PICK view \in View : Before(view)
  BY DEF Steady
<1>2. \A i \in Slot : Like(Server(i), view)
  BY <1>1 DEF Before, Done, Idle, AsBefore
<1>3. \A i \in Slot, p \in Tree : Content(Server(i), p) = view[p]
  BY <1>2 DEF Like, Same
<1>4. \A p \in Tree : view[p] \in acked[p]
  BY <1>1 DEF Before
<1> QED
  BY <1>3, <1>4

\* All changes are made on all servers (README.md:154): between two operations the
\* mirrors have the same files, as long as the servers answer and the disks keep
\* what is on them.
THEOREM MirrorsAgreeWhileAllAnswer == Spec /\ []AllAnswer => [](faults.damage = 0 => MirrorsAgree)
<1>1. SteadyAlive => (faults.damage = 0 => MirrorsAgree)
  BY BetweenOperations DEF MirrorsAgree, SteadyAlive, Alive, Idle
<1> QED
  BY <1>1, SteadyWhileAllAnswer, PTL

\* Under the same conditions the server that is read from has in every file what
\* was reported of the last operation on it.
THEOREM ReportsAreTrueWhileAllAnswer ==
    Spec /\ []AllAnswer => [](faults.damage = 0 => PrimaryHasWhatWasReported)
<1>1. SteadyAlive => (faults.damage = 0 => PrimaryHasWhatWasReported)
  BY BetweenOperations, SlotsAre DEF PrimaryHasWhatWasReported, SteadyAlive, Alive, Idle
<1> QED
  BY <1>1, SteadyWhileAllAnswer, PTL

\* Under the same conditions an open chooses well even where it repairs without
\* need, as it does after a truncate, which leaves the old hash: whatever it copies
\* over slot 0 is what was there.
THEOREM OpenKeepsWhileAllAnswer ==
    Spec /\ []AllAnswer => [](faults.damage = 0 => OpenKeepsWhatWasReported)
<1>1. Types /\ SteadyAlive => (faults.damage = 0 => OpenKeepsWhatWasReported)
  <2> SUFFICES ASSUME Types, Steady, faults.damage = 0, AfterOpen
               PROVE  Content(Server(0), call.path) \in acked[call.path]
    BY DEF OpenKeepsWhatWasReported, SteadyAlive, Alive, AfterOpen, Slots!LoopEnded
  <2>1. PICK view \in View : Before(view)
    BY DEF Steady
  <2>2. fuse.pc = "loop" /\ fuse.i = Slots!Limit /\ call.op = "open"
    BY DEF AfterOpen, Slots!LoopEnded
  <2>3. 0 \in Slot /\ Done(0)
    BY <2>2, SlotsAre, RaidAssumption DEF Slots!Limit, Done
  <2>4. call.path \in Paths /\ call.path \in Tree
    BY <2>2, NamesApart DEF Types, CallTypes, Fits, OnFile
  <2>5. Effect(view) = view
    BY <2>2, NoEffect, NamesApart DEF Steady, CallFits
  <2>6. Content(Server(0), call.path) = view[call.path]
    BY <2>1, <2>3, <2>4, <2>5 DEF Before, AsAfter, Like, Same
  <2> QED
    BY <2>1, <2>4, <2>6 DEF Before
<1> QED
  BY <1>1, StorageInvariant, SteadyWhileAllAnswer, PTL

-----------------------------------------------------------------------------
(* Where the handles of directories lead.                                   *)

DirsAfter ==
    [h \in Handle |-> IF call.op = "opendir" /\ h = call.handle THEN call.path
                      ELSE IF call.op = "releasedir" /\ h = call.handle THEN NoPath
                      ELSE opened[h]]

IsDirectory(path) == path \in Dirs \cup {Root}

\* f are the descriptors the client keeps of server sv.
Leads(sv, f, handles) ==
    /\ \A h \in Handle : IsDirectory(handles[h]) =>
          f[h] \in Fds /\ sv.stream[f[h]].dir = handles[h] /\ sv.open[f[h]] = NoInode
    /\ \A g, h \in Handle :
          g # h /\ IsDirectory(handles[g]) /\ IsDirectory(handles[h]) => f[g] # f[h]

Streaming ==
    /\ call.op \in {"readdir", "releasedir"} => opened[call.handle] = call.path
    /\ \A i \in Slot : Leads(Server(i), fds[i], IF Done(i) THEN DirsAfter ELSE opened)

StreamingAlive == Alive => Streaming

\* No stream is closed, or has its descriptor opened for a file.
KeepsStreams(r, sv) ==
    \A d \in Fds : IsDirectory(sv.stream[d].dir) /\ sv.open[d] = NoInode =>
        r.stream[d].dir = sv.stream[d].dir /\ r.open[d] = NoInode

\* A closed descriptor leads nowhere.
LEMMA DirectoryIs ==
    /\ ~IsDirectory(NoPath) /\ ~IsDirectory(NoDir) /\ NoStream.dir = NoDir
    /\ \A p \in Paths : ~IsDirectory(p)
  BY FileServerAssumption DEF IsDirectory, NoPath, NoDir, NoStream, Root

LEMMA OtherDirs ==
    ASSUME call.op \notin {"opendir", "releasedir"}, NEW h \in Handle
    PROVE  DirsAfter[h] = opened[h]
  BY DEF DirsAfter

LEMMA LeadsStays ==
    ASSUME NEW sv, NEW r, NEW f, NEW g, NEW handles, NEW later, Leads(sv, f, handles),
           KeepsStreams(r, sv),
           \A h \in Handle : IsDirectory(later[h]) => later[h] = handles[h] /\ g[h] = f[h]
    PROVE  Leads(r, g, later)
  BY DEF Leads, KeepsStreams

\* Where nothing is done to the handles of directories.
LEMMA StreamsRemain ==
    ASSUME Streaming, call.op \notin {"opendir", "releasedir"},
           call'.op = call.op, call'.path = call.path, call'.handle = call.handle, opened' = opened,
           \A j \in Slot : KeepsStreams(Server(j)', Server(j)),
           \A j \in Slot, h \in Handle : IsDirectory(opened[h]) => fds'[j][h] = fds[j][h]
    PROVE  Streaming'
<1>1. ASSUME NEW j \in Slot
      PROVE  Leads(Server(j), fds[j], IF Done(j) THEN DirsAfter ELSE opened)'
  <2>1. Leads(Server(j), fds[j], IF Done(j) THEN DirsAfter ELSE opened)
    BY DEF Streaming
  <2>2. \A h \in Handle : (IF Done(j) THEN DirsAfter ELSE opened)[h] = opened[h]
    BY OtherDirs
  <2>3. \A h \in Handle : (IF Done(j) THEN DirsAfter ELSE opened)'[h] = opened[h]
    BY DEF DirsAfter
  <2>4. Leads(Server(j)', fds'[j], (IF Done(j) THEN DirsAfter ELSE opened)')
    BY <2>1, <2>2, <2>3, LeadsStays
  <2> QED
    BY <2>4 DEF Leads, IsDirectory
<1>2. (call.op \in {"readdir", "releasedir"} => opened[call.handle] = call.path)'
  BY DEF Streaming
<1> QED
  BY <1>1, <1>2 DEF Streaming

\* A visit to slot i.
LEMMA StreamsVisited ==
    ASSUME Calm, Streaming, NEW i \in Slot, fuse.pc = "loop", fuse.i = i,
           fuse'.pc = "loop", fuse'.i = i + 1, servers' = servers, SameCall,
           NEW sv, OnServer(i, sv), \A j \in Slot : j # i => fds'[j] = fds[j],
           Leads(sv, fds'[i], DirsAfter)
    PROVE  Streaming'
<1>1. Server(i)' = sv /\ \A j \in Slot : j # i => Server(j)' = Server(j)
  BY OthersAnswer DEF Calm, Steady
<1>2. DirsAfter' = DirsAfter
  BY DEF DirsAfter, SameCall
<1>3. \A j \in Slot : /\ j # i => (Done(j)' <=> Done(j))
                      /\ j = i => Done(j)'
  BY SlotsAre DEF Done
<1>4. ASSUME NEW j \in Slot
      PROVE  Leads(Server(j), fds[j], IF Done(j) THEN DirsAfter ELSE opened)'
  <2>1. CASE j = i
    <3>1. Leads(Server(i)', fds'[i], DirsAfter')
      BY <1>1, <1>2
    <3> QED
      BY <1>3, <2>1, <3>1 DEF Leads, IsDirectory
  <2>2. CASE j # i
    <3>1. Leads(Server(j), fds[j], IF Done(j) THEN DirsAfter ELSE opened)
      BY DEF Streaming
    <3>2. Leads(Server(j)', fds'[j], IF Done(j)' THEN DirsAfter' ELSE opened')
      BY <1>1, <1>2, <1>3, <2>2, <3>1 DEF SameCall
    <3> QED
      BY <3>2 DEF Leads, IsDirectory
  <2> QED
    BY <2>1, <2>2
<1>5. (call.op \in {"readdir", "releasedir"} => opened[call.handle] = call.path)'
  BY DEF Streaming, SameCall
<1> QED
  BY <1>4, <1>5 DEF Streaming

\* The server that is asked has the stream of the handle.
LEMMA HandleLeads ==
    ASSUME Calm, Streaming, NEW i \in Slot, fuse.pc = "loop", fuse.i = i,
           call.op \in {"readdir", "releasedir"}
    PROVE  /\ Leads(Server(i), fds[i], opened)
           /\ IsDirectory(call.path) /\ call.handle \in Handle /\ opened[call.handle] = call.path
           /\ Descriptor(i) \in Fds /\ Server(i).stream[Descriptor(i)].dir = call.path
           /\ ~StaleDir(i) /\ Descriptor(i) # NoFd
<1>1. ~Done(i)
  BY SlotsAre DEF Done
<1>2. Leads(Server(i), fds[i], opened)
  BY <1>1 DEF Streaming
<1>3. /\ IsDirectory(call.path) /\ call.handle \in Handle /\ opened[call.handle] = call.path
  BY DEF Calm, Types, CallTypes, Fits, OnDirectory, Call, Streaming, IsDirectory
<1>4. Descriptor(i) \in Fds /\ Server(i).stream[Descriptor(i)].dir = call.path
  BY <1>2, <1>3 DEF Leads, Descriptor
<1>5. ~NoDirAt(Server(i), Descriptor(i))
  BY <1>3, <1>4, DirectoryIs DEF NoDirAt
<1>6. Descriptor(i) # NoFd
  BY <1>4, FileServerAssumption DEF Fds, NoFd
<1> QED
  BY <1>2, <1>3, <1>4, <1>5, <1>6 DEF StaleDir

\* The requests that close no stream.
LEMMA RequestStreams ==
    ASSUME Calm, Streaming, NEW i \in Slot, fuse.pc = "loop", fuse.i = i,
           Plain(i), call.op # "none", call.op # "releasedir"
    PROVE  KeepsStreams(Request(i).server, Server(i))
<1> DEFINE sv == Server(i)
           p == call.path
           x == Descriptor(i)
<1>1. call \in Call /\ Tidy(sv)
  BY ServersAre DEF Calm, Types, CallTypes
<1>2. CASE call.op = "readdir"
  <2>1. x \in Fds
    BY <1>2, HandleLeads
  <2>2. Request(i).server = Readdir(sv, x).server
    BY <1>2 DEF Request, Reply
  <2>3. /\ Readdir(sv, x).server.stream = [sv.stream EXCEPT ![x].ended = TRUE]
        /\ Readdir(sv, x).server.open = sv.open
    BY <1>1, DirStreams
  <2>4. sv.stream \in [Fds -> Stream]
    BY <1>1, Fields DEF Tidy
  <2> HIDE DEF sv, x
  <2> QED
    BY <2>1, <2>2, <2>3, <2>4 DEF sv, Stream, KeepsStreams
<1>3. CASE call.op = "release"
  <2> DEFINE r == Release(sv, x).server
  <2>1. PICK view \in View : Before(view)
    BY DEF Calm, Steady
  <2>2. /\ Holds(sv, fds[i], HandlesBefore) /\ call.handle \in Handle
        /\ call.path \in Paths /\ opened[call.handle] = call.path
    BY <1>3, <2>1, AtVisit, AskedIs DEF Call, Fits, OnFile, Calm, Steady, CallFits, HandlesFit
  <2>3. sv.open[x] # NoInode
    BY <1>3, <2>2 DEF Holds, HandlesBefore, Descriptor
  <2>4. \A d \in Fds \ {x} : r.open[d] = sv.open[d] /\ r.stream[d] = sv.stream[d]
    BY <1>1, ReleaseIs
  <2>5. Request(i).server = r
    BY <1>3 DEF Request
  <2> HIDE DEF sv, x, r
  <2>6. KeepsStreams(r, sv)
    BY <2>3, <2>4 DEF KeepsStreams
  <2> QED
    BY <2>5, <2>6 DEF sv
<1>4. CASE call.op \notin {"readdir", "release"}
  <2>1. SameUse(Request(i).server, sv)
    <3> DEFINE op == call.op
    <3>1. op \in {"getattr", "mknod", "unlink", "truncate", "write", "rename", "utime", "mkdir", "rmdir"}
      BY <1>1, <1>4 DEF Plain, Call, OnFile, OnEntry, OnDirectory
    <3>2. CASE op \in {"getattr", "utime", "mkdir", "rmdir", "truncate"}
      BY <1>1, <3>2, UsesStay DEF Request, Reply, SameUse
    <3>3. CASE op \in {"mknod", "unlink", "rename", "write"}
      BY <1>1, <3>3, UsesStay DEF Request
    <3> QED
      BY <3>1, <3>2, <3>3
  <2> QED
    BY <2>1 DEF SameUse, KeepsStreams
<1> QED
  BY <1>2, <1>3, <1>4

\* Servers that are not asked keep their streams.
LEMMA OtherStreams ==
    ASSUME Calm, servers' = servers, NEW i \in Slot, NEW sv, OnServer(i, sv),
           KeepsStreams(sv, Server(i))
    PROVE  \A j \in Slot : KeepsStreams(Server(j)', Server(j))
<1>1. Server(i)' = sv /\ \A j \in Slot : j # i => Server(j)' = Server(j)
  BY OthersAnswer DEF Calm, Steady
<1>2. \A j \in Slot : KeepsStreams(Server(j), Server(j))
  BY DEF KeepsStreams
<1> QED
  BY <1>1, <1>2

LEMMA ExecuteStreams ==
    ASSUME Calm, Streaming, NEW i \in Slot, Execute(i)
    PROVE  Streaming'
<1>1. /\ fuse.pc = "loop" /\ fuse.i = i /\ fuse'.pc = "loop" /\ fuse'.i = i + 1
      /\ servers' = servers
  BY AnsweredIs DEF Execute
<1>2. /\ Plain(i) /\ OnServer(i, Request(i).server) /\ fds' = fds /\ opened' = opened
      /\ call \in Call /\ call.op # "none"
  BY <1>1 DEF Execute, Calm, Types, CallTypes, Slots!Answered, Steady
<1>3. call'.op = call.op /\ call'.path = call.path /\ call'.handle = call.handle
  BY <1>2 DEF Execute, Call
<1>4. CASE call.op # "releasedir"
  <2>1. call.op # "opendir"
    BY <1>2 DEF Plain
  <2>2. \A j \in Slot : KeepsStreams(Server(j)', Server(j))
    BY <1>1, <1>2, <1>4, RequestStreams, OtherStreams
  <2> QED
    BY <1>2, <1>3, <1>4, <2>1, <2>2, StreamsRemain
<1>5. CASE call.op = "releasedir"
  <2> DEFINE sv == Server(i)
             f == fds[i]
             x == Descriptor(i)
             r == Releasedir(sv, x).server
  <2>1. /\ Leads(sv, f, opened) /\ call.handle \in Handle /\ IsDirectory(opened[call.handle])
        /\ x = f[call.handle]
    BY <1>1, <1>5, HandleLeads DEF Descriptor
  <2>2. /\ r.stream = [sv.stream EXCEPT ![x] = NoStream] /\ sv.stream \in [Fds -> Stream]
        /\ r.open = sv.open
    BY ServersAre, DirStreams, Fields DEF Calm, Types, Tidy
  <2>3. OnServer(i, r)
    BY <1>2, <1>5 DEF Request
  <2>4. \A h \in Handle : DirsAfter[h] = IF h = call.handle THEN NoPath ELSE opened[h]
    BY <1>5 DEF DirsAfter
  <2> HIDE DEF sv, f, x, r
  <2>5. Leads(r, f, DirsAfter)
    <3>1. ASSUME NEW h \in Handle, IsDirectory(DirsAfter[h])
          PROVE  h # call.handle /\ IsDirectory(opened[h]) /\ DirsAfter[h] = opened[h]
      BY <2>4, <3>1, DirectoryIs
    <3>2. ASSUME NEW h \in Handle, IsDirectory(DirsAfter[h])
          PROVE  f[h] \in Fds /\ r.stream[f[h]].dir = DirsAfter[h] /\ r.open[f[h]] = NoInode
      <4>1. h # call.handle /\ IsDirectory(opened[h]) /\ DirsAfter[h] = opened[h]
        BY <3>1, <3>2
      <4>2. f[h] \in Fds /\ f[h] # x /\ sv.stream[f[h]].dir = opened[h] /\ sv.open[f[h]] = NoInode
        BY <2>1, <4>1 DEF Leads
      <4> QED
        BY <2>2, <4>1, <4>2
    <3> QED
      BY <2>1, <3>1, <3>2 DEF Leads
  <2>6. SameCall
    BY <1>2, <1>3, <1>5 DEF SameCall, Execute
  <2> QED
    BY <1>1, <1>2, <2>3, <2>5, <2>6, StreamsVisited DEF f
<1> QED
  BY <1>4, <1>5

\* What is read, and what a server does not know, is a file.
LEMMA ReadStreams ==
    ASSUME Calm, Streaming, NEW i \in Slot, ReadCached(i) \/ ReadServer(i)
    PROVE  Streaming'
<1>1. call.op = "read" /\ server' = server /\ servers' = servers /\ fds' = fds /\ opened' = opened
  BY DEF ReadCached, ReadServer, Reading, worldVars, Slots!Answered, Slots!AnsweredLocally
<1>2. call'.op = call.op /\ call'.path = call.path /\ call'.handle = call.handle
  BY DEF ReadCached, ReadServer, Calm, Types, CallTypes, Call
<1>3. \A j \in Slot : KeepsStreams(Server(j)', Server(j))
  BY <1>1 DEF Server, KeepsStreams
<1> QED
  BY <1>1, <1>2, <1>3, StreamsRemain

LEMMA NoHandleIsUnknown ==
    ASSUME Calm, Streaming, NEW i \in Slot
    PROVE  ~ExecuteStale(i) /\ (UnknownHandle(i) => call.op = "read")
<1>1. ~ExecuteStale(i)
  BY HandleLeads DEF ExecuteStale, StaleDir, Slots!Answered, Slots!Requested, Slots!AtSlot
<1>2. UnknownHandle(i) => call.op = "read"
  BY UnknownHandleIs, HandleLeads DEF UnknownHandle
<1> QED
  BY <1>1, <1>2

\* An operation ends: the handles of directories that are open lead somewhere.
LEMMA RestsStreaming ==
    ASSUME server' = server, servers' = servers, fds' = fds, call' = NoCall, fuse'.pc = "idle",
           \A j \in Slot : Leads(Server(j), fds[j], opened')
    PROVE  Streaming'
<1>1. ASSUME NEW j \in Slot PROVE Leads(Server(j), fds[j], IF Done(j) THEN DirsAfter ELSE opened)'
  <2>1. ~Done(j)' /\ Server(j)' = Server(j)
    BY DEF Done, Server
  <2>2. Leads(Server(j), fds[j], opened)'
    BY <2>1 DEF Leads, IsDirectory
  <2> QED
    BY <2>1, <2>2
<1> QED
  BY <1>1 DEF Streaming, NoCall

LEMMA UnknownStreams ==
    ASSUME Calm, Streaming, NEW i \in Slot, UnknownHandle(i)
    PROVE  Streaming'
<1>1. /\ call.op = "read" /\ fuse'.pc = "idle" /\ call' = NoCall /\ servers' = servers
      /\ server' = server /\ fds' = fds /\ opened' = opened
  BY NoHandleIsUnknown DEF UnknownHandle, Slots!Return, Slots!Idle, worldVars
<1>2. \A h \in Handle : DirsAfter[h] = opened[h]
  BY <1>1, OtherDirs
<1>3. \A j \in Slot : Leads(Server(j), fds[j], opened)
  BY <1>2 DEF Streaming, Leads
<1> QED
  BY <1>1, <1>3, RestsStreaming

LEMMA FinishStreams ==
    ASSUME Calm, Streaming, Finish
    PROVE  Streaming'
<1>1. /\ fuse'.pc = "idle" /\ call' = NoCall /\ servers' = servers /\ server' = server /\ fds' = fds
      /\ call \in Call /\ Fits(call) /\ opened \in [Handle -> Tree \cup {Root, NoPath}]
      /\ call.handle \in Handle
  BY DEF Finish, Slots!Finish, Slots!Idle, worldVars, Calm, Types, CallTypes, ClientTypes, Call
<1>2. PICK view \in View : Before(view)
  BY DEF Calm, Steady
<1>3. \/ \A i \in Slot : Done(i)
      \/ call.op \in {"getattr", "read", "readdir"}
  BY <1>2, LoopHasBeen DEF Finish, Slots!Finish
<1>4. ASSUME NEW j \in Slot PROVE Leads(Server(j), fds[j], DirsAfter)
  <2>1. CASE Done(j)
    BY <2>1 DEF Streaming
  <2>2. CASE ~Done(j)
    <3>1. \A h \in Handle : DirsAfter[h] = opened[h]
      BY <1>3, <2>2, OtherDirs
    <3> QED
      BY <2>2, <3>1 DEF Streaming, Leads
  <2> QED
    BY <2>1, <2>2
<1>5. \A h \in Handle : IsDirectory(opened'[h]) => DirsAfter[h] = opened'[h]
  <2>1. CASE call.op \in {"open", "opendir"}
    <3>1. opened' = [opened EXCEPT ![call.handle] = call.path]
      BY <2>1 DEF Finish, Renamed
    <3>2. call.op = "open" => ~IsDirectory(call.path)
      BY <1>1, DirectoryIs DEF Fits, OnFile
    <3> QED
      BY <1>1, <2>1, <3>1, <3>2 DEF DirsAfter
  <2>2. CASE call.op \in {"release", "releasedir"}
    <3>1. opened' = [opened EXCEPT ![call.handle] = NoPath]
      BY <2>2 DEF Finish, Renamed
    <3> QED
      BY <1>1, <2>2, <3>1, DirectoryIs DEF DirsAfter
  <2>3. CASE call.op \notin {"open", "opendir", "release", "releasedir"}
    <3>1. opened' = IF Renamed THEN [h \in Handle |-> IF opened[h] = call.path THEN call.to
                                                      ELSE opened[h]]
                    ELSE opened
      BY <1>1, <2>3 DEF Finish
    <3>2. Renamed => ~IsDirectory(call.to)
      BY <1>1, DirectoryIs DEF Renamed, Fits
    <3> QED
      BY <1>1, <2>3, <3>1, <3>2, OtherDirs
  <2> QED
    BY <2>1, <2>2, <2>3
<1>6. \A j \in Slot : Leads(Server(j), fds[j], opened')
  BY <1>4, <1>5 DEF Leads
<1> QED
  BY <1>1, <1>6, RestsStreaming

LEMMA OpenStreams ==
    ASSUME Calm, Streaming, NEW i \in Slot, OpenAgreed(i) \/ OpenDisagreed(i)
    PROVE  Streaming'
<1>1. /\ call.op = "open" /\ call' = call /\ opened' = opened /\ servers' = servers
      /\ fuse.pc = "loop" /\ fuse.i = i
  BY DEF OpenAgreed, OpenDisagreed, Opening, Requesting, Slots!Requested, Slots!AtSlot,
         Slots!Answered
<1>2. PICK m \in Open(Server(i), call.path) : OnServer(i, m.server) /\ fds' = WithFd(i, m.status)
  BY DEF OpenAgreed, OpenDisagreed
<1> DEFINE sv == Server(i)
<1>3. KeepsStreams(m.server, sv)
  <2>1. Tidy(sv) /\ Exists(sv, call.path)
    <3>1. PICK view \in View : Before(view)
      BY DEF Calm, Steady
    <3> QED
      BY <1>1, <3>1, OpeningView, LookUp, NamesApart
  <2>2. PICK d \in Fds : /\ sv.stream[d] = NoStream
                         /\ \A e \in Fds \ {d} : m.server.open[e] = sv.open[e]
    <3>1. PICK d \in Fds : /\ sv.open[d] = NoInode /\ sv.stream[d] = NoStream
                           /\ m.server.open = [sv.open EXCEPT ![d] = sv.dir[call.path]]
      BY <1>1, <1>2, <2>1, OpenIs DEF Calm, Types, CallTypes, Fits, OnFile
    <3>2. sv.open \in [Fds -> Inodes \cup {NoInode}]
      BY <2>1, Fields DEF Tidy
    <3> HIDE DEF sv
    <3> QED
      BY <3>1, <3>2
  <2>3. m.server.stream = sv.stream
    BY <2>1, OpenStream
  <2> HIDE DEF sv
  <2> QED
    BY <2>2, <2>3, DirectoryIs DEF KeepsStreams
<1>4. \A j \in Slot : KeepsStreams(Server(j)', Server(j))
  BY <1>1, <1>2, <1>3, OtherStreams
<1>5. opened[call.handle] = NoPath
  BY <1>1 DEF Calm, Steady, CallFits, HandlesFit
<1>6. fds \in [Slot -> [Handle -> Fd]]
  BY DEF Calm, Types, ClientTypes
<1>7. ASSUME NEW j \in Slot, NEW h \in Handle, IsDirectory(opened[h]) PROVE fds'[j][h] = fds[j][h]
  BY <1>2, <1>5, <1>6, <1>7, DirectoryIs DEF WithFd
<1> QED
  BY <1>1, <1>4, <1>7, StreamsRemain

LEMMA RestoreStreams ==
    ASSUME Calm, Streaming, NEW i \in Slot, Restore(i)
    PROVE  Streaming'
<1>0. PICK t \in Slot : t = repair.target
  BY DEF Calm, Types, ClientTypes, RepairRequest
<1>1. /\ call.op = "open" /\ call' = call /\ opened' = opened /\ servers' = servers /\ fds' = fds
      /\ repair.source \in Slot /\ Restores(Now(repair.target)) /\ AllSlotsUp
  BY DEF Restore, Repairing, Slots!Repaired, Calm, Steady, Types, ClientTypes, RepairRequest
<1> DEFINE sv == Server(t)
           source == Server(repair.source)
           r == Restored(sv, call.path, source, Now(t))
<1>2. /\ Server(t)' = r
      /\ \A j \in Slot : j # t => Alike(Server(j)', Server(j))
  BY <1>0, <1>1, RestoresOne DEF Calm
<1>3. Tidy(sv)
  BY ServersAre DEF Calm, Types
<1> HIDE DEF source
<1>4. r.stream = sv.stream /\ r.open = sv.open
  BY <1>3, RestoredStream
<1> HIDE DEF r
<1>5. \A j \in Slot : KeepsStreams(Server(j)', Server(j))
  BY <1>2, <1>4 DEF Alike, KeepsStreams
<1> QED
  BY <1>1, <1>5, StreamsRemain

\* server_opendir gives the handle a stream that none of the others has.
LEMMA OpendirStreams ==
    ASSUME Calm, Streaming, NEW i \in Slot, OpendirDone(i)
    PROVE  Streaming'
<1> DEFINE sv == Server(i)
           f == fds[i]
           k == call.handle
<1>1. /\ fuse.pc = "loop" /\ fuse.i = i /\ fuse'.pc = "loop" /\ fuse'.i = i + 1
      /\ servers' = servers
  BY AnsweredIs DEF OpendirDone
<1>2. /\ call.op = "opendir" /\ call' = call /\ opened' = opened /\ opened[k] = NoPath
      /\ IsDirectory(call.path) /\ k \in Handle /\ SameCall
  BY DEF OpendirDone, Requesting, SameCall, Calm, Steady, CallFits, HandlesFit, Types, CallTypes,
         Fits, OnDirectory, Call, IsDirectory
<1>3. PICK m \in Opendir(sv, call.path) :
         m.status >= 0 /\ OnServer(i, m.server) /\ fds' = WithFd(i, m.status)
  BY DEF OpendirDone
<1> DEFINE r == m.server
           x == m.status
<1>4. /\ x \in Fds /\ sv.stream[x] = NoStream /\ sv.open[x] = NoInode /\ r.open = sv.open
      /\ r.stream = [sv.stream EXCEPT ![x] = [dir |-> call.path, ended |-> FALSE]]
      /\ sv.stream \in [Fds -> Stream]
  <2>1. Tidy(sv)
    BY ServersAre DEF Calm, Types
  <2>2. sv.stream \in [Fds -> Stream]
    BY <2>1, Fields DEF Tidy
  <2> HIDE DEF sv
  <2> QED
    BY <1>3, <2>1, <2>2, OpendirStream
<1>5. /\ \A j \in Slot : j # i => fds'[j] = fds[j]
      /\ fds'[i] = [f EXCEPT ![k] = x] /\ f \in [Handle -> Fd]
  BY <1>2, <1>3 DEF WithFd, Calm, Types, ClientTypes
<1>6. Leads(sv, f, opened)
  <2>1. ~Done(i)
    BY <1>1, SlotsAre DEF Done
  <2> QED
    BY <2>1 DEF Streaming
<1>7. \A h \in Handle : DirsAfter[h] = IF h = k THEN call.path ELSE opened[h]
  BY <1>2 DEF DirsAfter
<1> DEFINE g == fds'[i]
<1> HIDE DEF sv, r, x, f, k, g
<1>8. ASSUME NEW h \in Handle, h # k, IsDirectory(DirsAfter[h])
      PROVE  /\ g[h] = f[h] /\ g[h] \in Fds /\ g[h] # x /\ IsDirectory(opened[h])
             /\ r.stream[g[h]].dir = DirsAfter[h] /\ r.open[g[h]] = NoInode
  <2>1. g[h] = f[h] /\ IsDirectory(opened[h]) /\ DirsAfter[h] = opened[h]
    BY <1>5, <1>7, <1>8 DEF g
  <2>2. f[h] \in Fds /\ sv.stream[f[h]].dir = opened[h] /\ sv.open[f[h]] = NoInode
    BY <1>6, <2>1 DEF Leads
  <2>3. f[h] # x
    BY <1>4, <2>1, <2>2, DirectoryIs
  <2> QED
    BY <1>4, <2>1, <2>2, <2>3
<1>9. g[k] = x /\ r.stream[x].dir = DirsAfter[k] /\ r.open[x] = NoInode
  BY <1>2, <1>4, <1>5, <1>7 DEF g, k
<1>10. ASSUME NEW h \in Handle, IsDirectory(DirsAfter[h])
       PROVE  g[h] \in Fds /\ r.stream[g[h]].dir = DirsAfter[h] /\ r.open[g[h]] = NoInode
  BY <1>4, <1>8, <1>9, <1>10
<1>11. ASSUME NEW e \in Handle, NEW h \in Handle, e # h, IsDirectory(DirsAfter[e]),
              IsDirectory(DirsAfter[h])
       PROVE  g[e] # g[h]
  <2>1. CASE e = k
    BY <1>8, <1>9, <1>11, <2>1
  <2>2. CASE h = k
    BY <1>8, <1>9, <1>11, <2>2
  <2>3. CASE e # k /\ h # k
    BY <1>6, <1>8, <1>11, <2>3 DEF Leads
  <2> QED
    BY <2>1, <2>2, <2>3
<1>12. Leads(r, g, DirsAfter)
  BY <1>10, <1>11 DEF Leads
<1> QED
  BY <1>1, <1>2, <1>3, <1>5, <1>12, StreamsVisited DEF r, g

LEMMA BeginStreams ==
    ASSUME Calm, Streaming, Begin
    PROVE  Streaming'
<1>1. /\ fuse.pc = "idle" /\ fuse'.i = 0 /\ servers' = servers /\ server' = server
      /\ fds' = fds /\ opened' = opened
  BY DEF Begin, BeginMknod, BeginUnlink, BeginTruncate, BeginOpen, BeginRename, BeginUtime,
         BeginMkdir, BeginRmdir, BeginOpendir, BeginRead, BeginRelease, BeginReaddir, BeginWrite,
         BeginGetattr, BeginOn, BeginHandle, BeginCall, Slots!Begin, Slots!Idle, worldVars
<1>2. ASSUME NEW j \in Slot PROVE Leads(Server(j), fds[j], IF Done(j) THEN DirsAfter ELSE opened)'
  <2>1. ~Done(j) /\ ~Done(j)' /\ Server(j)' = Server(j)
    BY <1>1, SlotsAre DEF Done, Server
  <2>2. Leads(Server(j), fds[j], opened)
    BY <2>1 DEF Streaming
  <2>3. Leads(Server(j), fds[j], opened)'
    BY <1>1, <2>1, <2>2 DEF Leads, IsDirectory
  <2> QED
    BY <2>1, <2>3
<1>3. ASSUME call'.op \in {"readdir", "releasedir"} PROVE opened[call'.handle] = call'.path
  <2>1. PICK h \in Handle : BeginReaddir(h) \/ BeginRelease(h)
    <3>1. ASSUME NEW p \in Paths,
                 BeginMknod(p) \/ BeginUnlink(p) \/ BeginTruncate(p) \/ BeginOpen(p)
          PROVE  FALSE
      BY <1>3, <3>1
      DEF BeginMknod, BeginUnlink, BeginTruncate, BeginOpen, BeginOn, BeginHandle, BeginCall, NoCall
    <3>2. ASSUME NEW p \in Paths, NEW q \in Paths, BeginRename(p, q)
          PROVE  FALSE
      BY <1>3, <3>2 DEF BeginRename, BeginCall, NoCall
    <3>3. ASSUME NEW p \in Paths, NEW time \in Times, BeginUtime(p, time)
          PROVE  FALSE
      BY <1>3, <3>3 DEF BeginUtime, BeginCall, NoCall
    <3>4. ASSUME NEW d \in Dirs \cup {Root}, BeginMkdir(d) \/ BeginRmdir(d) \/ BeginOpendir(d)
          PROVE  FALSE
      BY <1>3, <3>4
      DEF BeginMkdir, BeginRmdir, BeginOpendir, BeginOn, BeginHandle, BeginCall, NoCall
    <3>5. ASSUME NEW e \in Handle, NEW data, BeginWrite(e, data)
          PROVE  FALSE
      BY <1>3, <3>5 DEF BeginWrite, BeginCall, NoCall
    <3>6. ~BeginGetattr /\ \A e \in Handle : ~BeginRead(e)
      BY <1>3 DEF BeginGetattr, BeginRead, BeginCall, NoCall
    <3>7. ~\E p \in Paths : \/ BeginMknod(p) \/ BeginUnlink(p) \/ BeginTruncate(p) \/ BeginOpen(p)
                            \/ \E q \in Paths \ {p} : BeginRename(p, q)
                            \/ \E time \in Times : BeginUtime(p, time)
      BY <3>1, <3>2, <3>3
    <3>8. /\ ~\E d \in Dirs : BeginMkdir(d) \/ BeginRmdir(d)
          /\ ~\E d \in Dirs \cup {Root} : BeginOpendir(d)
      BY <3>4
    <3>9. PICK h \in 0 .. Handles - 1 :
               \/ BeginRead(h) \/ BeginRelease(h) \/ BeginReaddir(h)
               \/ \E data \in Fragments : BeginWrite(h, data)
      BY <3>6, <3>7, <3>8 DEF Begin
    <3> QED
      BY <3>5, <3>6, <3>9 DEF Handle
  <2>2. call'.handle = h /\ call'.path = opened[h]
    <3>1. CASE BeginReaddir(h)
      BY <3>1 DEF BeginReaddir, BeginCall, NoCall
    <3>2. CASE BeginRelease(h)
      <4> DEFINE op == IF opened[h] \in Paths THEN "release" ELSE "releasedir"
      <4>1. PICK res : BeginCall("all", HandleCall(op, opened[h], h, res))
        BY <3>2 DEF BeginRelease, HandleCall
      <4>2. call' = HandleCall(op, opened[h], h, res)
        BY <4>1 DEF BeginCall
      <4> HIDE DEF op
      <4> QED
        BY <4>2 DEF HandleCall, NoCall
    <3> QED
      BY <2>1, <3>1, <3>2
  <2> QED
    BY <2>2
<1> QED
  BY <1>1, <1>2, <1>3 DEF Streaming

LEMMA WorldStreams ==
    ASSUME Calm, Streaming, Fair,
           \A i \in Slot : Server(i)'.stream = Server(i).stream /\ Server(i)'.open = Server(i).open
    PROVE  Streaming'
<1>1. /\ call'.op = call.op /\ call'.path = call.path /\ call'.handle = call.handle
  BY DEF Fair, Calm, Types, CallTypes, Call
<1>2. DirsAfter' = DirsAfter
  BY <1>1 DEF DirsAfter, Fair
<1>3. ASSUME NEW j \in Slot PROVE Leads(Server(j), fds[j], IF Done(j) THEN DirsAfter ELSE opened)'
  <2>1. Leads(Server(j), fds[j], IF Done(j) THEN DirsAfter ELSE opened)
    BY DEF Streaming
  <2>2. (Done(j)' <=> Done(j)) /\ fds' = fds /\ opened' = opened
    BY DEF Done, Fair
  <2>3. Server(j)'.stream = Server(j).stream /\ Server(j)'.open = Server(j).open
    OBVIOUS
  <2>4. Leads(Server(j)', fds'[j], IF Done(j)' THEN DirsAfter' ELSE opened')
    BY <1>2, <2>1, <2>2, <2>3 DEF Leads
  <2> QED
    BY <2>4 DEF Leads, IsDirectory
<1> QED
  BY <1>1, <1>3 DEF Streaming, Fair

LEMMA DamageStreams ==
    ASSUME Calm, Streaming, NEW n \in Names, NEW p \in Paths, NEW data \in Data, Damage(n, p, data)
    PROVE  Streaming'
<1>1. ASSUME NEW i \in Slot
      PROVE  Server(i)'.stream = Server(i).stream /\ Server(i)'.open = Server(i).open
  <2>1. Tidy(Server(i))
    BY ServersAre DEF Calm, Types
  <2>2. /\ Damaged(Server(i), p, data).stream = Server(i).stream
        /\ Damaged(Server(i), p, data).open = Server(i).open
    BY <2>1, DamagedStream
  <2> QED
    BY <2>2, DamageHits
<1> QED
  BY <1>1, DamageHits, WorldStreams

LEMMA StepStreams ==
    ASSUME Types, Slots!TypeOK, SteadyAlive, StreamingAlive, AllAnswer, AllAnswer', [Next]_vars
    PROVE  StreamingAlive'
<1> SUFFICES ASSUME Alive' PROVE Streaming'
  BY DEF StreamingAlive
<1>1. Calm /\ Streaming
  BY StepIsCalm DEF Calm, StreamingAlive
<1>2. ASSUME NEW t \in Threads, ThreadStep(t) PROVE FALSE
  BY <1>1, <1>2
  DEF ThreadStep, Slots!PingAnswered, Slots!PingFailed, Slots!PingGivenUp, Slots!TakeSpareName,
      Slots!LeaveSpareName, Calm, Steady, AllSlotsUp
<1>3. ~Gone
  BY <1>1 DEF Gone, Slots!Gone, Calm, Alive
<1>4. ASSUME Fair, Unharmed PROVE Streaming'
  BY <1>1, <1>4, WorldStreams DEF Unharmed
<1>5. ASSUME NEW i \in Slot, Visit(i) PROVE Streaming'
  BY <1>1, <1>5, NotReached, NoneFails, Crashed, NoHandleIsUnknown, ExecuteStreams, ReadStreams,
     OpenStreams, OpendirStreams, RestoreStreams, UnknownStreams
  DEF Visit
<1> QED
  BY <1>1, <1>2, <1>3, <1>4, <1>5, BeginStreams, FinishStreams, FaultsElsewhere, DamageStreams,
     NothingHappens
  DEF Next, Quiet

LEMMA InitStreams == Init => Streaming
<1> SUFFICES ASSUME Init PROVE Streaming
  OBVIOUS
<1>1. call.op = "none" /\ \A h \in Handle : opened[h] = NoPath /\ DirsAfter[h] = NoPath
  BY DEF Init, NoCall, Handle, DirsAfter
<1>2. \A i \in Slot : Leads(Server(i), fds[i], IF Done(i) THEN DirsAfter ELSE opened)
  BY <1>1, DirectoryIs DEF Leads
<1> QED
  BY <1>1, <1>2 DEF Streaming

\* While every server answers, the handle of every open directory leads on every
\* server to a stream of that directory, and to one that no other handle has.
THEOREM StreamingWhileAllAnswer == Spec /\ []AllAnswer => []StreamingAlive
<1>1. Init => StreamingAlive
  BY InitStreams DEF StreamingAlive
<1>2. Types /\ Slots!TypeOK /\ SteadyAlive /\ StreamingAlive /\ AllAnswer /\ AllAnswer' /\ [Next]_vars
        => StreamingAlive'
  BY StepStreams
<1> QED
  BY <1>1, <1>2, StorageInvariant, StorageSlotTypes, SteadyWhileAllAnswer, PTL DEF Spec

\* What a server lists is what there is in the directory.
LEMMA ListingIs ==
    ASSUME Calm, Streaming, faults.damage = 0, NEW i \in Slot, Execute(i), call.op = "readdir",
           ~Server(i).stream[Descriptor(i)].ended
    PROVE  Listed(i)
<1> DEFINE sv == Server(i)
           there == {p \in Paths : Parent[p] = call.path} \cup (IF call.path = Root THEN Dirs ELSE {})
<1>1. fuse.pc = "loop" /\ fuse.i = i
  BY AnsweredIs DEF Execute
<1>2. PICK view \in View : Before(view)
  BY DEF Calm, Steady
<1>3. Tidy(sv) /\ Like(sv, view)
  BY <1>1, <1>2, AtVisit, AskedIs
<1>4. \A x \in Tree : view[x] \in acked[x]
  BY <1>2 DEF Before
<1>5. call'.entries = Children(sv, call.path)
  <2>1. call'.entries = Readdir(sv, Descriptor(i)).entries
    BY DEF Execute, Entries, Calm, Types, CallTypes, Call
  <2>2. sv.stream[Descriptor(i)].dir = call.path
    BY <1>1, HandleLeads
  <2> QED
    BY <2>1, <2>2 DEF Readdir
<1>6. \A x \in Tree : Exists(sv, x) <=> view[x] # Absent
  BY <1>3, LookUp
<1>7. \A x \in Tree : x \in Children(sv, call.path) <=> x \in there /\ Exists(sv, x)
  BY <1>3, Seen, NamesApart, Fields DEF Children, Tree, Tidy
<1>8. Children(sv, call.path) \subseteq Tree /\ there \subseteq Tree
  BY <1>3, Fields DEF Children, Tree, Tidy
<1> QED
  BY <1>4, <1>5, <1>6, <1>7, <1>8 DEF Listed

\* The listing of a directory has what was reported to be in it, and nothing that
\* was reported not to be: as long as the servers answer and nothing is damaged.
THEOREM ListingsAreTrueWhileAllAnswer ==
    Spec /\ []AllAnswer /\ [](faults.damage = 0) => ListingsAreTrue
<1> DEFINE Listing ==
              \A i \in Slot :
                 /\ Execute(i) /\ call.op = "readdir"
                 /\ ~Server(i).stream[Descriptor(i)].ended
                 => Listed(i)
<1>1. /\ Types /\ Slots!TypeOK /\ SteadyAlive /\ StreamingAlive /\ AllAnswer /\ AllAnswer'
      /\ faults.damage = 0
      => [Listing]_vars
  <2>1. ASSUME Slots!TypeOK, NEW i \in Slot, Execute(i) PROVE Alive /\ Alive'
    BY <2>1 DEF Execute, Slots!Answered, Slots!Requested, Slots!AtSlot, Slots!Contacted,
                Slots!TypeOK, Slots!Fuse, Alive
  <2> QED
    BY <2>1, ListingIs DEF Calm, SteadyAlive, StreamingAlive
<1> QED
  BY <1>1, StorageInvariant, StorageSlotTypes, SteadyWhileAllAnswer, StreamingWhileAllAnswer, PTL
  DEF ListingsAreTrue

=============================================================================
