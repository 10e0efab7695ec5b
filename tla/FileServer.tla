------------------------------ MODULE FileServer ------------------------------
(***************************************************************************)
(* One storage server: the files and directories below its root, the hash  *)
(* each file carries in the extended attribute user.hash, and the          *)
(* descriptors and directory streams of the process.  Every request is an  *)
(* operator from the server to its reply, or to a set of replies where the *)
(* code reads memory it has not initialised.                               *)
(*                                                                         *)
(* A content is an element of Data and stands for its own hash (MD5 is     *)
(* taken for injective).  A write patches the content of its file with a   *)
(* fragment (bytes and an offset), and truncate empties it.                *)
(***************************************************************************)
EXTENDS Integers, FiniteSets

CONSTANTS
    Paths,    \* files
    Dirs,     \* directories, all in the root directory
    Parent,   \* file -> its directory
    Data,     \* contents
    Empty,    \* the content of a new file
    Fragments,  \* what a write may put into a file, and where
    Patched,  \* <<content, fragment>> -> the content that pwrite() makes of it
    MaxFd,    \* bound: descriptors are 0 .. MaxFd
    MaxTime   \* bound: modification times (seconds) are 0 .. MaxTime

ASSUME FileServerAssumption ==
    /\ IsFiniteSet(Paths)
    /\ Empty \in Data
    /\ Patched \in [Data \X Fragments -> Data]
    /\ Parent \in [Paths -> Dirs \cup {"/"}]
    /\ Paths \cap Dirs = {} /\ {"/", "none"} \cap (Paths \cup Dirs) = {}
    /\ {"absent", "nohash"} \cap Data = {}
    /\ MaxFd \in Nat
    /\ MaxTime \in Nat

Fds == 0 .. MaxFd
Times == 0 .. MaxTime
Inodes == 1 .. Cardinality(Paths) + MaxFd + 1
NoInode == 0

OK == 0
ENOENT == -2
EBADF == -9
EEXIST == -17
ENOTEMPTY == -39
ERRHASH == -133

\* What a hash buffer that nothing was written to may contain besides a hash.
Junk == "junk"

\* A file without the attribute user.hash.
NoHash == "nohash"

Inode == [data : Data, hash : Data \cup {NoHash}, mtime : Times]
Blank == [data |-> Empty, hash |-> Empty, mtime |-> 0]

\* A DIR is named by its descriptor; `ended': readdir() has come to its end.
NoDir == "none"
Root == "/"
Stream == [dir : Dirs \cup {Root, NoDir}, ended : BOOLEAN]
NoStream == [dir |-> NoDir, ended |-> FALSE]

FileServer == [up : BOOLEAN,
               dir : [Paths -> Inodes \cup {NoInode}],
               dirs : SUBSET Dirs,
               inode : [Inodes -> Inode],
               open : [Fds -> Inodes \cup {NoInode}],
               stream : [Fds -> Stream],
               left : SUBSET Fds]     \* of the FILEs that server_readall never closes

Tree == Paths \cup Dirs

Exists(sv, p) == IF p \in Dirs THEN p \in sv.dirs ELSE sv.dir[p] # NoInode

File(sv, p) == sv.inode[sv.dir[p]]

Absent == "absent"
Directory == "directory"
Content(sv, p) ==
    IF ~Exists(sv, p) THEN Absent ELSE IF p \in Dirs THEN Directory ELSE File(sv, p).data

HasParent(sv, p) == Parent[p] \in sv.dirs \cup {Root}

Children(sv, d) ==
    {p \in Paths : Parent[p] = d /\ Exists(sv, p)} \cup (IF d = Root THEN sv.dirs ELSE {})

\* A file whose content has the hash that was saved for it.
Sound(sv, p) == Exists(sv, p) /\ File(sv, p).data = File(sv, p).hash

\* A file that server_open does not find damaged for certain.
MayPass(sv, p) == Exists(sv, p) /\ File(sv, p).hash \in {File(sv, p).data, NoHash}

-----------------------------------------------------------------------------
(* The file system below the calls.                                         *)

InUse(sv) == {sv.dir[p] : p \in Paths} \cup {sv.open[d] : d \in Fds}

NewInode(sv) == CHOOSE n \in Inodes \ InUse(sv) : \A m \in Inodes \ InUse(sv) : n <= m

FreeFds(sv) ==
    {d \in Fds \ sv.left : sv.open[d] = NoInode /\ sv.stream[d] = NoStream}
Closed(sv, d) == d \in Fds => sv.open[d] = NoInode
NoDirAt(sv, d) == d \in Fds => sv.stream[d] = NoStream
LowestFd(sv) == {d \in FreeFds(sv) : \A e \in FreeFds(sv) : d <= e}

\* An inode that neither a name nor a descriptor refers to is freed.
Swept(sv) ==
    [sv EXCEPT !.inode = [n \in Inodes |-> IF n \in InUse(sv) THEN @[n] ELSE Blank]]

WithFile(sv, p, file) ==
    LET n == IF Exists(sv, p) THEN sv.dir[p] ELSE NewInode(sv)
    IN  [sv EXCEPT !.dir[p] = n, !.inode[n] = file]

Fresh(data, now) == [data |-> data, hash |-> data, mtime |-> now]

Started(sv) == [sv EXCEPT !.up = TRUE]
Unreachable(sv) == [sv EXCEPT !.up = FALSE]
Killed(sv) == Swept([sv EXCEPT !.up = FALSE, !.open = [d \in Fds |-> NoInode],
                               !.stream = [d \in Fds |-> NoStream], !.left = {}])

Damaged(sv, p, data) == [sv EXCEPT !.inode[sv.dir[p]].data = data]

\* hasher_save_for: the attribute belongs to the file the path names.
Rehashed(sv, p) == [sv EXCEPT !.inode[sv.dir[p]].hash = File(sv, p).data]

-----------------------------------------------------------------------------
(* The requests.                                                            *)

Reply(sv, status) == [server |-> sv, status |-> status]

\* server_mknod saves the hash even if the file was there before.
Mknod(sv, p, now) ==
    IF Exists(sv, p) THEN Reply(Rehashed(sv, p), EEXIST)
    ELSE IF ~HasParent(sv, p) THEN Reply(sv, ENOENT)
    ELSE Reply(WithFile(sv, p, Fresh(Empty, now)), OK)

Unlink(sv, p) ==
    IF Exists(sv, p) THEN Reply(Swept([sv EXCEPT !.dir[p] = NoInode]), OK)
                     ELSE Reply(sv, ENOENT)

\* server_rename: the attribute with the hash and the open descriptors stay with
\* the file.
Rename(sv, p, q) ==
    IF ~Exists(sv, p) \/ ~HasParent(sv, q) THEN Reply(sv, ENOENT)
    ELSE Reply(Swept([sv EXCEPT !.dir[q] = sv.dir[p], !.dir[p] = NoInode]), OK)

Utime(sv, p, time) ==
    IF Exists(sv, p) THEN Reply([sv EXCEPT !.inode[sv.dir[p]].mtime = time], OK)
                     ELSE Reply(sv, ENOENT)

Mkdir(sv, d) ==
    IF d \in sv.dirs THEN Reply(sv, EEXIST) ELSE Reply([sv EXCEPT !.dirs = @ \cup {d}], OK)

Rmdir(sv, d) ==
    IF d \notin sv.dirs THEN Reply(sv, ENOENT)
    ELSE IF Children(sv, d) # {} THEN Reply(sv, ENOTEMPTY)
    ELSE Reply([sv EXCEPT !.dirs = @ \ {d}], OK)

\* server_opendir.
Opendir(sv, d) ==
    IF d # Root /\ d \notin sv.dirs THEN {Reply(sv, ENOENT)}
    ELSE {Reply([sv EXCEPT !.stream[n] = [dir |-> d, ended |-> FALSE]], n) : n \in LowestFd(sv)}

\* server_readdir counts from where the stream is, then rewinds it and reads as
\* many entries: it is at its end afterwards, and the next call counts none.
Readdir(sv, d) ==
    [server |-> [sv EXCEPT !.stream[d].ended = TRUE],
     entries |-> IF sv.stream[d].ended THEN {} ELSE Children(sv, sv.stream[d].dir)]

\* closedir().
Releasedir(sv, d) == Reply([sv EXCEPT !.stream[d] = NoStream], OK)

\* server_truncate leaves the saved hash as it was.
Truncate(sv, p, now) ==
    IF Exists(sv, p)
    THEN Reply([sv EXCEPT !.inode[sv.dir[p]].data = Empty,
                          !.inode[sv.dir[p]].mtime = now], OK)
    ELSE Reply(sv, ENOENT)

\* server_write: pwrite goes to the descriptor; the hash of the whole file that
\* has the path, right or damaged elsewhere, is saved for it.
Write(sv, p, d, fragment, now) ==
    IF Closed(sv, d) THEN Reply(sv, EBADF)
    ELSE LET written == [sv EXCEPT !.inode[sv.open[d]].data = Patched[<<@, fragment>>],
                                   !.inode[sv.open[d]].mtime = now]
         IN  IF Exists(sv, p) THEN Reply(Rehashed(written, p), OK)
                              ELSE Reply(written, ENOENT)

\* close() closes whatever the number stands for by now; it answers -1 for nothing.
Release(sv, d) ==
    IF d \notin Fds \ FreeFds(sv) THEN Reply(sv, -1)
    ELSE Reply(Swept([sv EXCEPT !.open[d] = NoInode, !.stream[d] = NoStream,
                                !.left = @ \ {d}]), OK)

\* Variant of Open: the saved hash is not looked at.
OpenUnchecked(sv, p) ==
    {[server |-> [sv EXCEPT !.open[d] = sv.dir[p]], status |-> d,
      hash |-> File(sv, p).data, mtime |-> File(sv, p).mtime] : d \in LowestFd(sv)}

\* server_open: the descriptor stays open when the hash does not match.  For a
\* file without a saved hash old_hash is uninitialised, for one that is not there
\* hash and st_mtime are as well.
Open(sv, p) ==
    IF Exists(sv, p)
    THEN {[server |-> [sv EXCEPT !.open[d] = sv.dir[p]],
           status |-> status, hash |-> File(sv, p).data, mtime |-> File(sv, p).mtime] :
             d \in LowestFd(sv),
             status \in (IF MayPass(sv, p) THEN LowestFd(sv) ELSE {})
                        \cup (IF Sound(sv, p) THEN {} ELSE {ERRHASH})}
    ELSE [server : {sv}, status : {ENOENT, ERRHASH}, hash : Data \cup {Junk}, mtime : Times]

\* server_readall opens the file, if it is there, and does not close it.
ReadAll(sv, ps) ==
    {[sv EXCEPT !.left = @ \cup ds] : ds \in
        {ds \in SUBSET FreeFds(sv) :
            /\ Cardinality(ds) = Cardinality({p \in ps : Exists(sv, p)})
            /\ \A d \in ds, e \in FreeFds(sv) \ ds : d < e}}

\* mkdir_recursive.
WithParents(sv, ps) == [sv EXCEPT !.dirs = @ \cup ({Parent[p] : p \in ps} \ {Root})]

\* Variant of Restored: the hash is saved before the content is written.
RestoredAfterHash(sv, p, source, now) ==
    LET content == IF Exists(source, p) THEN File(source, p).data ELSE Empty
    IN  WithFile(WithParents(sv, {p}), p, [data |-> content, hash |-> Empty, mtime |-> now])

\* server_restore with the reply of server_readall, which is empty for a file
\* that is not there.
Restored(sv, p, source, now) ==
    LET content == IF Exists(source, p) THEN File(source, p).data ELSE Empty
    IN  WithFile(WithParents(sv, {p}), p, Fresh(content, now))

\* server_restore when the other server does not answer: the file has been
\* emptied or made, its hash has not, and the process dies on the missing reply.
RestoreDies(sv, p, now) ==
    LET hash == IF Exists(sv, p) THEN File(sv, p).hash ELSE NoHash
    IN  Killed(WithFile(WithParents(sv, {p}), p, [data |-> Empty, hash |-> hash, mtime |-> now]))

\* empty_directory, the first thing server_restoreall does.
Emptied(sv) == Swept([sv EXCEPT !.dir = [p \in Paths |-> NoInode], !.dirs = {}])

\* server_restoreall: the files of the other server, with the present time.  Only
\* a file brings its directory with it; an empty directory is not made.
Duplicate(sv, source, now) ==
    LET wiped == Emptied(sv)
        kept == {p \in Paths : Exists(source, p)}
        numbering == CHOOSE f \in [kept -> Inodes \ InUse(wiped)] :
                        \A p, q \in kept : p # q => f[p] # f[q]
    IN  [WithParents(wiped, kept) EXCEPT
            !.dir = [p \in Paths |-> IF p \in kept THEN numbering[p] ELSE NoInode],
            !.inode = [n \in Inodes |->
                         IF \E p \in kept : numbering[p] = n
                         THEN Fresh(File(source, CHOOSE p \in kept : numbering[p] = n).data, now)
                         ELSE @[n]]]

=============================================================================
