---------------------------- MODULE FileServerProofs ----------------------------
(***************************************************************************)
(* What the requests do to a server, for all files, directories, contents  *)
(* and descriptors: facts that the proofs about the storage rest on.       *)
(***************************************************************************)
EXTENDS FileServer, FunctionTheorems, FiniteSetTheorems, TLAPS

-----------------------------------------------------------------------------
(* There is always an inode for a new file.                                 *)

LEMMA LeastOf ==
    ASSUME NEW S \in SUBSET Nat, S # {}
    PROVE  \E n \in S : \A m \in S : n <= m
<1>1. PICK n \in S : \A m \in S : ~(<<m, n>> \in OpToRel(<, Nat))
  BY NatLessThanWellFounded, WFMin
<1>2. \A m \in S : ~(m < n)
  BY <1>1, Zenon DEF OpToRel
<1> QED
  BY <1>2

LEMMA Ranges ==
    ASSUME NEW S, NEW T, NEW f \in [S -> T], IsFiniteSet(S)
    PROVE  LET R == {f[x] : x \in S}
           IN  IsFiniteSet(R) /\ Cardinality(R) <= Cardinality(S)
<1> DEFINE R == {f[x] : x \in S}
<1>1. f \in Surjection(S, R)
  BY Fun_IsSurj
<1> QED
  BY <1>1, FS_Surjection

LEMMA InodesAre ==
    /\ Inodes \subseteq Nat /\ NoInode \notin Inodes
    /\ IsFiniteSet(Inodes) /\ Cardinality(Inodes) = Cardinality(Paths) + MaxFd + 1
    /\ IsFiniteSet(Fds) /\ Cardinality(Fds) = MaxFd + 1
    /\ IsFiniteSet(Paths) /\ Cardinality(Paths) \in Nat
<1>1. IsFiniteSet(Paths) /\ Cardinality(Paths) \in Nat /\ MaxFd \in Nat
  BY FS_CardinalityType, FileServerAssumption
<1>2. IsFiniteSet(Inodes) /\ Cardinality(Inodes) = Cardinality(Paths) + MaxFd + 1
  <2> DEFINE n == Cardinality(Paths) + MaxFd + 1
  <2>1. n \in Int /\ n >= 1 /\ 1 \in Int /\ Inodes = 1 .. n
    BY <1>1 DEF Inodes
  <2> HIDE DEF n
  <2>2. IsFiniteSet(1 .. n) /\ Cardinality(1 .. n) = IF 1 > n THEN 0 ELSE n - 1 + 1
    BY <2>1, FS_Interval
  <2>3. IsFiniteSet(Inodes) /\ Cardinality(Inodes) = n
    BY <2>1, <2>2
  <2> QED
    BY <1>1, <2>3 DEF n
<1>3. IsFiniteSet(Fds) /\ Cardinality(Fds) = MaxFd + 1
  BY <1>1, FS_Interval DEF Fds
<1> QED
  BY <1>1, <1>2, <1>3 DEF Inodes, NoInode

\* What names and descriptors refer to, counted by names and descriptors.
LEMMA InUseIsSmall ==
    ASSUME NEW sv \in FileServer, NEW named \in SUBSET Paths,
           \A p \in Paths \ named : sv.dir[p] = NoInode
    PROVE  /\ IsFiniteSet(Inodes \ InUse(sv))
           /\ Cardinality(Inodes \ InUse(sv)) >= Cardinality(Paths) - Cardinality(named)
<1>1. sv.dir \in [Paths -> Inodes \cup {NoInode}] /\ sv.open \in [Fds -> Inodes \cup {NoInode}]
  BY DEF FileServer
<1> DEFINE dir == [p \in named |-> sv.dir[p]]
           A == {dir[p] : p \in named}
           B == {sv.open[d] : d \in Fds}
<1>2. IsFiniteSet(named)
  BY InodesAre, FS_Subset
<1>3. IsFiniteSet(A) /\ Cardinality(A) <= Cardinality(named)
  <2>1. dir \in [named -> Inodes \cup {NoInode}]
    BY <1>1
  <2> HIDE DEF dir
  <2> QED
    BY <1>2, <2>1, Ranges
<1>4. IsFiniteSet(B) /\ Cardinality(B) <= MaxFd + 1
  <2>1. IsFiniteSet(B) /\ Cardinality(B) <= Cardinality(Fds)
    BY <1>1, InodesAre, Ranges
  <2> QED
    BY <2>1, InodesAre
<1>5. Inodes \cap InUse(sv) \subseteq A \cup B
  BY InodesAre DEF InUse
<1> HIDE DEF A, B
<1>6. IsFiniteSet(A \cup B) /\ Cardinality(A \cup B) = Cardinality(A) + Cardinality(B) - Cardinality(A \cap B)
  BY <1>3, <1>4, FS_Union
<1>7. IsFiniteSet(A \cap B)
  BY <1>3, FS_Intersection
<1>8. /\ Cardinality(A) \in Nat /\ Cardinality(B) \in Nat /\ Cardinality(A \cap B) \in Nat
      /\ Cardinality(named) \in Nat
  BY <1>2, <1>3, <1>4, <1>7, FS_CardinalityType
<1>9. Cardinality(A \cup B) <= Cardinality(named) + MaxFd + 1
  BY <1>3, <1>4, <1>6, <1>8, FileServerAssumption
<1>10. /\ IsFiniteSet(Inodes \cap InUse(sv))
       /\ Cardinality(Inodes \cap InUse(sv)) <= Cardinality(A \cup B)
  BY <1>5, <1>6, FS_Subset
<1>11. /\ IsFiniteSet(Inodes \ InUse(sv))
       /\ Cardinality(Inodes \ InUse(sv)) = Cardinality(Inodes) - Cardinality(Inodes \cap InUse(sv))
  BY InodesAre, FS_Difference
<1>12. Cardinality(Inodes \cap InUse(sv)) \in Nat /\ Cardinality(A \cup B) \in Nat
  BY <1>6, <1>10, FS_CardinalityType
<1> QED
  BY <1>8, <1>9, <1>10, <1>11, <1>12, InodesAre, FileServerAssumption

LEMMA InodeForFile ==
    ASSUME NEW sv \in FileServer, NEW p \in Paths, sv.dir[p] = NoInode
    PROVE  NewInode(sv) \in Inodes \ InUse(sv)
<1>1. IsFiniteSet(Paths \ {p}) /\ Cardinality(Paths \ {p}) = Cardinality(Paths) - 1
  BY InodesAre, FS_RemoveElement
<1>2. /\ IsFiniteSet(Inodes \ InUse(sv))
      /\ Cardinality(Inodes \ InUse(sv)) >= Cardinality(Paths) - Cardinality(Paths \ {p})
  BY InUseIsSmall
<1>3. Cardinality(Inodes \ InUse(sv)) # 0
  BY <1>1, <1>2, InodesAre, FS_CardinalityType
<1>4. Inodes \ InUse(sv) # {} /\ Inodes \ InUse(sv) \in SUBSET Nat
  BY <1>3, InodesAre, FS_EmptySet
<1>5. \E n \in Inodes \ InUse(sv) : \A m \in Inodes \ InUse(sv) : n <= m
  BY <1>4, LeastOf
<1> QED
  BY <1>5 DEF NewInode

\* A server without files has an inode for each file of another.
LEMMA InodesForFiles ==
    ASSUME NEW sv \in FileServer, \A p \in Paths : sv.dir[p] = NoInode, NEW kept \in SUBSET Paths
    PROVE  \E f \in [kept -> Inodes \ InUse(sv)] : \A p, q \in kept : p # q => f[p] # f[q]
<1> DEFINE T == Inodes \ InUse(sv)
<1>1. IsFiniteSet(kept) /\ Cardinality(kept) <= Cardinality(Paths) /\ Cardinality(kept) \in Nat
  BY InodesAre, FS_Subset, FS_CardinalityType
<1>2. IsFiniteSet(T) /\ Cardinality(T) >= Cardinality(Paths)
  <2>1. IsFiniteSet(T) /\ Cardinality(T) >= Cardinality(Paths) - Cardinality({})
    BY InUseIsSmall
  <2>2. Cardinality({}) = 0
    BY FS_EmptySet
  <2> QED
    BY <2>1, <2>2, InodesAre
<1>3. PICK f \in Bijection(kept, 1 .. Cardinality(kept)) : TRUE
  BY <1>1, FS_CardinalityType, Fun_ExistsBijSymmetric DEF ExistsBijection
<1>4. PICK g \in Bijection(1 .. Cardinality(T), T) : TRUE
  BY <1>2, FS_CardinalityType DEF ExistsBijection
<1>5. 1 .. Cardinality(kept) \subseteq 1 .. Cardinality(T)
  BY <1>1, <1>2, FS_CardinalityType, InodesAre
<1>6. /\ f \in [kept -> 1 .. Cardinality(kept)] /\ \A a, b \in kept : f[a] = f[b] => a = b
      /\ g \in [1 .. Cardinality(T) -> T] /\ \A a, b \in 1 .. Cardinality(T) : g[a] = g[b] => a = b
  <2>1. /\ f \in [kept -> 1 .. Cardinality(kept)] /\ \A a, b \in kept : f[a] = f[b] => a = b
    BY <1>3, Fun_BijectionProperties
  <2> HIDE DEF T
  <2>2. g \in [1 .. Cardinality(T) -> T] /\ \A a, b \in 1 .. Cardinality(T) : g[a] = g[b] => a = b
    BY <1>4, Fun_BijectionProperties
  <2> QED
    BY <2>1, <2>2
<1> HIDE DEF T
<1>7. [p \in kept |-> g[f[p]]] \in [kept -> T]
  BY <1>5, <1>6
<1>8. \A p, q \in kept : p # q => [r \in kept |-> g[f[r]]][p] # [r \in kept |-> g[f[r]]][q]
  BY <1>5, <1>6
<1> QED
  BY <1>7, <1>8 DEF T

-----------------------------------------------------------------------------
(* The file system below the calls.                                         *)

\* No file has two names, and every file is in a directory that is there.
Tidy(sv) ==
    /\ sv \in FileServer
    /\ \A p, q \in Paths : p # q /\ sv.dir[p] # NoInode => sv.dir[p] # sv.dir[q]
    /\ \A p \in Paths : sv.dir[p] # NoInode => HasParent(sv, p)

\* The same names, files of the same kind behind the same descriptors.
SameNames(r, sv) ==
    r.up = sv.up /\ r.dir = sv.dir /\ r.dirs = sv.dirs /\ r.open = sv.open

SameContents(r, sv) == \A x \in Tree : Content(r, x) = Content(sv, x)

\* The copies that were sound are, and those that were not are not.
SameSoundness(r, sv) == \A p \in Paths : Sound(r, p) <=> Sound(sv, p)
SoundnessBut(r, sv, p, q) == \A x \in Paths : x # p /\ x # q => (Sound(r, x) <=> Sound(sv, x))
SoundnessMoved(r, sv, p, q) == SoundnessBut(r, sv, p, q) /\ (Sound(r, q) <=> Sound(sv, p))

LEMMA Fields ==
    ASSUME NEW sv \in FileServer
    PROVE  /\ sv.up \in BOOLEAN
           /\ sv.dir \in [Paths -> Inodes \cup {NoInode}]
           /\ sv.dirs \in SUBSET Dirs
           /\ sv.inode \in [Inodes -> Inode]
           /\ sv.open \in [Fds -> Inodes \cup {NoInode}]
           /\ sv.stream \in [Fds -> Stream]
           /\ sv.left \in SUBSET Fds
           /\ \A p \in Paths : p \notin Dirs /\ (Exists(sv, p) <=> sv.dir[p] \in Inodes)
           /\ \A p \in Paths : Exists(sv, p) <=> sv.dir[p] # NoInode
           /\ \A d \in Dirs : Exists(sv, d) <=> d \in sv.dirs
  BY FileServerAssumption, InodesAre DEF FileServer, Exists

LEMMA BlankIs == Blank \in Inode /\ NoStream \in Stream /\ 0 \in Times
  BY FileServerAssumption DEF Blank, Inode, NoStream, Stream, Times

LEMMA SweptIs ==
    ASSUME NEW sv \in FileServer
    PROVE  LET r == Swept(sv)
           IN  /\ r \in FileServer /\ SameNames(r, sv) /\ r.stream = sv.stream
               /\ \A n \in Inodes \cap InUse(sv) : r.inode[n] = sv.inode[n]
<1> DEFINE left == [n \in Inodes |-> IF n \in InUse(sv) THEN sv.inode[n] ELSE Blank]
<1>1. Swept(sv) = [sv EXCEPT !.inode = left]
  BY DEF Swept
<1>2. left \in [Inodes -> Inode] /\ \A n \in Inodes \cap InUse(sv) : left[n] = sv.inode[n]
  BY Fields, BlankIs
<1> HIDE DEF left
<1> QED
  BY <1>1, <1>2 DEF FileServer, SameNames

\* A file with the same name and inode has the same content.
LEMMA SameFile ==
    ASSUME NEW sv \in FileServer, NEW r \in FileServer, NEW p \in Paths,
           r.dir[p] = sv.dir[p], sv.dir[p] # NoInode => r.inode[sv.dir[p]] = sv.inode[sv.dir[p]]
    PROVE  /\ Exists(r, p) <=> Exists(sv, p)
           /\ Content(r, p) = Content(sv, p)
           /\ Exists(sv, p) => File(r, p) = File(sv, p)
           /\ Sound(r, p) <=> Sound(sv, p)
  BY Fields DEF Content, File, Sound

\* Nothing that has a name is changed.
LEMMA SweptKeeps ==
    ASSUME NEW sv \in FileServer, Tidy(sv)
    PROVE  /\ Tidy(Swept(sv)) /\ SameContents(Swept(sv), sv)
           /\ \A p \in Paths : Sound(Swept(sv), p) <=> Sound(sv, p)
<1> DEFINE r == Swept(sv)
<1>1. r \in FileServer /\ SameNames(r, sv) /\ \A n \in Inodes \cap InUse(sv) : r.inode[n] = sv.inode[n]
  BY SweptIs
<1> HIDE DEF r
<1>2. \A p \in Paths : sv.dir[p] # NoInode => r.inode[sv.dir[p]] = sv.inode[sv.dir[p]]
  BY <1>1, Fields DEF InUse
<1>3. Tidy(r)
  BY <1>1 DEF Tidy, SameNames, HasParent
<1>4. \A p \in Paths : Content(r, p) = Content(sv, p) /\ (Sound(r, p) <=> Sound(sv, p))
  BY <1>1, <1>2, SameFile DEF SameNames
<1>5. \A d \in Dirs : Content(r, d) = Content(sv, d)
  BY <1>1, Fields DEF Content, SameNames
<1> QED
  BY <1>3, <1>4, <1>5 DEF SameContents, Tree, r

\* Whatever is only done to the data of the files.
LEMMA DataOnly ==
    ASSUME NEW sv, Tidy(sv), NEW r \in FileServer, SameNames(r, sv)
    PROVE  /\ Tidy(r)
           /\ \A x \in Tree : Exists(r, x) <=> Exists(sv, x)
           /\ \A d \in Dirs : Content(r, d) = Content(sv, d)
           /\ (\A p \in Paths : sv.dir[p] # NoInode => r.inode[sv.dir[p]].data = sv.inode[sv.dir[p]].data)
              => SameContents(r, sv)
<1>1. Tidy(r)
  BY DEF Tidy, SameNames, HasParent
<1>2. \A x \in Tree : Exists(r, x) <=> Exists(sv, x)
  BY Fields DEF Tidy, SameNames, Tree
<1>3. \A d \in Dirs : Content(r, d) = Content(sv, d)
  BY <1>2, Fields DEF Content, Tree, Tidy
<1>4. ASSUME \A p \in Paths : sv.dir[p] # NoInode => r.inode[sv.dir[p]].data = sv.inode[sv.dir[p]].data
      PROVE  SameContents(r, sv)
  BY <1>2, <1>3, <1>4, Fields DEF Content, File, Tree, Tidy, SameNames, SameContents
<1> QED
  BY <1>1, <1>2, <1>3, <1>4

\* A new content for a name: for its file, or for a new one.
LEMMA WithFileIs ==
    ASSUME NEW sv, Tidy(sv), NEW p \in Paths, HasParent(sv, p), NEW file \in Inode
    PROVE  LET r == WithFile(sv, p, file)
           IN  /\ Tidy(r)
               /\ r.up = sv.up /\ r.dirs = sv.dirs /\ r.open = sv.open /\ r.stream = sv.stream
               /\ Exists(r, p) /\ File(r, p) = file
               /\ \A q \in Paths \ {p} : r.dir[q] = sv.dir[q]
               /\ Exists(sv, p) => r.dir = sv.dir
               /\ \A x \in Tree \ {p} : Content(r, x) = Content(sv, x)
               /\ SoundnessBut(r, sv, p, p)
<1> DEFINE n == IF Exists(sv, p) THEN sv.dir[p] ELSE NewInode(sv)
           r == WithFile(sv, p, file)
           dir == [sv.dir EXCEPT ![p] = n]
           inode == [sv.inode EXCEPT ![n] = file]
<1>1. sv \in FileServer
  BY DEF Tidy
<1>2. n \in Inodes /\ \A q \in Paths \ {p} : sv.dir[q] # n
  <2>1. CASE Exists(sv, p)
    BY <2>1, <1>1, Fields DEF Tidy
  <2>2. CASE ~Exists(sv, p)
    <3>1. n \in Inodes \ InUse(sv)
      BY <2>2, <1>1, Fields, InodeForFile
    <3> QED
      BY <3>1 DEF InUse
  <2> QED
    BY <2>1, <2>2
<1>3. r = [sv EXCEPT !.dir = dir, !.inode = inode]
  BY DEF WithFile
<1>4. dir \in [Paths -> Inodes \cup {NoInode}] /\ inode \in [Inodes -> Inode]
  BY <1>1, <1>2, Fields
<1>5. /\ dir[p] = n /\ \A q \in Paths \ {p} : dir[q] = sv.dir[q]
      /\ inode[n] = file /\ \A m \in Inodes \ {n} : inode[m] = sv.inode[m]
      /\ Exists(sv, p) => dir = sv.dir
  BY <1>1, <1>2, Fields
<1> HIDE DEF r, dir, inode, n
<1>6. /\ r \in FileServer /\ r.dir = dir /\ r.inode = inode
      /\ r.up = sv.up /\ r.dirs = sv.dirs /\ r.open = sv.open /\ r.stream = sv.stream
  BY <1>1, <1>3, <1>4 DEF FileServer
<1>7. Tidy(r)
  BY <1>2, <1>5, <1>6 DEF Tidy, HasParent
<1>8. Exists(r, p) /\ File(r, p) = file
  BY <1>2, <1>5, <1>6, Fields DEF File
<1>9. \A q \in Paths \ {p} : Content(r, q) = Content(sv, q) /\ (Sound(r, q) <=> Sound(sv, q))
  <2> SUFFICES ASSUME NEW q \in Paths \ {p}
               PROVE  Content(r, q) = Content(sv, q) /\ (Sound(r, q) <=> Sound(sv, q))
    OBVIOUS
  <2>1. r.dir[q] = sv.dir[q] /\ (sv.dir[q] # NoInode => sv.dir[q] \in Inodes \ {n})
    BY <1>1, <1>2, <1>5, <1>6, Fields
  <2> QED
    BY <2>1, <1>1, <1>5, <1>6, SameFile
<1>10. \A d \in Dirs : Content(r, d) = Content(sv, d)
  BY <1>1, <1>6, Fields DEF Content
<1> QED
  BY <1>5, <1>6, <1>7, <1>8, <1>9, <1>10 DEF Tree, r, SoundnessBut

LEMMA FreshIs ==
    ASSUME NEW data \in Data, NEW now \in Times
    PROVE  Fresh(data, now) \in Inode /\ Fresh(data, now).data = data /\ Fresh(data, now).hash = data
  BY DEF Fresh, Inode

\* One file is replaced, or its content.
WithInode(sv, n, file) == [sv EXCEPT !.inode[n] = file]
Refilled(sv, n, data, now) == [sv EXCEPT !.inode[n].data = data, !.inode[n].mtime = now]

LEMMA Replaced ==
    ASSUME NEW sv, Tidy(sv), NEW n \in Inodes, NEW file \in Inode, NEW r, r = WithInode(sv, n, file)
    PROVE  /\ Tidy(r) /\ SameNames(r, sv) /\ r.stream = sv.stream
           /\ r.inode[n] = file /\ \A m \in Inodes \ {n} : r.inode[m] = sv.inode[m]
           /\ \A x \in Tree : x \in Dirs \/ sv.dir[x] # n => Content(r, x) = Content(sv, x)
           /\ \A x \in Paths : sv.dir[x] = n => Content(r, x) = file.data
           /\ \A x \in Paths : sv.dir[x] # n => (Sound(r, x) <=> Sound(sv, x))
<1> DEFINE inode == [sv.inode EXCEPT ![n] = file]
<1>1. sv \in FileServer /\ r = [sv EXCEPT !.inode = inode]
  BY DEF Tidy, WithInode
<1>2. inode \in [Inodes -> Inode] /\ inode[n] = file /\ \A m \in Inodes \ {n} : inode[m] = sv.inode[m]
  BY <1>1, Fields
<1> HIDE DEF inode
<1>3. r \in FileServer /\ SameNames(r, sv) /\ r.stream = sv.stream /\ r.inode = inode
  BY <1>1, <1>2 DEF FileServer, SameNames
<1>4. Tidy(r) /\ \A x \in Dirs : Content(r, x) = Content(sv, x)
  BY <1>3, DataOnly
<1>5. \A x \in Paths : sv.dir[x] # n =>
         Content(r, x) = Content(sv, x) /\ (Sound(r, x) <=> Sound(sv, x))
  <2> SUFFICES ASSUME NEW x \in Paths, sv.dir[x] # n
               PROVE  Content(r, x) = Content(sv, x) /\ (Sound(r, x) <=> Sound(sv, x))
    OBVIOUS
  <2>1. sv.dir[x] # NoInode => sv.dir[x] \in Inodes \ {n}
    BY <1>1, Fields
  <2> QED
    BY <2>1, <1>1, <1>2, <1>3, SameFile DEF SameNames
<1>6. \A x \in Paths : sv.dir[x] = n => Content(r, x) = file.data
  <2> SUFFICES ASSUME NEW x \in Paths, sv.dir[x] = n PROVE Content(r, x) = file.data
    OBVIOUS
  <2>1. Exists(r, x) /\ x \notin Dirs /\ r.dir[x] = n
    BY <1>3, Fields DEF SameNames
  <2> QED
    BY <2>1, <1>2, <1>3 DEF Content, File
<1> QED
  BY <1>2, <1>3, <1>4, <1>5, <1>6 DEF Tree

LEMMA RehashedIs ==
    ASSUME NEW sv, Tidy(sv), NEW p \in Paths, Exists(sv, p)
    PROVE  LET r == Rehashed(sv, p)
           IN  /\ Tidy(r) /\ SameNames(r, sv) /\ SameContents(r, sv) /\ r.stream = sv.stream
               /\ Sound(r, p) /\ SoundnessBut(r, sv, p, p)
<1> DEFINE n == sv.dir[p]
           file == [sv.inode[n] EXCEPT !.hash = sv.inode[n].data]
           r == Rehashed(sv, p)
<1>1. sv \in FileServer /\ n \in Inodes /\ sv.inode[n] \in Inode /\ \A q \in Paths \ {p} : sv.dir[q] # n
  BY Fields DEF Tidy
<1>2. file \in Inode /\ file.data = sv.inode[n].data /\ file.hash = file.data
  BY <1>1 DEF Inode
<1>3. r = WithInode(sv, n, file)
  BY DEF Rehashed, File, WithInode
<1> HIDE DEF r, file
<1>4. /\ Tidy(r) /\ SameNames(r, sv) /\ r.stream = sv.stream
      /\ r.inode[n] = file
      /\ \A x \in Tree : x \in Dirs \/ sv.dir[x] # n => Content(r, x) = Content(sv, x)
      /\ \A x \in Paths : sv.dir[x] = n => Content(r, x) = file.data
      /\ \A x \in Paths : sv.dir[x] # n => (Sound(r, x) <=> Sound(sv, x))
  BY <1>1, <1>2, <1>3, Replaced
<1>5. \A x \in Paths : sv.dir[x] = n => Content(sv, x) = sv.inode[n].data
  BY <1>1, Fields DEF Content, File
<1>6. SameContents(r, sv)
  BY <1>2, <1>4, <1>5 DEF SameContents, Tree
<1>7. Sound(r, p)
  BY <1>1, <1>2, <1>4, Fields DEF Sound, File, SameNames, Tidy
<1>8. SoundnessBut(r, sv, p, p)
  BY <1>1, <1>4 DEF SoundnessBut
<1> QED
  BY <1>4, <1>6, <1>7, <1>8 DEF r

\* The content of one file changes, by a name or by a descriptor.
LEMMA RefilledIs ==
    ASSUME NEW sv, Tidy(sv), NEW n \in Inodes, NEW data \in Data, NEW now \in Times,
           NEW r, r = Refilled(sv, n, data, now)
    PROVE  /\ Tidy(r) /\ SameNames(r, sv) /\ r.stream = sv.stream
           /\ \A x \in Tree : x \in Dirs \/ sv.dir[x] # n => Content(r, x) = Content(sv, x)
           /\ \A x \in Paths : sv.dir[x] = n => Content(r, x) = data
           /\ \A x \in Paths : sv.dir[x] # n => (Sound(r, x) <=> Sound(sv, x))
<1> DEFINE file == [sv.inode[n] EXCEPT !.data = data, !.mtime = now]
<1>1. sv \in FileServer /\ sv.inode[n] \in Inode
  BY Fields DEF Tidy
<1>2. file \in Inode /\ file.data = data
  BY <1>1 DEF Inode
<1>3. r = WithInode(sv, n, file)
  BY <1>1 DEF FileServer, Refilled, WithInode
<1> HIDE DEF file
<1>4. /\ Tidy(r) /\ SameNames(r, sv) /\ r.stream = sv.stream
      /\ \A x \in Tree : x \in Dirs \/ sv.dir[x] # n => Content(r, x) = Content(sv, x)
      /\ \A x \in Paths : sv.dir[x] = n => Content(r, x) = file.data
      /\ \A x \in Paths : sv.dir[x] # n => (Sound(r, x) <=> Sound(sv, x))
  BY <1>2, <1>3, Replaced
<1> QED
  BY <1>2, <1>4

LEMMA UtimeIs ==
    ASSUME NEW sv, Tidy(sv), NEW p \in Paths, NEW time \in Times
    PROVE  LET r == Utime(sv, p, time)
           IN  /\ Tidy(r.server) /\ SameNames(r.server, sv) /\ SameContents(r.server, sv)
               /\ r.server.stream = sv.stream /\ r.status \in {OK, ENOENT}
               /\ SameSoundness(r.server, sv)
<1>1. CASE ~Exists(sv, p)
  BY <1>1 DEF Utime, Reply, SameNames, SameContents, SameSoundness
<1>2. CASE Exists(sv, p)
  <2> DEFINE n == sv.dir[p]
             file == [sv.inode[n] EXCEPT !.mtime = time]
             r == [sv EXCEPT !.inode[n].mtime = time]
  <2>1. sv \in FileServer /\ n \in Inodes /\ sv.inode[n] \in Inode
    BY <1>2, Fields DEF Tidy
  <2>2. file \in Inode /\ file.data = sv.inode[n].data /\ file.hash = sv.inode[n].hash
    BY <2>1 DEF Inode
  <2>3. r = WithInode(sv, n, file)
    BY DEF WithInode
  <2>4. Utime(sv, p, time).server = r /\ Utime(sv, p, time).status = OK
    BY <1>2 DEF Utime, Reply
  <2> HIDE DEF r, file
  <2>5. /\ Tidy(r) /\ SameNames(r, sv) /\ r.stream = sv.stream
        /\ \A x \in Tree : x \in Dirs \/ sv.dir[x] # n => Content(r, x) = Content(sv, x)
        /\ r.inode[n] = file
        /\ \A x \in Paths : sv.dir[x] = n => Content(r, x) = file.data
        /\ \A x \in Paths : sv.dir[x] # n => (Sound(r, x) <=> Sound(sv, x))
    BY <2>1, <2>2, <2>3, Replaced
  <2>6. \A x \in Paths : sv.dir[x] = n => Content(sv, x) = sv.inode[n].data
    BY <2>1, Fields DEF Content, File
  <2>7. \A x \in Paths : sv.dir[x] = n => (Sound(r, x) <=> Sound(sv, x))
    BY <2>1, <2>2, <2>5, Fields DEF Sound, File, SameNames, Tidy
  <2> QED
    BY <2>2, <2>4, <2>5, <2>6, <2>7 DEF SameContents, SameSoundness, Tree
<1> QED
  BY <1>1, <1>2

LEMMA TruncateIs ==
    ASSUME NEW sv, Tidy(sv), NEW p \in Paths, NEW now \in Times
    PROVE  LET r == Truncate(sv, p, now)
           IN  /\ Tidy(r.server) /\ SameNames(r.server, sv) /\ r.server.stream = sv.stream
               /\ \A x \in Tree \ {p} : Content(r.server, x) = Content(sv, x)
               /\ Content(r.server, p) = IF Exists(sv, p) THEN Empty ELSE Absent
               /\ r.status = IF Exists(sv, p) THEN OK ELSE ENOENT
               /\ SoundnessBut(r.server, sv, p, p)
<1>1. CASE ~Exists(sv, p)
  BY <1>1 DEF Truncate, Reply, SameNames, Content, SoundnessBut
<1>2. CASE Exists(sv, p)
  <2> DEFINE n == sv.dir[p]
             r == Refilled(sv, n, Empty, now)
  <2>1. sv \in FileServer /\ n \in Inodes /\ \A x \in Paths \ {p} : sv.dir[x] # n
    BY <1>2, Fields DEF Tidy
  <2>2. Truncate(sv, p, now).server = r /\ Truncate(sv, p, now).status = OK
    BY <1>2 DEF Truncate, Reply, Refilled
  <2>3. /\ Tidy(r) /\ SameNames(r, sv) /\ r.stream = sv.stream
        /\ \A x \in Tree : x \in Dirs \/ sv.dir[x] # n => Content(r, x) = Content(sv, x)
        /\ \A x \in Paths : sv.dir[x] = n => Content(r, x) = Empty
        /\ \A x \in Paths : sv.dir[x] # n => (Sound(r, x) <=> Sound(sv, x))
    BY <2>1, RefilledIs, FileServerAssumption
  <2> HIDE DEF r
  <2> QED
    BY <1>2, <2>1, <2>2, <2>3 DEF Tree, SoundnessBut
<1> QED
  BY <1>1, <1>2

\* A write through a descriptor of the file changes that file and no other, on
\* the content and not on the hash of another name.
LEMMA WriteIs ==
    ASSUME NEW sv, Tidy(sv), NEW p \in Paths, NEW d, NEW fragment \in Fragments, NEW now \in Times
    PROVE  LET r == Write(sv, p, d, fragment, now)
           IN  /\ Tidy(r.server) /\ SameNames(r.server, sv) /\ r.server.stream = sv.stream
               /\ r.status \in {OK, ENOENT, EBADF}
               /\ d \in Fds /\ sv.open[d] # NoInode /\ sv.open[d] = sv.dir[p] =>
                      /\ r.status = OK
                      /\ Content(r.server, p) = Patched[<<Content(sv, p), fragment>>]
                      /\ \A x \in Tree \ {p} : Content(r.server, x) = Content(sv, x)
                      /\ Sound(r.server, p) /\ SoundnessBut(r.server, sv, p, p)
<1>1. CASE Closed(sv, d)
  BY <1>1 DEF Write, Reply, SameNames, Closed
<1>2. CASE ~Closed(sv, d)
  <2> DEFINE n == sv.open[d]
             data == Patched[<<sv.inode[n].data, fragment>>]
             w == Refilled(sv, n, data, now)
             r == Write(sv, p, d, fragment, now)
  <2>1. sv \in FileServer /\ d \in Fds /\ n \in Inodes
    BY <1>2, Fields DEF Tidy, Closed
  <2>d. data \in Data
    BY <2>1, Fields, FileServerAssumption DEF Inode
  <2>2. /\ Tidy(w) /\ SameNames(w, sv) /\ w.stream = sv.stream
        /\ \A x \in Tree : x \in Dirs \/ sv.dir[x] # n => Content(w, x) = Content(sv, x)
        /\ \A x \in Paths : sv.dir[x] = n => Content(w, x) = data
        /\ \A x \in Paths : sv.dir[x] # n => (Sound(w, x) <=> Sound(sv, x))
    BY <2>1, <2>d, RefilledIs
  <2>3. /\ r.server = IF Exists(sv, p) THEN Rehashed(w, p) ELSE w
        /\ r.status = IF Exists(sv, p) THEN OK ELSE ENOENT
    BY <1>2 DEF Write, Reply, Refilled
  <2>c. sv.dir[p] = n => Content(sv, p) = sv.inode[n].data
    BY <2>1, Fields DEF Content, File
  <2>e. sv.dir[p] = n => data = Patched[<<Content(sv, p), fragment>>]
    BY <2>c
  <2> HIDE DEF w, r, data
  <2>4. Exists(w, p) <=> Exists(sv, p)
    BY <2>1, <2>2, Fields DEF SameNames, Tidy
  <2>5. Tidy(r.server) /\ SameNames(r.server, w) /\ SameContents(r.server, w) /\ r.server.stream = w.stream
    <3>1. CASE Exists(sv, p)
      BY <2>2, <2>3, <2>4, <3>1, RehashedIs
    <3>2. CASE ~Exists(sv, p)
      BY <2>2, <2>3, <3>2 DEF SameNames, SameContents
    <3> QED
      BY <3>1, <3>2
  <2>6. \A x \in Tree : Content(r.server, x) = Content(w, x)
    BY <2>5 DEF SameContents
  <2>7. ASSUME sv.open[d] # NoInode, sv.open[d] = sv.dir[p]
        PROVE  /\ r.status = OK
               /\ Content(r.server, p) = Patched[<<Content(sv, p), fragment>>]
               /\ \A x \in Tree \ {p} : Content(r.server, x) = Content(sv, x)
               /\ Sound(r.server, p) /\ SoundnessBut(r.server, sv, p, p)
    <3>1. Exists(sv, p) /\ \A x \in Paths \ {p} : sv.dir[x] # n
      BY <2>1, <2>7, Fields DEF Tidy
    <3>2. Sound(r.server, p) /\ SoundnessBut(r.server, w, p, p)
      BY <2>2, <2>3, <2>4, <3>1, RehashedIs
    <3>3. SoundnessBut(r.server, sv, p, p)
      BY <2>2, <3>1, <3>2 DEF SoundnessBut
    <3> QED
      BY <2>2, <2>3, <2>6, <2>7, <2>e, <3>1, <3>2, <3>3 DEF Tree
  <2> QED
    BY <2>2, <2>3, <2>5, <2>7 DEF SameNames, r
<1> QED
  BY <1>1, <1>2

\* Names and descriptors are made and removed, and files move, with their content.
Rearranged(sv, up, dir, dirs, open, stream) ==
    [sv EXCEPT !.up = up, !.dir = dir, !.dirs = dirs, !.open = open, !.stream = stream]

Arrangement(up, dir, dirs, open, stream) ==
    /\ up \in BOOLEAN /\ dir \in [Paths -> Inodes \cup {NoInode}] /\ dirs \in SUBSET Dirs
    /\ open \in [Fds -> Inodes \cup {NoInode}] /\ stream \in [Fds -> Stream]
    /\ \A p, q \in Paths : p # q /\ dir[p] # NoInode => dir[p] # dir[q]
    /\ \A p \in Paths : dir[p] # NoInode => Parent[p] \in dirs \cup {Root}

LEMMA RearrangedIs ==
    ASSUME NEW sv, Tidy(sv), NEW up, NEW dir, NEW dirs, NEW open, NEW stream,
           Arrangement(up, dir, dirs, open, stream), NEW r,
           \/ r = Rearranged(sv, up, dir, dirs, open, stream)
           \/ r = Swept(Rearranged(sv, up, dir, dirs, open, stream))
    PROVE  /\ Tidy(r)
           /\ r.up = up /\ r.dir = dir /\ r.dirs = dirs /\ r.open = open /\ r.stream = stream
           /\ \A p \in Paths : Content(r, p) = IF dir[p] = NoInode THEN Absent ELSE sv.inode[dir[p]].data
           /\ \A p \in Paths : dir[p] # NoInode => File(r, p) = sv.inode[dir[p]]
           /\ \A d \in Dirs : Content(r, d) = IF d \in dirs THEN Directory ELSE Absent
<1> USE DEF Arrangement
<1> DEFINE w == Rearranged(sv, up, dir, dirs, open, stream)
<1>1. sv \in FileServer
  BY DEF Tidy
<1>2. /\ w \in FileServer
      /\ w.up = up /\ w.dir = dir /\ w.dirs = dirs /\ w.open = open /\ w.stream = stream
      /\ w.inode = sv.inode
  BY <1>1 DEF Rearranged, FileServer
<1> HIDE DEF w
<1>3. /\ Swept(w) \in FileServer /\ SameNames(Swept(w), w) /\ Swept(w).stream = w.stream
      /\ \A n \in Inodes \cap InUse(w) : Swept(w).inode[n] = w.inode[n]
  BY <1>2, SweptIs
<1>4. /\ r \in FileServer
      /\ r.up = up /\ r.dir = dir /\ r.dirs = dirs /\ r.open = open /\ r.stream = stream
      /\ \A p \in Paths : dir[p] # NoInode => r.inode[dir[p]] = sv.inode[dir[p]]
  <2>1. CASE r = w
    BY <2>1, <1>2
  <2>2. CASE r = Swept(w)
    BY <2>2, <1>2, <1>3 DEF InUse, SameNames
  <2> QED
    BY <2>1, <2>2 DEF w
<1>5. Tidy(r)
  BY <1>4 DEF Tidy, HasParent
<1>6. \A p \in Paths : dir[p] # NoInode => File(r, p) = sv.inode[dir[p]]
  BY <1>4 DEF File
<1>7. \A p \in Paths : Content(r, p) = IF dir[p] = NoInode THEN Absent ELSE sv.inode[dir[p]].data
  BY <1>4, <1>6, Fields DEF Content
<1>8. \A d \in Dirs : Content(r, d) = IF d \in dirs THEN Directory ELSE Absent
  BY <1>4, Fields DEF Content
<1> QED
  BY <1>4, <1>5, <1>6, <1>7, <1>8

LEMMA ContentIs ==
    ASSUME NEW sv, Tidy(sv)
    PROVE  /\ \A p \in Paths : Content(sv, p) = IF sv.dir[p] = NoInode THEN Absent
                                                                   ELSE sv.inode[sv.dir[p]].data
           /\ \A d \in Dirs : Content(sv, d) = IF d \in sv.dirs THEN Directory ELSE Absent
  BY Fields DEF Tidy, Content, File

\* Only the descriptors of FILEs change.
WithLeft(sv, left) == [sv EXCEPT !.left = left]

LEMMA LeftIs ==
    ASSUME NEW sv, Tidy(sv), NEW left \in SUBSET Fds, NEW r, r = WithLeft(sv, left)
    PROVE  /\ Tidy(r) /\ SameNames(r, sv) /\ r.stream = sv.stream /\ r.inode = sv.inode
           /\ r.left = left
           /\ SameContents(r, sv) /\ SameSoundness(r, sv)
<1>1. /\ r \in FileServer /\ SameNames(r, sv) /\ r.stream = sv.stream /\ r.inode = sv.inode
      /\ r.left = left
  BY DEF Tidy, FileServer, WithLeft, SameNames
<1>2. Tidy(r) /\ SameContents(r, sv)
  BY <1>1, DataOnly
<1>3. SameSoundness(r, sv)
  BY <1>1, SameFile DEF SameNames, SameSoundness, Tidy
<1> QED
  BY <1>1, <1>2, <1>3

\* A dead server keeps its files.
LEMMA KilledIs ==
    ASSUME NEW sv, Tidy(sv)
    PROVE  /\ Tidy(Killed(sv)) /\ Killed(sv).up = FALSE /\ SameContents(Killed(sv), sv)
           /\ Killed(sv).dir = sv.dir /\ Killed(sv).dirs = sv.dirs
           /\ \A p \in Paths : Sound(Killed(sv), p) <=> Sound(sv, p)
<1> DEFINE up == FALSE
           open == [d \in Fds |-> NoInode]
           stream == [d \in Fds |-> NoStream]
           r == Killed(sv)
<1>1. /\ sv \in FileServer /\ sv.dir \in [Paths -> Inodes \cup {NoInode}] /\ sv.dirs \in SUBSET Dirs
      /\ open \in [Fds -> Inodes \cup {NoInode}] /\ stream \in [Fds -> Stream] /\ up \in BOOLEAN
  BY Fields, BlankIs DEF Tidy
<1> DEFINE w == WithLeft(sv, {})
<1>w. Tidy(w) /\ w.inode = sv.inode
  BY LeftIs
<1>2. r = Swept(Rearranged(w, up, sv.dir, sv.dirs, open, stream))
  BY <1>1 DEF Killed, Rearranged, FileServer, WithLeft
<1>3. Arrangement(up, sv.dir, sv.dirs, open, stream)
  BY <1>1 DEF Tidy, HasParent, Arrangement
<1> HIDE DEF up, open, stream, r, w
<1>4. /\ Tidy(r) /\ r.up = up /\ r.dir = sv.dir /\ r.dirs = sv.dirs
      /\ \A p \in Paths : Content(r, p) = IF sv.dir[p] = NoInode THEN Absent ELSE sv.inode[sv.dir[p]].data
      /\ \A p \in Paths : sv.dir[p] # NoInode => File(r, p) = sv.inode[sv.dir[p]]
      /\ \A d \in Dirs : Content(r, d) = IF d \in sv.dirs THEN Directory ELSE Absent
  BY <1>w, <1>2, <1>3, RearrangedIs
<1>5. SameContents(r, sv)
  BY <1>4, ContentIs DEF SameContents, Tree
<1>6. \A p \in Paths : Sound(r, p) <=> Sound(sv, p)
  BY <1>1, <1>4, Fields DEF Sound, File, Tidy
<1> QED
  BY <1>4, <1>5, <1>6 DEF r, up

LEMMA UnlinkIs ==
    ASSUME NEW sv, Tidy(sv), NEW p \in Paths
    PROVE  LET r == Unlink(sv, p)
           IN  /\ Tidy(r.server) /\ r.server.up = sv.up /\ r.server.open = sv.open
               /\ r.status \in {OK, ENOENT}
               /\ \A q \in Paths \ {p} : r.server.dir[q] = sv.dir[q]
               /\ \A x \in Tree \ {p} : Content(r.server, x) = Content(sv, x)
               /\ Content(r.server, p) = Absent
               /\ SoundnessBut(r.server, sv, p, p)
<1>1. CASE ~Exists(sv, p)
  BY <1>1 DEF Unlink, Reply, Content, SoundnessBut
<1>2. CASE Exists(sv, p)
  <2> DEFINE dir == [sv.dir EXCEPT ![p] = NoInode]
             r == Unlink(sv, p).server
  <2>1. sv \in FileServer
    BY DEF Tidy
  <2>2. /\ sv.up \in BOOLEAN /\ sv.dirs \in SUBSET Dirs /\ dir \in [Paths -> Inodes \cup {NoInode}]
        /\ sv.open \in [Fds -> Inodes \cup {NoInode}] /\ sv.stream \in [Fds -> Stream]
        /\ dir[p] = NoInode /\ \A q \in Paths \ {p} : dir[q] = sv.dir[q]
    BY <2>1, Fields
  <2>3. r = Swept(Rearranged(sv, sv.up, dir, sv.dirs, sv.open, sv.stream)) /\ Unlink(sv, p).status = OK
    <3>1. [sv EXCEPT !.dir[p] = NoInode] = Rearranged(sv, sv.up, dir, sv.dirs, sv.open, sv.stream)
      BY <2>1 DEF Rearranged, FileServer
    <3> QED
      BY <1>2, <3>1 DEF Unlink, Reply
  <2> HIDE DEF dir, r
  <2>4. Arrangement(sv.up, dir, sv.dirs, sv.open, sv.stream)
    BY <2>2 DEF Tidy, HasParent, Arrangement
  <2>5. /\ Tidy(r) /\ r.up = sv.up /\ r.dir = dir /\ r.open = sv.open
        /\ \A q \in Paths : Content(r, q) = IF dir[q] = NoInode THEN Absent ELSE sv.inode[dir[q]].data
        /\ \A d \in Dirs : Content(r, d) = IF d \in sv.dirs THEN Directory ELSE Absent
        /\ \A q \in Paths : dir[q] # NoInode => File(r, q) = sv.inode[dir[q]]
    BY <2>3, <2>4, RearrangedIs
  <2>6. SoundnessBut(r, sv, p, p)
    BY <2>1, <2>2, <2>5, Fields DEF SoundnessBut, Sound, File, Tidy
  <2> QED
    BY <2>2, <2>3, <2>5, <2>6, ContentIs DEF r, Tree
<1> QED
  BY <1>1, <1>2

LEMMA RenameIs ==
    ASSUME NEW sv, Tidy(sv), NEW p \in Paths, NEW q \in Paths \ {p}
    PROVE  LET r == Rename(sv, p, q)
               moves == Exists(sv, p) /\ HasParent(sv, q)
           IN  /\ Tidy(r.server) /\ r.server.up = sv.up /\ r.server.open = sv.open
               /\ r.status = IF moves THEN OK ELSE ENOENT
               /\ ~moves => r.server = sv
               /\ moves => /\ r.server.dir = [sv.dir EXCEPT ![q] = sv.dir[p], ![p] = NoInode]
                           /\ Content(r.server, q) = Content(sv, p)
                           /\ Content(r.server, p) = Absent
                           /\ \A x \in Tree \ {p, q} : Content(r.server, x) = Content(sv, x)
                           /\ SoundnessMoved(r.server, sv, p, q)
<1>1. CASE ~(Exists(sv, p) /\ HasParent(sv, q))
  BY <1>1 DEF Rename, Reply
<1>2. CASE Exists(sv, p) /\ HasParent(sv, q)
  <2> DEFINE dir == [sv.dir EXCEPT ![q] = sv.dir[p], ![p] = NoInode]
             r == Rename(sv, p, q).server
  <2>1. sv \in FileServer
    BY DEF Tidy
  <2>2. /\ sv.up \in BOOLEAN /\ sv.dirs \in SUBSET Dirs /\ dir \in [Paths -> Inodes \cup {NoInode}]
        /\ sv.open \in [Fds -> Inodes \cup {NoInode}] /\ sv.stream \in [Fds -> Stream]
        /\ dir[p] = NoInode /\ dir[q] = sv.dir[p] /\ \A a \in Paths \ {p, q} : dir[a] = sv.dir[a]
    BY <2>1, Fields
  <2>3. r = Swept(Rearranged(sv, sv.up, dir, sv.dirs, sv.open, sv.stream)) /\ Rename(sv, p, q).status = OK
    <3>1. [sv EXCEPT !.dir[q] = sv.dir[p], !.dir[p] = NoInode]
            = Rearranged(sv, sv.up, dir, sv.dirs, sv.open, sv.stream)
      BY <2>1 DEF Rearranged, FileServer
    <3> QED
      BY <1>2, <3>1 DEF Rename, Reply
  <2>4. r.dir = dir => r.dir = [sv.dir EXCEPT ![q] = sv.dir[p], ![p] = NoInode]
    OBVIOUS
  <2> HIDE DEF dir, r
  <2>5. Arrangement(sv.up, dir, sv.dirs, sv.open, sv.stream)
    BY <1>2, <2>2 DEF Tidy, HasParent, Arrangement
  <2>6. /\ Tidy(r) /\ r.up = sv.up /\ r.dir = dir /\ r.open = sv.open
        /\ \A a \in Paths : Content(r, a) = IF dir[a] = NoInode THEN Absent ELSE sv.inode[dir[a]].data
        /\ \A d \in Dirs : Content(r, d) = IF d \in sv.dirs THEN Directory ELSE Absent
        /\ \A a \in Paths : dir[a] # NoInode => File(r, a) = sv.inode[dir[a]]
    BY <2>3, <2>5, RearrangedIs
  <2>7. /\ Content(r, q) = Content(sv, p) /\ Content(r, p) = Absent
        /\ \A x \in Tree \ {p, q} : Content(r, x) = Content(sv, x)
    BY <2>2, <2>6, ContentIs DEF Tree
  <2>8. SoundnessMoved(r, sv, p, q)
    BY <2>1, <2>2, <2>6, Fields DEF SoundnessMoved, SoundnessBut, Sound, File, Tidy
  <2> QED
    BY <1>2, <2>3, <2>4, <2>6, <2>7, <2>8 DEF r
<1> QED
  BY <1>1, <1>2

\* A file that is there keeps its content and gets its hash.
LEMMA MknodIs ==
    ASSUME NEW sv, Tidy(sv), NEW p \in Paths, NEW now \in Times
    PROVE  LET r == Mknod(sv, p, now)
               makes == ~Exists(sv, p) /\ HasParent(sv, p)
           IN  /\ Tidy(r.server) /\ r.server.up = sv.up /\ r.server.open = sv.open
               /\ r.status \in {OK, EEXIST, ENOENT}
               /\ \A q \in Paths \ {p} : r.server.dir[q] = sv.dir[q]
               /\ Exists(sv, p) => r.server.dir = sv.dir
               /\ \A x \in Tree \ {p} : Content(r.server, x) = Content(sv, x)
               /\ Content(r.server, p) = IF makes THEN Empty ELSE Content(sv, p)
               /\ makes => Sound(r.server, p)
               /\ SoundnessBut(r.server, sv, p, p)
<1>1. CASE Exists(sv, p)
  <2>1. Mknod(sv, p, now).server = Rehashed(sv, p) /\ Mknod(sv, p, now).status = EEXIST
    BY <1>1 DEF Mknod, Reply
  <2>2. Tidy(Rehashed(sv, p)) /\ SameNames(Rehashed(sv, p), sv) /\ SameContents(Rehashed(sv, p), sv)
        /\ SoundnessBut(Rehashed(sv, p), sv, p, p)
    BY <1>1, RehashedIs
  <2> QED
    BY <1>1, <2>1, <2>2 DEF SameNames, SameContents, Tree
<1>2. CASE ~Exists(sv, p) /\ ~HasParent(sv, p)
  BY <1>2 DEF Mknod, Reply, SoundnessBut
<1>3. CASE ~Exists(sv, p) /\ HasParent(sv, p)
  <2> DEFINE file == Fresh(Empty, now)
             r == WithFile(sv, p, file)
  <2>1. Mknod(sv, p, now).server = r /\ Mknod(sv, p, now).status = OK
    BY <1>3 DEF Mknod, Reply
  <2>2. file \in Inode /\ file.data = Empty /\ file.hash = Empty
    BY FreshIs, FileServerAssumption
  <2>3. /\ Tidy(r) /\ r.up = sv.up /\ r.open = sv.open
        /\ Exists(r, p) /\ File(r, p) = file
        /\ \A q \in Paths \ {p} : r.dir[q] = sv.dir[q]
        /\ \A x \in Tree \ {p} : Content(r, x) = Content(sv, x)
        /\ SoundnessBut(r, sv, p, p)
    BY <1>3, <2>2, WithFileIs
  <2> HIDE DEF r, file
  <2>4. Content(r, p) = Empty /\ Sound(r, p)
    BY <2>2, <2>3, Fields DEF Content, Sound, Tidy
  <2> QED
    BY <1>3, <2>1, <2>3, <2>4
<1> QED
  BY <1>1, <1>2, <1>3

\* Only the directories change.
WithDirs(sv, dirs) == [sv EXCEPT !.dirs = dirs]

LEMMA WithDirsIs ==
    ASSUME NEW sv, Tidy(sv), NEW dirs \in SUBSET Dirs,
           \A p \in Paths : sv.dir[p] # NoInode => Parent[p] \in dirs \cup {Root},
           NEW r, r = WithDirs(sv, dirs)
    PROVE  /\ Tidy(r) /\ r.up = sv.up /\ r.dir = sv.dir /\ r.dirs = dirs /\ r.inode = sv.inode
           /\ r.open = sv.open /\ r.stream = sv.stream
           /\ \A p \in Paths : Content(r, p) = Content(sv, p)
           /\ SameSoundness(r, sv)
           /\ \A d \in Dirs : Content(r, d) = IF d \in dirs THEN Directory ELSE Absent
<1>1. /\ r \in FileServer /\ r.up = sv.up /\ r.dir = sv.dir /\ r.dirs = dirs /\ r.inode = sv.inode
      /\ r.open = sv.open /\ r.stream = sv.stream
  BY DEF Tidy, FileServer, WithDirs
<1>2. Tidy(r)
  BY <1>1 DEF Tidy, HasParent
<1>3. SameSoundness(r, sv)
  BY <1>1, Fields DEF SameSoundness, Sound, File, Tidy
<1> QED
  BY <1>1, <1>2, <1>3, ContentIs

LEMMA MkdirIs ==
    ASSUME NEW sv, Tidy(sv), NEW d \in Dirs
    PROVE  LET r == Mkdir(sv, d)
           IN  /\ Tidy(r.server) /\ r.server.up = sv.up /\ r.server.dir = sv.dir
               /\ r.server.open = sv.open /\ r.status \in {OK, EEXIST}
               /\ \A x \in Tree \ {d} : Content(r.server, x) = Content(sv, x)
               /\ Content(r.server, d) = Directory
               /\ SameSoundness(r.server, sv)
<1>1. CASE d \in sv.dirs
  BY <1>1, ContentIs DEF Mkdir, Reply, SameSoundness
<1>2. CASE d \notin sv.dirs
  <2> DEFINE dirs == sv.dirs \cup {d}
             r == Mkdir(sv, d).server
  <2>1. r = WithDirs(sv, dirs) /\ Mkdir(sv, d).status = OK
    BY <1>2 DEF Mkdir, Reply, WithDirs
  <2>2. dirs \in SUBSET Dirs /\ \A p \in Paths : sv.dir[p] # NoInode => Parent[p] \in dirs \cup {Root}
    BY Fields DEF Tidy, HasParent
  <2> HIDE DEF r
  <2>3. /\ Tidy(r) /\ r.up = sv.up /\ r.dir = sv.dir /\ r.open = sv.open
        /\ \A p \in Paths : Content(r, p) = Content(sv, p)
        /\ SameSoundness(r, sv)
        /\ \A x \in Dirs : Content(r, x) = IF x \in dirs THEN Directory ELSE Absent
    BY <2>1, <2>2, WithDirsIs
  <2> QED
    BY <2>1, <2>3, ContentIs DEF r, Tree
<1> QED
  BY <1>1, <1>2

\* A directory that has a file stays.
LEMMA RmdirIs ==
    ASSUME NEW sv, Tidy(sv), NEW d \in Dirs
    PROVE  LET r == Rmdir(sv, d)
               removes == d \in sv.dirs /\ Children(sv, d) = {}
           IN  /\ Tidy(r.server) /\ r.server.up = sv.up /\ r.server.dir = sv.dir
               /\ r.server.open = sv.open
               /\ \A x \in Tree \ {d} : Content(r.server, x) = Content(sv, x)
               /\ Content(r.server, d) = IF removes THEN Absent ELSE Content(sv, d)
               /\ r.status \in {OK, ENOENT, ENOTEMPTY}
               /\ r.status = OK <=> removes
               /\ SameSoundness(r.server, sv)
<1>1. CASE ~(d \in sv.dirs /\ Children(sv, d) = {})
  BY <1>1 DEF Rmdir, Reply, OK, ENOENT, ENOTEMPTY, SameSoundness
<1>2. CASE d \in sv.dirs /\ Children(sv, d) = {}
  <2> DEFINE dirs == sv.dirs \ {d}
             r == Rmdir(sv, d).server
  <2>1. r = WithDirs(sv, dirs) /\ Rmdir(sv, d).status = OK
    BY <1>2 DEF Rmdir, Reply, WithDirs
  <2>2. dirs \in SUBSET Dirs
    BY Fields DEF Tidy
  <2>3. \A p \in Paths : sv.dir[p] # NoInode => Parent[p] \in dirs \cup {Root}
    <3> SUFFICES ASSUME NEW p \in Paths, sv.dir[p] # NoInode PROVE Parent[p] \in dirs \cup {Root}
      OBVIOUS
    <3>1. Exists(sv, p) /\ Parent[p] \in sv.dirs \cup {Root}
      BY Fields DEF Tidy, HasParent
    <3>2. Parent[p] # d
      BY <1>2, <3>1 DEF Children
    <3> QED
      BY <3>1, <3>2
  <2> HIDE DEF r
  <2>4. /\ Tidy(r) /\ r.up = sv.up /\ r.dir = sv.dir /\ r.open = sv.open
        /\ \A p \in Paths : Content(r, p) = Content(sv, p)
        /\ SameSoundness(r, sv)
        /\ \A x \in Dirs : Content(r, x) = IF x \in dirs THEN Directory ELSE Absent
    BY <2>1, <2>2, <2>3, WithDirsIs
  <2> QED
    BY <1>2, <2>1, <2>4, ContentIs DEF r, Tree
<1> QED
  BY <1>1, <1>2

\* Descriptors and streams are opened and closed: names and contents stay.
Reopened(sv, open, stream) == [sv EXCEPT !.open = open, !.stream = stream]

LEMMA ReopenedIs ==
    ASSUME NEW sv, Tidy(sv), NEW open \in [Fds -> Inodes \cup {NoInode}], NEW stream \in [Fds -> Stream],
           NEW r, r = Reopened(sv, open, stream) \/ r = Swept(Reopened(sv, open, stream))
    PROVE  /\ Tidy(r) /\ r.up = sv.up /\ r.dir = sv.dir /\ r.dirs = sv.dirs
           /\ r.open = open /\ r.stream = stream
           /\ SameContents(r, sv) /\ SameSoundness(r, sv)
           /\ \A p \in Paths : sv.dir[p] # NoInode => File(r, p) = File(sv, p)
<1> DEFINE up == sv.up
           dir == sv.dir
           dirs == sv.dirs
           w == Rearranged(sv, up, dir, dirs, open, stream)
<1>1. w = Reopened(sv, open, stream)
  BY DEF Rearranged, Reopened, Tidy, FileServer
<1>2. Arrangement(up, dir, dirs, open, stream)
  BY Fields DEF Arrangement, Tidy, HasParent
<1>3. r = w \/ r = Swept(w)
  BY <1>1
<1> HIDE DEF up, dir, dirs
<1>4. /\ Tidy(r)
      /\ r.up = up /\ r.dir = dir /\ r.dirs = dirs /\ r.open = open /\ r.stream = stream
      /\ \A p \in Paths : Content(r, p) = IF dir[p] = NoInode THEN Absent ELSE sv.inode[dir[p]].data
      /\ \A p \in Paths : dir[p] # NoInode => File(r, p) = sv.inode[dir[p]]
      /\ \A d \in Dirs : Content(r, d) = IF d \in dirs THEN Directory ELSE Absent
  BY <1>2, <1>3, RearrangedIs
<1>5. SameContents(r, sv)
  BY <1>4, ContentIs DEF SameContents, Tree, dir, dirs
<1>6. SameSoundness(r, sv)
  BY <1>4, Fields DEF SameSoundness, Sound, File, Tidy, dir
<1> QED
  BY <1>4, <1>5, <1>6 DEF up, dir, dirs, File

LEMMA ReleaseIs ==
    ASSUME NEW sv, Tidy(sv), NEW d
    PROVE  LET r == Release(sv, d)
           IN  /\ Tidy(r.server) /\ r.server.up = sv.up /\ r.server.dir = sv.dir
               /\ SameContents(r.server, sv) /\ r.server.dirs = sv.dirs
               /\ SameSoundness(r.server, sv)
               /\ \A e \in Fds \ {d} : /\ r.server.open[e] = sv.open[e]
                                       /\ r.server.stream[e] = sv.stream[e]
               /\ r.status \in {OK, -1}
<1>1. CASE d \notin Fds \ FreeFds(sv)
  BY <1>1 DEF Release, Reply, SameContents, SameSoundness
<1>2. CASE d \in Fds \ FreeFds(sv)
  <2> DEFINE open == [sv.open EXCEPT ![d] = NoInode]
             stream == [sv.stream EXCEPT ![d] = NoStream]
             w == WithLeft(sv, sv.left \ {d})
             r == Release(sv, d).server
  <2>1. d \in Fds /\ open \in [Fds -> Inodes \cup {NoInode}] /\ stream \in [Fds -> Stream]
    BY <1>2, Fields, BlankIs DEF Tidy
  <2>w. Tidy(w) /\ SameNames(w, sv) /\ SameContents(w, sv) /\ SameSoundness(w, sv)
    BY Fields, LeftIs DEF Tidy
  <2>2. r = Swept(Reopened(w, open, stream)) /\ Release(sv, d).status = OK
    <3>1. [sv EXCEPT !.open[d] = NoInode, !.stream[d] = NoStream, !.left = @ \ {d}]
          = Reopened(w, open, stream)
      BY DEF Reopened, WithLeft, Tidy, FileServer
    <3> QED
      BY <1>2, <3>1 DEF Release, Reply
  <2>3. \A e \in Fds \ {d} : open[e] = sv.open[e] /\ stream[e] = sv.stream[e]
    BY Fields DEF Tidy
  <2> HIDE DEF open, stream, r, w
  <2>4. /\ Tidy(r) /\ r.up = w.up /\ r.dir = w.dir /\ r.dirs = w.dirs
        /\ r.open = open /\ r.stream = stream /\ SameContents(r, w) /\ SameSoundness(r, w)
    BY <2>1, <2>w, <2>2, ReopenedIs
  <2>5. SameContents(r, sv) /\ SameSoundness(r, sv)
    BY <2>w, <2>4 DEF SameContents, SameSoundness
  <2> QED
    BY <2>w, <2>2, <2>3, <2>4, <2>5 DEF r, SameNames
<1> QED
  BY <1>1, <1>2

\* What a request for a directory stream leaves as it was.
SameFiles(r, sv) ==
    /\ Tidy(r) /\ r.up = sv.up /\ r.dir = sv.dir /\ r.dirs = sv.dirs /\ r.open = sv.open
    /\ SameContents(r, sv) /\ SameSoundness(r, sv)

WithStreams(sv, stream) == [sv EXCEPT !.stream = stream]

LEMMA StreamsAre ==
    ASSUME NEW sv, Tidy(sv), NEW stream \in [Fds -> Stream], NEW r, r = WithStreams(sv, stream)
    PROVE  SameFiles(r, sv)
<1> DEFINE open == sv.open
<1>1. r = Reopened(sv, open, stream) /\ open \in [Fds -> Inodes \cup {NoInode}]
  BY Fields DEF Reopened, WithStreams, Tidy, FileServer
<1> HIDE DEF open
<1>2. /\ Tidy(r) /\ r.up = sv.up /\ r.dir = sv.dir /\ r.dirs = sv.dirs /\ r.open = open
      /\ SameContents(r, sv) /\ SameSoundness(r, sv)
  BY <1>1, ReopenedIs
<1> QED
  BY <1>2 DEF SameFiles, open

LEMMA OpendirIs ==
    ASSUME NEW sv, Tidy(sv), NEW d \in Dirs \cup {Root}, NEW m \in Opendir(sv, d)
    PROVE  SameFiles(m.server, sv) /\ m.status \in Fds \cup {ENOENT} /\ (m.status < 0 => m.server = sv)
<1>1. CASE d # Root /\ d \notin sv.dirs
  BY <1>1 DEF Opendir, Reply, SameFiles, SameContents, SameSoundness
<1>2. CASE ~(d # Root /\ d \notin sv.dirs)
  <2>1. PICK n \in LowestFd(sv) :
           m = Reply([sv EXCEPT !.stream[n] = [dir |-> d, ended |-> FALSE]], n)
    BY <1>2, Zenon DEF Opendir
  <2> DEFINE stream == [sv.stream EXCEPT ![n] = [dir |-> d, ended |-> FALSE]]
  <2>2. n \in Fds /\ stream \in [Fds -> Stream]
    BY <2>1, Fields DEF LowestFd, FreeFds, Tidy, Stream
  <2>3. m.server = WithStreams(sv, stream) /\ m.status = n
    BY <2>1 DEF Reply, WithStreams
  <2> HIDE DEF stream
  <2>4. SameFiles(m.server, sv)
    BY <2>2, <2>3, StreamsAre
  <2> QED
    BY <2>2, <2>3, <2>4, FileServerAssumption DEF Fds
<1> QED
  BY <1>1, <1>2

LEMMA ReaddirIs ==
    ASSUME NEW sv, Tidy(sv), NEW d \in Fds
    PROVE  SameFiles(Readdir(sv, d).server, sv) /\ Readdir(sv, d).entries \subseteq Tree
<1> DEFINE stream == [sv.stream EXCEPT ![d].ended = TRUE]
           r == Readdir(sv, d).server
<1>1. stream \in [Fds -> Stream]
  <2>1. sv.stream \in [Fds -> Stream] /\ sv.stream[d] \in Stream
    BY Fields DEF Tidy
  <2>2. [sv.stream[d] EXCEPT !.ended = TRUE] \in Stream
    BY <2>1 DEF Stream
  <2> QED
    BY <2>1, <2>2
<1>2. r = WithStreams(sv, stream)
  BY DEF Readdir, WithStreams
<1> HIDE DEF stream, r
<1>3. SameFiles(r, sv)
  BY <1>1, <1>2, StreamsAre
<1>4. Readdir(sv, d).entries \subseteq Tree
  BY Fields DEF Readdir, Children, Tree, Tidy
<1> QED
  BY <1>3, <1>4 DEF r

LEMMA ReleasedirIs ==
    ASSUME NEW sv, Tidy(sv), NEW d \in Fds
    PROVE  SameFiles(Releasedir(sv, d).server, sv) /\ Releasedir(sv, d).status = OK
<1> DEFINE stream == [sv.stream EXCEPT ![d] = NoStream]
           r == Releasedir(sv, d).server
<1>1. stream \in [Fds -> Stream]
  BY Fields, BlankIs DEF Tidy
<1>2. r = WithStreams(sv, stream) /\ Releasedir(sv, d).status = OK
  BY DEF Releasedir, Reply, WithStreams
<1> HIDE DEF stream, r
<1>3. SameFiles(r, sv)
  BY <1>1, <1>2, StreamsAre
<1> QED
  BY <1>2, <1>3 DEF r

\* An open finds a descriptor for the file, and reports the hash of its content.
LEMMA OpenIs ==
    ASSUME NEW sv, Tidy(sv), NEW p \in Paths, NEW m \in Open(sv, p)
    PROVE  /\ Tidy(m.server) /\ m.server.up = sv.up /\ m.server.dir = sv.dir
           /\ m.server.dirs = sv.dirs /\ SameContents(m.server, sv)
           /\ SameSoundness(m.server, sv)
           /\ \A x \in Paths : MayPass(m.server, x) <=> MayPass(sv, x)
           /\ m.status \in Fds \cup {ENOENT, ERRHASH}
           /\ m.hash \in Data \cup {Junk} /\ m.mtime \in Times
           /\ m.status >= 0 => MayPass(sv, p)
           /\ Exists(sv, p) => m.status \in Fds \cup {ERRHASH}
           /\ Sound(sv, p) => m.status \in Fds
           /\ Exists(sv, p) =>
                /\ m.hash = Content(sv, p)
                /\ \E d \in Fds : /\ sv.open[d] = NoInode /\ sv.stream[d] = NoStream
                                  /\ m.server.open = [sv.open EXCEPT ![d] = sv.dir[p]]
                                  /\ m.status \in {d, ERRHASH}
           /\ ~Exists(sv, p) => m.server = sv
<1>1. CASE ~Exists(sv, p)
  <2>1. /\ m.server = sv /\ m.status \in {ENOENT, ERRHASH} /\ m.hash \in Data \cup {Junk}
        /\ m.mtime \in Times
    BY <1>1 DEF Open
  <2> QED
    BY <1>1, <2>1 DEF SameContents, SameSoundness, ENOENT, ERRHASH, Sound
<1>2. CASE Exists(sv, p)
  <2>1. PICK d \in LowestFd(sv), status \in
                 (IF MayPass(sv, p) THEN LowestFd(sv) ELSE {})
                 \cup (IF Sound(sv, p) THEN {} ELSE {ERRHASH}) :
           m = [server |-> [sv EXCEPT !.open[d] = sv.dir[p]], status |-> status,
                hash |-> File(sv, p).data, mtime |-> File(sv, p).mtime]
    BY <1>2 DEF Open
  <2> DEFINE open == [sv.open EXCEPT ![d] = sv.dir[p]]
             stream == sv.stream
             r == m.server
  <2>2. /\ sv \in FileServer /\ d \in Fds /\ sv.open[d] = NoInode /\ sv.dir[p] \in Inodes
        /\ sv.stream[d] = NoStream
    BY <1>2, <2>1, Fields DEF LowestFd, FreeFds, Tidy
  <2>3. r = Reopened(sv, open, stream)
    BY <2>1, <2>2 DEF Reopened, FileServer
  <2>4. open \in [Fds -> Inodes \cup {NoInode}] /\ stream \in [Fds -> Stream]
    BY <2>2, Fields
  <2>5. File(sv, p) \in Inode /\ Content(sv, p) = File(sv, p).data
    BY <1>2, <2>2, Fields DEF File, Content
  <2>6. /\ m.hash = Content(sv, p) /\ m.hash \in Data /\ m.mtime \in Times
        /\ m.status = status
    BY <2>1, <2>5 DEF Inode
  <2>s. /\ status \in {d, ERRHASH} /\ (status # ERRHASH => MayPass(sv, p))
        /\ Sound(sv, p) => status = d
    <3>1. ASSUME NEW e \in LowestFd(sv) PROVE e = d
      BY <2>1, <3>1, FileServerAssumption DEF LowestFd, FreeFds, Fds
    <3> QED
      BY <2>1, <3>1
  <2> HIDE DEF stream, open, r
  <2>7. /\ Tidy(r) /\ r.up = sv.up /\ r.dir = sv.dir /\ r.dirs = sv.dirs
        /\ r.open = open /\ SameContents(r, sv)
        /\ \A q \in Paths : sv.dir[q] # NoInode => File(r, q) = File(sv, q)
    BY <2>3, <2>4, ReopenedIs
  <2>8. /\ SameSoundness(r, sv)
        /\ \A q \in Paths : MayPass(r, q) <=> MayPass(sv, q)
    BY <2>2, <2>7, Fields DEF SameSoundness, Sound, MayPass, Tidy
  <2>9. r.open = [sv.open EXCEPT ![d] = sv.dir[p]]
    BY <2>7 DEF open
  <2>10. m.status >= 0 => MayPass(sv, p)
    BY <2>6, <2>s DEF ERRHASH
  <2>11. m.status \in Fds \cup {ERRHASH} /\ (Sound(sv, p) => m.status \in Fds)
    BY <2>2, <2>6, <2>s
  <2> QED
    BY <1>2, <2>2, <2>6, <2>s, <2>7, <2>8, <2>9, <2>10, <2>11 DEF r
<1> QED
  BY <1>1, <1>2

\* A server that is read from only opens FILEs.
LEMMA ReadAllIs ==
    ASSUME NEW sv, Tidy(sv), NEW ps, NEW r \in ReadAll(sv, ps)
    PROVE  /\ Tidy(r) /\ SameNames(r, sv) /\ r.stream = sv.stream /\ r.inode = sv.inode
           /\ SameContents(r, sv) /\ SameSoundness(r, sv)
           /\ \E ds \in SUBSET FreeFds(sv) :
                  /\ Cardinality(ds) = Cardinality({p \in ps : Exists(sv, p)})
                  /\ r.left = sv.left \cup ds
<1>1. PICK ds \in SUBSET FreeFds(sv) :
         /\ Cardinality(ds) = Cardinality({p \in ps : Exists(sv, p)})
         /\ r = [sv EXCEPT !.left = @ \cup ds]
  BY DEF ReadAll
<1> DEFINE left == sv.left \cup ds
<1>2. left \in SUBSET Fds /\ r = WithLeft(sv, left)
  BY <1>1, Fields DEF FreeFds, WithLeft, Tidy
<1> HIDE DEF left
<1>3. /\ Tidy(r) /\ SameNames(r, sv) /\ r.stream = sv.stream /\ r.inode = sv.inode
      /\ SameContents(r, sv) /\ SameSoundness(r, sv) /\ r.left = left
  BY <1>2, LeftIs
<1> QED
  BY <1>1, <1>3 DEF left

-----------------------------------------------------------------------------
(* What the servers do to each other's copies.                              *)

LEMMA WithParentsIs ==
    ASSUME NEW sv, Tidy(sv), NEW ps \in SUBSET Paths
    PROVE  LET r == WithParents(sv, ps)
           IN  /\ Tidy(r) /\ r.up = sv.up /\ r.dir = sv.dir /\ r.inode = sv.inode
               /\ r.open = sv.open /\ r.stream = sv.stream
               /\ \A p \in ps : HasParent(r, p)
               /\ \A p \in Paths : Content(r, p) = Content(sv, p)
               /\ SameSoundness(r, sv)
               /\ (\A p \in ps : HasParent(sv, p)) => SameContents(r, sv)
<1> DEFINE dirs == sv.dirs \cup ({Parent[p] : p \in ps} \ {Root})
           r == WithParents(sv, ps)
<1>1. dirs \in SUBSET Dirs /\ sv.dirs \subseteq dirs
  BY Fields, FileServerAssumption DEF Tidy, Root
<1>2. \A p \in Paths : sv.dir[p] # NoInode => Parent[p] \in dirs \cup {Root}
  BY DEF Tidy, HasParent
<1>3. r = WithDirs(sv, dirs)
  BY DEF WithParents, WithDirs
<1>4. (\A p \in ps : Parent[p] \in dirs \cup {Root})
      /\ ((\A p \in ps : HasParent(sv, p)) => dirs = sv.dirs)
  BY DEF HasParent
<1> HIDE DEF dirs, r
<1>5. /\ Tidy(r) /\ r.up = sv.up /\ r.dir = sv.dir /\ r.dirs = dirs /\ r.inode = sv.inode
      /\ r.open = sv.open /\ r.stream = sv.stream
      /\ \A p \in Paths : Content(r, p) = Content(sv, p)
      /\ SameSoundness(r, sv)
      /\ \A d \in Dirs : Content(r, d) = IF d \in dirs THEN Directory ELSE Absent
  BY <1>1, <1>2, <1>3, WithDirsIs
<1>6. ASSUME \A p \in ps : HasParent(sv, p) PROVE SameContents(r, sv)
  BY <1>4, <1>5, <1>6, ContentIs DEF SameContents, Tree
<1> QED
  BY <1>4, <1>5, <1>6 DEF HasParent, r

\* A restored copy is the source's, carries its own hash, and no other file is
\* touched; a directory is made only if the file had none.
LEMMA RestoredIs ==
    ASSUME NEW sv, Tidy(sv), NEW source, Tidy(source), NEW p \in Paths, NEW now \in Times
    PROVE  LET r == Restored(sv, p, source, now)
           IN  /\ Tidy(r) /\ r.up = sv.up /\ r.open = sv.open
               /\ Exists(r, p) /\ Sound(r, p)
               /\ Content(r, p) = IF Exists(source, p) THEN Content(source, p) ELSE Empty
               /\ \A q \in Paths \ {p} : r.dir[q] = sv.dir[q] /\ Content(r, q) = Content(sv, q)
               /\ HasParent(sv, p) => \A x \in Tree \ {p} : Content(r, x) = Content(sv, x)
               /\ Exists(sv, p) => r.dir = sv.dir
               /\ SoundnessBut(r, sv, p, p)
<1> DEFINE content == IF Exists(source, p) THEN File(source, p).data ELSE Empty
           w == WithParents(sv, {p})
           file == Fresh(content, now)
           r == WithFile(w, p, file)
<1>1. r = Restored(sv, p, source, now)
  BY DEF Restored
<1>2. content \in Data /\ content = IF Exists(source, p) THEN Content(source, p) ELSE Empty
  BY FileServerAssumption, Fields DEF Tidy, File, Content, Inode
<1>3. /\ Tidy(w) /\ w.up = sv.up /\ w.dir = sv.dir /\ w.open = sv.open
      /\ HasParent(w, p)
      /\ \A q \in Paths : Content(w, q) = Content(sv, q)
      /\ HasParent(sv, p) => SameContents(w, sv)
      /\ SameSoundness(w, sv)
  BY WithParentsIs
<1> HIDE DEF content
<1>4. file \in Inode /\ file.data = content /\ file.hash = content
  BY <1>2, FreshIs
<1> HIDE DEF file, w
<1>5. /\ Tidy(r)
      /\ r.up = w.up /\ r.open = w.open
      /\ Exists(r, p) /\ File(r, p) = file
      /\ \A q \in Paths \ {p} : r.dir[q] = w.dir[q]
      /\ Exists(w, p) => r.dir = w.dir
      /\ \A x \in Tree \ {p} : Content(r, x) = Content(w, x)
      /\ SoundnessBut(r, w, p, p)
  BY <1>3, <1>4, WithFileIs
<1> HIDE DEF r
<1>6. Sound(r, p) /\ Content(r, p) = content
  BY <1>4, <1>5, Fields DEF Sound, Content, Tidy
<1>7. Exists(sv, p) <=> Exists(w, p)
  BY <1>3, Fields DEF Tidy
<1>8. SoundnessBut(r, sv, p, p)
  BY <1>3, <1>5 DEF SoundnessBut, SameSoundness
<1> QED
  BY <1>1, <1>2, <1>3, <1>5, <1>6, <1>7, <1>8 DEF SameContents, Tree

LEMMA RestoreDiesIs ==
    ASSUME NEW sv, Tidy(sv), NEW p \in Paths, NEW now \in Times
    PROVE  Tidy(RestoreDies(sv, p, now)) /\ RestoreDies(sv, p, now).up = FALSE
<1> DEFINE hash == IF Exists(sv, p) THEN File(sv, p).hash ELSE NoHash
           w == WithParents(sv, {p})
           file == [data |-> Empty, hash |-> hash, mtime |-> now]
<1>1. file \in Inode
  BY FileServerAssumption, Fields DEF Tidy, File, Inode
<1>2. Tidy(w) /\ HasParent(w, p)
  BY WithParentsIs
<1> HIDE DEF file, w
<1>3. Tidy(WithFile(w, p, file))
  BY <1>1, <1>2, WithFileIs
<1>4. RestoreDies(sv, p, now) = Killed(WithFile(w, p, file))
  BY DEF RestoreDies, file, w
<1> QED
  BY <1>3, <1>4, KilledIs

LEMMA EmptiedIs ==
    ASSUME NEW sv, Tidy(sv)
    PROVE  /\ Tidy(Emptied(sv)) /\ Emptied(sv).up = sv.up /\ Emptied(sv).open = sv.open
           /\ \A p \in Paths : Emptied(sv).dir[p] = NoInode
<1> DEFINE up == sv.up
           dir == [p \in Paths |-> NoInode]
           dirs == {}
           open == sv.open
           stream == sv.stream
           r == Emptied(sv)
<1>1. Arrangement(up, dir, dirs, open, stream)
  BY Fields DEF Arrangement, Tidy
<1>2. r = Swept(Rearranged(sv, up, dir, dirs, open, stream))
  <2>1. [sv EXCEPT !.dir = dir, !.dirs = {}] = Rearranged(sv, up, dir, dirs, open, stream)
    BY DEF Rearranged, Tidy, FileServer
  <2> QED
    BY <2>1 DEF Emptied
<1>3. \A p \in Paths : dir[p] = NoInode
  OBVIOUS
<1> HIDE DEF up, dir, dirs, open, stream, r
<1>4. Tidy(r) /\ r.up = up /\ r.dir = dir /\ r.open = open
  BY <1>1, <1>2, RearrangedIs
<1> QED
  BY <1>3, <1>4 DEF r, up, open

\* A duplicate has the source's files, each with its own hash.
LEMMA DuplicateIs ==
    ASSUME NEW sv, Tidy(sv), NEW source, Tidy(source), NEW now \in Times
    PROVE  LET r == Duplicate(sv, source, now)
           IN  /\ Tidy(r) /\ r.up = sv.up
               /\ \A p \in Paths : Content(r, p) = Content(source, p)
               /\ \A p \in Paths : Exists(source, p) => Sound(r, p)
<1> DEFINE wiped == Emptied(sv)
           kept == {p \in Paths : Exists(source, p)}
           numbering == CHOOSE f \in [kept -> Inodes \ InUse(wiped)] :
                           \A p, q \in kept : p # q => f[p] # f[q]
           w == WithParents(wiped, kept)
           dir == [p \in Paths |-> IF p \in kept THEN numbering[p] ELSE NoInode]
           inode == [n \in Inodes |->
                         IF \E p \in kept : numbering[p] = n
                         THEN Fresh(File(source, CHOOSE p \in kept : numbering[p] = n).data, now)
                         ELSE w.inode[n]]
           r == Duplicate(sv, source, now)
<1>1. r = [w EXCEPT !.dir = dir, !.inode = inode]
  BY DEF Duplicate
<1>2. /\ Tidy(wiped) /\ wiped.up = sv.up /\ \A p \in Paths : wiped.dir[p] = NoInode
  BY EmptiedIs
<1>3. kept \in SUBSET Paths /\ \A p \in Paths : p \in kept <=> Exists(source, p)
  OBVIOUS
<1>4. numbering \in [kept -> Inodes \ InUse(wiped)] /\ \A p, q \in kept : p # q => numbering[p] # numbering[q]
  <2> HIDE DEF wiped, kept
  <2>1. wiped \in FileServer
    BY <1>2 DEF Tidy
  <2>2. \E f \in [kept -> Inodes \ InUse(wiped)] : \A p, q \in kept : p # q => f[p] # f[q]
    BY <1>2, <1>3, <2>1, InodesForFiles
  <2> QED
    BY <2>2
<1> HIDE DEF wiped, kept, numbering, r
<1>5. /\ Tidy(w) /\ w.up = wiped.up /\ \A p \in kept : HasParent(w, p)
  BY <1>2, <1>3, WithParentsIs
<1> HIDE DEF w
<1>6. \A p \in kept : File(source, p).data \in Data /\ Content(source, p) = File(source, p).data
  BY <1>3, Fields DEF Tidy, File, Content, Inode
<1>7. \A p \in kept : numbering[p] \in Inodes /\ inode[numbering[p]] = Fresh(File(source, p).data, now)
  BY <1>3, <1>4
<1>8. dir \in [Paths -> Inodes \cup {NoInode}]
  BY <1>4
<1>9. inode \in [Inodes -> Inode]
  <2> SUFFICES ASSUME NEW n \in Inodes PROVE inode[n] \in Inode
    OBVIOUS
  <2>1. CASE \E p \in kept : numbering[p] = n
    BY <2>1, <1>6, <1>7, FreshIs
  <2>2. CASE ~\E p \in kept : numbering[p] = n
    BY <2>2, <1>5, Fields DEF Tidy
  <2> QED
    BY <2>1, <2>2
<1>10. /\ \A p \in kept : dir[p] = numbering[p]
       /\ \A p \in Paths \ kept : dir[p] = NoInode
  BY <1>3
<1> HIDE DEF dir, inode
<1>11. r \in FileServer /\ r.up = sv.up /\ r.dir = dir /\ r.dirs = w.dirs /\ r.inode = inode
  BY <1>1, <1>2, <1>5, <1>8, <1>9 DEF Tidy, FileServer
<1>12. Tidy(r)
  <2>1. \A p, q \in Paths : p # q /\ dir[p] # NoInode => dir[p] # dir[q]
    BY <1>4, <1>7, <1>10, InodesAre
  <2>2. \A p \in Paths : dir[p] # NoInode => p \in kept
    BY <1>10
  <2> QED
    BY <1>5, <1>11, <2>1, <2>2 DEF Tidy, HasParent
<1>13. \A p \in kept : Exists(r, p) /\ File(r, p) = Fresh(File(source, p).data, now)
  BY <1>3, <1>7, <1>10, <1>11, Fields DEF File
<1>14. \A p \in kept : Content(r, p) = Content(source, p) /\ Sound(r, p)
  <2> SUFFICES ASSUME NEW p \in kept PROVE Content(r, p) = Content(source, p) /\ Sound(r, p)
    OBVIOUS
  <2>1. File(r, p).data = File(source, p).data /\ File(r, p).hash = File(source, p).data
    BY <1>6, <1>13, FreshIs
  <2> QED
    BY <1>3, <1>6, <1>11, <1>13, <2>1, Fields DEF Content, Sound
<1>15. \A p \in Paths \ kept : Content(r, p) = Content(source, p)
  BY <1>3, <1>10, <1>11, Fields DEF Content
<1> QED
  BY <1>3, <1>11, <1>12, <1>14, <1>15 DEF r

\* Damage and the reachability of a server change no name.
LEMMA DamagedIs ==
    ASSUME NEW sv, Tidy(sv), NEW p \in Paths, Exists(sv, p), NEW data \in Data
    PROVE  LET r == Damaged(sv, p, data)
           IN  /\ Tidy(r) /\ SameNames(r, sv)
               /\ \A x \in Tree \ {p} : Content(r, x) = Content(sv, x)
               /\ Content(r, p) = data /\ SoundnessBut(r, sv, p, p)
               /\ data # File(sv, p).hash => ~Sound(r, p)
<1> DEFINE n == sv.dir[p]
           file == [sv.inode[n] EXCEPT !.data = data]
           r == Damaged(sv, p, data)
<1>1. sv \in FileServer /\ n \in Inodes /\ sv.inode[n] \in Inode /\ \A q \in Paths \ {p} : sv.dir[q] # n
  BY Fields DEF Tidy
<1>2. file \in Inode /\ file.data = data /\ file.hash = File(sv, p).hash
  BY <1>1 DEF Inode, File
<1>3. r = WithInode(sv, n, file)
  BY DEF Damaged, WithInode
<1> HIDE DEF r, file
<1>4. /\ Tidy(r) /\ SameNames(r, sv)
      /\ r.inode[n] = file
      /\ \A x \in Tree : x \in Dirs \/ sv.dir[x] # n => Content(r, x) = Content(sv, x)
      /\ \A x \in Paths : sv.dir[x] = n => Content(r, x) = file.data
      /\ \A x \in Paths : sv.dir[x] # n => (Sound(r, x) <=> Sound(sv, x))
  BY <1>1, <1>2, <1>3, Replaced
<1>5. data # File(sv, p).hash => ~Sound(r, p)
  BY <1>2, <1>4 DEF Sound, File, SameNames
<1>6. Content(r, p) = data /\ SoundnessBut(r, sv, p, p)
  BY <1>1, <1>2, <1>4 DEF SoundnessBut
<1> QED
  BY <1>1, <1>4, <1>5, <1>6 DEF r, Tree

Reached(sv, up) == [sv EXCEPT !.up = up]

LEMMA ReachedIs ==
    ASSUME NEW sv, Tidy(sv), NEW up \in BOOLEAN, NEW r, r = Reached(sv, up)
    PROVE  /\ Tidy(r) /\ r.up = up /\ r.dir = sv.dir /\ r.dirs = sv.dirs /\ r.inode = sv.inode
           /\ r.open = sv.open /\ r.stream = sv.stream
           /\ SameContents(r, sv)
<1>1. /\ r \in FileServer
      /\ r.up = up /\ r.dir = sv.dir /\ r.dirs = sv.dirs /\ r.inode = sv.inode
      /\ r.open = sv.open /\ r.stream = sv.stream
  BY DEF Tidy, FileServer, Reached
<1>2. Tidy(r)
  BY <1>1 DEF Tidy, HasParent
<1>3. /\ \A p \in Paths : Content(r, p) = Content(sv, p)
      /\ \A d \in Dirs : Content(r, d) = Content(sv, d)
  BY <1>1, <1>2, ContentIs
<1> QED
  BY <1>1, <1>2, <1>3 DEF SameContents, Tree

-----------------------------------------------------------------------------
(* Which descriptors are in use, and for what.                              *)

\* A server is the record of its parts.
LEMMA ServerIs ==
    ASSUME NEW sv, Tidy(sv)
    PROVE  sv = [up |-> sv.up, dir |-> sv.dir, dirs |-> sv.dirs, inode |-> sv.inode,
                 open |-> sv.open, stream |-> sv.stream, left |-> sv.left]
  BY DEF Tidy, FileServer

\* What opens a file, restores or damages one leaves the streams alone.
LEMMA OpenStream ==
    ASSUME NEW sv, Tidy(sv), NEW p, NEW m \in Open(sv, p)
    PROVE  m.server.stream = sv.stream
  BY ServerIs DEF Open

LEMMA RestoredStream ==
    ASSUME NEW sv, Tidy(sv), NEW p, NEW source, NEW time
    PROVE  /\ Restored(sv, p, source, time).stream = sv.stream
           /\ Restored(sv, p, source, time).open = sv.open
  BY ServerIs DEF Restored, WithFile, WithParents

LEMMA DamagedStream ==
    ASSUME NEW sv, Tidy(sv), NEW p, NEW data
    PROVE  Damaged(sv, p, data).stream = sv.stream /\ Damaged(sv, p, data).open = sv.open
  BY ServerIs DEF Damaged

\* The stream of an opendir is a descriptor nothing else uses.
LEMMA OpendirStream ==
    ASSUME NEW sv, Tidy(sv), NEW d, NEW m \in Opendir(sv, d), m.status >= 0
    PROVE  /\ m.status \in FreeFds(sv)
           /\ m.status \in Fds /\ sv.open[m.status] = NoInode /\ sv.stream[m.status] = NoStream
           /\ m.status \notin sv.left
           /\ m.server.stream = [sv.stream EXCEPT ![m.status] = [dir |-> d, ended |-> FALSE]]
           /\ m.server.open = sv.open /\ m.server.left = sv.left
<1>1. sv = [up |-> sv.up, dir |-> sv.dir, dirs |-> sv.dirs, inode |-> sv.inode,
            open |-> sv.open, stream |-> sv.stream, left |-> sv.left]
  BY ServerIs
<1>2. ~(d # Root /\ d \notin sv.dirs)
  BY DEF Opendir, Reply, ENOENT
<1>3. PICK n \in LowestFd(sv) : m = Reply([sv EXCEPT !.stream[n] = [dir |-> d, ended |-> FALSE]], n)
  BY <1>2, Zenon DEF Opendir
<1>4. n \in FreeFds(sv) /\ m.status = n
  BY <1>3 DEF LowestFd, Reply
<1> QED
  BY <1>1, <1>3, <1>4 DEF FreeFds, Reply

LEMMA DirStreams ==
    ASSUME NEW sv, Tidy(sv), NEW d
    PROVE  /\ Readdir(sv, d).server.stream = [sv.stream EXCEPT ![d].ended = TRUE]
           /\ Releasedir(sv, d).server.stream = [sv.stream EXCEPT ![d] = NoStream]
           /\ Readdir(sv, d).server.open = sv.open /\ Releasedir(sv, d).server.open = sv.open
           /\ Readdir(sv, d).server.left = sv.left /\ Releasedir(sv, d).server.left = sv.left
<1>1. sv = [up |-> sv.up, dir |-> sv.dir, dirs |-> sv.dirs, inode |-> sv.inode,
            open |-> sv.open, stream |-> sv.stream, left |-> sv.left]
  BY ServerIs
<1> QED
  BY <1>1 DEF Readdir, Releasedir, Reply

Used(sv) == Fds \ FreeFds(sv)
OneUse(sv) ==
    \A d \in Fds : /\ sv.open[d] = NoInode \/ sv.stream[d] = NoStream
                   /\ d \in sv.left => sv.open[d] = NoInode /\ sv.stream[d] = NoStream

SameUse(r, sv) == r.open = sv.open /\ r.stream = sv.stream /\ r.left = sv.left

LEMMA SameUses ==
    ASSUME NEW sv, NEW r, SameUse(r, sv)
    PROVE  Used(r) = Used(sv) /\ (OneUse(sv) => OneUse(r))
  BY DEF SameUse, Used, OneUse, FreeFds

\* The requests that neither open nor close anything.
LEMMA UsesStay ==
    ASSUME NEW sv, Tidy(sv), NEW p, NEW q, NEW x, NEW data, NEW time
    PROVE  /\ SameUse(Mknod(sv, p, time).server, sv)
           /\ SameUse(Unlink(sv, p).server, sv)
           /\ SameUse(Rename(sv, p, q).server, sv)
           /\ SameUse(Utime(sv, p, time).server, sv)
           /\ SameUse(Mkdir(sv, p).server, sv)
           /\ SameUse(Rmdir(sv, p).server, sv)
           /\ SameUse(Truncate(sv, p, time).server, sv)
           /\ SameUse(Write(sv, p, x, data, time).server, sv)
<1>1. sv = [up |-> sv.up, dir |-> sv.dir, dirs |-> sv.dirs, inode |-> sv.inode,
            open |-> sv.open, stream |-> sv.stream, left |-> sv.left]
  BY ServerIs
<1>2. SameUse(Mknod(sv, p, time).server, sv)
  BY <1>1 DEF SameUse, Mknod, Reply, WithFile, Rehashed
<1>3. SameUse(Unlink(sv, p).server, sv)
  BY <1>1 DEF SameUse, Unlink, Reply, Swept
<1>4. SameUse(Rename(sv, p, q).server, sv)
  BY <1>1 DEF SameUse, Rename, Reply, Swept
<1>5. SameUse(Utime(sv, p, time).server, sv)
  BY <1>1 DEF SameUse, Utime, Reply
<1>6. SameUse(Mkdir(sv, p).server, sv)
  BY <1>1 DEF SameUse, Mkdir, Reply
<1>7. SameUse(Rmdir(sv, p).server, sv)
  BY <1>1 DEF SameUse, Rmdir, Reply
<1>8. SameUse(Truncate(sv, p, time).server, sv)
  BY <1>1 DEF SameUse, Truncate, Reply
<1>9. SameUse(Write(sv, p, x, data, time).server, sv)
  BY <1>1 DEF SameUse, Write, Reply, Rehashed
<1> QED
  BY <1>2, <1>3, <1>4, <1>5, <1>6, <1>7, <1>8, <1>9

LEMMA RestoredUses ==
    ASSUME NEW sv, Tidy(sv), NEW p, NEW source, NEW time
    PROVE  LET r == Restored(sv, p, source, time)
           IN  Used(r) = Used(sv) /\ (OneUse(sv) => OneUse(r))
<1>1. SameUse(Restored(sv, p, source, time), sv)
  BY ServerIs DEF SameUse, Restored, WithFile, WithParents
<1> QED
  BY <1>1, SameUses

LEMMA DamagedUses ==
    ASSUME NEW sv, Tidy(sv), NEW p, NEW data
    PROVE  LET r == Damaged(sv, p, data)
           IN  Used(r) = Used(sv) /\ (OneUse(sv) => OneUse(r))
<1>1. SameUse(Damaged(sv, p, data), sv)
  BY ServerIs DEF SameUse, Damaged
<1> QED
  BY <1>1, SameUses

\* A server that dies loses its descriptors.
LEMMA UpUses ==
    ASSUME NEW sv, Tidy(sv)
    PROVE  /\ Used(Started(sv)) = Used(sv) /\ Used(Unreachable(sv)) = Used(sv)
           /\ Used(Killed(sv)) = {}
<1>1. sv = [up |-> sv.up, dir |-> sv.dir, dirs |-> sv.dirs, inode |-> sv.inode,
            open |-> sv.open, stream |-> sv.stream, left |-> sv.left]
  BY ServerIs
<1>2. Used(Started(sv)) = Used(sv) /\ Used(Unreachable(sv)) = Used(sv)
  BY <1>1 DEF Used, FreeFds, Started, Unreachable
<1>3. /\ Killed(sv).open = [d \in Fds |-> NoInode]
      /\ Killed(sv).stream = [d \in Fds |-> NoStream]
      /\ Killed(sv).left = {}
  BY <1>1 DEF Killed, Swept
<1>4. FreeFds(Killed(sv)) = Fds
  BY <1>3 DEF FreeFds
<1> QED
  BY <1>2, <1>4 DEF Used

\* An open takes a free descriptor, and keeps it when it fails.
LEMMA OpenUses ==
    ASSUME NEW sv, Tidy(sv), OneUse(sv), NEW p, Exists(sv, p), NEW m \in Open(sv, p)
    PROVE  /\ OneUse(m.server)
           /\ \E d \in Fds : Used(m.server) \subseteq Used(sv) \cup {d} /\ m.status \in {d, ERRHASH}
<1>0. PICK d \in LowestFd(sv), status \in
               (IF MayPass(sv, p) THEN LowestFd(sv) ELSE {})
               \cup (IF Sound(sv, p) THEN {} ELSE {ERRHASH}) :
         m = [server |-> [sv EXCEPT !.open[d] = sv.dir[p]], status |-> status,
              hash |-> File(sv, p).data, mtime |-> File(sv, p).mtime]
  BY DEF Open
<1>1. m.server = [sv EXCEPT !.open[d] = sv.dir[p]] /\ m.status \in {d, ERRHASH}
  <2>1. ASSUME NEW e \in LowestFd(sv) PROVE e = d
    BY <1>0, <2>1, FileServerAssumption DEF LowestFd, FreeFds, Fds
  <2> QED
    BY <1>0, <2>1
<1>2. d \in Fds \ sv.left /\ sv.stream[d] = NoStream
  BY <1>0 DEF LowestFd, FreeFds
<1>3. m.server.open = [sv.open EXCEPT ![d] = sv.dir[p]] /\ sv.open \in [Fds -> Inodes \cup {NoInode}]
  BY <1>1, ServerIs, Fields DEF Tidy
<1>4. m.server.stream = sv.stream /\ m.server.left = sv.left
  BY <1>1, ServerIs
<1>5. OneUse(m.server)
  BY <1>2, <1>3, <1>4 DEF OneUse
<1>6. Used(m.server) \subseteq Used(sv) \cup {d}
  BY <1>2, <1>3, <1>4 DEF Used, FreeFds
<1> QED
  BY <1>1, <1>2, <1>5, <1>6

LEMMA OpendirUses ==
    ASSUME NEW sv, Tidy(sv), OneUse(sv), NEW d, NEW m \in Opendir(sv, d), m.status >= 0
    PROVE  OneUse(m.server) /\ Used(m.server) \subseteq Used(sv) \cup {m.status}
<1> DEFINE n == m.status
           after == [dir |-> d, ended |-> FALSE]
<1>1. /\ n \in Fds /\ sv.open[n] = NoInode /\ n \notin sv.left
      /\ m.server.stream = [sv.stream EXCEPT ![n] = after]
      /\ m.server.open = sv.open /\ m.server.left = sv.left
  <2>1. m.server.open = sv.open /\ m.server.left = sv.left
    BY OpendirStream
  <2>2. n \in Fds /\ m.server.stream = [sv.stream EXCEPT ![n] = after]
    BY OpendirStream
  <2>3. n \in FreeFds(sv)
    BY OpendirStream
  <2>4. n \notin sv.left
    BY OpendirStream
  <2> QED
    BY <2>1, <2>2, <2>3, <2>4 DEF FreeFds
<1>2. sv.stream \in [Fds -> Stream]
  BY Fields DEF Tidy
<1> HIDE DEF n, after
<1>3. OneUse(m.server)
  BY <1>1, <1>2 DEF OneUse
<1>4. Used(m.server) \subseteq Used(sv) \cup {n}
  BY <1>1, <1>2 DEF Used, FreeFds
<1> QED
  BY <1>3, <1>4 DEF n

\* Who closes what it opened frees the descriptor.
LEMMA ReleaseUses ==
    ASSUME NEW sv, Tidy(sv), OneUse(sv), NEW d \in Fds, sv.open[d] # NoInode
    PROVE  LET r == Release(sv, d).server
           IN  OneUse(r) /\ Used(r) \subseteq Used(sv) \ {d}
<1> DEFINE r == Release(sv, d).server
<1>1. /\ r.open = [sv.open EXCEPT ![d] = NoInode] /\ r.stream = [sv.stream EXCEPT ![d] = NoStream]
      /\ r.left = sv.left \ {d}
      /\ sv.open \in [Fds -> Inodes \cup {NoInode}] /\ sv.stream \in [Fds -> Stream]
  <2>1. r = Swept([sv EXCEPT !.open[d] = NoInode, !.stream[d] = NoStream, !.left = @ \ {d}])
    BY DEF Release, FreeFds, Reply
  <2> QED
    BY <2>1, ServerIs, Fields DEF Swept, Tidy
<1> HIDE DEF r
<1>2. OneUse(r)
  BY <1>1 DEF OneUse
<1>4. Used(r) \subseteq Used(sv) \ {d}
  BY <1>1 DEF Used, FreeFds
<1> QED
  BY <1>2, <1>4 DEF r

LEMMA ReleasedirUses ==
    ASSUME NEW sv, Tidy(sv), OneUse(sv), NEW d \in Fds, sv.stream[d] # NoStream
    PROVE  LET r == Releasedir(sv, d).server
           IN  OneUse(r) /\ Used(r) \subseteq Used(sv) \ {d}
<1> DEFINE r == Releasedir(sv, d).server
<1>1. /\ r.stream = [sv.stream EXCEPT ![d] = NoStream] /\ r.open = sv.open
      /\ r.left = sv.left /\ sv.stream \in [Fds -> Stream]
  BY DirStreams, Fields DEF Tidy
<1> HIDE DEF r
<1>2. OneUse(r)
  BY <1>1 DEF OneUse
<1>3. sv.open[d] = NoInode /\ d \notin sv.left
  BY DEF OneUse
<1>4. Used(r) \subseteq Used(sv) \ {d}
  BY <1>1, <1>3 DEF Used, FreeFds
<1> QED
  BY <1>2, <1>4 DEF r

LEMMA ReaddirUses ==
    ASSUME NEW sv, Tidy(sv), OneUse(sv), NEW d \in Fds, sv.stream[d] # NoStream
    PROVE  LET r == Readdir(sv, d).server
           IN  OneUse(r) /\ Used(r) \subseteq Used(sv)
<1> DEFINE r == Readdir(sv, d).server
<1>0. sv.stream \in [Fds -> Stream]
  BY Fields DEF Tidy
<1>1. r.stream = [sv.stream EXCEPT ![d].ended = TRUE] /\ r.open = sv.open /\ r.left = sv.left
  BY DirStreams
<1> HIDE DEF r
<1>2. \A e \in Fds : sv.stream[e] = NoStream => r.stream[e] = NoStream
  BY <1>0, <1>1
<1>3. OneUse(r)
  BY <1>1, <1>2 DEF OneUse
<1>4. Used(r) \subseteq Used(sv)
  BY <1>1, <1>2 DEF Used, FreeFds
<1> QED
  BY <1>3, <1>4 DEF r

\* The server that one file is read from has one descriptor more in use.
LEMMA ReadOneUses ==
    ASSUME NEW sv, Tidy(sv), OneUse(sv), NEW p, NEW r \in ReadAll(sv, {p})
    PROVE  OneUse(r) /\ \E d \in Fds : Used(r) \subseteq Used(sv) \cup {d}
<1>1. /\ r.open = sv.open /\ r.stream = sv.stream
      /\ \E ds \in SUBSET FreeFds(sv) :
             /\ Cardinality(ds) = Cardinality({q \in {p} : Exists(sv, q)})
             /\ r.left = sv.left \cup ds
  BY ReadAllIs DEF SameNames
<1>2. PICK ds \in SUBSET FreeFds(sv) :
         /\ Cardinality(ds) = Cardinality({q \in {p} : Exists(sv, q)})
         /\ r.left = sv.left \cup ds
  BY <1>1
<1>3. ds \subseteq Fds /\ IsFiniteSet(ds)
  BY <1>2, InodesAre, FS_Subset DEF FreeFds
<1>4. \E d \in Fds : ds \subseteq {d}
  <2>1. CASE Exists(sv, p)
    <3>1. {q \in {p} : Exists(sv, q)} = {p}
      BY <2>1
    <3>2. Cardinality(ds) = 1
      BY <1>2, <3>1, FS_Singleton
    <3> QED
      BY <1>3, <3>2, FS_Singleton
  <2>2. CASE ~Exists(sv, p)
    <3>1. {q \in {p} : Exists(sv, q)} = {}
      BY <2>2
    <3>2. ds = {}
      BY <1>2, <1>3, <3>1, FS_EmptySet
    <3> QED
      BY <3>2, FileServerAssumption DEF Fds
  <2> QED
    BY <2>1, <2>2
<1>5. OneUse(r)
  BY <1>1, <1>2 DEF OneUse, FreeFds
<1>6. Used(r) \subseteq Used(sv) \cup ds
  BY <1>1, <1>2 DEF Used, FreeFds
<1> QED
  BY <1>4, <1>5, <1>6

=============================================================================
