------------------------------ MODULE ClientCache ------------------------------
(***************************************************************************)
(* client_cache.c and the operations of client.c that use it: a list of    *)
(* files, the one used last at the end, in front of the files of the       *)
(* server (here one that never fails; RaidStorage has the failures).       *)
(***************************************************************************)
EXTENDS SequencesExt

CONSTANTS
    Paths, Data, Zeros, Unset, MaxBlocks,  \* of ReadThrough
    SizeT,        \* 2^64: size_t, the type of max_size, cur_size and new_size
    CInt,         \* 2^32: int, the type of get_space's argument
    MaxSize,      \* max_size, in blocks
    Operations    \* bound: the operations that are called

ASSUME ClientCacheAssumption ==
    /\ MaxBlocks \in Nat \ {0}
    /\ CInt \in Nat /\ CInt % 2 = 0
    /\ MaxSize \in Nat /\ SizeT \in Nat /\ MaxSize < SizeT

VARIABLES
    list,       \* the entries between `oldest' and `newest'
    cur_size,
    disk,       \* the files on the server
    answer,     \* what the last operation gave the kernel
    stale       \* history: the files whose entries may be wrong

vars == <<list, cur_size, disk, answer, stale>>

Files == INSTANCE ReadThrough WITH file <- disk, reply <- answer

Entry == [path : Paths, data : UNION {[1 .. n -> Files!Blocks \cup {Unset}] : n \in 1 .. MaxBlocks}]

TypeOK ==
    /\ list \in Seq(Entry)
    /\ cur_size \in 0 .. SizeT - 1
    /\ disk \in [Paths -> Files!Contents]
    /\ stale \subseteq Paths

Init ==
    /\ list = <<>>
    /\ cur_size = 0
    /\ Files!Init
    /\ stale = {}

-----------------------------------------------------------------------------
(* client_cache.c.                                                          *)

\* The first entry of the path from the oldest on; 0 if there is none.
Find(l, p) == SelectInSeq(l, LAMBDA e : e.path = p)

CachedData(l, p) == IF Find(l, p) = 0 THEN <<>> ELSE l[Find(l, p)].data

\* Variant of Remaining: the entry is copied and stays in the list.
RemainingAll(l, p) == l

\* remove_entry unlinks the entry it finds, and no other of the same path.
Remaining(l, p) == RemoveFirstMatch(l, LAMBDA e : e.path = p)

TotalSize(l) == FoldLeft(LAMBDA total, e : total + Len(e.data), 0, l)

AsInt(x) == IF x % CInt < CInt \div 2 THEN x % CInt ELSE (x % CInt) - CInt

\* get_space does not decrease size: any size above 0 empties the list, and is
\* still refused.
GetSpace(l, cur, size) ==
    IF size > 0 THEN [list |-> <<>>, cur_size |-> (cur - TotalSize(l)) % SizeT, retval |-> -1]
                ELSE [list |-> l, cur_size |-> cur, retval |-> 0]

\* Variant of Filled: the buffer is put behind the data.
FilledBehind(old, offset, buf) == old \o buf

\* realloc() keeps what fits; what is below the offset and was never there is unset.
Filled(old, offset, buf) ==
    [k \in 1 .. offset + Len(buf) |-> IF k > offset THEN buf[k - offset]
                                      ELSE IF k <= Len(old) THEN old[k] ELSE Unset]

Newest(l, p, data) == Append(l, [path |-> p, data |-> data])

\* Nothing is ever added to cur_size, and an empty list is not measured at all.
CacheWrite(l, p, offset, buf) ==
    LET old == CachedData(l, p)
        rest == Remaining(l, p)
        new_size == (offset + Len(buf) - Len(old)) % SizeT
        wanted == (cur_size + new_size) % SizeT
        space == GetSpace(rest, cur_size, AsInt(wanted - MaxSize))
    IN  IF l = <<>> THEN /\ list' = Newest(l, p, Filled(<<>>, offset, buf))
                         /\ UNCHANGED cur_size
        ELSE IF new_size > 0 /\ wanted > MaxSize /\ space.retval < 0
        THEN /\ list' = space.list
             /\ cur_size' = (space.cur_size - Len(old)) % SizeT
        ELSE /\ list' = Newest(rest, p, Filled(old, offset, buf))
             /\ UNCHANGED cur_size

\* cache_read makes the entry the newest one even if it is too short.
Used(l, p) ==
    IF Find(l, p) = 0 THEN l ELSE Newest(Remaining(l, p), p, CachedData(l, p))

-----------------------------------------------------------------------------
(* client.c.                                                                *)

\* The cache is wrong about a file that was changed, removed or replaced without
\* its knowledge, or that it has a gap of, for as long as it has an entry for it.
Spoils(ps) == stale' = {p \in stale \cup ps : Find(list', p) # 0}

IfBehind(p, offset) == IF offset > Len(CachedData(list, p)) THEN {p} ELSE {}

ReadHit(p, offset, size) ==
    /\ Len(CachedData(list, p)) >= offset + size
    /\ list' = Used(list, p)
    /\ Files!HandOver(p, SubSeq(CachedData(list, p), offset + 1, offset + size))
    /\ UNCHANGED <<cur_size, disk, stale>>

ReadMiss(p, offset, size) ==
    /\ Len(CachedData(list, p)) < offset + size
    /\ Files!Read(p, offset, size)
    /\ CacheWrite(Used(list, p), p, offset, SubSeq(disk[p], offset + 1, offset + size))
    /\ Spoils(IfBehind(p, offset))

\* client_read: the kernel does not ask for more than the file has.
Read(p) ==
    /\ "read" \in Operations
    /\ \E offset \in 0 .. MaxBlocks - 1 : \E size \in 1 .. Len(disk[p]) - offset :
          ReadHit(p, offset, size) \/ ReadMiss(p, offset, size)

Write(p) ==
    /\ "write" \in Operations
    /\ \E offset \in 0 .. MaxBlocks - 1, buf \in Files!Buffers :
          /\ offset + Len(buf) <= MaxBlocks
          /\ Files!Write(p, offset, buf)
          /\ CacheWrite(list, p, offset, buf)
          /\ Spoils(IfBehind(p, offset))

\* client_truncate and client_unlink do not call the cache.
Truncate(p) ==
    /\ "truncate" \in Operations
    /\ \E size \in 0 .. MaxBlocks : Files!Truncate(p, size)
    /\ UNCHANGED <<list, cur_size>>
    /\ Spoils({p})

Unlink(p) ==
    /\ "unlink" \in Operations
    /\ Files!Unlink(p)
    /\ UNCHANGED <<list, cur_size>>
    /\ Spoils({p})

\* Variant of Renamed: the cache is not told.
RenamedNot(p, q) == list

Renamed(p, q) ==
    IF Find(list, p) = 0 THEN list ELSE [list EXCEPT ![Find(list, p)].path = q]

\* cache_rename gives the entry the new path; an entry that has it already stays.
Rename(p, q) ==
    /\ "rename" \in Operations
    /\ Files!Rename(p, q)
    /\ list' = Renamed(p, q)
    /\ UNCHANGED cur_size
    /\ Spoils(IF Find(list, q) # 0 \/ p \in stale THEN {q} ELSE {})

Next ==
    \/ /\ Files!Alive
       /\ \E p \in Paths :
             \/ Read(p) \/ Write(p) \/ Truncate(p) \/ Unlink(p)
             \/ \E q \in Paths \ {p} : Rename(p, q)
    \/ ~Files!Alive /\ UNCHANGED vars

Spec == Init /\ [][Next]_vars

-----------------------------------------------------------------------------
(* Properties.                                                              *)

\* What the list holds of a file is what the server has of it, in one entry at
\* most, through every growth, shrinking (where new_size wraps), eviction and
\* refusal, and whatever happens to other files, unless the file itself was
\* truncated, removed or replaced, or read or written behind the end of its entry,
\* while the cache had it.
CachedBlocksAreTheFiles ==
    \A k \in 1 .. Len(list) :
        LET e == list[k] IN
        e.path \notin stale =>
            /\ \A j \in 1 .. Len(list) : list[j].path = e.path => j = k
            /\ Len(e.data) <= Len(disk[e.path])
            /\ \A b \in 1 .. Len(e.data) : e.data[b] = disk[e.path][b]

\* Every step is one of a client without a cache, but a read of a file the cache
\* is wrong about.
ServesAllButStaleFiles ==
    [][Files!Next \/ \E p \in stale : Read(p)]_<<disk, answer>>

\* "Every change on the server is made in the cache as well" (README.md:158), so
\* the client answers as if there were no cache.
ServesTheFiles == Files!Spec

=============================================================================
