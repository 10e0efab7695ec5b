--------------------------- MODULE ClientCacheProofs ---------------------------
(***************************************************************************)
(* The cache is right about every file that is not in `stale', for all     *)
(* files, blocks and sizes: it has one entry at most, a prefix of the      *)
(* file, and a read of it is answered as ReadThrough answers it.  No step  *)
(* that involves one file disturbs what the cache has of another.          *)
(*                                                                         *)
(* Sizes do not matter to it: whatever cur_size has become, get_space      *)
(* either leaves the list as it is or empties it.                          *)
(***************************************************************************)
EXTENDS ClientCache, SequenceTheorems, WellFoundedInduction, TLAPS

Block == Files!Blocks \cup {Unset}
Cached == [path : Paths, data : Seq(Block)]
Disks == [Paths -> Seq(Files!Blocks)]

Prefix(data, content) ==
    Len(data) <= Len(content) /\ \A b \in 1 .. Len(data) : data[b] = content[b]

\* The list has one entry of the path at most, with the beginning of the content.
Right(l, p, content) ==
    \A k \in 1 .. Len(l) : l[k].path = p =>
        /\ \A j \in 1 .. Len(l) : l[j].path = p => j = k
        /\ Prefix(l[k].data, content)

Good(l, d, s) == \A p \in Paths \ s : Right(l, p, d[p])

Inv ==
    /\ list \in Seq(Cached)
    /\ disk \in Disks
    /\ Good(list, disk, stale)

-----------------------------------------------------------------------------
(* find(), remove_entry() and insert_new().                                 *)

LEMMA Smallest ==
    ASSUME NEW S, S \subseteq Nat, S # {}
    PROVE  Min(S) \in S
<1>1. \E x \in S : \A y \in S : ~(<<y, x>> \in OpToRel(<, Nat))
  BY WFMin, NatLessThanWellFounded
<1>2. \E x \in S : \A y \in S : x =< y
  <2>1. PICK x \in S : \A y \in S : ~(<<y, x>> \in OpToRel(<, Nat))
    BY <1>1
  <2>2. \A y \in S : x =< y
    <3> TAKE y \in S
    <3>1. ~(<<y, x>> \in {ss \in Nat \X Nat : ss[1] < ss[2]})
      BY <2>1 DEF OpToRel
    <3>2. x \in Nat /\ y \in Nat
      OBVIOUS
    <3> QED
      BY <3>1, <3>2
  <2> QED
    BY <2>2
<1> QED
  BY <1>2 DEF Min

\* find() stops at an entry of the path if there is one.
LEMMA FindFinds ==
    ASSUME NEW l \in Seq(Cached), NEW p
    PROVE  \/ /\ Find(l, p) \in 1 .. Len(l)
              /\ l[Find(l, p)].path = p
           \/ Find(l, p) = 0 /\ \A k \in 1 .. Len(l) : l[k].path # p
<1> DEFINE I == {i \in 1 .. Len(l) : l[i].path = p}
<1>1. Find(l, p) = IF I # {} THEN Min(I) ELSE 0
  BY DEF Find, SelectInSeq
<1>2. CASE I = {}
  BY <1>1, <1>2
<1>3. CASE I # {}
  <2>1. I \subseteq Nat
    BY LenProperties
  <2>2. Min(I) \in I
    BY <1>3, <2>1, Smallest
  <2> QED
    BY <1>1, <1>3, <2>2
<1> QED
  BY <1>2, <1>3

LEMMA FindsNothing ==
    ASSUME NEW l \in Seq(Cached), NEW p, Find(l, p) = 0
    PROVE  \A k \in 1 .. Len(l) : l[k].path # p
<1>1. ~(Find(l, p) \in 1 .. Len(l))
  BY LenProperties
<1> QED
  BY <1>1, FindFinds

LEMMA CachedIsTyped ==
    ASSUME NEW l \in Seq(Cached), NEW p
    PROVE  CachedData(l, p) \in Seq(Block)
<1>1. CASE Find(l, p) \in 1 .. Len(l)
  <2>1. l[Find(l, p)] \in Cached
    BY <1>1, ElementOfSeq
  <2> QED
    BY <2>1, EmptySeq DEF CachedData, Cached
<1>2. CASE Find(l, p) = 0
  BY <1>2, EmptySeq DEF CachedData
<1> QED
  BY <1>1, <1>2, FindFinds

LEMMA CachedIsPrefix ==
    ASSUME NEW l \in Seq(Cached), NEW p, NEW content \in Seq(Files!Blocks), Right(l, p, content)
    PROVE  /\ Len(CachedData(l, p)) \in Nat
           /\ Prefix(CachedData(l, p), content)
           /\ \A k \in 1 .. Len(l) : l[k].path = p => CachedData(l, p) = l[k].data
<1>1. CachedData(l, p) \in Seq(Block) /\ Len(CachedData(l, p)) \in Nat /\ Len(content) \in Nat
  BY CachedIsTyped, LenProperties
<1>2. CASE Find(l, p) \in 1 .. Len(l) /\ l[Find(l, p)].path = p
  <2>1. Find(l, p) # 0 /\ CachedData(l, p) = l[Find(l, p)].data
    BY <1>2, LenProperties DEF CachedData
  <2> QED
    BY <1>1, <1>2, <2>1 DEF Right
<1>3. CASE Find(l, p) = 0 /\ \A k \in 1 .. Len(l) : l[k].path # p
  <2>1. CachedData(l, p) = <<>> /\ Len(CachedData(l, p)) = 0
    BY <1>3, EmptySeq DEF CachedData
  <2> QED
    BY <1>1, <1>3, <2>1 DEF Prefix
<1> QED
  BY <1>2, <1>3, FindFinds

\* remove_entry() takes one entry of the path out, if there is one, and keeps the
\* others.
LEMMA RemainingEntries ==
    ASSUME NEW l \in Seq(Cached), NEW p
    PROVE  /\ Remaining(l, p) \in Seq(Cached)
           /\ \A q, content : Right(l, q, content) => Right(Remaining(l, p), q, content)
           /\ \A content : Right(l, p, content) =>
                  \A k \in 1 .. Len(Remaining(l, p)) : Remaining(l, p)[k].path # p
<1>1. CASE \A k \in 1 .. Len(l) : l[k].path # p
  <2>1. Remaining(l, p) = l
    BY <1>1 DEF Remaining, RemoveFirstMatch
  <2> QED
    BY <1>1, <2>1
<1>2. CASE Find(l, p) \in 1 .. Len(l) /\ l[Find(l, p)].path = p
  <2> DEFINE i == Find(l, p)
             n == Len(l)
             r == Remaining(l, p)
  <2>n. n \in Nat /\ i \in 1 .. n
    BY <1>2, LenProperties
  <2> HIDE DEF i
  <2>1. r = SubSeq(l, 1, i - 1) \o SubSeq(l, i + 1, n)
    BY <1>2 DEF Remaining, RemoveFirstMatch, RemoveAt, Find, i
  <2>2. /\ SubSeq(l, 1, i - 1) \in Seq(Cached)
        /\ Len(SubSeq(l, 1, i - 1)) = i - 1
        /\ \A k \in 1 .. i - 1 : SubSeq(l, 1, i - 1)[k] = l[k]
    BY <2>n, ElementOfSeq, SubSeqProperties
  <2>3. /\ SubSeq(l, i + 1, n) \in Seq(Cached)
        /\ Len(SubSeq(l, i + 1, n)) = n - i
        /\ \A k \in 1 .. n - i : SubSeq(l, i + 1, n)[k] = l[i + k]
    <3>1. \A k \in i + 1 .. n : l[k] \in Cached
      BY <2>n, ElementOfSeq
    <3> QED
      BY <2>n, <3>1, SubSeqProperties
  <2>4. /\ r \in Seq(Cached)
        /\ Len(r) = n - 1
        /\ \A k \in 1 .. n - 1 : r[k] = l[IF k < i THEN k ELSE k + 1]
    <3> DEFINE before == SubSeq(l, 1, i - 1)
               after == SubSeq(l, i + 1, n)
    <3> HIDE DEF before, after
    <3>a. before \in Seq(Cached) /\ after \in Seq(Cached) /\ r = before \o after
          /\ Len(before) = i - 1 /\ Len(after) = n - i
      BY <2>1, <2>2, <2>3 DEF before, after
    <3>b. /\ r \in Seq(Cached) /\ Len(r) = Len(before) + Len(after)
          /\ \A k \in 1 .. Len(before) + Len(after) :
                r[k] = IF k <= Len(before) THEN before[k] ELSE after[k - Len(before)]
      <4>1. /\ before \o after \in Seq(Cached)
            /\ Len(before \o after) = Len(before) + Len(after)
            /\ \A k \in 1 .. Len(before) + Len(after) :
                  (before \o after)[k] = IF k <= Len(before) THEN before[k]
                                         ELSE after[k - Len(before)]
        BY <3>a, ConcatProperties
      <4> QED
        BY <3>a, <4>1
    <3>c. (i - 1) + (n - i) = n - 1
      BY <2>n
    <3>1. /\ r \in Seq(Cached) /\ Len(r) = n - 1
          /\ \A k \in 1 .. n - 1 : r[k] = IF k <= i - 1 THEN SubSeq(l, 1, i - 1)[k]
                                          ELSE SubSeq(l, i + 1, n)[k - (i - 1)]
      BY <3>a, <3>b, <3>c DEF before, after
    <3>2. ASSUME NEW k \in 1 .. n - 1 PROVE r[k] = l[IF k < i THEN k ELSE k + 1]
      <4>1. CASE k < i
        BY <2>n, <2>2, <3>1, <4>1
      <4>2. CASE k >= i
        <5>1. k - (i - 1) \in 1 .. n - i /\ i + (k - (i - 1)) = k + 1
          BY <2>n, <4>2
        <5>2. ~(k <= i - 1)
          BY <2>n, <4>2
        <5>3. r[k] = SubSeq(l, i + 1, n)[k - (i - 1)]
          BY <3>1, <5>2
        <5>4. SubSeq(l, i + 1, n)[k - (i - 1)] = l[k + 1]
          BY <2>3, <5>1
        <5> QED
          BY <2>n, <4>2, <5>3, <5>4
      <4> QED
        BY <2>n, <4>1, <4>2
    <3> QED
      BY <3>1, <3>2
  <2>5. ASSUME NEW k \in 1 .. n - 1
        PROVE  /\ (IF k < i THEN k ELSE k + 1) \in 1 .. n
               /\ (IF k < i THEN k ELSE k + 1) # i
    BY <2>n
  <2>6. ASSUME NEW q, NEW content, Right(l, q, content)
        PROVE  Right(r, q, content)
    <3> SUFFICES ASSUME NEW k \in 1 .. n - 1, r[k].path = q
                 PROVE  /\ \A j \in 1 .. n - 1 : r[j].path = q => j = k
                        /\ Prefix(r[k].data, content)
      BY <2>4 DEF Right
    <3> DEFINE At(j) == IF j < i THEN j ELSE j + 1
    <3>1. \A j \in 1 .. n - 1 : r[j] = l[At(j)] /\ At(j) \in 1 .. n
      BY <2>4, <2>5
    <3> HIDE DEF r
    <3>2. Prefix(r[k].data, content)
      BY <2>6, <3>1 DEF Right
    <3>3. ASSUME NEW j \in 1 .. n - 1, r[j].path = q PROVE j = k
      <4>1. l[At(j)].path = q /\ l[At(k)].path = q /\ At(j) \in 1 .. n /\ At(k) \in 1 .. n
        BY <3>1, <3>3
      <4> HIDE DEF At
      <4>2. At(j) = At(k)
        BY <2>6, <4>1 DEF Right
      <4> QED
        BY <2>n, <4>2 DEF At
    <3> QED
      BY <3>2, <3>3
  <2>7. ASSUME NEW content, Right(l, p, content), NEW k \in 1 .. Len(r)
        PROVE  r[k].path # p
    <3>1. \A j \in 1 .. n : j # i => l[j].path # p
      BY <1>2, <2>n, <2>7 DEF Right, i
    <3> QED
      BY <2>4, <2>5, <2>7, <3>1
  <2> QED
    BY <2>4, <2>6, <2>7
<1> QED
  BY <1>1, <1>2, FindFinds

LEMMA NewestEntries ==
    ASSUME NEW l \in Seq(Cached), NEW p \in Paths, NEW data \in Seq(Block)
    PROVE  /\ Newest(l, p, data) \in Seq(Cached)
           /\ \A q, content : q # p /\ Right(l, q, content) => Right(Newest(l, p, data), q, content)
           /\ \A content :
                  /\ \A k \in 1 .. Len(l) : l[k].path # p
                  /\ Prefix(data, content)
                  => Right(Newest(l, p, data), p, content) /\ CachedData(Newest(l, p, data), p) = data
<1> DEFINE e == [path |-> p, data |-> data]
           r == Newest(l, p, data)
<1>1. e \in Cached /\ e.path = p /\ e.data = data
  BY DEF Cached
<1>2. Len(l) \in Nat
  BY LenProperties
<1>3. /\ r \in Seq(Cached) /\ Len(r) = Len(l) + 1
      /\ \A k \in 1 .. Len(l) : r[k] = l[k]
      /\ r[Len(l) + 1] = e
  BY <1>1, AppendProperties DEF Newest
<1>4. \A k \in 1 .. Len(r) : k \in 1 .. Len(l) \/ k = Len(l) + 1
  BY <1>2, <1>3
<1> HIDE DEF r, e
<1>5. ASSUME NEW q, NEW content, q # p, Right(l, q, content)
      PROVE  Right(r, q, content)
  BY <1>1, <1>3, <1>4, <1>5 DEF Right
<1>6. ASSUME NEW content, \A k \in 1 .. Len(l) : l[k].path # p, Prefix(data, content)
      PROVE  Right(r, p, content) /\ CachedData(r, p) = data
  <2>1. Right(r, p, content)
    BY <1>1, <1>3, <1>4, <1>6 DEF Right
  <2>2. Find(r, p) = Len(l) + 1
    <3>1. Len(l) + 1 \in 1 .. Len(r)
      BY <1>2, <1>3
    <3>2. Find(r, p) \in 1 .. Len(r) /\ r[Find(r, p)].path = p
      BY <1>1, <1>3, <3>1, FindFinds
    <3> QED
      BY <1>3, <1>4, <1>6, <3>2
  <2> QED
    BY <1>1, <1>2, <1>3, <2>1, <2>2 DEF CachedData
<1> QED
  BY <1>3, <1>5, <1>6 DEF r

\* The entry that is used, filled or replaced becomes the newest, the only one of
\* its file, and the entries of the other files stay.
LEMMA ReplacedEntries ==
    ASSUME NEW l \in Seq(Cached), NEW p \in Paths, NEW data \in Seq(Block)
    PROVE  LET r == Newest(Remaining(l, p), p, data) IN
           /\ r \in Seq(Cached)
           /\ \A q, content : q # p /\ Right(l, q, content) => Right(r, q, content)
           /\ \A old, content :
                  Right(l, p, old) /\ Prefix(data, content)
                  => Right(r, p, content) /\ CachedData(r, p) = data
<1> DEFINE rest == Remaining(l, p)
<1>1. /\ rest \in Seq(Cached)
      /\ \A q, content : Right(l, q, content) => Right(rest, q, content)
      /\ \A content : Right(l, p, content) => \A k \in 1 .. Len(rest) : rest[k].path # p
  BY RemainingEntries
<1> HIDE DEF rest
<1>2. /\ Newest(rest, p, data) \in Seq(Cached)
      /\ \A q, content : q # p /\ Right(rest, q, content) => Right(Newest(rest, p, data), q, content)
      /\ \A content :
             /\ \A k \in 1 .. Len(rest) : rest[k].path # p
             /\ Prefix(data, content)
             => Right(Newest(rest, p, data), p, content) /\ CachedData(Newest(rest, p, data), p) = data
  BY <1>1, NewestEntries
<1> QED
  BY <1>1, <1>2 DEF rest

\* cache_read() only moves an entry.
LEMMA UsedEntries ==
    ASSUME NEW l \in Seq(Cached), NEW p \in Paths
    PROVE  /\ Used(l, p) \in Seq(Cached)
           /\ \A q, content : q # p /\ Right(l, q, content) => Right(Used(l, p), q, content)
           /\ \A content \in Seq(Files!Blocks) : Right(l, p, content) =>
                  Right(Used(l, p), p, content) /\ CachedData(Used(l, p), p) = CachedData(l, p)
<1>1. CASE Find(l, p) = 0
  BY <1>1 DEF Used
<1>2. CASE Find(l, p) # 0
  <2>1. Used(l, p) = Newest(Remaining(l, p), p, CachedData(l, p))
    BY <1>2 DEF Used
  <2>2. CachedData(l, p) \in Seq(Block)
    BY CachedIsTyped
  <2> HIDE DEF CachedData
  <2>3. \A content \in Seq(Files!Blocks) :
           Right(l, p, content) => Prefix(CachedData(l, p), content)
    BY CachedIsPrefix
  <2> QED
    BY <2>1, <2>2, <2>3, ReplacedEntries
<1> QED
  BY <1>1, <1>2

\* realloc() and memcpy(), at an offset within what was there.
LEMMA FilledIsPrefix ==
    ASSUME NEW old \in Seq(Block), NEW buf \in Seq(Files!Blocks), NEW content \in Seq(Files!Blocks),
           NEW offset \in Nat, offset <= Len(old), offset + Len(buf) <= Len(content),
           \A k \in 1 .. offset : old[k] = content[k],
           \A k \in 1 .. Len(buf) : content[offset + k] = buf[k]
    PROVE  Filled(old, offset, buf) \in Seq(Block) /\ Prefix(Filled(old, offset, buf), content)
<1> DEFINE n == offset + Len(buf)
           data == Filled(old, offset, buf)
<1>1. n \in Nat /\ Len(old) \in Nat /\ Len(buf) \in Nat /\ Len(content) \in Nat
  BY LenProperties
<1>2. ASSUME NEW k \in 1 .. n
      PROVE  data[k] = content[k] /\ content[k] \in Block
  <2>1. data[k] = IF k > offset THEN buf[k - offset]
                  ELSE IF k <= Len(old) THEN old[k] ELSE Unset
    BY DEF Filled
  <2>2. CASE k > offset
    <3>1. k - offset \in 1 .. Len(buf) /\ offset + (k - offset) = k
      BY <1>1, <2>2
    <3> QED
      BY <2>1, <2>2, <3>1, ElementOfSeq DEF Block
  <2>3. CASE k <= offset
    BY <1>1, <2>1, <2>3, ElementOfSeq DEF Block
  <2> QED
    BY <1>1, <2>2, <2>3
<1>3. data \in [1 .. n -> Block]
  BY <1>2 DEF Filled
<1> HIDE DEF n, data
<1>4. data \in Seq(Block) /\ Len(data) = n
  BY <1>1, <1>3
<1> QED
  BY <1>1, <1>2, <1>4 DEF Prefix, n, data

\* cache_write() leaves no entry at all, or makes one for what it is given.
LEMMA CacheWriteEntries ==
    ASSUME NEW l \in Seq(Cached), NEW p \in Paths, NEW offset, NEW buf,
           Filled(CachedData(l, p), offset, buf) \in Seq(Block),
           CacheWrite(l, p, offset, buf)
    PROVE  /\ list' \in Seq(Cached)
           /\ \A q, content : q # p /\ Right(l, q, content) => Right(list', q, content)
           /\ \A old, content :
                  Right(l, p, old) /\ Prefix(Filled(CachedData(l, p), offset, buf), content)
                  => Right(list', p, content)
<1> DEFINE old == CachedData(l, p)
           rest == Remaining(l, p)
           new_size == (offset + Len(buf) - Len(old)) % SizeT
           wanted == (cur_size + new_size) % SizeT
           space == GetSpace(rest, cur_size, AsInt(wanted - MaxSize))
<1>1. \/ list' = <<>>
      \/ list' = Newest(rest, p, Filled(old, offset, buf))
  <2>1. CASE l = <<>>
    <3>1. Len(l) = 0
      BY <2>1, EmptySeq
    <3>2. rest = <<>>
      BY <2>1, <3>1 DEF Remaining, RemoveFirstMatch
    <3>3. old = <<>>
      <4>1. ~(Find(l, p) \in 1 .. Len(l))
        BY <3>1
      <4>2. Find(l, p) = 0
        BY <4>1, FindFinds
      <4> QED
        BY <4>2 DEF CachedData
    <3> HIDE DEF old, rest
    <3>4. list' = Newest(<<>>, p, Filled(<<>>, offset, buf))
      BY <2>1 DEF CacheWrite
    <3> QED
      BY <3>2, <3>3, <3>4
  <2>2. CASE l # <<>> /\ new_size > 0 /\ wanted > MaxSize /\ space.retval < 0
    <3>1. space.retval < 0 => space.list = <<>>
      BY DEF GetSpace
    <3>2. list' = space.list
      BY <2>2 DEF CacheWrite
    <3> QED
      BY <2>2, <3>1, <3>2
  <2>3. CASE l # <<>> /\ ~(new_size > 0 /\ wanted > MaxSize /\ space.retval < 0)
    BY <2>3 DEF CacheWrite
  <2> QED
    BY <2>1, <2>2, <2>3
<1>2. CASE list' = <<>>
  <2>1. list' \in Seq(Cached) /\ Len(list') = 0
    BY <1>2, EmptySeq
  <2> QED
    BY <2>1 DEF Right
<1>3. CASE list' = Newest(rest, p, Filled(old, offset, buf))
  BY <1>3, ReplacedEntries
<1> QED
  BY <1>1, <1>2, <1>3

\* A file is stale for as long as the list has an entry of it.
LEMMA SpoilsGood ==
    ASSUME NEW ps, Spoils(ps), list' \in Seq(Cached), NEW d, Good(list', d, stale \cup ps)
    PROVE  Good(list', d, stale')
<1> SUFFICES ASSUME NEW p \in Paths \ stale' PROVE Right(list', p, d[p])
  BY DEF Good
<1>1. CASE p \in stale \cup ps
  <2>1. Find(list', p) = 0
    BY <1>1 DEF Spoils
  <2>2. \A k \in 1 .. Len(list') : list'[k].path # p
    BY <2>1, FindsNothing
  <2> QED
    BY <2>2 DEF Right
<1>2. CASE p \notin stale \cup ps
  BY <1>2 DEF Good
<1> QED
  BY <1>1, <1>2

-----------------------------------------------------------------------------
(* The operations of client.c.                                              *)

LEMMA FilledIsTyped ==
    ASSUME NEW old \in Seq(Block), NEW buf \in Seq(Files!Blocks), NEW offset \in Nat
    PROVE  Filled(old, offset, buf) \in Seq(Block)
<1> DEFINE n == offset + Len(buf)
<1>1. n \in Nat /\ Len(old) \in Nat /\ Len(buf) \in Nat
  BY LenProperties
<1>2. ASSUME NEW k \in 1 .. n PROVE Filled(old, offset, buf)[k] \in Block
  <2>1. Filled(old, offset, buf)[k] = IF k > offset THEN buf[k - offset]
                                      ELSE IF k <= Len(old) THEN old[k] ELSE Unset
    BY DEF Filled
  <2>2. CASE k > offset
    <3>1. k - offset \in 1 .. Len(buf)
      BY <1>1, <2>2
    <3> QED
      BY <2>1, <2>2, <3>1, ElementOfSeq DEF Block
  <2>3. CASE k <= offset
    BY <1>1, <2>1, <2>3, ElementOfSeq DEF Block
  <2> QED
    BY <1>1, <2>2, <2>3
<1>3. Filled(old, offset, buf) \in [1 .. n -> Block]
  BY <1>2 DEF Filled
<1> HIDE DEF n
<1> QED
  BY <1>1, <1>3

LEMMA PatchedContent ==
    ASSUME NEW old \in Seq(Files!Blocks), NEW buf \in Seq(Files!Blocks), NEW offset \in Nat
    PROVE  LET content == Files!Patched(old, offset, buf) IN
           /\ content \in Seq(Files!Blocks)
           /\ Len(content) >= offset + Len(buf)
           /\ \A k \in 1 .. Len(buf) : content[offset + k] = buf[k]
           /\ \A k \in 1 .. offset : k <= Len(old) => content[k] = old[k]
<1> DEFINE n == IF offset + Len(buf) > Len(old) THEN offset + Len(buf) ELSE Len(old)
           content == Files!Patched(old, offset, buf)
<1>1. /\ Len(old) \in Nat /\ Len(buf) \in Nat /\ n \in Nat
      /\ n >= offset + Len(buf) /\ n >= Len(old)
  BY LenProperties
<1>2. ASSUME NEW k \in 1 .. n
      PROVE  content[k] = IF k \in offset + 1 .. offset + Len(buf) THEN buf[k - offset]
                          ELSE IF k <= Len(old) THEN old[k] ELSE Zeros
  BY DEF Files!Patched
<1>3. \A k \in 1 .. n : content[k] \in Files!Blocks
  <2> TAKE k \in 1 .. n
  <2>1. CASE k \in offset + 1 .. offset + Len(buf)
    <3>1. k - offset \in 1 .. Len(buf)
      BY <1>1, <2>1
    <3> QED
      BY <1>2, <2>1, <3>1, ElementOfSeq
  <2>2. CASE k \notin offset + 1 .. offset + Len(buf) /\ k <= Len(old)
    <3>1. k \in 1 .. Len(old)
      BY <1>1, <2>2
    <3> QED
      BY <1>2, <2>2, <3>1, ElementOfSeq
  <2>3. CASE k \notin offset + 1 .. offset + Len(buf) /\ ~(k <= Len(old))
    BY <1>2, <2>3 DEF Files!Blocks
  <2> QED
    BY <2>1, <2>2, <2>3
<1>4. content \in [1 .. n -> Files!Blocks]
  BY <1>3 DEF Files!Patched
<1>5. \A k \in 1 .. Len(buf) : content[offset + k] = buf[k]
  <2> TAKE k \in 1 .. Len(buf)
  <2>1. offset + k \in 1 .. n /\ offset + k \in offset + 1 .. offset + Len(buf)
        /\ offset + k - offset = k
    BY <1>1
  <2> QED
    BY <1>2, <2>1
<1>6. \A k \in 1 .. offset : k <= Len(old) => content[k] = old[k]
  BY <1>1, <1>2
<1> HIDE DEF n, content
<1>7. content \in Seq(Files!Blocks) /\ Len(content) = n
  BY <1>1, <1>4
<1> QED
  BY <1>1, <1>5, <1>6, <1>7 DEF content

\* A read is answered from the file, or from an entry that has the beginning of it.
LEMMA ReadKeepsInv ==
    ASSUME Inv, Files!Alive, NEW p \in Paths, Read(p)
    PROVE  Inv' /\ (p \notin stale => Files!Next)
<1> DEFINE data == CachedData(list, p)
<1>1. PICK offset \in 0 .. MaxBlocks - 1 : \E size \in 1 .. Len(disk[p]) - offset :
          ReadHit(p, offset, size) \/ ReadMiss(p, offset, size)
  BY DEF Read
<1>2. PICK size \in 1 .. Len(disk[p]) - offset :
          ReadHit(p, offset, size) \/ ReadMiss(p, offset, size)
  BY <1>1
<1>3. /\ list \in Seq(Cached) /\ Good(list, disk, stale)
      /\ disk \in Disks /\ disk[p] \in Seq(Files!Blocks) /\ Len(disk[p]) \in Nat
  BY LenProperties DEF Inv, Disks
<1>4. offset \in Nat /\ size \in Nat /\ size >= 1 /\ offset + size <= Len(disk[p])
  BY <1>3, ClientCacheAssumption
<1>5. data \in Seq(Block) /\ Len(data) \in Nat
  BY <1>3, CachedIsTyped, LenProperties
<1>6. p \notin stale => /\ Right(list, p, disk[p])
                        /\ Len(data) <= Len(disk[p])
                        /\ \A b \in 1 .. Len(data) : data[b] = disk[p][b]
  <2> SUFFICES ASSUME p \notin stale
               PROVE  Right(list, p, disk[p]) /\ Prefix(data, disk[p])
    BY DEF Prefix
  <2>1. Right(list, p, disk[p])
    BY <1>3 DEF Good
  <2> QED
    BY <1>3, <2>1, CachedIsPrefix
<1>7. /\ Used(list, p) \in Seq(Cached)
      /\ \A q \in Paths \ stale : Right(Used(list, p), q, disk[q])
      /\ p \notin stale => CachedData(Used(list, p), p) = data
  <2>1. \A q \in Paths \ stale : Right(list, q, disk[q])
    BY <1>3 DEF Good
  <2> QED
    BY <1>3, <2>1, UsedEntries
<1>8. CASE ReadHit(p, offset, size)
  <2>1. /\ Len(data) >= offset + size
        /\ Files!HandOver(p, SubSeq(data, offset + 1, offset + size))
        /\ list' = Used(list, p) /\ disk' = disk /\ stale' = stale
    BY <1>8 DEF ReadHit
  <2>2. Inv'
    BY <1>3, <1>7, <2>1 DEF Inv, Good
  <2> HIDE DEF data
  <2>3. ASSUME p \notin stale PROVE Files!Next
    <3>1. \A k \in offset + 1 .. offset + size : /\ data[k] = disk[p][k]
                                                 /\ data[k] \in Block
      BY <1>3, <1>4, <1>5, <1>6, <2>1, <2>3, ElementOfSeq
    <3> DEFINE one == SubSeq(data, offset + 1, offset + size)
               other == SubSeq(disk[p], offset + 1, offset + size)
    <3>2. one \in Seq(Block) /\ Len(one) = size
          /\ \A k \in 1 .. size : one[k] = data[offset + k]
      BY <1>4, <3>1, SubSeqProperties
    <3>3. other \in Seq(Block) /\ Len(other) = size
          /\ \A k \in 1 .. size : other[k] = disk[p][offset + k]
      BY <1>4, <3>1, SubSeqProperties
    <3>4. \A k \in 1 .. size : one[k] = other[k]
      BY <1>4, <3>1, <3>2, <3>3
    <3>5. Files!HandOver(p, one)
      BY <2>1
    <3> HIDE DEF one, other
    <3>6. one = other
      BY <3>2, <3>3, <3>4, SeqEqual
    <3>7. Files!Read(p, offset, size)
      BY <2>1, <3>5, <3>6 DEF Files!Read, other
    <3> QED
      BY <1>2, <3>7 DEF Files!Next
  <2> QED
    BY <2>2, <2>3
<1>9. CASE ReadMiss(p, offset, size)
  <2> DEFINE buf == SubSeq(disk[p], offset + 1, offset + size)
             old == CachedData(Used(list, p), p)
             ps == IfBehind(p, offset)
  <2>1. Files!Read(p, offset, size) /\ CacheWrite(Used(list, p), p, offset, buf) /\ Spoils(ps)
    BY <1>9 DEF ReadMiss
  <2>2. disk' = disk
    BY <2>1 DEF Files!Read
  <2>3. buf \in Seq(Files!Blocks) /\ Len(buf) = size
        /\ \A k \in 1 .. size : buf[k] = disk[p][offset + k]
    <3>1. \A k \in offset + 1 .. offset + size : disk[p][k] \in Files!Blocks
      BY <1>3, <1>4, ElementOfSeq
    <3> QED
      BY <1>4, <3>1, SubSeqProperties
  <2>4. p \notin ps => offset <= Len(data)
    BY <1>4, <1>5 DEF IfBehind
  <2> HIDE DEF buf, data, ps
  <2>5. Filled(old, offset, buf) \in Seq(Block)
    BY <1>4, <1>7, <2>3, CachedIsTyped, FilledIsTyped
  <2>6. ASSUME p \notin stale, p \notin ps PROVE Prefix(Filled(old, offset, buf), disk[p])
    <3>1. /\ \A k \in 1 .. offset : data[k] = disk[p][k]
          /\ \A k \in 1 .. Len(buf) : disk[p][offset + k] = buf[k]
          /\ offset + Len(buf) <= Len(disk[p])
          /\ offset <= Len(data) /\ old = data
      BY <1>4, <1>5, <1>6, <1>7, <2>3, <2>4, <2>6
    <3> QED
      BY <1>3, <1>4, <1>5, <2>3, <3>1, FilledIsPrefix
  <2>7. list' \in Seq(Cached) /\ Good(list', disk, stale \cup ps)
    <3>1. /\ list' \in Seq(Cached)
          /\ \A q, content : q # p /\ Right(Used(list, p), q, content) => Right(list', q, content)
          /\ \A before, content :
                Right(Used(list, p), p, before) /\ Prefix(Filled(old, offset, buf), content)
                => Right(list', p, content)
      BY <1>7, <2>1, <2>5, CacheWriteEntries
    <3> HIDE DEF old
    <3> QED
      BY <1>7, <2>6, <3>1 DEF Good
  <2>8. Inv'
    BY <1>3, <2>1, <2>2, <2>7, SpoilsGood DEF Inv
  <2> QED
    BY <1>2, <2>1, <2>8 DEF Files!Next
<1> QED
  BY <1>2, <1>8, <1>9

\* A write goes to the file and to the cache.
LEMMA WriteKeepsInv ==
    ASSUME Inv, Files!Alive, NEW p \in Paths, Write(p)
    PROVE  Inv' /\ Files!Next
<1> DEFINE data == CachedData(list, p)
<1>1. PICK offset \in 0 .. MaxBlocks - 1, buf \in Files!Buffers :
          /\ offset + Len(buf) <= MaxBlocks
          /\ Files!Write(p, offset, buf)
          /\ CacheWrite(list, p, offset, buf)
          /\ Spoils(IfBehind(p, offset))
  BY DEF Write
<1>2. /\ list \in Seq(Cached) /\ Good(list, disk, stale)
      /\ disk \in Disks /\ disk[p] \in Seq(Files!Blocks) /\ Len(disk[p]) \in Nat
      /\ DOMAIN disk = Paths
  BY LenProperties DEF Inv, Disks
<1>3. offset \in Nat /\ buf \in Seq(Files!Blocks)
  <2>1. PICK n \in 1 .. MaxBlocks : buf \in [1 .. n -> Data]
    BY DEF Files!Buffers
  <2>2. n \in Nat /\ buf \in [1 .. n -> Files!Blocks]
    BY <2>1, ClientCacheAssumption DEF Files!Blocks
  <2> QED
    BY <2>2, ClientCacheAssumption
<1> DEFINE content == Files!Patched(disk[p], offset, buf)
           ps == IfBehind(p, offset)
<1>4. /\ content \in Seq(Files!Blocks)
      /\ Len(content) >= offset + Len(buf)
      /\ \A k \in 1 .. Len(buf) : content[offset + k] = buf[k]
      /\ \A k \in 1 .. offset : k <= Len(disk[p]) => content[k] = disk[p][k]
  BY <1>2, <1>3, PatchedContent
<1> HIDE DEF content
<1>5. disk' = [disk EXCEPT ![p] = content]
  BY <1>1 DEF Files!Write, Files!Changed, content
<1>6. disk' \in Disks /\ disk'[p] = content /\ \A q \in Paths \ {p} : disk'[q] = disk[q]
  BY <1>2, <1>4, <1>5 DEF Disks
<1>7. data \in Seq(Block) /\ Len(data) \in Nat /\ (p \notin ps => offset <= Len(data))
  <2>1. data \in Seq(Block) /\ Len(data) \in Nat
    BY <1>2, CachedIsTyped, LenProperties
  <2> QED
    BY <1>3, <2>1 DEF IfBehind
<1>8. Filled(data, offset, buf) \in Seq(Block)
  BY <1>3, <1>7, FilledIsTyped
<1> HIDE DEF ps
<1>9. ASSUME p \notin stale, p \notin ps PROVE Prefix(Filled(data, offset, buf), content)
  <2>1. Prefix(data, disk[p])
    BY <1>2, <1>9, CachedIsPrefix DEF Good
  <2> HIDE DEF data
  <2>2. \A k \in 1 .. offset : data[k] = content[k]
    BY <1>2, <1>3, <1>4, <1>7, <1>9, <2>1 DEF Prefix
  <2> QED
    BY <1>3, <1>4, <1>7, <1>9, <2>2, FilledIsPrefix
<1>10. list' \in Seq(Cached) /\ Good(list', disk', stale \cup ps)
  <2>1. /\ list' \in Seq(Cached)
        /\ \A q, c : q # p /\ Right(list, q, c) => Right(list', q, c)
        /\ \A before, c : Right(list, p, before) /\ Prefix(Filled(data, offset, buf), c)
                         => Right(list', p, c)
    BY <1>1, <1>2, <1>8, CacheWriteEntries
  <2> HIDE DEF data
  <2> QED
    BY <1>2, <1>6, <1>9, <2>1 DEF Good
<1>11. Good(list', disk', stale')
  BY <1>1, <1>10, SpoilsGood DEF ps
<1> QED
  BY <1>1, <1>6, <1>10, <1>11 DEF Inv, Files!Next

\* What is changed without the cache spoils the entry of that file only.
LEMMA SpoiledKeepsInv ==
    ASSUME Inv, NEW p \in Paths, NEW content \in Seq(Files!Blocks),
           disk' = [disk EXCEPT ![p] = content], list' = list, Spoils({p})
    PROVE  Inv'
<1>1. disk' \in Disks /\ \A q \in Paths \ {p} : disk'[q] = disk[q]
  BY DEF Inv, Disks
<1>2. list' \in Seq(Cached) /\ Good(list', disk', stale \cup {p})
  BY <1>1 DEF Inv, Good
<1>3. Good(list', disk', stale')
  BY <1>2, SpoilsGood
<1> QED
  BY <1>1, <1>2, <1>3 DEF Inv

LEMMA TruncateKeepsInv ==
    ASSUME Inv, Files!Alive, NEW p \in Paths, Truncate(p)
    PROVE  Inv' /\ Files!Next
<1>1. PICK size \in 0 .. MaxBlocks : Files!Truncate(p, size)
  BY DEF Truncate
<1>2. disk[p] \in Seq(Files!Blocks) /\ size \in Nat /\ Len(disk[p]) \in Nat
  BY ClientCacheAssumption, LenProperties DEF Inv, Disks
<1> DEFINE content == Files!Resized(disk[p], size)
<1>3. content \in Seq(Files!Blocks)
  <2>1. \A k \in 1 .. size : content[k] \in Files!Blocks
    BY <1>2, ElementOfSeq DEF Files!Resized, Files!Blocks
  <2>2. content \in [1 .. size -> Files!Blocks]
    BY <2>1 DEF Files!Resized
  <2> HIDE DEF content
  <2> QED
    BY <1>2, <2>2
<1>4. disk' = [disk EXCEPT ![p] = content] /\ list' = list /\ Spoils({p})
  BY <1>1 DEF Truncate, Files!Truncate, Files!Changed
<1>5. Inv'
  BY <1>3, <1>4, SpoiledKeepsInv
<1> QED
  BY <1>1, <1>5 DEF Files!Next

LEMMA UnlinkKeepsInv ==
    ASSUME Inv, Files!Alive, NEW p \in Paths, Unlink(p)
    PROVE  Inv' /\ Files!Next
<1>1. Files!Unlink(p) /\ list' = list /\ Spoils({p})
  BY DEF Unlink
<1>2. disk' = [disk EXCEPT ![p] = <<>>] /\ <<>> \in Seq(Files!Blocks)
  BY <1>1, EmptySeq DEF Files!Unlink, Files!Changed
<1>3. Inv'
  BY <1>1, <1>2, SpoiledKeepsInv
<1> QED
  BY <1>1, <1>3 DEF Files!Next

\* The entry goes with the file, and is right if it was and the new path had none.
LEMMA RenameKeepsInv ==
    ASSUME Inv, Files!Alive, NEW p \in Paths, NEW q \in Paths \ {p}, Rename(p, q)
    PROVE  Inv' /\ Files!Next
<1> DEFINE i == Find(list, p)
           ps == IF Find(list, q) # 0 \/ p \in stale THEN {q} ELSE {}
<1>1. /\ Files!Rename(p, q) /\ Spoils(ps)
      /\ list' = IF i = 0 THEN list ELSE [list EXCEPT ![i].path = q]
      /\ disk' = [disk EXCEPT ![q] = disk[p], ![p] = <<>>]
  BY DEF Rename, Files!Rename, Files!Changed, Renamed
<1>2. /\ list \in Seq(Cached) /\ Good(list, disk, stale)
      /\ disk \in Disks /\ disk[p] \in Seq(Files!Blocks)
  BY DEF Inv, Disks
<1>3. /\ disk' \in Disks /\ disk'[q] = disk[p]
      /\ \A r \in Paths \ {p, q} : disk'[r] = disk[r]
  <2>1. <<>> \in Seq(Files!Blocks)
    BY EmptySeq
  <2> QED
    BY <1>1, <1>2, <2>1 DEF Disks
<1>4. q \notin ps => p \notin stale /\ \A k \in 1 .. Len(list) : list[k].path # q
  BY <1>2, FindsNothing
<1> HIDE DEF ps
<1>5. CASE i = 0
  <2>1. \A k \in 1 .. Len(list) : list[k].path # p
    BY <1>2, <1>5, FindsNothing
  <2>2. list' = list
    BY <1>1, <1>5
  <2>3. ASSUME NEW r \in Paths \ (stale \cup ps) PROVE Right(list', r, disk'[r])
    <3>1. CASE r \in {p, q}
      BY <1>4, <2>1, <2>2, <2>3, <3>1 DEF Right
    <3>2. CASE r \notin {p, q}
      BY <1>2, <1>3, <2>2, <2>3, <3>2 DEF Good
    <3> QED
      BY <3>1, <3>2
  <2>4. Good(list', disk', stale')
    BY <1>1, <1>2, <2>2, <2>3, SpoilsGood DEF Good
  <2> QED
    BY <1>1, <1>2, <1>3, <2>2, <2>4 DEF Inv, Files!Next
<1>6. CASE i # 0
  <2>1. i \in 1 .. Len(list) /\ list[i].path = p
    BY <1>2, <1>6, FindFinds
  <2> HIDE DEF i
  <2>2. list' = [list EXCEPT ![i] = [list[i] EXCEPT !.path = q]]
    BY <1>1, <1>6
  <2>3. [list[i] EXCEPT !.path = q] = [path |-> q, data |-> list[i].data]
        /\ [list[i] EXCEPT !.path = q] \in Cached
    <3>1. list[i] \in Cached
      BY <1>2, <2>1, ElementOfSeq
    <3> QED
      BY <3>1 DEF Cached
  <2>4. /\ list' \in Seq(Cached) /\ Len(list') = Len(list)
        /\ list'[i] = [path |-> q, data |-> list[i].data]
        /\ \A k \in 1 .. Len(list) : k # i => list'[k] = list[k]
    BY <1>2, <2>1, <2>2, <2>3, ExceptSeq
  <2>5. list'[i].path = q /\ list'[i].data = list[i].data
    BY <2>4
  <2>6. p \notin stale => /\ \A k \in 1 .. Len(list) : k # i => list[k].path # p
                          /\ Prefix(list[i].data, disk[p])
    BY <1>2, <2>1 DEF Good, Right
  <2>7. ASSUME NEW r \in Paths \ (stale \cup ps) PROVE Right(list', r, disk'[r])
    <3>1. CASE r = p
      <4>1. \A k \in 1 .. Len(list') : list'[k].path # p
        BY <2>4, <2>5, <2>6, <2>7, <3>1
      <4> QED
        BY <3>1, <4>1 DEF Right
    <3>2. CASE r = q
      <4>1. \A k \in 1 .. Len(list') : list'[k].path = q => k = i
        BY <1>4, <2>4, <2>7, <3>2
      <4>2. Prefix(list'[i].data, disk'[q])
        BY <1>3, <1>4, <2>5, <2>6, <2>7, <3>2
      <4> QED
        BY <3>2, <4>1, <4>2 DEF Right
    <3>3. CASE r \notin {p, q}
      <4>1. Right(list, r, disk[r]) /\ disk'[r] = disk[r]
        BY <1>2, <1>3, <2>7, <3>3 DEF Good
      <4>2. \A k \in 1 .. Len(list) : list'[k].path = r =>
                k # i /\ list'[k] = list[k] /\ list[k].path = r
        BY <2>4, <2>5, <3>3
      <4> QED
        BY <2>4, <4>1, <4>2 DEF Right
    <3> QED
      BY <3>1, <3>2, <3>3
  <2>8. Good(list', disk', stale')
    BY <1>1, <2>4, <2>7, SpoilsGood DEF Good
  <2> QED
    BY <1>1, <1>3, <2>4, <2>8 DEF Inv, Files!Next
<1> QED
  BY <1>5, <1>6

-----------------------------------------------------------------------------
(* The theorems.                                                            *)

LEMMA InitInv == Init => Inv
<1> SUFFICES ASSUME Init PROVE Inv
  OBVIOUS
<1>1. list = <<>> /\ list \in Seq(Cached) /\ Len(list) = 0
  BY EmptySeq DEF Init
<1>2. disk \in Disks
  <2>1. disk \in [Paths -> Files!Contents]
    BY DEF Init, Files!Init
  <2>2. Files!Contents \subseteq Seq(Files!Blocks)
    <3> SUFFICES ASSUME NEW n \in 0 .. MaxBlocks, NEW content \in [1 .. n -> Files!Blocks]
                 PROVE  content \in Seq(Files!Blocks)
      BY DEF Files!Contents
    <3>1. n \in Nat
      BY ClientCacheAssumption
    <3> QED
      BY <3>1
  <2> QED
    BY <2>1, <2>2 DEF Disks
<1> QED
  BY <1>1, <1>2 DEF Inv, Good, Right

LEMMA NextInv ==
    ASSUME Inv, [Next]_vars
    PROVE  Inv' /\ [Files!Next \/ \E p \in stale : Read(p)]_<<disk, answer>>
<1>1. ASSUME Files!Alive, NEW p \in Paths, Read(p)
      PROVE  Inv' /\ (Files!Next \/ \E q \in stale : Read(q))
  BY <1>1, ReadKeepsInv
<1>2. ASSUME Files!Alive, NEW p \in Paths, Write(p) PROVE Inv' /\ Files!Next
  BY <1>2, WriteKeepsInv
<1>3. ASSUME Files!Alive, NEW p \in Paths, Truncate(p) PROVE Inv' /\ Files!Next
  BY <1>3, TruncateKeepsInv
<1>4. ASSUME Files!Alive, NEW p \in Paths, Unlink(p) PROVE Inv' /\ Files!Next
  BY <1>4, UnlinkKeepsInv
<1>5. ASSUME Files!Alive, NEW p \in Paths, NEW q \in Paths \ {p}, Rename(p, q)
      PROVE  Inv' /\ Files!Next
  BY <1>5, RenameKeepsInv
<1>6. CASE UNCHANGED vars
  BY <1>6 DEF vars, Inv, Good, Right
<1> QED
  BY <1>1, <1>2, <1>3, <1>4, <1>5, <1>6 DEF Next, vars

\* The invariant holds in every behaviour of the client with its cache.
THEOREM Inductive == Spec => []Inv
<1>1. Inv /\ [Next]_vars => Inv'
  BY NextInv
<1> QED
  BY <1>1, InitInv, PTL DEF Spec

\* What the list has of a file that is not stale is the beginning of the file, in
\* one entry.
THEOREM CacheHasWhatTheFilesHave == Spec => []CachedBlocksAreTheFiles
<1>1. Inv => CachedBlocksAreTheFiles
  <2> SUFFICES ASSUME Inv, NEW k \in 1 .. Len(list), list[k].path \notin stale
               PROVE  /\ \A j \in 1 .. Len(list) : list[j].path = list[k].path => j = k
                      /\ Prefix(list[k].data, disk[list[k].path])
    BY DEF CachedBlocksAreTheFiles, Prefix
  <2>1. list[k] \in Cached
    BY ElementOfSeq DEF Inv
  <2>2. list[k].path \in Paths
    BY <2>1 DEF Cached
  <2> QED
    BY <2>2 DEF Inv, Good, Right
<1> QED
  BY <1>1, Inductive, PTL

\* But for the reads of stale files the client with the cache does what the client
\* without one does.
THEOREM OnlyStaleFilesAreServedWrong == Spec => ServesAllButStaleFiles
<1>1. Inv /\ [Next]_vars => [Files!Next \/ \E p \in stale : Read(p)]_<<disk, answer>>
  BY NextInv
<1> QED
  BY <1>1, Inductive, PTL DEF Spec, ServesAllButStaleFiles

=============================================================================
