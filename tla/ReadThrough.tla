------------------------------ MODULE ReadThrough ------------------------------
(***************************************************************************)
(* What the cache promises (README.md:158): whether an answer comes from   *)
(* the cache or from the server makes no difference, because every change  *)
(* on the server is made in the cache as well.  So there is no cache here: *)
(* every read is answered from the files, and handed over as client_read   *)
(* does.                                                                   *)
(*                                                                         *)
(* A file is a sequence of blocks (pages); one that is not there is empty. *)
(***************************************************************************)
EXTENDS Sequences, Integers

CONSTANTS
    Paths,
    Data,       \* contents of a block without a NUL byte
    Zeros,      \* a block of a file that was never written
    Unset,      \* a block of memory that nothing was copied to
    MaxBlocks   \* bound: blocks of a file

VARIABLES
    file,    \* path -> its blocks
    reply    \* what the last operation gave the kernel

Blocks == Data \cup {Zeros}
Contents == UNION {[1 .. n -> Blocks] : n \in 0 .. MaxBlocks}
Buffers == UNION {[1 .. n -> Data] : n \in 1 .. MaxBlocks}

NoReply == [path |-> "none", blocks |-> <<>>]
Crashed == [path |-> "crashed", blocks |-> <<>>]
Alive == reply # Crashed

\* strcpy() stops at the first NUL byte; a block of unset memory may have one.
Ends(blocks) ==
    {n \in 1 .. Len(blocks) + 1 :
        /\ n <= Len(blocks) => blocks[n] \in {Zeros, Unset}
        /\ \A k \in 1 .. n - 1 : blocks[k] # Zeros}

CopiedTo(n, blocks) == [k \in 1 .. Len(blocks) |-> IF k < n THEN blocks[k] ELSE Unset]

\* client_read hands over what strcpy() copies.  Without a NUL byte it goes on
\* behind the buffers, which the client may not survive.
HandOver(p, blocks) ==
    \E n \in Ends(blocks) :
        \/ reply' = [path |-> p, blocks |-> CopiedTo(n, blocks)]
        \/ n > Len(blocks) /\ reply' = Crashed

\* pwrite(): a gap between the end of the file and the offset reads as zeros.
Patched(old, offset, buf) ==
    [k \in 1 .. (IF offset + Len(buf) > Len(old) THEN offset + Len(buf) ELSE Len(old)) |->
        IF k \in offset + 1 .. offset + Len(buf) THEN buf[k - offset]
        ELSE IF k <= Len(old) THEN old[k] ELSE Zeros]

Resized(old, size) == [k \in 1 .. size |-> IF k <= Len(old) THEN old[k] ELSE Zeros]

Init == file \in [Paths -> Contents] /\ reply = NoReply

Read(p, offset, size) ==
    /\ HandOver(p, SubSeq(file[p], offset + 1, offset + size))
    /\ UNCHANGED file

Changed(contents) == file' = contents /\ reply' = NoReply

Write(p, offset, buf) == Changed([file EXCEPT ![p] = Patched(@, offset, buf)])

Truncate(p, size) == Changed([file EXCEPT ![p] = Resized(@, size)])

Unlink(p) == Changed([file EXCEPT ![p] = <<>>])

Rename(p, q) == Changed([file EXCEPT ![q] = file[p], ![p] = <<>>])

Next ==
    /\ Alive
    /\ \E p \in Paths :
          \/ \E offset \in 0 .. MaxBlocks - 1 :
                \/ \E size \in 1 .. Len(file[p]) - offset : Read(p, offset, size)
                \/ \E buf \in Buffers : offset + Len(buf) <= MaxBlocks /\ Write(p, offset, buf)
          \/ \E size \in 0 .. MaxBlocks : Truncate(p, size)
          \/ Unlink(p)
          \/ \E q \in Paths \ {p} : Rename(p, q)

Spec == Init /\ [][Next]_<<file, reply>>

=============================================================================
