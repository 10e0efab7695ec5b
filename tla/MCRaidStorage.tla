---------------------------- MODULE MCRaidStorage ----------------------------
(* Instances of RaidStorage.                                                  *)
EXTENDS RaidStorage, TLC

\* Where the files are.
InRoot == [p \in Paths |-> Root]
OneInDirectory == [p \in Paths |-> IF p = CHOOSE q \in Paths : TRUE THEN CHOOSE d \in Dirs : TRUE ELSE Root]

\* A fragment that is a content stands for a write of the whole file.
Whole == [w \in Data \X Fragments |-> w[2]]

\* Files of two blocks, of which a write fills one: a content is Empty, the one that
\* a fragment makes of Empty, or the one with both blocks.
Both == CHOOSE c \in Data : c \notin Fragments \cup {Empty}
Halves == [w \in Data \X Fragments |-> IF w[1] \in {Empty, w[2]} THEN w[2] ELSE Both]

\* Without the history of the safety properties, and without the results of
\* operations, which no guard reads (those of read, write and rename are used in
\* Finish, and this view is not for runs with them).
SlotsView ==
    <<servers, hotswap, threads, fuse, fds, fd_counter, cache,
      [call EXCEPT !.quiet = TRUE, !.retval = OK, !.entries = {}],
      msgs, repair, opened, worldVars>>

\* Bound: a failure and a damage of servers with files, or two failures of servers
\* with directories.
FaultsBounded ==
    \/ faults.failure < 2 /\ \A n \in Names : server[n].dirs = {}
    \/ faults.damage = 0 /\ \A n \in Names, p \in Paths : ~Exists(server[n], p)

Symmetry == Permutations(Threads) \cup Permutations(Names) \cup Permutations(Fragments)

=============================================================================
