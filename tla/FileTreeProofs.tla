--------------------------- MODULE FileTreeProofs ---------------------------
(***************************************************************************)
(* Proofs about FileTree, for every disk, every number of processes, all    *)
(* paths and every number of calls.                                         *)
(***************************************************************************)
EXTENDS FileTree, TLAPS, WellFoundedInduction, SequenceTheorems, FiniteSetTheorems

-----------------------------------------------------------------------------
(* The inductive invariant, part by part.  F is the tree and C the files    *)
(* whose inode was taken away.                                              *)

PathRecord == [abs : BOOLEAN, comps : Seq(STRING), slash : BOOLEAN]
Ops == {"none", "open", "get", "set", "read", "readfile"}
Thens == {"none", "last", "down", "opened", "entry", "dirhandle", "filehandle", "browse"}
Backs == {"none", "content", "mode", "cache"}
CallRecord ==
    [pc : Pcs, op : Ops, path : PathRecord, start : Nat, rest : Seq(STRING), dir : Nat,
     i : Nat \ {0}, new : Nat, seen : Nat, count : Nat, f : Nat, then : Thens, back : Backs]
StringRecord == [wrote : PathRecord, now : PathRecord, refused : BOOLEAN]
HandleRecord == [handle : Nat, dir : Nat, cursor : Nat, listed : Seq(Names), whole : BOOLEAN]
FileRecord == [inum : Inodes, name : Names, inode : BOOLEAN, opened : BOOLEAN,
               leaf : Nat, next : Nat, parent : Nat]

PointersOf(F) == 1..Len(F)

\* The tree is what the disk says.
TreeIn(F) ==
    /\ F \in Seq(FileRecord) /\ Root \in PointersOf(F)
    /\ \A f \in PointersOf(F) :
          /\ F[f].parent \in PointersOf(F)
          /\ F[f].leaf \in {NULL} \cup PointersOf(F)
          /\ F[f].next \in {NULL} \cup PointersOf(F)
          /\ f # Root => [name |-> F[f].name, inum |-> F[f].inum]
                            \in DiskEntries(F[F[f].parent].inum)
          /\ F[f].leaf # NULL => F[F[f].leaf].parent = f /\ F[f].leaf # Root
          /\ F[f].next # NULL => F[F[f].next].parent = F[f].parent /\ F[f].next # Root

HasDir == {"walk", "cache", "size", "wild", "browse", "next", "leaf", "create", "store"}
Working == {"open", "isdir", "clear", "inode", "content", "mode"}

\* The call is on the way down, into a directory that it browses.
Down(c) == \/ c.pc \in {"cache", "size", "wild", "browse", "next", "leaf"}
           \/ c.pc \in Working /\ c.then \in {"none", "down", "browse"}

IsThere(F, C, f) == F[f].inode \/ f \in C
IsDirIn(F, C, f) == IsDir(F[f].inum) \/ f \in C

\* What a call works on is in the tree, and what it found there is there still.
CallIn(F, C, c) ==
    /\ c \in CallRecord
    /\ c.pc \in HasDir => c.dir \in PointersOf(F)
    /\ c.pc \in Working => c.f \in PointersOf(F) /\ (Down(c) => c.f = c.dir)
    /\ c.pc \in {"next", "leaf"} =>
          c.new \in PointersOf(F) /\ F[c.new].parent = c.dir /\ c.new # Root
    /\ c.pc \in Working /\ c.then \in {"entry", "filehandle"} => c.op = "read"
    /\ c.pc \in {"walk", "cache"} => c.then \in {"none", "down"}
    /\ c.pc = "walk" => c.back = "none" /\ c.op = "open"
    /\ c.pc \in Working /\ c.back = "cache" => c.then \in {"none", "down", "browse"}
    /\ c.pc \in {"clear", "inode"} => c.back # "none"
    /\ c.pc \in Working /\ c.then = "none" => c.pc \in {"clear", "inode"} /\ c.back = "cache"
    /\ c.pc = "mode" => IsThere(F, C, c.f)
    /\ c.pc = "size" => IsThere(F, C, c.dir)
    /\ c.pc = "wild" => c.dir \in C
    /\ c.pc \in {"create", "store"} /\ c.op # "readfile" => IsDirIn(F, C, c.dir)
    /\ c.pc = "user" => c.op = "none"

\* a is b, cut behind one of its components.
IsCut(a, b) ==
    /\ a.abs = b.abs
    /\ Len(a.comps) <= Len(b.comps)
    /\ a.comps = SubSeq(b.comps, 1, Len(a.comps))

\* The string of a program is what it wrote, or an answer was -1; during the
\* walk it is cut behind the directory that is browsed.
StringIn(c, s) ==
    /\ s \in StringRecord
    /\ IsCut(s.now, s.wrote)
    /\ c.op # "open" => s.now = s.wrote \/ s.refused
    /\ c.op = "open" =>
          /\ c.path = s.wrote \/ s.refused
          /\ IsCut(c.path, s.wrote)
          /\ Len(c.rest) <= Len(c.path.comps)
          /\ ~Down(c) => s.now = c.path
          /\ Down(c) => IsCut(s.now, c.path) /\ c.rest # <<>>

HandlesIn(F, C, L) ==
    \A i \in DOMAIN L :
        /\ L[i].dir \in PointersOf(F) /\ L[i].cursor \in {NULL} \cup PointersOf(F)
        /\ IsDirIn(F, C, L[i].dir)

\* Unless an increment was lost the handles that were given are below the next.
OldHandles(n, L) ==
    /\ \A i \in DOMAIN L : L[i].handle < n
    /\ \A i, j \in DOMAIN L : L[i].handle = L[j].handle => i = j

Typed ==
    /\ s_HandleCount \in Nat
    /\ currentDirectory \in [Procs -> Nat]
    /\ dirHandleList \in [Procs -> Seq(HandleRecord)]
    /\ call \in [Procs -> CallRecord]
    /\ string \in [Procs -> StringRecord]
    /\ calls \in [Procs -> [Kinds -> Nat]]
    /\ \A p \in Procs : \A k \in Kinds : calls[p][k] <= MaxCalls[p][k]
    /\ browsed \subseteq Pointers /\ raced \subseteq Pointers
    /\ torn \in BOOLEAN

CallsAreSound == \A p \in Procs : CallIn(file, cleared, call[p])
StringsAreSound == \A p \in Procs : StringIn(call[p], string[p])
DirectoriesAreThere ==
    \A p \in Procs : /\ currentDirectory[p] \in Pointers
                     /\ HandlesIn(file, cleared, dirHandleList[p])
HandlesAreOld ==
    ~torn => \A p \in Procs : /\ OldHandles(s_HandleCount, dirHandleList[p])
                              /\ call[p].pc = "store" => call[p].count <= s_HandleCount

IInv ==
    /\ Typed
    /\ TreeIn(file)
    /\ CallsAreSound
    /\ StringsAreSound
    /\ DirectoriesAreThere
    /\ HandlesAreOld

-----------------------------------------------------------------------------
(* Look-ups.                                                               *)

LEMMA LeastExists ==
    ASSUME NEW S \in SUBSET Nat, S # {}
    PROVE  \E f \in S : \A g \in S : f <= g
  <1> DEFINE R == OpToRel(<, Nat)
  <1>1. IsWellFoundedOn(R, Nat)
    BY NatLessThanWellFounded
  <1>2. \A x, y \in Nat : x < y => <<x, y>> \in R
    BY DEF OpToRel
  <1> HIDE DEF R
  <1>3. PICK f \in S : \A g \in S : ~(<<g, f>> \in R)
    BY <1>1, WFMin
  <1>4. \A g \in S : g \in Nat /\ f \in Nat
    OBVIOUS
  <1>5. \A g \in S : ~(g < f)
    BY <1>2, <1>3, <1>4
  <1> QED
    BY <1>4, <1>5

\* A set of numbers that has 0 and with each number below N the next one.
LEMMA UpTo ==
    ASSUME NEW N \in Nat, NEW T \in SUBSET Nat, 0 \in T,
           \A n \in T : n < N => n + 1 \in T
    PROVE  0..N \subseteq T
  <1> DEFINE S == {n \in 0..N : n \notin T}
  <1>1. CASE S = {}
    BY <1>1
  <1>2. CASE S # {}
    <2>1. S \subseteq Nat
      OBVIOUS
    <2>2. PICK n \in S : \A k \in S : n <= k
      BY <1>2, <2>1, LeastExists
    <2>3. n \in Nat /\ n # 0 /\ n <= N /\ n \notin T
      BY <2>2
    <2>4. n - 1 \in Nat /\ n - 1 < N /\ n - 1 \in T
      BY <2>2, <2>3
    <2>5. (n - 1) + 1 = n
      BY <2>3
    <2> QED
      BY <2>3, <2>4, <2>5
  <1> QED
    BY <1>1, <1>2

\* The rows of Chain: what a function of them must be.
RowsOf(N, next, from) ==
    from = [n \in 0..N |->
              [f \in 0..N |-> IF n = 0 \/ f = NULL THEN <<>> ELSE <<f>> \o from[n - 1][next[f]]]]

LEMMA RowsHold ==
    ASSUME NEW N \in Nat, NEW next \in [1..N -> 0..N], NEW from, RowsOf(N, next, from)
    PROVE  \A n, f \in 0..N : from[n][f] \in Seq(1..N)
  <1> DEFINE T == {n \in 0..N : \A f \in 0..N : from[n][f] \in Seq(1..N)}
  <1>1. \A n, f \in 0..N :
           from[n][f] = IF n = 0 \/ f = NULL THEN <<>> ELSE <<f>> \o from[n - 1][next[f]]
    <2> DEFINE g == [n \in 0..N |-> [f \in 0..N |->
                      IF n = 0 \/ f = NULL THEN <<>> ELSE <<f>> \o from[n - 1][next[f]]]]
    <2>1. from = g
      BY DEF RowsOf
    <2>2. \A n, f \in 0..N :
             g[n][f] = IF n = 0 \/ f = NULL THEN <<>> ELSE <<f>> \o from[n - 1][next[f]]
      OBVIOUS
    <2> HIDE DEF g
    <2> QED
      BY <2>1, <2>2
  <1>2. 0 \in T
    <2>1. 0 \in 0..N /\ <<>> \in Seq(1..N)
      OBVIOUS
    <2>2. \A f \in 0..N : from[0][f] = <<>>
      BY <1>1, <2>1
    <2> QED
      BY <2>1, <2>2
  <1>3. ASSUME NEW n \in T, n < N
        PROVE  n + 1 \in T
    <2>1. n + 1 \in 0..N /\ n + 1 # 0 /\ (n + 1) - 1 = n /\ n \in 0..N
      BY <1>3
    <2>2. ASSUME NEW f \in 0..N
          PROVE  from[n + 1][f] \in Seq(1..N)
      <3>1. CASE f = NULL
        BY <1>1, <2>1, <3>1
      <3>2. CASE f # NULL
        <4>1. f \in 1..N /\ next[f] \in 0..N
          BY <3>2 DEF NULL
        <4>2. from[n][next[f]] \in Seq(1..N)
          BY <4>1
        <4>3. from[n + 1][f] = <<f>> \o from[n][next[f]]
          BY <1>1, <2>1, <3>2
        <4>4. <<f>> \in Seq(1..N)
          BY <4>1
        <4> HIDE DEF T
        <4> QED
          BY <4>2, <4>3, <4>4
      <3> QED
        BY <3>1, <3>2
    <2> QED
      BY <2>1, <2>2
  <1> HIDE DEF T
  <1>4. 0..N \subseteq T
    <2>1. T \subseteq Nat
      BY DEF T
    <2> QED
      BY <1>2, <1>3, <2>1, UpTo
  <1> QED
    BY <1>4 DEF T

LEMMA RowsExist ==
    ASSUME NEW N \in Nat, NEW next \in [1..N -> 0..N]
    PROVE  \E from : RowsOf(N, next, from)
  <1> DEFINE row(n, before) ==
               [f \in 0..N |-> IF n = 0 \/ f = NULL THEN <<>> ELSE <<f>> \o before[next[f]]]
             IsUpTo(m, g) == \A n \in 0..m : g[n] = row(n, g[n - 1])
             T == {m \in 0..N : \E g : IsUpTo(m, g)}
  <1>1. 0 \in T
    <2> DEFINE g == [n \in 0..N |-> [f \in 0..N |-> <<>>]]
    <2>1. IsUpTo(0, g)
      OBVIOUS
    <2>2. 0 \in 0..N
      OBVIOUS
    <2> HIDE DEF IsUpTo, g
    <2> QED
      BY <2>1, <2>2
  <1>2. ASSUME NEW m \in T, m < N
        PROVE  m + 1 \in T
    <2>1. PICK g : IsUpTo(m, g)
      OBVIOUS
    <2> DEFINE h == [n \in 0..(m + 1) |-> IF n = m + 1 THEN row(m + 1, g[m]) ELSE g[n]]
    <2>2. m \in Nat /\ m + 1 \in 0..N
      BY <1>2
    <2> HIDE DEF row
    <2>3. h[m + 1] = row(m + 1, g[m]) /\ \A n \in 0..m : h[n] = g[n]
      BY <2>2
    <2>4. ASSUME NEW n \in 0..(m + 1)
          PROVE  h[n] = row(n, h[n - 1])
      <3>1. CASE n = m + 1
        <4>1. n - 1 = m /\ m \in 0..m
          BY <3>1, <2>2
        <4> QED
          BY <3>1, <4>1, <2>3
      <3>2. CASE n \in 0..m /\ n # 0
        <4>1. n - 1 \in 0..m
          BY <3>2, <2>2
        <4> HIDE DEF h
        <4> QED
          BY <3>2, <4>1, <2>1, <2>3
      <3>3. CASE n = 0
        <4>1. 0 \in 0..m
          BY <2>2
        <4>2. \A x, y : row(0, x) = row(0, y)
          BY DEF row
        <4> HIDE DEF h
        <4> QED
          BY <3>3, <4>1, <4>2, <2>1, <2>3
      <3> QED
        BY <3>1, <3>2, <3>3, <2>2
    <2> HIDE DEF h
    <2>5. IsUpTo(m + 1, h)
      BY <2>4
    <2> HIDE DEF IsUpTo
    <2> QED
      BY <2>2, <2>5
  <1> HIDE DEF row, IsUpTo
  <1>3. 0..N \subseteq T
    <2>1. T \subseteq Nat
      OBVIOUS
    <2> HIDE DEF T
    <2> QED
      BY <1>1, <1>2, <2>1, UpTo
  <1>4. PICK g : IsUpTo(N, g)
    BY <1>3
  <1> DEFINE from == [n \in 0..N |-> g[n]]
  <1>5. ASSUME NEW n \in 0..N
        PROVE  from[n] = row(n, from[n - 1])
    <2>1. CASE n = 0
      <3>1. \A x, y : row(0, x) = row(0, y)
        BY DEF row
      <3>2. from[0] = g[0] /\ g[0] = row(0, g[0 - 1])
        BY <1>4, <2>1 DEF IsUpTo
      <3> HIDE DEF from
      <3> QED
        BY <2>1, <3>1, <3>2
    <2>2. CASE n # 0
      <3>1. n - 1 \in 0..N
        BY <2>2
      <3> QED
        BY <3>1, <1>4 DEF IsUpTo
    <2> QED
      BY <2>1, <2>2
  <1>6. from = [n \in 0..N |-> row(n, from[n - 1])]
    BY <1>5
  <1> HIDE DEF from
  <1>7. RowsOf(N, next, from)
    BY <1>6 DEF RowsOf, row
  <1> QED
    BY <1>7

LEMMA TreeTyped ==
    ASSUME NEW F, TreeIn(F)
    PROVE  /\ Len(F) \in Nat /\ F \in [1..Len(F) -> FileRecord] /\ F \in Seq(FileRecord)
           /\ \A f \in 1..Len(F) : /\ F[f].next \in 0..Len(F) /\ F[f].leaf \in 0..Len(F)
                                   /\ F[f].parent \in 1..Len(F)
                                   /\ F[f].inum \in Inodes /\ F[f].name \in Names
                                   /\ F[f].inode \in BOOLEAN /\ F[f].opened \in BOOLEAN
  <1>1. Len(F) \in Nat /\ F \in [1..Len(F) -> FileRecord] /\ F \in Seq(FileRecord)
    BY DEF TreeIn
  <1>2. \A f \in 1..Len(F) : /\ F[f].next \in 0..Len(F) /\ F[f].leaf \in 0..Len(F)
                             /\ F[f].parent \in 1..Len(F)
    <2>1. \A f \in PointersOf(F) : /\ F[f].parent \in PointersOf(F)
                                   /\ F[f].leaf \in {NULL} \cup PointersOf(F)
                                   /\ F[f].next \in {NULL} \cup PointersOf(F)
      BY DEF TreeIn
    <2> QED
      BY <1>1, <2>1 DEF PointersOf, NULL
  <1>3. \A f \in 1..Len(F) : /\ F[f].inum \in Inodes /\ F[f].name \in Names
                             /\ F[f].inode \in BOOLEAN /\ F[f].opened \in BOOLEAN
    BY <1>1 DEF FileRecord
  <1> QED
    BY <1>1, <1>2, <1>3

LEMMA ChainHolds ==
    ASSUME TreeIn(file), NEW dir \in Pointers
    PROVE  Chain(dir) \in Seq(Pointers)
  <1> DEFINE N == Len(file)
             next == [f \in 1..N |-> file[f].next]
             rows(g) == [n \in 0..N |-> [f \in 0..N |->
                            IF n = 0 \/ f = NULL THEN <<>> ELSE <<f>> \o g[n - 1][file[f].next]]]
             from == CHOOSE g : g = rows(g)
  <1>1. N \in Nat /\ next \in [1..N -> 0..N] /\ file[dir].leaf \in 0..N /\ N \in 0..N
    BY TreeTyped DEF Pointers
  <1>2. \A g : g = rows(g) <=> RowsOf(N, next, g)
    <2>1. \A f \in 0..N : f # NULL => next[f] = file[f].next
      BY DEF NULL
    <2>2. \A g : rows(g) = [n \in 0..N |-> [f \in 0..N |->
                               IF n = 0 \/ f = NULL THEN <<>> ELSE <<f>> \o g[n - 1][next[f]]]]
      BY <2>1
    <2> HIDE DEF rows
    <2> QED
      BY <2>2 DEF RowsOf
  <1>3. Chain(dir) = from[N][file[dir].leaf]
    BY DEF Chain
  <1> HIDE DEF N, next, rows
  <1>4. PICK g : RowsOf(N, next, g)
    BY <1>1, RowsExist
  <1>5. from = rows(from)
    BY <1>2, <1>4
  <1> HIDE DEF from
  <1>6. from[N][file[dir].leaf] \in Seq(1..N)
    BY <1>1, <1>2, <1>5, RowsHold
  <1> QED
    BY <1>3, <1>6 DEF Pointers, N

LEMMA IsCachedHolds ==
    ASSUME TreeIn(file), NEW dir \in Pointers, NEW name
    PROVE  /\ IsCached(dir, name) \in {NULL} \cup Pointers
           /\ IsCached(dir, name) # NULL => file[IsCached(dir, name)].name = name
  <1> DEFINE chain == Chain(dir)
             at == {i \in DOMAIN chain : file[chain[i]].name = name}
             first == CHOOSE i \in at : \A j \in at : i <= j
  <1>1. chain \in Seq(Pointers)
    BY ChainHolds
  <1> HIDE DEF chain
  <1>2. IsCached(dir, name) = IF at = {} THEN NULL ELSE chain[first]
    BY DEF IsCached, chain
  <1>3. CASE at = {}
    BY <1>2, <1>3
  <1>4. CASE at # {}
    <2>1. at \subseteq Nat
      BY <1>1
    <2>2. \E i \in at : \A j \in at : i <= j
      BY <1>4, <2>1, LeastExists
    <2>3. first \in at
      BY <2>2
    <2> HIDE DEF first
    <2> QED
      BY <1>1, <1>2, <1>4, <2>3
  <1> QED
    BY <1>3, <1>4

-----------------------------------------------------------------------------
(* What the updates of a call make of it.                                   *)

\* d is at the same work as c, for the same program.
SameWork(d, c) ==
    /\ d.op = c.op /\ d.path = c.path /\ d.start = c.start /\ d.rest = c.rest
    /\ d.dir = c.dir /\ d.new = c.new

LEMMA OpensHolds ==
    ASSUME NEW c \in CallRecord, NEW f \in Nat, NEW then \in Thens
    PROVE  LET d == Opens(c, f, then)
           IN  /\ d \in CallRecord /\ SameWork(d, c)
               /\ d.pc = "open" /\ d.f = f /\ d.then = then /\ d.back = c.back
  BY Zenon DEF Opens, CallRecord, SameWork, Pcs

LEMMA AsksHolds ==
    ASSUME NEW c \in CallRecord, NEW f \in Nat, NEW then \in Thens
    PROVE  LET d == Asks(c, f, then)
           IN  /\ d \in CallRecord /\ SameWork(d, c)
               /\ d.pc = "isdir" /\ d.f = f /\ d.then = then /\ d.back = c.back
  BY Zenon DEF Asks, CallRecord, SameWork, Pcs

LEMMA ReadsHolds ==
    ASSUME NEW c \in CallRecord, NEW back \in Backs
    PROVE  LET d == Reads(c, back)
           IN  /\ d \in CallRecord /\ SameWork(d, c)
               /\ d.pc = "clear" /\ d.f = c.f /\ d.then = c.then /\ d.back = back
  BY Zenon DEF Reads, CallRecord, SameWork, Pcs

LEMMA NoCallHolds ==
  /\ NoCall \in CallRecord /\ NoCall.pc = "user" /\ NoCall.op = "none" /\ NoCall.back = "none"
  /\ NoCall.then = "none"
  <1>1. NULL \in Nat /\ 1 \in Nat \ {0} /\ 0 \in Nat
    BY DEF NULL
  <1>2. NoPath \in PathRecord
    BY DEF NoPath, PathRecord
  <1>3. <<>> \in Seq(STRING)
    OBVIOUS
  <1> HIDE DEF NULL
  <1> QED
    BY <1>1, <1>2, <1>3, Zenon DEF NoCall, CallRecord, Pcs, Ops, Thens, Backs

LEMMA CreatesHolds ==
    ASSUME NEW c \in CallRecord, NEW op \in Ops
    PROVE  LET d == Creates(c, op)
           IN  /\ d \in CallRecord /\ d.path = c.path /\ d.rest = c.rest /\ d.start = c.start
               /\ d.pc = "create" /\ d.op = op /\ d.dir = c.f
  <1>1. NULL \in Nat /\ 1 \in Nat \ {0} /\ c.f \in Nat
    BY DEF NULL, CallRecord
  <1>2. "create" \in Pcs /\ "none" \in Thens /\ "none" \in Backs
    BY DEF Pcs, Thens, Backs
  <1> QED
    BY <1>1, <1>2, Zenon DEF Creates, CallRecord

LEMMA GoesOnHolds ==
    ASSUME NEW c \in CallRecord, NEW pc \in Pcs
    PROVE  LET d == [c EXCEPT !.pc = pc]
           IN  /\ d \in CallRecord /\ SameWork(d, c)
               /\ d.pc = pc /\ d.f = c.f /\ d.then = c.then /\ d.back = c.back
               /\ d.i = c.i /\ d.seen = c.seen
  BY Zenon DEF CallRecord, SameWork

\* Browsing is over: the walk goes on.
LEMMA WalksOnHolds ==
    ASSUME NEW c \in CallRecord, c.rest # <<>>
    PROVE  LET d == [c EXCEPT !.pc = "walk", !.rest = Tail(@), !.i = 1, !.f = NULL,
                              !.then = "none", !.back = "none"]
           IN  /\ d \in CallRecord /\ d.op = c.op /\ d.path = c.path /\ d.dir = c.dir
               /\ d.pc = "walk" /\ d.rest = Tail(c.rest) /\ d.then = "none" /\ d.back = "none"
  <1>1. NULL \in Nat /\ 1 \in Nat \ {0}
    BY DEF NULL
  <1>2. "walk" \in Pcs /\ "none" \in Thens /\ "none" \in Backs
    BY DEF Pcs, Thens, Backs
  <1>3. c.rest \in Seq(STRING)
    BY Zenon DEF CallRecord
  <1>4. Tail(c.rest) \in Seq(STRING)
    BY <1>3, HeadTailProperties
  <1> QED
    BY <1>1, <1>2, <1>4, Zenon DEF CallRecord

\* Another turn of the loop over the entries.
LEMMA NextEntryHolds ==
    ASSUME NEW c \in CallRecord
    PROVE  LET d == [c EXCEPT !.i = @ + 1]
               e == [c EXCEPT !.pc = "browse", !.i = @ + 1, !.new = NULL, !.seen = NULL]
           IN  /\ d \in CallRecord /\ SameWork(d, c)
               /\ d.pc = c.pc /\ d.f = c.f /\ d.then = c.then /\ d.back = c.back
               /\ d.i = c.i + 1
               /\ e \in CallRecord /\ e.op = c.op /\ e.path = c.path /\ e.rest = c.rest
               /\ e.start = c.start /\ e.dir = c.dir /\ e.pc = "browse" /\ e.i = c.i + 1
  <1>1. NULL \in Nat /\ "browse" \in Pcs
    BY DEF NULL, Pcs
  <1>2. c.i \in Nat \ {0}
    BY DEF CallRecord
  <1>3. c.i + 1 \in Nat \ {0}
    BY <1>2
  <1> QED
    BY <1>1, <1>3, Zenon DEF CallRecord, SameWork

\* A new file is to be hung into the directory.
LEMMA NewFileHolds ==
    ASSUME NEW c \in CallRecord, NEW new \in Nat, NEW seen \in Nat
    PROVE  LET d == [c EXCEPT !.pc = "next", !.new = new, !.seen = seen]
           IN  /\ d \in CallRecord /\ d.op = c.op /\ d.path = c.path /\ d.rest = c.rest
               /\ d.dir = c.dir /\ d.pc = "next" /\ d.new = new
  <1>1. "next" \in Pcs
    BY DEF Pcs
  <1> QED
    BY <1>1, Zenon DEF CallRecord

LEMMA NewFileSeen ==
    ASSUME NEW c \in CallRecord, NEW new \in Nat, NEW seen \in Nat
    PROVE  LET d == [c EXCEPT !.pc = "next", !.new = new, !.seen = seen]
           IN  d.start = c.start /\ d.i = c.i /\ d.seen = seen
  BY Zenon DEF CallRecord

LEMMA SizeHolds ==
    ASSUME NEW c \in CallRecord, NEW pc \in Pcs
    PROVE  LET d == [c EXCEPT !.pc = pc, !.i = 1, !.f = NULL, !.then = "none", !.back = "none"]
           IN  d \in CallRecord /\ SameWork(d, c) /\ d.pc = pc /\ d.i = 1
  <1>1. NULL \in Nat /\ 1 \in Nat \ {0}
    BY DEF NULL
  <1>2. "none" \in Thens /\ "none" \in Backs
    BY DEF Thens, Backs
  <1> QED
    BY <1>1, <1>2, Zenon DEF CallRecord, SameWork

\* The walk goes behind a component.
LEMMA TurnHolds ==
    ASSUME NEW c \in CallRecord, NEW dir \in Nat, c.rest # <<>>
    PROVE  LET d == [c EXCEPT !.rest = Tail(@), !.dir = dir]
           IN  /\ d \in CallRecord /\ d.op = c.op /\ d.path = c.path /\ d.pc = c.pc
               /\ d.rest = Tail(c.rest) /\ d.dir = dir /\ d.then = c.then /\ d.back = c.back
  <1>1. c.rest \in Seq(STRING)
    BY Zenon DEF CallRecord
  <1>2. Tail(c.rest) \in Seq(STRING)
    BY <1>1, HeadTailProperties
  <1> QED
    BY <1>2, Zenon DEF CallRecord

LEMMA DownToHolds ==
    ASSUME NEW c \in CallRecord, NEW dir \in Nat
    PROVE  LET d == [c EXCEPT !.dir = dir]
           IN  /\ d \in CallRecord /\ d.op = c.op /\ d.path = c.path /\ d.pc = c.pc
               /\ d.rest = c.rest /\ d.dir = dir /\ d.then = c.then /\ d.back = c.back
  BY Zenon DEF CallRecord

LEMMA WorksOnHolds ==
    ASSUME NEW c \in CallRecord, NEW f \in Nat
    PROVE  LET d == [c EXCEPT !.f = f]
           IN  /\ d \in CallRecord /\ SameWork(d, c) /\ d.pc = c.pc
               /\ d.f = f /\ d.then = c.then /\ d.back = c.back
  BY Zenon DEF CallRecord, SameWork

LEMMA StoresHolds ==
    ASSUME NEW c \in CallRecord, NEW count \in Nat
    PROVE  LET d == [c EXCEPT !.pc = "store", !.count = count]
           IN  d \in CallRecord /\ SameWork(d, c) /\ d.pc = "store" /\ d.count = count
  <1>1. "store" \in Pcs
    BY DEF Pcs
  <1> QED
    BY <1>1, Zenon DEF CallRecord, SameWork

\* ReadInode goes on with what it was called for.
LEMMA GoesBackHolds ==
    ASSUME NEW c \in CallRecord, NEW pc \in Pcs
    PROVE  LET d == [c EXCEPT !.pc = pc, !.back = "none"]
           IN  /\ d \in CallRecord /\ SameWork(d, c)
               /\ d.pc = pc /\ d.f = c.f /\ d.then = c.then /\ d.back = "none"
  <1>1. "none" \in Backs
    BY DEF Backs
  <1> QED
    BY <1>1, Zenon DEF CallRecord, SameWork

-----------------------------------------------------------------------------
(* Cut paths.                                                              *)

LEMMA CutMeans ==
    ASSUME NEW a \in PathRecord, NEW b \in PathRecord
    PROVE  IsCut(a, b) <=> /\ a.abs = b.abs
                           /\ Len(a.comps) <= Len(b.comps)
                           /\ \A i \in 1..Len(a.comps) : a.comps[i] = b.comps[i]
  <1> DEFINE n == Len(a.comps)
             cut == SubSeq(b.comps, 1, n)
  <1>1. a.comps \in Seq(STRING) /\ b.comps \in Seq(STRING)
    BY Zenon DEF PathRecord
  <1>2. n \in Nat /\ Len(b.comps) \in Nat
    BY <1>1
  <1>3. SUFFICES ASSUME n <= Len(b.comps)
                 PROVE  a.comps = cut <=> \A i \in 1..n : a.comps[i] = b.comps[i]
    BY DEF IsCut
  <1>4. \A i \in 1..n : b.comps[i] \in STRING
    BY <1>1, <1>2, <1>3
  <1>5. cut \in Seq(STRING) /\ Len(cut) = n /\ \A i \in 1..n : cut[i] = b.comps[i]
    <2>1. /\ cut \in Seq(STRING) /\ Len(cut) = (IF 1 <= n THEN n - 1 + 1 ELSE 0)
          /\ \A i \in 1..(n - 1 + 1) : cut[i] = b.comps[1 + i - 1]
      BY <1>2, <1>4, SubSeqProperties
    <2> HIDE DEF cut, n
    <2>2. (IF 1 <= n THEN n - 1 + 1 ELSE 0) = n /\ n - 1 + 1 = n
      BY <1>2
    <2>3. \A i \in 1..n : 1 + i - 1 = i
      BY <1>2
    <2> QED
      BY <2>1, <2>2, <2>3
  <1> HIDE DEF cut
  <1>6. (\A i \in 1..n : a.comps[i] = cut[i]) => a.comps = cut
    BY <1>1, <1>5, SeqEqual
  <1> QED
    BY <1>5, <1>6

LEMMA CutRefl ==
    ASSUME NEW a \in PathRecord
    PROVE  IsCut(a, a)
  <1>1. Len(a.comps) <= Len(a.comps)
    <2>1. a.comps \in Seq(STRING)
      BY Zenon DEF PathRecord
    <2> QED
      BY <2>1
  <1> QED
    BY <1>1, CutMeans

LEMMA CutTrans ==
    ASSUME NEW a \in PathRecord, NEW b \in PathRecord, NEW c \in PathRecord,
           IsCut(a, b), IsCut(b, c)
    PROVE  IsCut(a, c)
  <1>1. Len(a.comps) \in Nat /\ Len(b.comps) \in Nat /\ Len(c.comps) \in Nat
    <2>1. a.comps \in Seq(STRING) /\ b.comps \in Seq(STRING) /\ c.comps \in Seq(STRING)
      BY Zenon DEF PathRecord
    <2> QED
      BY <2>1
  <1>2. /\ a.abs = b.abs /\ Len(a.comps) <= Len(b.comps)
        /\ \A i \in 1..Len(a.comps) : a.comps[i] = b.comps[i]
    BY CutMeans
  <1>3. /\ b.abs = c.abs /\ Len(b.comps) <= Len(c.comps)
        /\ \A i \in 1..Len(b.comps) : b.comps[i] = c.comps[i]
    BY CutMeans
  <1>4. /\ a.abs = c.abs /\ Len(a.comps) <= Len(c.comps)
        /\ \A i \in 1..Len(a.comps) : a.comps[i] = c.comps[i]
    BY <1>1, <1>2, <1>3
  <1> QED
    BY <1>4, CutMeans

\* The string of a call during its walk.
LEMMA CutPathHolds ==
    ASSUME NEW p, call[p] \in CallRecord, call[p].rest # <<>>,
           Len(call[p].rest) <= Len(call[p].path.comps)
    PROVE  CutPath(p) \in PathRecord /\ IsCut(CutPath(p), call[p].path)
  <1> DEFINE path == call[p].path
             n == Len(path.comps) - Len(call[p].rest) + 1
             cut == SubSeq(path.comps, 1, n)
  <1>1. path \in PathRecord /\ call[p].rest \in Seq(STRING)
    BY Zenon DEF CallRecord
  <1>2. path.comps \in Seq(STRING)
    BY <1>1, Zenon DEF PathRecord
  <1>3. n \in Nat /\ 1 <= n /\ n <= Len(path.comps)
    BY <1>1, <1>2, EmptySeq
  <1>4. \A i \in 1..n : path.comps[i] \in STRING
    BY <1>2, <1>3
  <1>5. CutPath(p) = [path EXCEPT !.comps = cut, !.slash = FALSE]
    BY DEF CutPath
  <1> HIDE DEF path
  <1> HIDE DEF n
  <1>6. cut \in Seq(STRING) /\ Len(cut) = n
    <2>1. cut \in Seq(STRING) /\ Len(cut) = (IF 1 <= n THEN n - 1 + 1 ELSE 0)
      BY <1>3, <1>4, SubSeqProperties
    <2> HIDE DEF cut
    <2>2. (IF 1 <= n THEN n - 1 + 1 ELSE 0) = n
      BY <1>3
    <2> QED
      BY <2>1, <2>2
  <1>7. /\ [path EXCEPT !.comps = cut, !.slash = FALSE] \in PathRecord
        /\ [path EXCEPT !.comps = cut, !.slash = FALSE].comps = cut
        /\ [path EXCEPT !.comps = cut, !.slash = FALSE].abs = path.abs
    <2> HIDE DEF cut
    <2> QED
      BY <1>1, <1>6, Zenon DEF PathRecord
  <1>8. CutPath(p) \in PathRecord /\ CutPath(p).comps = cut /\ CutPath(p).abs = path.abs
    BY <1>5, <1>7
  <1>9. IsCut(CutPath(p), path)
    BY <1>3, <1>6, <1>8 DEF IsCut
  <1> QED
    BY <1>8, <1>9 DEF path

-----------------------------------------------------------------------------
(* The tree grows.                                                         *)

\* Between two states files are added, none is taken away, and an inode that
\* is not there any more was taken by a second reader.
Grown(F, C, G, D) ==
    /\ Len(F) <= Len(G)
    /\ C \subseteq D
    /\ \A f \in PointersOf(F) : /\ G[f].inum = F[f].inum /\ G[f].parent = F[f].parent
                                /\ IsThere(F, C, f) => IsThere(G, D, f)

LEMMA CallGrows ==
    ASSUME NEW F, NEW C, NEW G, NEW D, TreeIn(F), TreeIn(G), Grown(F, C, G, D),
           NEW c, CallIn(F, C, c)
    PROVE  CallIn(G, D, c)
  <1>1. PointersOf(F) \subseteq PointersOf(G)
    <2>1. Len(F) \in Nat /\ Len(G) \in Nat /\ Len(F) <= Len(G)
      BY TreeTyped DEF Grown
    <2> QED
      BY <2>1 DEF PointersOf
  <1>2. \A f \in PointersOf(F) : /\ G[f].parent = F[f].parent
                                 /\ IsThere(F, C, f) => IsThere(G, D, f)
                                 /\ IsDirIn(F, C, f) => IsDirIn(G, D, f)
    BY DEF Grown, IsDirIn
  <1>3. C \subseteq D
    BY DEF Grown
  <1>4. c \in CallRecord
    BY DEF CallIn
  <1>5. c.pc \in HasDir => c.dir \in PointersOf(F)
    BY DEF CallIn
  <1>6. c.pc \in Working => c.f \in PointersOf(F) /\ (Down(c) => c.f = c.dir)
    BY DEF CallIn
  <1>7. c.pc \in {"next", "leaf"} =>
          c.new \in PointersOf(G) /\ G[c.new].parent = c.dir /\ c.new # Root
    <2>1. c.pc \in {"next", "leaf"} =>
            c.new \in PointersOf(F) /\ F[c.new].parent = c.dir /\ c.new # Root
      BY DEF CallIn
    <2> QED
      BY <2>1, <1>1, <1>2
  <1>8. /\ c.pc = "mode" => IsThere(G, D, c.f)
        /\ c.pc = "size" => IsThere(G, D, c.dir)
        /\ c.pc = "wild" => c.dir \in D
        /\ c.pc \in {"create", "store"} /\ c.op # "readfile" => IsDirIn(G, D, c.dir)
    <2>1. /\ c.pc = "mode" => IsThere(F, C, c.f)
          /\ c.pc = "size" => IsThere(F, C, c.dir)
          /\ c.pc = "wild" => c.dir \in C
          /\ c.pc \in {"create", "store"} /\ c.op # "readfile" => IsDirIn(F, C, c.dir)
      BY DEF CallIn
    <2> QED
      BY <2>1, <1>2, <1>3, <1>5, <1>6 DEF HasDir, Working
  <1>9. /\ c.pc \in Working /\ c.then \in {"entry", "filehandle"} => c.op = "read"
        /\ c.pc \in {"walk", "cache"} => c.then \in {"none", "down"}
        /\ c.pc = "walk" => c.back = "none" /\ c.op = "open"
        /\ c.pc \in Working /\ c.back = "cache" => c.then \in {"none", "down", "browse"}
        /\ c.pc \in {"clear", "inode"} => c.back # "none"
        /\ c.pc \in Working /\ c.then = "none" => c.pc \in {"clear", "inode"} /\ c.back = "cache"
        /\ c.pc = "user" => c.op = "none"
    BY DEF CallIn
  <1> QED
    BY <1>1, <1>4, <1>5, <1>6, <1>7, <1>8, <1>9 DEF CallIn

LEMMA HandlesGrow ==
    ASSUME NEW F, NEW C, NEW G, NEW D, TreeIn(F), TreeIn(G), Grown(F, C, G, D),
           NEW L, HandlesIn(F, C, L)
    PROVE  HandlesIn(G, D, L)
  <1>1. PointersOf(F) \subseteq PointersOf(G)
    <2>1. Len(F) \in Nat /\ Len(G) \in Nat /\ Len(F) <= Len(G)
      BY TreeTyped DEF Grown
    <2> QED
      BY <2>1 DEF PointersOf
  <1>2. \A f \in PointersOf(F) : IsDirIn(F, C, f) => IsDirIn(G, D, f)
    BY DEF Grown, IsDirIn
  <1> QED
    BY <1>1, <1>2 DEF HandlesIn

LEMMA SameTree ==
    ASSUME NEW F, NEW C, TreeIn(F)
    PROVE  Grown(F, C, F, C)
  <1>1. Len(F) <= Len(F)
    BY TreeTyped
  <1> QED
    BY <1>1 DEF Grown

\* Only the inode of a file, or that it is opened, is written.
LEMMA TouchedTree ==
    ASSUME NEW F, TreeIn(F), NEW G \in [1..Len(F) -> FileRecord],
           \A f \in 1..Len(F) : /\ G[f].inum = F[f].inum /\ G[f].name = F[f].name
                                /\ G[f].leaf = F[f].leaf /\ G[f].next = F[f].next
                                /\ G[f].parent = F[f].parent
    PROVE  TreeIn(G) /\ Len(G) = Len(F)
  <1>1. Len(F) \in Nat
    BY TreeTyped
  <1>2. G \in Seq(FileRecord) /\ Len(G) = Len(F)
    BY <1>1
  <1>3. PointersOf(G) = PointersOf(F) /\ PointersOf(F) = 1..Len(F)
    BY <1>2 DEF PointersOf
  <1>4. Root \in PointersOf(G)
    BY <1>3 DEF TreeIn
  <1>5. ASSUME NEW f \in PointersOf(G)
        PROVE  /\ G[f].parent \in PointersOf(G)
               /\ G[f].leaf \in {NULL} \cup PointersOf(G)
               /\ G[f].next \in {NULL} \cup PointersOf(G)
               /\ f # Root => [name |-> G[f].name, inum |-> G[f].inum]
                                 \in DiskEntries(G[G[f].parent].inum)
               /\ G[f].leaf # NULL => G[G[f].leaf].parent = f /\ G[f].leaf # Root
               /\ G[f].next # NULL => G[G[f].next].parent = G[f].parent /\ G[f].next # Root
    <2>1. /\ F[f].parent \in PointersOf(F)
          /\ F[f].leaf \in {NULL} \cup PointersOf(F)
          /\ F[f].next \in {NULL} \cup PointersOf(F)
          /\ f # Root => [name |-> F[f].name, inum |-> F[f].inum]
                            \in DiskEntries(F[F[f].parent].inum)
          /\ F[f].leaf # NULL => F[F[f].leaf].parent = f /\ F[f].leaf # Root
          /\ F[f].next # NULL => F[F[f].next].parent = F[f].parent /\ F[f].next # Root
      BY <1>3 DEF TreeIn
    <2>2. \A g \in PointersOf(F) : /\ G[g].inum = F[g].inum /\ G[g].name = F[g].name
                                   /\ G[g].leaf = F[g].leaf /\ G[g].next = F[g].next
                                   /\ G[g].parent = F[g].parent
      BY <1>3
    <2> QED
      BY <1>3, <2>1, <2>2
  <1> QED
    BY <1>2, <1>4, <1>5 DEF TreeIn

\* What one write to a file of the tree changes.
WithInode(F, f, v) == [F EXCEPT ![f].inode = v]
WithOpened(F, f, v) == [F EXCEPT ![f].opened = v]
WithLeaf(F, f, g) == [F EXCEPT ![f].leaf = g]
WithNext(F, f, g) == [F EXCEPT ![f].next = g]

LEMMA WithInodeHolds ==
    ASSUME NEW n \in Nat, NEW F \in [1..n -> FileRecord], NEW f \in 1..n, NEW v \in BOOLEAN
    PROVE  LET G == WithInode(F, f, v)
           IN  /\ G \in [1..n -> FileRecord] /\ G[f].inode = v
               /\ \A h \in 1..n : h # f => G[h] = F[h]
               /\ G[f].inum = F[f].inum /\ G[f].name = F[f].name
               /\ G[f].opened = F[f].opened /\ G[f].leaf = F[f].leaf
               /\ G[f].next = F[f].next /\ G[f].parent = F[f].parent
  BY Zenon DEF FileRecord, WithInode

LEMMA WithOpenedHolds ==
    ASSUME NEW n \in Nat, NEW F \in [1..n -> FileRecord], NEW f \in 1..n, NEW v \in BOOLEAN
    PROVE  LET G == WithOpened(F, f, v)
           IN  /\ G \in [1..n -> FileRecord] /\ G[f].opened = v
               /\ \A h \in 1..n : h # f => G[h] = F[h]
               /\ G[f].inum = F[f].inum /\ G[f].name = F[f].name
               /\ G[f].inode = F[f].inode /\ G[f].leaf = F[f].leaf
               /\ G[f].next = F[f].next /\ G[f].parent = F[f].parent
  BY Zenon DEF FileRecord, WithOpened

LEMMA WithLeafHolds ==
    ASSUME NEW n \in Nat, NEW F \in [1..n -> FileRecord], NEW f \in 1..n, NEW g \in Nat
    PROVE  LET G == WithLeaf(F, f, g)
           IN  /\ G \in [1..n -> FileRecord] /\ G[f].leaf = g
               /\ \A h \in 1..n : h # f => G[h] = F[h]
               /\ G[f].inum = F[f].inum /\ G[f].name = F[f].name
               /\ G[f].inode = F[f].inode /\ G[f].opened = F[f].opened
               /\ G[f].next = F[f].next /\ G[f].parent = F[f].parent
  BY Zenon DEF FileRecord, WithLeaf

LEMMA WithNextHolds ==
    ASSUME NEW n \in Nat, NEW F \in [1..n -> FileRecord], NEW f \in 1..n, NEW g \in Nat
    PROVE  LET G == WithNext(F, f, g)
           IN  /\ G \in [1..n -> FileRecord] /\ G[f].next = g
               /\ \A h \in 1..n : h # f => G[h] = F[h]
               /\ G[f].inum = F[f].inum /\ G[f].name = F[f].name
               /\ G[f].inode = F[f].inode /\ G[f].opened = F[f].opened
               /\ G[f].leaf = F[f].leaf /\ G[f].parent = F[f].parent
  BY Zenon DEF FileRecord, WithNext

LEMMA LeafTree ==
    ASSUME NEW F, TreeIn(F), NEW d \in 1..Len(F), NEW g \in 1..Len(F),
           F[g].parent = d, g # Root
    PROVE  LET G == WithLeaf(F, d, g)
           IN  TreeIn(G) /\ Len(G) = Len(F) /\ \A C : Grown(F, C, G, C)
  <1> DEFINE G == WithLeaf(F, d, g)
  <1> DEFINE n == Len(F)
  <1>1. n \in Nat /\ F \in [1..n -> FileRecord] /\ g \in Nat /\ g # NULL /\ d \in 1..n
    BY TreeTyped DEF NULL
  <1> HIDE DEF n
  <1>2. /\ G \in [1..n -> FileRecord] /\ G[d].leaf = g
        /\ \A h \in 1..n : h # d => G[h] = F[h]
        /\ G[d].inum = F[d].inum /\ G[d].name = F[d].name /\ G[d].parent = F[d].parent
        /\ G[d].next = F[d].next /\ G[d].inode = F[d].inode
    BY <1>1, WithLeafHolds
  <1> HIDE DEF G
  <1> USE DEF n
  <1>3. G \in Seq(FileRecord) /\ Len(G) = Len(F)
    BY <1>1, <1>2
  <1>4. PointersOf(G) = 1..Len(F) /\ PointersOf(F) = 1..Len(F)
    BY <1>3 DEF PointersOf
  <1>5. Root \in PointersOf(G)
    BY <1>4 DEF TreeIn
  <1>6. ASSUME NEW f \in PointersOf(G)
        PROVE  /\ G[f].parent \in PointersOf(G)
               /\ G[f].leaf \in {NULL} \cup PointersOf(G)
               /\ G[f].next \in {NULL} \cup PointersOf(G)
               /\ f # Root => [name |-> G[f].name, inum |-> G[f].inum]
                                 \in DiskEntries(G[G[f].parent].inum)
               /\ G[f].leaf # NULL => G[G[f].leaf].parent = f /\ G[f].leaf # Root
               /\ G[f].next # NULL => G[G[f].next].parent = G[f].parent /\ G[f].next # Root
    <2>1. /\ F[f].parent \in PointersOf(F)
          /\ F[f].leaf \in {NULL} \cup PointersOf(F)
          /\ F[f].next \in {NULL} \cup PointersOf(F)
          /\ f # Root => [name |-> F[f].name, inum |-> F[f].inum]
                            \in DiskEntries(F[F[f].parent].inum)
          /\ F[f].leaf # NULL => F[F[f].leaf].parent = f /\ F[f].leaf # Root
          /\ F[f].next # NULL => F[F[f].next].parent = F[f].parent /\ F[f].next # Root
      BY <1>4 DEF TreeIn
    <2>2. G[f].leaf = IF f = d THEN g ELSE F[f].leaf
      BY <1>2, <1>4
    <2>3. \A h \in PointersOf(F) : /\ G[h].inum = F[h].inum /\ G[h].name = F[h].name
                                   /\ G[h].next = F[h].next /\ G[h].parent = F[h].parent
      BY <1>2, <1>4
    <2>4. g \in PointersOf(F) /\ G[g].parent = d
      BY <1>4, <2>3
    <2>5. /\ G[f].leaf \in {NULL} \cup PointersOf(G)
          /\ G[f].leaf # NULL => G[G[f].leaf].parent = f /\ G[f].leaf # Root
      BY <1>4, <2>1, <2>2, <2>3, <2>4
    <2> QED
      BY <1>4, <2>1, <2>3, <2>5
  <1>7. TreeIn(G)
    BY <1>3, <1>5, <1>6 DEF TreeIn
  <1>8. ASSUME NEW C
        PROVE  Grown(F, C, G, C)
    <2>1. \A f \in PointersOf(F) : /\ G[f].inum = F[f].inum /\ G[f].parent = F[f].parent
                                   /\ G[f].inode = F[f].inode
      BY <1>2, <1>4
    <2>2. Len(F) <= Len(G)
      BY <1>1, <1>3
    <2> QED
      BY <2>1, <2>2 DEF Grown, IsThere
  <1> QED
    BY <1>3, <1>7, <1>8 DEF G

LEMMA NextTree ==
    ASSUME NEW F, TreeIn(F), NEW d \in 1..Len(F), NEW g \in 0..Len(F),
           g # NULL => F[g].parent = F[d].parent /\ g # Root
    PROVE  LET G == WithNext(F, d, g)
           IN  TreeIn(G) /\ Len(G) = Len(F) /\ \A C : Grown(F, C, G, C)
  <1> DEFINE G == WithNext(F, d, g)
  <1>1. Len(F) \in Nat /\ F \in [1..Len(F) -> FileRecord] /\ g \in Nat
    BY TreeTyped
  <1>2. /\ G \in [1..Len(F) -> FileRecord] /\ G[d].next = g
        /\ \A h \in 1..Len(F) : h # d => G[h] = F[h]
        /\ G[d].inum = F[d].inum /\ G[d].name = F[d].name /\ G[d].parent = F[d].parent
        /\ G[d].leaf = F[d].leaf /\ G[d].inode = F[d].inode
    BY <1>1, WithNextHolds
  <1> HIDE DEF G
  <1>3. G \in Seq(FileRecord) /\ Len(G) = Len(F)
    BY <1>1, <1>2
  <1>4. PointersOf(G) = 1..Len(F) /\ PointersOf(F) = 1..Len(F)
    BY <1>3 DEF PointersOf
  <1>5. Root \in PointersOf(G)
    BY <1>4 DEF TreeIn
  <1>6. ASSUME NEW f \in PointersOf(G)
        PROVE  /\ G[f].parent \in PointersOf(G)
               /\ G[f].leaf \in {NULL} \cup PointersOf(G)
               /\ G[f].next \in {NULL} \cup PointersOf(G)
               /\ f # Root => [name |-> G[f].name, inum |-> G[f].inum]
                                 \in DiskEntries(G[G[f].parent].inum)
               /\ G[f].leaf # NULL => G[G[f].leaf].parent = f /\ G[f].leaf # Root
               /\ G[f].next # NULL => G[G[f].next].parent = G[f].parent /\ G[f].next # Root
    <2>1. /\ F[f].parent \in PointersOf(F)
          /\ F[f].leaf \in {NULL} \cup PointersOf(F)
          /\ F[f].next \in {NULL} \cup PointersOf(F)
          /\ f # Root => [name |-> F[f].name, inum |-> F[f].inum]
                            \in DiskEntries(F[F[f].parent].inum)
          /\ F[f].leaf # NULL => F[F[f].leaf].parent = f /\ F[f].leaf # Root
          /\ F[f].next # NULL => F[F[f].next].parent = F[f].parent /\ F[f].next # Root
      BY <1>4 DEF TreeIn
    <2>2. G[f].next = IF f = d THEN g ELSE F[f].next
      BY <1>2, <1>4
    <2>3. \A h \in PointersOf(F) : /\ G[h].inum = F[h].inum /\ G[h].name = F[h].name
                                   /\ G[h].leaf = F[h].leaf /\ G[h].parent = F[h].parent
      BY <1>2, <1>4
    <2>4. g \in {NULL} \cup PointersOf(F)
      BY <1>1, <1>4 DEF NULL
    <2>5. /\ G[f].next \in {NULL} \cup PointersOf(G)
          /\ G[f].next # NULL => G[G[f].next].parent = G[f].parent /\ G[f].next # Root
      BY <1>4, <2>1, <2>2, <2>3, <2>4
    <2> QED
      BY <1>4, <2>1, <2>3, <2>5
  <1>7. TreeIn(G)
    BY <1>3, <1>5, <1>6 DEF TreeIn
  <1>8. ASSUME NEW C
        PROVE  Grown(F, C, G, C)
    <2>1. \A f \in PointersOf(F) : /\ G[f].inum = F[f].inum /\ G[f].parent = F[f].parent
                                   /\ G[f].inode = F[f].inode
      BY <1>2, <1>4
    <2>2. Len(F) <= Len(G)
      BY <1>1, <1>3
    <2> QED
      BY <2>1, <2>2 DEF Grown, IsThere
  <1> QED
    BY <1>3, <1>7, <1>8 DEF G

\* A new file that the disk has in directory r.parent, tied to nothing yet.
LEMMA AppendTree ==
    ASSUME NEW F, TreeIn(F), NEW r \in FileRecord, r.parent \in 1..Len(F),
           r.leaf = NULL, r.next = NULL,
           [name |-> r.name, inum |-> r.inum] \in DiskEntries(F[r.parent].inum)
    PROVE  /\ TreeIn(Append(F, r)) /\ Len(Append(F, r)) = Len(F) + 1
           /\ Len(F) + 1 # Root /\ Append(F, r)[Len(F) + 1] = r
           /\ \A C : Grown(F, C, Append(F, r), C)
  <1> DEFINE G == Append(F, r)
  <1>1. Len(F) \in Nat /\ F \in Seq(FileRecord)
    BY TreeTyped
  <1>2. /\ G \in Seq(FileRecord) /\ Len(G) = Len(F) + 1
        /\ G[Len(F) + 1] = r /\ \A h \in 1..Len(F) : G[h] = F[h]
    BY <1>1, AppendProperties
  <1> HIDE DEF G
  <1>3. PointersOf(F) = 1..Len(F) /\ PointersOf(G) = PointersOf(F) \cup {Len(F) + 1}
    BY <1>1, <1>2 DEF PointersOf
  <1>4. Root \in PointersOf(F) /\ Len(F) + 1 # Root
    <2>1. Root \in PointersOf(F)
      BY DEF TreeIn
    <2> QED
      BY <1>1, <2>1 DEF PointersOf
  <1>5. \A f \in PointersOf(F) : G[f] = F[f]
    BY <1>2, <1>3
  <1>6. ASSUME NEW f \in PointersOf(G)
        PROVE  /\ G[f].parent \in PointersOf(G)
               /\ G[f].leaf \in {NULL} \cup PointersOf(G)
               /\ G[f].next \in {NULL} \cup PointersOf(G)
               /\ f # Root => [name |-> G[f].name, inum |-> G[f].inum]
                                 \in DiskEntries(G[G[f].parent].inum)
               /\ G[f].leaf # NULL => G[G[f].leaf].parent = f /\ G[f].leaf # Root
               /\ G[f].next # NULL => G[G[f].next].parent = G[f].parent /\ G[f].next # Root
    <2>1. CASE f \in PointersOf(F)
      <3>1. /\ F[f].parent \in PointersOf(F)
            /\ F[f].leaf \in {NULL} \cup PointersOf(F)
            /\ F[f].next \in {NULL} \cup PointersOf(F)
            /\ f # Root => [name |-> F[f].name, inum |-> F[f].inum]
                              \in DiskEntries(F[F[f].parent].inum)
            /\ F[f].leaf # NULL => F[F[f].leaf].parent = f /\ F[f].leaf # Root
            /\ F[f].next # NULL => F[F[f].next].parent = F[f].parent /\ F[f].next # Root
        BY <2>1 DEF TreeIn
      <3> QED
        BY <1>3, <1>5, <2>1, <3>1
    <2>2. CASE f = Len(F) + 1
      <3>1. G[f] = r /\ G[r.parent] = F[r.parent] /\ r.parent \in PointersOf(G)
        BY <1>2, <1>3, <2>2
      <3> QED
        BY <3>1
    <2> QED
      BY <1>3, <2>1, <2>2
  <1>7. TreeIn(G)
    BY <1>2, <1>3, <1>4, <1>6 DEF TreeIn
  <1>8. ASSUME NEW C
        PROVE  Grown(F, C, G, C)
    <2>1. Len(F) <= Len(G)
      BY <1>1, <1>2
    <2> QED
      BY <1>5, <2>1 DEF Grown, IsThere
  <1> QED
    BY <1>2, <1>4, <1>7, <1>8 DEF G

LEMMA InodeTree ==
    ASSUME NEW F, TreeIn(F), NEW f \in 1..Len(F), NEW v \in BOOLEAN
    PROVE  LET G == WithInode(F, f, v)
           IN  /\ TreeIn(G) /\ Len(G) = Len(F) /\ G[f].inode = v
               /\ \A C, D : C \subseteq D /\ (F[f].inode => v \/ f \in D) => Grown(F, C, G, D)
  <1> DEFINE G == WithInode(F, f, v)
  <1>1. Len(F) \in Nat /\ F \in [1..Len(F) -> FileRecord]
    BY TreeTyped
  <1>2. /\ G \in [1..Len(F) -> FileRecord] /\ G[f].inode = v
        /\ \A h \in 1..Len(F) : h # f => G[h] = F[h]
        /\ G[f].inum = F[f].inum /\ G[f].name = F[f].name /\ G[f].parent = F[f].parent
        /\ G[f].leaf = F[f].leaf /\ G[f].next = F[f].next
    BY <1>1, WithInodeHolds
  <1> HIDE DEF G
  <1>3. TreeIn(G) /\ Len(G) = Len(F)
    BY <1>2, TouchedTree
  <1>4. ASSUME NEW C, NEW D, C \subseteq D, F[f].inode => v \/ f \in D
        PROVE  Grown(F, C, G, D)
    <2>1. \A h \in PointersOf(F) : /\ G[h].inum = F[h].inum /\ G[h].parent = F[h].parent
                                   /\ h # f => G[h].inode = F[h].inode
      BY <1>2 DEF PointersOf
    <2>2. Len(F) <= Len(G)
      BY <1>1, <1>3
    <2>3. IsThere(F, C, f) => IsThere(G, D, f)
      BY <1>2, <1>4 DEF IsThere
    <2>4. \A h \in PointersOf(F) : IsThere(F, C, h) => IsThere(G, D, h)
      BY <1>4, <2>1, <2>3 DEF IsThere
    <2> QED
      BY <1>4, <2>1, <2>2, <2>4 DEF Grown
  <1> QED
    BY <1>2, <1>3, <1>4 DEF G

LEMMA OpenedTree ==
    ASSUME NEW F, TreeIn(F), NEW f \in 1..Len(F), NEW v \in BOOLEAN
    PROVE  LET G == WithOpened(F, f, v)
           IN  TreeIn(G) /\ Len(G) = Len(F) /\ \A C : Grown(F, C, G, C)
  <1> DEFINE G == WithOpened(F, f, v)
  <1>1. Len(F) \in Nat /\ F \in [1..Len(F) -> FileRecord]
    BY TreeTyped
  <1>2. /\ G \in [1..Len(F) -> FileRecord]
        /\ \A h \in 1..Len(F) : h # f => G[h] = F[h]
        /\ G[f].inum = F[f].inum /\ G[f].name = F[f].name /\ G[f].parent = F[f].parent
        /\ G[f].leaf = F[f].leaf /\ G[f].next = F[f].next /\ G[f].inode = F[f].inode
    BY <1>1, WithOpenedHolds
  <1> HIDE DEF G
  <1>3. TreeIn(G) /\ Len(G) = Len(F)
    BY <1>2, TouchedTree
  <1>4. ASSUME NEW C
        PROVE  Grown(F, C, G, C)
    <2>1. \A h \in PointersOf(F) : /\ G[h].inum = F[h].inum /\ G[h].parent = F[h].parent
                                   /\ G[h].inode = F[h].inode
      BY <1>2 DEF PointersOf
    <2>2. Len(F) <= Len(G)
      BY <1>1, <1>3
    <2> QED
      BY <2>1, <2>2 DEF Grown, IsThere
  <1> QED
    BY <1>3, <1>4 DEF G

-----------------------------------------------------------------------------
(* What a step must do to keep the invariant.                               *)

\* The call of p goes on, the others stay where they are.
Moves(p, F, C) ==
    /\ call' \in [Procs -> CallRecord] /\ string' \in [Procs -> StringRecord]
    /\ currentDirectory' \in [Procs -> Nat]
    /\ \A q \in Procs \ {p} : /\ call'[q] = call[q] /\ string'[q] = string[q]
                              /\ currentDirectory'[q] = currentDirectory[q]
    /\ CallIn(F, C, call'[p])
    /\ StringIn(call'[p], string'[p])
    /\ currentDirectory'[p] \in PointersOf(F)

LEMMA StepKeeps ==
    ASSUME IInv, NEW p \in Procs, TreeIn(file'), Grown(file, cleared, file', cleared'),
           Moves(p, file', cleared'),
           dirHandleList' \in [Procs -> Seq(HandleRecord)],
           \A q \in Procs \ {p} : dirHandleList'[q] = dirHandleList[q],
           HandlesIn(file', cleared', dirHandleList'[p]),
           s_HandleCount' \in Nat, torn' \in BOOLEAN, torn => torn',
           ~torn' => /\ s_HandleCount <= s_HandleCount'
                     /\ OldHandles(s_HandleCount', dirHandleList'[p])
                     /\ call'[p].pc = "store" => call'[p].count <= s_HandleCount',
           calls' \in [Procs -> [Kinds -> Nat]],
           \A q \in Procs : \A k \in Kinds : calls'[q][k] <= MaxCalls[q][k],
           browsed' \subseteq PointersOf(file'), raced' \subseteq PointersOf(file')
    PROVE  IInv'
  <1>1. TreeIn(file) /\ Typed
    BY DEF IInv
  <1>2. PointersOf(file) \subseteq PointersOf(file')
    <2>1. Len(file) \in Nat /\ Len(file') \in Nat /\ Len(file) <= Len(file')
      BY <1>1, TreeTyped DEF Grown
    <2> QED
      BY <2>1 DEF PointersOf
  <1>3. Typed'
    BY DEF Typed, Moves, Pointers, PointersOf
  <1>4. CallsAreSound'
    <2>1. ASSUME NEW q \in Procs
          PROVE  CallIn(file', cleared', call'[q])
      <3>1. CASE q = p
        BY <3>1 DEF Moves
      <3>2. CASE q # p
        <4>1. CallIn(file, cleared, call[q])
          BY DEF IInv, CallsAreSound
        <4>2. call'[q] = call[q]
          BY <3>2 DEF Moves
        <4> QED
          BY <1>1, <4>1, <4>2, CallGrows
      <3> QED
        BY <3>1, <3>2
    <2> QED
      BY <2>1 DEF CallsAreSound
  <1>5. StringsAreSound'
    <2>1. ASSUME NEW q \in Procs
          PROVE  StringIn(call'[q], string'[q])
      <3>1. CASE q = p
        BY <3>1 DEF Moves
      <3>2. CASE q # p
        BY <3>2 DEF Moves, IInv, StringsAreSound
      <3> QED
        BY <3>1, <3>2
    <2> QED
      BY <2>1 DEF StringsAreSound
  <1>6. DirectoriesAreThere'
    <2>1. ASSUME NEW q \in Procs
          PROVE  /\ currentDirectory'[q] \in PointersOf(file')
                 /\ HandlesIn(file', cleared', dirHandleList'[q])
      <3>1. CASE q = p
        BY <3>1 DEF Moves
      <3>2. CASE q # p
        <4>1. currentDirectory[q] \in PointersOf(file) /\ HandlesIn(file, cleared, dirHandleList[q])
          BY DEF IInv, DirectoriesAreThere, PointersOf, Pointers
        <4>2. currentDirectory'[q] = currentDirectory[q] /\ dirHandleList'[q] = dirHandleList[q]
          BY <3>2 DEF Moves
        <4>3. HandlesIn(file', cleared', dirHandleList[q])
          BY <1>1, <4>1, HandlesGrow
        <4> QED
          BY <1>2, <4>1, <4>2, <4>3
      <3> QED
        BY <3>1, <3>2
    <2> QED
      BY <2>1 DEF DirectoriesAreThere, Pointers, PointersOf
  <1>7. HandlesAreOld'
    <2>1. ASSUME ~torn', NEW q \in Procs
          PROVE  /\ OldHandles(s_HandleCount', dirHandleList'[q])
                 /\ call'[q].pc = "store" => call'[q].count <= s_HandleCount'
      <3>1. CASE q = p
        BY <2>1, <3>1
      <3>2. CASE q # p
        <4>1. /\ OldHandles(s_HandleCount, dirHandleList[q])
              /\ call[q].pc = "store" => call[q].count <= s_HandleCount
          BY <2>1 DEF IInv, HandlesAreOld
        <4>2. call'[q] = call[q] /\ dirHandleList'[q] = dirHandleList[q]
          BY <3>2 DEF Moves
        <4>3. s_HandleCount <= s_HandleCount' /\ s_HandleCount \in Nat /\ s_HandleCount' \in Nat
          BY <1>1, <2>1 DEF Typed
        <4>4. call[q].count \in Nat
          BY <1>1 DEF Typed, CallRecord
        <4>5. \A i \in DOMAIN dirHandleList[q] : dirHandleList[q][i].handle \in Nat
          <5>1. dirHandleList[q] \in Seq(HandleRecord)
            BY <1>1 DEF Typed
          <5>2. \A i \in DOMAIN dirHandleList[q] : dirHandleList[q][i] \in HandleRecord
            BY <5>1
          <5> QED
            BY <5>2 DEF HandleRecord
        <4>6. OldHandles(s_HandleCount', dirHandleList[q])
          BY <4>1, <4>3, <4>5 DEF OldHandles
        <4>7. call[q].pc = "store" => call[q].count <= s_HandleCount'
          BY <4>1, <4>3, <4>4
        <4> QED
          BY <4>2, <4>6, <4>7
      <3> QED
        BY <3>1, <3>2
    <2> QED
      BY <2>1 DEF HandlesAreOld
  <1>8. TreeIn(file)'
    OBVIOUS
  <1> QED
    BY <1>3, <1>4, <1>5, <1>6, <1>7, <1>8 DEF IInv

\* Most steps leave the handles and the bounds alone.
LEMMA MovesKeep ==
    ASSUME IInv, NEW p \in Procs, TreeIn(file'), Grown(file, cleared, file', cleared'),
           Moves(p, file', cleared'), call'[p].pc # "store",
           UNCHANGED <<handles, calls>>,
           browsed' \subseteq PointersOf(file'), raced' \subseteq PointersOf(file')
    PROVE  IInv'
  <1>1. TreeIn(file) /\ Typed
    BY DEF IInv
  <1>2. s_HandleCount' = s_HandleCount /\ dirHandleList' = dirHandleList /\ torn' = torn
    BY DEF handles
  <1>3. HandlesIn(file', cleared', dirHandleList'[p])
    BY <1>1, <1>2, HandlesGrow DEF IInv, DirectoriesAreThere
  <1>4. /\ s_HandleCount' \in Nat /\ torn' \in BOOLEAN
        /\ dirHandleList' \in [Procs -> Seq(HandleRecord)]
    BY <1>1, <1>2 DEF Typed
  <1>5. s_HandleCount <= s_HandleCount'
    BY <1>2, <1>4
  <1>6. ~torn' => OldHandles(s_HandleCount', dirHandleList'[p])
    BY <1>2 DEF IInv, HandlesAreOld
  <1>7. /\ calls' \in [Procs -> [Kinds -> Nat]]
        /\ \A q \in Procs : \A k \in Kinds : calls'[q][k] <= MaxCalls[q][k]
    BY <1>1 DEF Typed
  <1> QED
    BY <1>2, <1>3, <1>4, <1>5, <1>6, <1>7, StepKeeps

-----------------------------------------------------------------------------
(* The ways in which a call goes on.                                        *)

LEMMA CallFacts ==
    ASSUME IInv, NEW p \in Procs
    PROVE  /\ call[p] \in CallRecord /\ string[p] \in StringRecord
           /\ call \in [Procs -> CallRecord] /\ string \in [Procs -> StringRecord]
           /\ currentDirectory \in [Procs -> Nat] /\ currentDirectory[p] \in PointersOf(file)
           /\ CallIn(file, cleared, call[p]) /\ StringIn(call[p], string[p])
           /\ TreeIn(file) /\ Typed
           /\ call[p].path \in PathRecord /\ call[p].rest \in Seq(STRING)
           /\ call[p].dir \in Nat /\ call[p].f \in Nat
           /\ string[p].wrote \in PathRecord /\ string[p].now \in PathRecord
  <1>1. TreeIn(file) /\ Typed
    BY DEF IInv
  <1>2. /\ call \in [Procs -> CallRecord] /\ string \in [Procs -> StringRecord]
        /\ currentDirectory \in [Procs -> Nat]
    BY <1>1 DEF Typed
  <1>3. call[p] \in CallRecord /\ string[p] \in StringRecord
    BY <1>2
  <1>4. CallIn(file, cleared, call[p]) /\ StringIn(call[p], string[p])
    BY DEF IInv, CallsAreSound, StringsAreSound
  <1>5. currentDirectory[p] \in PointersOf(file)
    BY DEF IInv, DirectoriesAreThere, Pointers, PointersOf
  <1>6. /\ call[p].path \in PathRecord /\ call[p].rest \in Seq(STRING)
        /\ call[p].dir \in Nat /\ call[p].f \in Nat
    BY <1>3, Zenon DEF CallRecord
  <1>7. string[p].wrote \in PathRecord /\ string[p].now \in PathRecord
    BY <1>3, Zenon DEF StringRecord
  <1> QED
    BY <1>1, <1>2, <1>3, <1>4, <1>5, <1>6, <1>7

\* The string stays right for a call at the same work, as far down as before.
LEMMA SameString ==
    ASSUME NEW c, NEW d, NEW s, StringIn(c, s),
           d.op = c.op, d.path = c.path, d.rest = c.rest, Down(d) <=> Down(c)
    PROVE  StringIn(d, s)
  BY DEF StringIn

LEMMA OtherString ==
    ASSUME NEW c, NEW d, NEW s, StringIn(c, s), c.op # "open", d.op # "open"
    PROVE  StringIn(d, s)
  BY DEF StringIn

LEMMA GoesMoves ==
    ASSUME IInv, NEW p \in Procs, NEW F, NEW C, PointersOf(file) \subseteq PointersOf(F),
           NEW d, Goes(p, d), CallIn(F, C, d), StringIn(d, string[p])
    PROVE  Moves(p, F, C) /\ call'[p] = d
  <1>1. call' = [call EXCEPT ![p] = d] /\ string' = string /\ currentDirectory' = currentDirectory
    BY DEF Goes, Goto, local
  <1>2. d \in CallRecord
    BY DEF CallIn
  <1>3. /\ call \in [Procs -> CallRecord] /\ string \in [Procs -> StringRecord]
        /\ currentDirectory \in [Procs -> Nat] /\ currentDirectory[p] \in PointersOf(F)
    BY CallFacts
  <1>4. /\ call' \in [Procs -> CallRecord] /\ call'[p] = d
        /\ \A q \in Procs \ {p} : call'[q] = call[q]
    BY <1>1, <1>2, <1>3
  <1> QED
    BY <1>1, <1>3, <1>4 DEF Moves

LEMMA NoCallIn ==
    ASSUME NEW F, NEW C
    PROVE  CallIn(F, C, NoCall) /\ ~Down(NoCall)
  BY NoCallHolds DEF CallIn, HasDir, Working, Down

LEMMA ReturnMoves ==
    ASSUME IInv, NEW p \in Procs, NEW F, NEW C, PointersOf(file) \subseteq PointersOf(F),
           NEW ret \in Int, Return(p, ret),
           ret = -1 \/ call[p].op # "open" \/ ~Down(call[p])
    PROVE  Moves(p, F, C) /\ call'[p] = NoCall
  <1> DEFINE bad == string[p].refused \/ ret = -1
  <1>1. /\ call' = [call EXCEPT ![p] = NoCall]
        /\ string' = [string EXCEPT ![p].refused = string[p].refused \/ ret = -1]
        /\ currentDirectory' = currentDirectory
    BY DEF Return, Goto
  <1>2. /\ call \in [Procs -> CallRecord] /\ string \in [Procs -> StringRecord]
        /\ currentDirectory \in [Procs -> Nat] /\ currentDirectory[p] \in PointersOf(F)
        /\ StringIn(call[p], string[p]) /\ string[p] \in StringRecord
    BY CallFacts
  <1>3. /\ call' \in [Procs -> CallRecord] /\ call'[p] = NoCall
        /\ \A q \in Procs \ {p} : call'[q] = call[q]
    BY <1>1, <1>2, NoCallHolds
  <1>4. bad \in BOOLEAN
    OBVIOUS
  <1>5. /\ string' \in [Procs -> StringRecord]
        /\ \A q \in Procs \ {p} : string'[q] = string[q]
        /\ string'[p].refused = bad
        /\ string'[p].now = string[p].now /\ string'[p].wrote = string[p].wrote
        /\ string'[p] \in StringRecord
    <2>1. string' = [string EXCEPT ![p].refused = bad]
      BY <1>1
    <2> HIDE DEF bad
    <2> QED
      BY <1>2, <1>4, <2>1, Zenon DEF StringRecord
  <1>6. string[p].now = string[p].wrote \/ string[p].refused \/ ret = -1
    BY <1>2 DEF StringIn
  <1>7. IsCut(string'[p].now, string'[p].wrote)
    BY <1>2, <1>5 DEF StringIn
  <1>8. StringIn(NoCall, string'[p])
    BY <1>5, <1>6, <1>7, NoCallHolds DEF StringIn
  <1> QED
    BY <1>1, <1>2, <1>3, <1>5, <1>8, NoCallIn DEF Moves

\* The directory that a call on its way down works on.
LEMMA DownIn ==
    ASSUME IInv, NEW p \in Procs, Down(call[p])
    PROVE  call[p].dir \in PointersOf(file)
  BY CallFacts DEF CallIn, Down, HasDir

LEMMA OverMoves ==
    ASSUME IInv, NEW p \in Procs, NEW F, NEW C, PointersOf(file) \subseteq PointersOf(F),
           Over(p), Down(call[p])
    PROVE  Moves(p, F, C) /\ call'[p].pc # "store"
  <1> DEFINE c == call[p]
             d == [c EXCEPT !.pc = "walk", !.rest = Tail(@), !.i = 1, !.f = NULL,
                            !.then = "none", !.back = "none"]
  <1>1. /\ call \in [Procs -> CallRecord] /\ string \in [Procs -> StringRecord]
        /\ currentDirectory \in [Procs -> Nat] /\ currentDirectory[p] \in PointersOf(F)
        /\ StringIn(c, string[p]) /\ string[p] \in StringRecord
        /\ c \in CallRecord /\ c.path \in PathRecord /\ c.rest \in Seq(STRING)
    BY CallFacts
  <1>2. c.dir \in PointersOf(F)
    BY DownIn
  <1>3. CASE c.op = "open"
    <2>1. /\ call' = [call EXCEPT ![p] = d]
          /\ string' = [string EXCEPT ![p].now = PutBack(p)]
          /\ currentDirectory' = currentDirectory
      BY <1>3 DEF Over, Goto
    <2>2. /\ c.path = string[p].wrote \/ string[p].refused
          /\ IsCut(c.path, string[p].wrote)
          /\ Len(c.rest) <= Len(c.path.comps)
          /\ c.rest # <<>>
      BY <1>1, <1>3 DEF StringIn
    <2>3. /\ d \in CallRecord /\ d.op = c.op /\ d.path = c.path /\ d.dir = c.dir
          /\ d.pc = "walk" /\ d.rest = Tail(c.rest) /\ d.then = "none" /\ d.back = "none"
      BY <1>1, <2>2, WalksOnHolds
    <2> HIDE DEF d
    <2>4. CallIn(F, C, d)
      BY <1>2, <1>3, <2>3 DEF CallIn, HasDir, Working
    <2>5. /\ call' \in [Procs -> CallRecord] /\ call'[p] = d
          /\ \A q \in Procs \ {p} : call'[q] = call[q]
      BY <1>1, <2>1, <2>3
    <2>6. /\ string' \in [Procs -> StringRecord]
          /\ \A q \in Procs \ {p} : string'[q] = string[q]
          /\ string'[p].now = c.path /\ string'[p].refused = string[p].refused
          /\ string'[p].wrote = string[p].wrote
          /\ string'[p] \in StringRecord
      BY <1>1, <2>1, Zenon DEF StringRecord, PutBack
    <2>7. Len(d.rest) <= Len(d.path.comps)
      <3>1. Len(Tail(c.rest)) = Len(c.rest) - 1 /\ Len(c.rest) \in Nat
        BY <1>1, <2>2, HeadTailProperties
      <3>2. c.path.comps \in Seq(STRING)
        BY <1>1, Zenon DEF PathRecord
      <3>3. Len(c.path.comps) \in Nat
        BY <3>2
      <3> QED
        BY <2>2, <2>3, <3>1, <3>3
    <2>8. ~Down(d)
      BY <2>3 DEF Down, Working
    <2>9. StringIn(d, string'[p])
      BY <1>3, <2>2, <2>3, <2>6, <2>7, <2>8 DEF StringIn
    <2> HIDE DEF c
    <2> QED
      BY <1>1, <2>1, <2>3, <2>4, <2>5, <2>6, <2>9 DEF Moves
  <1>4. CASE c.op = "set"
    <2>1. /\ call' = [call EXCEPT ![p] = NoCall]
          /\ string' = string
          /\ currentDirectory' = [currentDirectory EXCEPT ![p] = c.dir]
      BY <1>4 DEF Over, Goto
    <2>2. /\ call' \in [Procs -> CallRecord] /\ call'[p] = NoCall
          /\ \A q \in Procs \ {p} : call'[q] = call[q]
      BY <1>1, <2>1, NoCallHolds
    <2>3. c.dir \in Nat
      BY <1>1, Zenon DEF CallRecord
    <2> HIDE DEF c
    <2>4. /\ currentDirectory' \in [Procs -> Nat] /\ currentDirectory'[p] \in PointersOf(F)
          /\ \A q \in Procs \ {p} : currentDirectory'[q] = currentDirectory[q]
      BY <1>1, <1>2, <2>1, <2>3
    <2>5. StringIn(NoCall, string'[p])
      BY <1>1, <1>4, <2>1, NoCallHolds, OtherString
    <2> QED
      BY <1>1, <2>1, <2>2, <2>4, <2>5, NoCallIn, NoCallHolds DEF Moves
  <1> QED
    BY <1>3, <1>4 DEF Over

\* A call begins to open f, or to ask what f is.
LEMMA WorksIn ==
    ASSUME NEW F, NEW C, TreeIn(F), NEW c \in CallRecord, NEW f \in PointersOf(F),
           NEW then \in Thens \ {"none"},
           then \in {"entry", "filehandle"} => c.op = "read",
           then \in {"down", "browse"} => f = c.dir,
           c.back = "cache" => then \in {"down", "browse"},
           NEW d \in {Asks(c, f, then), Opens(c, f, then)}
    PROVE  /\ d \in CallRecord /\ CallIn(F, C, d) /\ SameWork(d, c) /\ d.pc # "store"
           /\ Down(d) <=> then \in {"down", "browse"}
  <1>1. f \in Nat
    BY TreeTyped DEF PointersOf
  <1>2. /\ d \in CallRecord /\ SameWork(d, c) /\ d.pc \in {"open", "isdir"}
        /\ d.f = f /\ d.then = then /\ d.back = c.back
    BY <1>1, AsksHolds, OpensHolds
  <1>3. Down(d) <=> then \in {"down", "browse"}
    BY <1>2 DEF Down, Working
  <1>4. d.dir = c.dir /\ d.op = c.op
    BY <1>2 DEF SameWork
  <1>5. CallIn(F, C, d)
    BY <1>2, <1>3, <1>4 DEF CallIn, HasDir, Working
  <1> QED
    BY <1>2, <1>3, <1>5

LEMMA AnswerMoves ==
    ASSUME IInv, NEW p \in Procs, NEW F, NEW C, PointersOf(file) \subseteq PointersOf(F),
           TreeIn(F), NEW is \in BOOLEAN, Answer(p, is),
           call[p].pc = "mode" \/ (call[p].pc = "inode" /\ call[p].back = "mode"),
           is => IsThere(F, C, call[p].f) /\ IsDirIn(F, C, call[p].f)
    PROVE  Moves(p, F, C) /\ call'[p].pc # "store"
  <1> DEFINE c == call[p]
  <1>1. c \in CallRecord /\ CallIn(file, cleared, c) /\ StringIn(c, string[p])
    BY CallFacts
  <1>2. /\ c.f \in PointersOf(F)
        /\ Down(c) => c.f = c.dir
        /\ Down(c) <=> c.then \in {"none", "down", "browse"}
        /\ c.then \in {"entry", "filehandle"} => c.op = "read"
        /\ c.back = "cache" => c.then \in {"none", "down", "browse"}
    BY <1>1 DEF CallIn, Working, Down
  <1>3. NoCall.pc # "store"
    BY NoCallHolds
  <1> HIDE DEF c
  <1>4. ASSUME NEW then \in {"dirhandle", "filehandle"}, Goes(p, Asks(c, c.f, then)),
               c.then \in {"opened", "entry"}, then = "filehandle" => c.then = "entry"
        PROVE  Moves(p, F, C) /\ call'[p].pc # "store"
    <2> DEFINE d == Asks(c, c.f, then)
    <2>1. then \in Thens \ {"none"}
      BY DEF Thens
    <2>2. /\ d \in CallRecord /\ CallIn(F, C, d) /\ SameWork(d, c) /\ d.pc # "store"
          /\ Down(d) <=> then \in {"down", "browse"}
      BY <1>1, <1>2, <1>4, <2>1, WorksIn
    <2> HIDE DEF d
    <2>3. StringIn(d, string[p])
      BY <1>1, <1>2, <1>4, <2>2, SameString DEF SameWork
    <2> QED
      BY <1>4, <2>2, <2>3, GoesMoves DEF d
  <1>5. ASSUME NEW op \in {c.op, "readfile"}, Goes(p, Creates(c, op)),
               c.then \in {"dirhandle", "filehandle"}, op # "readfile" => is,
               op = "readfile" => c.op \in {"read", "readfile"}
        PROVE  Moves(p, F, C) /\ call'[p].pc # "store"
    <2> DEFINE d == Creates(c, op)
    <2>1. op \in Ops
      <3>1. c.op \in Ops
        BY <1>1, Zenon DEF CallRecord
      <3>2. "readfile" \in Ops
        BY DEF Ops
      <3> QED
        BY <3>1, <3>2
    <2>2. /\ d \in CallRecord /\ d.path = c.path /\ d.rest = c.rest
          /\ d.pc = "create" /\ d.op = op /\ d.dir = c.f
      BY <1>1, <2>1, CreatesHolds
    <2> HIDE DEF d
    <2>3. op # "readfile" => IsDirIn(F, C, c.f)
      BY <1>5 DEF c
    <2>4. CallIn(F, C, d)
      BY <1>2, <2>2, <2>3 DEF CallIn, HasDir, Working
    <2>5. ~Down(d) /\ ~Down(c)
      BY <1>2, <1>5, <2>2 DEF Down, Working
    <2>6. StringIn(d, string[p])
      <3>1. CASE op = c.op
        BY <1>1, <2>2, <2>5, <3>1, SameString
      <3>2. CASE op = "readfile"
        BY <1>1, <1>5, <2>2, <3>2, OtherString
      <3> QED
        BY <3>1, <3>2
    <2> QED
      BY <1>5, <2>2, <2>4, <2>6, GoesMoves DEF d
  <1>6. ASSUME NEW ret \in Int, Return(p, ret), ~Down(c)
        PROVE  Moves(p, F, C) /\ call'[p].pc # "store"
    BY <1>3, <1>6, ReturnMoves DEF c
  <1>7. CASE c.then = "opened" /\ is /\ Goes(p, Asks(c, c.f, "dirhandle"))
    BY <1>4, <1>7
  <1>8. CASE c.then = "opened" /\ ~is /\ Return(p, -2)
    BY <1>2, <1>6, <1>8
  <1>9. CASE c.then = "entry" /\ Goes(p, Asks(c, c.f, IF is THEN "dirhandle" ELSE "filehandle"))
    BY <1>4, <1>9
  <1>10. CASE c.then = "dirhandle" /\ is /\ Goes(p, Creates(c, c.op))
    <2>1. c.op = "readfile" => c.op \in {"read", "readfile"}
      OBVIOUS
    <2> QED
      BY <1>5, <1>10, <2>1
  <1>11. CASE c.then = "filehandle" /\ ~is /\ Goes(p, Creates(c, "readfile"))
    BY <1>2, <1>5, <1>11
  <1>12. CASE c.then = "dirhandle" /\ ~is /\ Return(p, -3)
    BY <1>2, <1>6, <1>12
  <1>13. CASE c.then = "filehandle" /\ is /\ Return(p, -3)
    BY <1>2, <1>6, <1>13
  <1>14. CASE c.then = "browse" /\ is /\ Goes(p, [c EXCEPT !.pc = "size"])
    <2> DEFINE d == [c EXCEPT !.pc = "size"]
    <2>0. "size" \in Pcs
      BY DEF Pcs
    <2>1. /\ d \in CallRecord /\ SameWork(d, c)
          /\ d.pc = "size" /\ d.f = c.f /\ d.then = c.then /\ d.back = c.back
      BY <1>1, <2>0, GoesOnHolds, Zenon
    <2>2. Goes(p, d)
      BY <1>14
    <2> HIDE DEF d
    <2>3. IsThere(F, C, c.dir) /\ c.dir \in PointersOf(F)
      BY <1>2, <1>14 DEF c
    <2>4. d.dir = c.dir /\ d.op = c.op /\ d.path = c.path /\ d.rest = c.rest
      BY <2>1 DEF SameWork
    <2>5. CallIn(F, C, d)
      BY <2>1, <2>3, <2>4 DEF CallIn, HasDir, Working
    <2>6. Down(d) /\ Down(c)
      BY <1>2, <1>14, <2>1 DEF Down
    <2>7. StringIn(d, string[p])
      BY <1>1, <2>4, <2>6, SameString
    <2> QED
      BY <2>1, <2>2, <2>5, <2>7, GoesMoves
  <1>15. CASE c.then = "browse" /\ ~is /\ Over(p)
    BY <1>2, <1>15, OverMoves DEF c
  <1> QED
    BY <1>7, <1>8, <1>9, <1>10, <1>11, <1>12, <1>13, <1>14, <1>15 DEF Answer, c

LEMMA OpenedMoves ==
    ASSUME IInv, NEW p \in Procs, NEW F, NEW C, PointersOf(file) \subseteq PointersOf(F),
           TreeIn(F), NEW ok \in BOOLEAN, Opened(p, ok),
           call[p].pc = "content" \/ (call[p].pc = "inode" /\ call[p].back = "content")
    PROVE  Moves(p, F, C) /\ call'[p].pc # "store"
  <1> DEFINE c == call[p]
  <1>1. c \in CallRecord /\ CallIn(file, cleared, c) /\ StringIn(c, string[p])
    BY CallFacts
  <1>2. /\ c.f \in PointersOf(F)
        /\ Down(c) => c.f = c.dir
        /\ Down(c) <=> c.then \in {"none", "down", "browse"}
        /\ c.back = "cache" => c.then \in {"none", "down", "browse"}
    BY <1>1 DEF CallIn, Working, Down
  <1>3. NoCall.pc # "store"
    BY NoCallHolds
  <1> HIDE DEF c
  <1>4. ASSUME NEW then \in {"opened", "browse"}, Goes(p, Asks(c, c.f, then)),
               then = "opened" => c.then = "last", then = "browse" => c.then = "browse"
        PROVE  Moves(p, F, C) /\ call'[p].pc # "store"
    <2> DEFINE d == Asks(c, c.f, then)
    <2>1. then \in Thens \ {"none"}
      BY DEF Thens
    <2>2. /\ d \in CallRecord /\ CallIn(F, C, d) /\ SameWork(d, c) /\ d.pc # "store"
          /\ Down(d) <=> then \in {"down", "browse"}
      BY <1>1, <1>2, <1>4, <2>1, WorksIn
    <2> HIDE DEF d
    <2>3. Down(d) <=> Down(c)
      BY <1>2, <1>4, <2>2
    <2>4. StringIn(d, string[p])
      BY <1>1, <2>2, <2>3, SameString DEF SameWork
    <2> QED
      BY <1>4, <2>2, <2>4, GoesMoves DEF d
  <1>5. CASE c.then = "last" /\ ok /\ Goes(p, Asks(c, c.f, "opened"))
    BY <1>4, <1>5
  <1>6. CASE c.then = "down" /\ ok /\ Goes(p, [c EXCEPT !.pc = "cache"])
    <2> DEFINE d == [c EXCEPT !.pc = "cache"]
    <2>0. "cache" \in Pcs
      BY DEF Pcs
    <2>1. /\ d \in CallRecord /\ SameWork(d, c)
          /\ d.pc = "cache" /\ d.f = c.f /\ d.then = c.then /\ d.back = c.back
      BY <1>1, <2>0, GoesOnHolds, Zenon
    <2>2. Goes(p, d)
      BY <1>6
    <2> HIDE DEF d
    <2>3. c.dir \in PointersOf(F)
      BY <1>2, <1>6
    <2>4. d.dir = c.dir /\ d.op = c.op /\ d.path = c.path /\ d.rest = c.rest
      BY <2>1 DEF SameWork
    <2>5. CallIn(F, C, d)
      BY <1>6, <2>1, <2>3, <2>4 DEF CallIn, HasDir, Working
    <2>6. Down(d) /\ Down(c)
      BY <1>2, <1>6, <2>1 DEF Down
    <2>7. StringIn(d, string[p])
      BY <1>1, <2>4, <2>6, SameString
    <2> QED
      BY <2>1, <2>2, <2>5, <2>7, GoesMoves
  <1>7. CASE c.then = "browse" /\ ok /\ Goes(p, Asks(c, c.f, "browse"))
    BY <1>4, <1>7
  <1>8. CASE c.then \in {"last", "down"} /\ ~ok /\ Return(p, -1)
    BY <1>3, <1>8, ReturnMoves DEF c
  <1>9. CASE c.then = "browse" /\ ~ok /\ Over(p)
    BY <1>2, <1>9, OverMoves DEF c
  <1> QED
    BY <1>5, <1>6, <1>7, <1>8, <1>9 DEF Opened, c

-----------------------------------------------------------------------------
(* The actions.                                                            *)

LEMMA StillKeeps ==
    ASSUME IInv, NEW p \in Procs, UNCHANGED <<tree, handles, calls>>,
           Moves(p, file, cleared), call'[p].pc # "store"
    PROVE  IInv'
  <1>1. file' = file /\ cleared' = cleared /\ browsed' = browsed /\ raced' = raced
    BY DEF tree
  <1>2. TreeIn(file) /\ browsed \subseteq PointersOf(file) /\ raced \subseteq PointersOf(file)
    BY DEF IInv, Typed, Pointers, PointersOf
  <1>3. Grown(file, cleared, file', cleared') /\ TreeIn(file') /\ Moves(p, file', cleared')
    BY <1>1, <1>2, SameTree
  <1> QED
    BY <1>1, <1>2, <1>3, MovesKeep

LEMMA WalkEndKeeps ==
    ASSUME IInv, NEW p \in Procs, WalkEnd(p)
    PROVE  IInv'
  <1> DEFINE c == call[p]
             d == Asks(c, Root, "opened")
  <1>1. c \in CallRecord /\ CallIn(file, cleared, c) /\ StringIn(c, string[p]) /\ TreeIn(file)
    BY CallFacts
  <1>2. c.pc = "walk" /\ UNCHANGED <<tree, handles, calls>>
    BY DEF WalkEnd, At
  <1>3. c.back = "none" /\ ~Down(c)
    BY <1>1, <1>2 DEF CallIn, Down, Working
  <1>4. ASSUME Goes(p, d)
        PROVE  Moves(p, file, cleared) /\ call'[p].pc # "store"
    <2>1. Root \in PointersOf(file) /\ "opened" \in Thens \ {"none"}
      BY <1>1 DEF TreeIn, Thens
    <2>2. /\ d \in CallRecord /\ CallIn(file, cleared, d) /\ SameWork(d, c) /\ d.pc # "store"
          /\ ~Down(d)
      BY <1>1, <1>3, <2>1, WorksIn
    <2> HIDE DEF d, c
    <2>3. StringIn(d, string[p])
      BY <1>1, <1>3, <2>2, SameString DEF SameWork
    <2> QED
      BY <1>4, <2>2, <2>3, GoesMoves
  <1>5. ASSUME NEW ret \in {-2, -3}, Return(p, ret)
        PROVE  Moves(p, file, cleared) /\ call'[p].pc # "store"
    BY <1>3, <1>5, NoCallHolds, ReturnMoves
  <1>6. Moves(p, file, cleared) /\ call'[p].pc # "store"
    BY <1>4, <1>5 DEF WalkEnd
  <1> QED
    BY <1>2, <1>6, StillKeeps

LEMMA WalkLastKeeps ==
    ASSUME IInv, NEW p \in Procs, WalkLast(p)
    PROVE  IInv'
  <1> DEFINE c == call[p]
             f == IsCached(c.dir, Head(c.rest))
  <1>1. c \in CallRecord /\ CallIn(file, cleared, c) /\ StringIn(c, string[p]) /\ TreeIn(file)
    BY CallFacts
  <1>2. c.pc = "walk" /\ UNCHANGED <<tree, handles, calls>>
    BY DEF WalkLast, At
  <1>3. c.back = "none" /\ ~Down(c) /\ c.dir \in PointersOf(file)
    BY <1>1, <1>2 DEF CallIn, Down, Working, HasDir
  <1>4. f \in {NULL} \cup PointersOf(file)
    BY <1>1, <1>3, IsCachedHolds DEF Pointers, PointersOf
  <1>5. IF f = NULL THEN Return(p, -1)
        ELSE IF file[f].opened THEN Goes(p, Asks(c, f, "opened")) ELSE Goes(p, Opens(c, f, "last"))
    BY DEF WalkLast
  <1> HIDE DEF f, c
  <1>6. ASSUME f # NULL, NEW then \in {"opened", "last"},
               NEW d \in {Asks(c, f, then), Opens(c, f, then)}, Goes(p, d)
        PROVE  Moves(p, file, cleared) /\ call'[p].pc # "store"
    <2>1. f \in PointersOf(file) /\ then \in Thens \ {"none"}
      BY <1>4, <1>6 DEF Thens
    <2>2. /\ d \in CallRecord /\ CallIn(file, cleared, d) /\ SameWork(d, c) /\ d.pc # "store"
          /\ ~Down(d)
      BY <1>1, <1>3, <2>1, WorksIn
    <2>3. StringIn(d, string[p])
      BY <1>1, <1>3, <2>2, SameString DEF SameWork
    <2> QED
      BY <1>6, <2>2, <2>3, GoesMoves
  <1>7. CASE f = NULL
    <2>1. Return(p, -1)
      BY <1>5, <1>7
    <2>2. Moves(p, file, cleared) /\ call'[p].pc # "store"
      BY <2>1, NoCallHolds, ReturnMoves
    <2> QED
      BY <1>2, <2>2, StillKeeps
  <1>8. CASE f # NULL
    BY <1>2, <1>5, <1>6, <1>8, StillKeeps
  <1> QED
    BY <1>7, <1>8

LEMMA WalkDotsKeeps ==
    ASSUME IInv, NEW p \in Procs, WalkDots(p)
    PROVE  IInv'
  <1> DEFINE c == call[p]
             dir == IF Head(c.rest) = ".." THEN DotDot(c.dir) ELSE c.dir
             d == [c EXCEPT !.rest = Tail(@), !.dir = dir]
  <1>1. /\ c \in CallRecord /\ CallIn(file, cleared, c) /\ StringIn(c, string[p]) /\ TreeIn(file)
        /\ call \in [Procs -> CallRecord] /\ string \in [Procs -> StringRecord]
        /\ currentDirectory \in [Procs -> Nat] /\ currentDirectory[p] \in PointersOf(file)
        /\ c.path \in PathRecord /\ c.rest \in Seq(STRING)
    BY CallFacts
  <1>2. /\ c.pc = "walk" /\ c.rest # <<>>
        /\ call' = [call EXCEPT ![p] = d]
        /\ string' = [string EXCEPT ![p].now = c.path]
        /\ currentDirectory' = currentDirectory
        /\ UNCHANGED <<tree, handles, calls>>
    BY DEF WalkDots, At, Goto, PutBack, local
  <1>3. /\ c.back = "none" /\ ~Down(c) /\ c.dir \in PointersOf(file) /\ c.then \in {"none", "down"}
        /\ c.op = "open"
    BY <1>1, <1>2 DEF CallIn, Down, Working, HasDir
  <1>4. dir \in PointersOf(file) /\ dir \in Nat
    BY <1>1, <1>3, TreeTyped DEF DotDot, PointersOf
  <1> HIDE DEF dir
  <1>5. /\ d \in CallRecord /\ d.op = c.op /\ d.path = c.path /\ d.pc = "walk"
        /\ d.rest = Tail(c.rest) /\ d.dir = dir /\ d.then = c.then /\ d.back = "none"
    BY <1>1, <1>2, <1>3, <1>4, TurnHolds, Zenon
  <1> HIDE DEF d
  <1>6. CallIn(file, cleared, d) /\ ~Down(d)
    BY <1>3, <1>4, <1>5 DEF CallIn, HasDir, Working, Down
  <1>7. /\ call' \in [Procs -> CallRecord] /\ call'[p] = d
        /\ \A q \in Procs \ {p} : call'[q] = call[q]
    BY <1>1, <1>2, <1>5
  <1>8. /\ string' \in [Procs -> StringRecord]
        /\ \A q \in Procs \ {p} : string'[q] = string[q]
        /\ string'[p].now = c.path /\ string'[p].refused = string[p].refused
        /\ string'[p].wrote = string[p].wrote
        /\ string'[p] \in StringRecord
    BY <1>1, <1>2, Zenon DEF StringRecord
  <1> HIDE DEF c
  <1>9. Len(d.rest) <= Len(c.rest)
    <2>1. Len(Tail(c.rest)) = Len(c.rest) - 1 /\ Len(c.rest) \in Nat
      BY <1>1, <1>2, HeadTailProperties
    <2> QED
      BY <1>5, <2>1
  <1>10. StringIn(d, string'[p])
    <2>1. /\ c.path = string[p].wrote \/ string[p].refused
          /\ IsCut(c.path, string[p].wrote)
          /\ Len(c.rest) <= Len(c.path.comps)
      BY <1>1, <1>3 DEF StringIn
    <2>2. c.path.comps \in Seq(STRING)
      BY <1>1, Zenon DEF PathRecord
    <2>3. Len(c.path.comps) \in Nat /\ Len(c.rest) \in Nat /\ Len(d.rest) \in Nat
      <3>1. d.rest \in Seq(STRING)
        BY <1>1, <1>2, <1>5, HeadTailProperties
      <3> QED
        BY <1>1, <2>2, <3>1
    <2>4. Len(d.rest) <= Len(c.path.comps)
      BY <1>9, <2>1, <2>3
    <2> QED
      BY <1>3, <1>5, <1>6, <1>8, <2>1, <2>4 DEF StringIn
  <1>11. Moves(p, file, cleared) /\ call'[p].pc # "store"
    BY <1>1, <1>2, <1>5, <1>6, <1>7, <1>8, <1>10 DEF Moves
  <1> QED
    BY <1>2, <1>11, StillKeeps

LEMMA WalkDownKeeps ==
    ASSUME IInv, NEW p \in Procs, WalkDown(p)
    PROVE  IInv'
  <1> DEFINE c == call[p]
             f == IsCached(c.dir, Head(c.rest))
             e == [c EXCEPT !.dir = f]
             d == IF f = NULL THEN NoCall
                  ELSE IF file[f].opened THEN [e EXCEPT !.pc = "cache"] ELSE Opens(e, f, "down")
             cut == CutPath(p)
             bad == string[p].refused \/ f = NULL
  <1>1. /\ c \in CallRecord /\ CallIn(file, cleared, c) /\ StringIn(c, string[p]) /\ TreeIn(file)
        /\ call \in [Procs -> CallRecord] /\ string \in [Procs -> StringRecord]
        /\ currentDirectory \in [Procs -> Nat] /\ currentDirectory[p] \in PointersOf(file)
        /\ c.path \in PathRecord /\ c.rest \in Seq(STRING)
        /\ string[p] \in StringRecord /\ string[p].wrote \in PathRecord
    BY CallFacts
  <1>2. /\ c.pc = "walk" /\ c.rest # <<>>
        /\ call' = [call EXCEPT ![p] = d]
        /\ string' = [string EXCEPT ![p].now = cut,
                                    ![p].refused = string[p].refused \/ f = NULL]
        /\ currentDirectory' = currentDirectory
        /\ UNCHANGED <<tree, handles, calls>>
    BY DEF WalkDown, At, Goto, local
  <1>3. /\ c.back = "none" /\ ~Down(c) /\ c.dir \in PointersOf(file)
        /\ c.then \in {"none", "down"} /\ c.op = "open"
    BY <1>1, <1>2 DEF CallIn, Down, Working, HasDir
  <1>4. f \in {NULL} \cup PointersOf(file) /\ f \in Nat
    <2>1. f \in {NULL} \cup PointersOf(file)
      BY <1>1, <1>3, IsCachedHolds DEF Pointers, PointersOf
    <2> QED
      BY <2>1, <1>1, TreeTyped DEF NULL, PointersOf
  <1>5. /\ c.path = string[p].wrote \/ string[p].refused
        /\ IsCut(c.path, string[p].wrote)
        /\ Len(c.rest) <= Len(c.path.comps)
    BY <1>1, <1>3 DEF StringIn
  <1>6. cut \in PathRecord /\ IsCut(cut, c.path) /\ IsCut(cut, string[p].wrote)
    <2>1. cut \in PathRecord /\ IsCut(cut, c.path)
      BY <1>1, <1>2, <1>5, CutPathHolds
    <2> QED
      BY <1>1, <1>5, <2>1, CutTrans
  <1>7. /\ string' \in [Procs -> StringRecord]
        /\ \A q \in Procs \ {p} : string'[q] = string[q]
        /\ string'[p].now = cut /\ string'[p].refused = bad
        /\ string'[p].wrote = string[p].wrote
        /\ string'[p] \in StringRecord
    <2>1. string' = [string EXCEPT ![p].now = cut, ![p].refused = bad]
      BY <1>2
    <2>2. bad \in BOOLEAN
      OBVIOUS
    <2> HIDE DEF bad, cut
    <2> QED
      BY <1>1, <1>6, <2>1, <2>2, Zenon DEF StringRecord
  <1>8. bad = (string[p].refused \/ f = NULL)
    OBVIOUS
  <1> HIDE DEF bad, cut, f
  <1>9. CASE f = NULL
    <2>1. d = NoCall
      BY <1>9
    <2> HIDE DEF d
    <2>2. /\ call' \in [Procs -> CallRecord] /\ call'[p] = NoCall
          /\ \A q \in Procs \ {p} : call'[q] = call[q]
      BY <1>1, <1>2, <2>1, NoCallHolds
    <2>3. string'[p].refused
      BY <1>7, <1>8, <1>9
    <2>4. StringIn(NoCall, string'[p])
      BY <1>6, <1>7, <2>3, NoCallHolds DEF StringIn
    <2>5. Moves(p, file, cleared) /\ call'[p].pc # "store"
      BY <1>1, <1>2, <1>7, <2>2, <2>4, NoCallIn, NoCallHolds DEF Moves
    <2> QED
      BY <1>2, <2>5, StillKeeps
  <1>10. CASE f # NULL
    <2>1. f \in PointersOf(file)
      BY <1>4, <1>10
    <2>2. /\ e \in CallRecord /\ e.op = c.op /\ e.path = c.path /\ e.pc = c.pc
          /\ e.rest = c.rest /\ e.dir = f /\ e.then = c.then /\ e.back = c.back
      BY <1>1, <1>4, DownToHolds, Zenon
    <2>3. d = IF file[f].opened THEN [e EXCEPT !.pc = "cache"] ELSE Opens(e, f, "down")
      BY <1>10
    <2> HIDE DEF e, d
    <2>4. /\ d \in CallRecord /\ CallIn(file, cleared, d) /\ Down(d) /\ d.pc # "store"
          /\ d.op = "open" /\ d.path = c.path /\ d.rest = c.rest
      <3>1. CASE file[f].opened
        <4>1. "cache" \in Pcs
          BY DEF Pcs
        <4>2. d = [e EXCEPT !.pc = "cache"]
          BY <2>3, <3>1
        <4>3. /\ d \in CallRecord /\ SameWork(d, e)
              /\ d.pc = "cache" /\ d.f = e.f /\ d.then = e.then /\ d.back = e.back
          BY <2>2, <4>1, <4>2, GoesOnHolds, Zenon
        <4>4. d.op = "open" /\ d.path = c.path /\ d.rest = c.rest /\ d.dir = f
          BY <1>3, <2>2, <4>3 DEF SameWork
        <4>5. CallIn(file, cleared, d)
          BY <1>3, <2>1, <2>2, <4>3, <4>4 DEF CallIn, HasDir, Working
        <4> QED
          BY <4>3, <4>4, <4>5 DEF Down
      <3>2. CASE ~file[f].opened
        <4>1. d = Opens(e, f, "down") /\ "down" \in Thens \ {"none"}
          BY <2>3, <3>2 DEF Thens
        <4> DEFINE then == "down"
        <4>2. /\ then \in Thens \ {"none"} /\ then \notin {"entry", "filehandle"}
              /\ then \in {"down", "browse"} /\ d \in {Asks(e, f, then), Opens(e, f, then)}
              /\ e.back # "cache"
          BY <1>3, <2>2, <4>1
        <4> HIDE DEF then
        <4>3. /\ d \in CallRecord /\ CallIn(file, cleared, d) /\ SameWork(d, e)
              /\ d.pc # "store" /\ Down(d)
          <5>1. TreeIn(file) /\ e \in CallRecord /\ f = e.dir /\ e.back # "cache"
            BY <1>1, <2>2, <4>2
          <5>2. \A x \in {Asks(e, f, then), Opens(e, f, then)} :
                   /\ x \in CallRecord /\ CallIn(file, cleared, x) /\ SameWork(x, e)
                   /\ x.pc # "store" /\ (Down(x) <=> then \in {"down", "browse"})
            BY ONLY <2>1, <4>2, <5>1, WorksIn
          <5> QED
            BY <4>2, <5>2
        <4> QED
          BY <1>3, <2>2, <4>3 DEF SameWork
      <3> QED
        BY <3>1, <3>2
    <2>5. /\ call' \in [Procs -> CallRecord] /\ call'[p] = d
          /\ \A q \in Procs \ {p} : call'[q] = call[q]
      BY <1>1, <1>2, <2>4
    <2>6. string'[p].refused = string[p].refused
      <3>1. string[p].refused \in BOOLEAN
        BY <1>1, Zenon DEF StringRecord
      <3> QED
        BY <1>7, <1>8, <1>10, <3>1
    <2>7. StringIn(d, string'[p])
      BY <1>2, <1>5, <1>6, <1>7, <2>4, <2>6 DEF StringIn
    <2>8. Moves(p, file, cleared) /\ call'[p].pc # "store"
      BY <1>1, <1>2, <1>7, <2>4, <2>5, <2>7 DEF Moves
    <2> QED
      BY <1>2, <2>8, StillKeeps
  <1> QED
    BY <1>9, <1>10

LEMMA TestInodeKeeps ==
    ASSUME IInv, NEW p \in Procs, NEW pc, NEW use, TestInode(p, pc, use),
           pc \in {"open", "isdir"}, use \in {"content", "mode"}
    PROVE  IInv'
  <1> DEFINE c == call[p]
             e == [c EXCEPT !.pc = use]
             d == IF HasInode(c.f) THEN e ELSE Reads(c, use)
  <1>1. c \in CallRecord /\ CallIn(file, cleared, c) /\ StringIn(c, string[p]) /\ TreeIn(file)
    BY CallFacts
  <1>2. c.pc = pc /\ Goes(p, d) /\ UNCHANGED <<tree, handles, calls>>
    BY DEF TestInode, At
  <1>3. /\ c.f \in PointersOf(file) /\ (Down(c) => c.f = c.dir)
        /\ c.then \in {"entry", "filehandle"} => c.op = "read"
        /\ c.back = "cache" => c.then \in {"none", "down", "browse"}
        /\ c.then # "none"
        /\ Down(c) <=> c.then \in {"down", "browse"}
    BY <1>1, <1>2 DEF CallIn, Working, Down
  <1>4. use \in Pcs /\ use \in Backs
    BY DEF Pcs, Backs
  <1>5. CASE HasInode(c.f)
    <2>1. d = e
      BY <1>5
    <2>2. /\ e \in CallRecord /\ SameWork(e, c)
          /\ e.pc = use /\ e.f = c.f /\ e.then = c.then /\ e.back = c.back
      BY <1>1, <1>4, GoesOnHolds, Zenon
    <2>3. IsThere(file, cleared, c.f)
      BY <1>5 DEF IsThere, HasInode
    <2> HIDE DEF e, d, c
    <2>4. e.op = c.op /\ e.path = c.path /\ e.rest = c.rest /\ e.dir = c.dir
      BY <2>2 DEF SameWork
    <2>5. Down(e) <=> Down(c)
      BY <1>3, <2>2 DEF Down, Working
    <2>6. CallIn(file, cleared, e)
      BY <1>3, <2>2, <2>3, <2>4, <2>5 DEF CallIn, HasDir, Working
    <2>7. StringIn(e, string[p])
      BY <1>1, <2>4, <2>5, SameString
    <2>8. Moves(p, file, cleared) /\ call'[p].pc # "store"
      BY <1>2, <2>1, <2>2, <2>6, <2>7, GoesMoves
    <2> QED
      BY <1>2, <2>8, StillKeeps
  <1>6. CASE ~HasInode(c.f)
    <2>1. d = Reads(c, use)
      BY <1>6
    <2> HIDE DEF d, c
    <2>2. /\ d \in CallRecord /\ SameWork(d, c)
          /\ d.pc = "clear" /\ d.f = c.f /\ d.then = c.then /\ d.back = use
      BY <1>1, <1>4, <2>1, ReadsHolds
    <2>3. d.op = c.op /\ d.path = c.path /\ d.rest = c.rest /\ d.dir = c.dir
      BY <2>2 DEF SameWork
    <2>4. Down(d) <=> Down(c)
      BY <1>3, <2>2 DEF Down, Working
    <2>5. CallIn(file, cleared, d)
      BY <1>3, <2>2, <2>3, <2>4 DEF CallIn, HasDir, Working
    <2>6. StringIn(d, string[p])
      BY <1>1, <2>3, <2>4, SameString
    <2>7. Moves(p, file, cleared) /\ call'[p].pc # "store"
      BY <1>2, <2>2, <2>5, <2>6, GoesMoves
    <2> QED
      BY <1>2, <2>7, StillKeeps
  <1> QED
    BY <1>5, <1>6

\* What the steps that change one file start from.
LEMMA TreeKeeps ==
    ASSUME IInv, NEW p \in Procs, TreeIn(file'), Len(file) <= Len(file'),
           Grown(file, cleared, file', cleared'),
           Moves(p, file', cleared'), call'[p].pc # "store",
           UNCHANGED <<handles, calls, browsed, raced>>
    PROVE  IInv'
  <1>1. browsed \subseteq PointersOf(file) /\ raced \subseteq PointersOf(file) /\ TreeIn(file)
    BY DEF IInv, Typed, Pointers, PointersOf
  <1>2. PointersOf(file) \subseteq PointersOf(file')
    <2>1. Len(file) \in Nat /\ Len(file') \in Nat
      BY <1>1, TreeTyped
    <2> QED
      BY <2>1 DEF PointersOf
  <1> QED
    BY <1>1, <1>2, MovesKeep

LEMMA ClearInodeKeeps ==
    ASSUME IInv, NEW p \in Procs, ClearInode(p)
    PROVE  IInv'
  <1> DEFINE c == call[p]
             d == [c EXCEPT !.pc = "inode"]
  <1>1. c \in CallRecord /\ CallIn(file, cleared, c) /\ StringIn(c, string[p]) /\ TreeIn(file)
    BY CallFacts
  <1>2. /\ c.pc = "clear" /\ Goes(p, d)
        /\ file' = [file EXCEPT ![c.f].inode = FALSE]
        /\ cleared' = IF file[c.f].inode THEN cleared \cup {c.f} ELSE cleared
        /\ UNCHANGED <<handles, calls, browsed, raced>>
    BY DEF ClearInode, At
  <1>3. file' = WithInode(file, c.f, FALSE)
    BY <1>2 DEF WithInode
  <1>4. /\ c.f \in PointersOf(file) /\ (Down(c) => c.f = c.dir)
        /\ c.then \in {"entry", "filehandle"} => c.op = "read"
        /\ c.back = "cache" => c.then \in {"none", "down", "browse"}
        /\ c.then = "none" => c.back = "cache"
        /\ c.back # "none"
        /\ Down(c) <=> c.then \in {"none", "down", "browse"}
    BY <1>1, <1>2 DEF CallIn, Working, Down
  <1>5. "inode" \in Pcs
    BY DEF Pcs
  <1>6. /\ d \in CallRecord /\ SameWork(d, c)
        /\ d.pc = "inode" /\ d.f = c.f /\ d.then = c.then /\ d.back = c.back
    BY <1>1, <1>5, GoesOnHolds, Zenon
  <1> HIDE DEF d, c
  <1>7. d.op = c.op /\ d.path = c.path /\ d.rest = c.rest /\ d.dir = c.dir
    BY <1>6 DEF SameWork
  <1>8. Down(d) <=> Down(c)
    BY <1>4, <1>6 DEF Down, Working
  <1>9. CallIn(file, cleared, d)
    BY <1>4, <1>6, <1>7, <1>8 DEF CallIn, HasDir, Working
  <1>10. StringIn(d, string[p])
    BY <1>1, <1>7, <1>8, SameString
  <1>11. TreeIn(file') /\ Len(file') = Len(file) /\ Grown(file, cleared, file', cleared')
    <2>1. c.f \in 1..Len(file) /\ FALSE \in BOOLEAN
      BY <1>4 DEF PointersOf
    <2>2. cleared \subseteq cleared' /\ (file[c.f].inode => c.f \in cleared')
      BY <1>2
    <2> QED
      BY <1>1, <1>3, <2>1, <2>2, InodeTree
  <1>12. PointersOf(file) = PointersOf(file') /\ Len(file) <= Len(file')
    BY <1>1, <1>11, TreeTyped DEF PointersOf
  <1>13. CallIn(file', cleared', d)
    BY <1>1, <1>9, <1>11, CallGrows
  <1>14. Moves(p, file', cleared') /\ call'[p].pc # "store"
    BY <1>2, <1>6, <1>10, <1>12, <1>13, GoesMoves
  <1> QED
    BY <1>2, <1>11, <1>12, <1>14, TreeKeeps

\* BrowseAndCacheDirectory goes on.
LEMMA CachedIn ==
    ASSUME NEW F, NEW C, TreeIn(F), NEW c \in CallRecord, NEW s, StringIn(c, s),
           c.dir \in PointersOf(F), Down(c)
    PROVE  CallIn(F, C, Cached(c)) /\ StringIn(Cached(c), s) /\ Cached(c).pc # "store"
  <1> DEFINE d == Cached(c)
             then == "browse"
  <1>1. d \in {Asks(c, c.dir, then), Opens(c, c.dir, then)}
    BY DEF Cached
  <1>2. /\ then \in Thens \ {"none"} /\ then \notin {"entry", "filehandle"}
        /\ then \in {"down", "browse"}
    BY DEF Thens
  <1> HIDE DEF d, then
  <1>3. d \in CallRecord /\ CallIn(F, C, d) /\ SameWork(d, c) /\ d.pc # "store" /\ Down(d)
    BY <1>1, <1>2, WorksIn
  <1>4. StringIn(d, s)
    BY <1>3, SameString DEF SameWork
  <1> QED
    BY <1>3, <1>4 DEF d

LEMMA ReadInodeKeeps ==
    ASSUME IInv, NEW p \in Procs, NEW ok \in BOOLEAN, ReadInode(p, ok)
    PROVE  IInv'
  <1> DEFINE c == call[p]
             v == file[c.f].inode \/ ok
  <1>1. c \in CallRecord /\ CallIn(file, cleared, c) /\ StringIn(c, string[p]) /\ TreeIn(file)
    BY CallFacts
  <1>2. /\ c.pc = "inode"
        /\ file' = [file EXCEPT ![c.f].inode = file[c.f].inode \/ ok]
        /\ cleared' = cleared
        /\ UNCHANGED <<handles, calls, browsed, raced>>
    BY DEF ReadInode, At
  <1>3. /\ c.f \in PointersOf(file) /\ (Down(c) => c.f = c.dir)
        /\ c.then \in {"entry", "filehandle"} => c.op = "read"
        /\ c.back = "cache" => c.then \in {"none", "down", "browse"}
        /\ c.then = "none" => c.back = "cache"
        /\ c.back # "none"
        /\ Down(c) <=> c.then \in {"none", "down", "browse"}
    BY <1>1, <1>2 DEF CallIn, Working, Down
  <1>4. file' = WithInode(file, c.f, v)
    BY <1>2 DEF WithInode
  <1>5. v \in BOOLEAN /\ (file[c.f].inode => v) /\ (ok => v)
    OBVIOUS
  <1> HIDE DEF v
  <1>6. /\ TreeIn(file') /\ Len(file') = Len(file) /\ file'[c.f].inode = v
        /\ Grown(file, cleared, file', cleared')
    <2>1. c.f \in 1..Len(file)
      BY <1>3 DEF PointersOf
    <2>2. cleared \subseteq cleared'
      BY <1>2
    <2> QED
      BY <1>1, <1>4, <1>5, <2>1, <2>2, InodeTree
  <1>7. PointersOf(file) = PointersOf(file') /\ Len(file) <= Len(file')
    BY <1>1, <1>6, TreeTyped DEF PointersOf
  <1> SUFFICES Moves(p, file', cleared') /\ call'[p].pc # "store"
    BY <1>2, <1>6, <1>7, TreeKeeps
  <1>8. CASE ok /\ c.back = "cache" /\ Goes(p, Cached(c))
    <2>1. Down(c) /\ c.dir \in PointersOf(file')
      BY <1>3, <1>7, <1>8
    <2> DEFINE d == Cached(c)
    <2>2. CallIn(file', cleared', d) /\ StringIn(d, string[p]) /\ d.pc # "store"
      BY <1>1, <1>6, <2>1, CachedIn
    <2> HIDE DEF d
    <2> QED
      BY <1>7, <1>8, <2>2, GoesMoves DEF d
  <1>9. CASE ok /\ c.back # "cache" /\ Goes(p, [c EXCEPT !.pc = c.back, !.back = "none"])
    <2> DEFINE pc == c.back
               d == [c EXCEPT !.pc = pc, !.back = "none"]
    <2>1. pc \in Pcs /\ pc \in {"content", "mode"}
      <3>1. c.back \in Backs
        BY <1>1, Zenon DEF CallRecord
      <3> QED
        BY <1>3, <1>9, <3>1 DEF Backs, Pcs
    <2>2. Goes(p, d)
      BY <1>9
    <2> HIDE DEF pc
    <2>3. /\ d \in CallRecord /\ SameWork(d, c)
          /\ d.pc = pc /\ d.f = c.f /\ d.then = c.then /\ d.back = "none"
      BY <1>1, <2>1, GoesBackHolds, Zenon
    <2> HIDE DEF d
    <2>4. d.op = c.op /\ d.path = c.path /\ d.rest = c.rest /\ d.dir = c.dir
      BY <2>3 DEF SameWork
    <2>5. IsThere(file', cleared', c.f)
      BY <1>5, <1>6, <1>9 DEF IsThere
    <2>6. Down(d) <=> Down(c)
      BY <1>3, <2>1, <2>3 DEF Down, Working
    <2> HIDE DEF c
    <2>7. CallIn(file', cleared', d)
      BY <1>3, <1>7, <1>9, <2>1, <2>3, <2>4, <2>5, <2>6 DEF CallIn, HasDir, Working
    <2>8. StringIn(d, string[p])
      BY <1>1, <2>4, <2>6, SameString
    <2> QED
      BY <1>7, <2>1, <2>2, <2>3, <2>7, <2>8, GoesMoves
  <1>10. CASE ~ok /\ c.back = "content" /\ Opened(p, FALSE)
    BY <1>2, <1>6, <1>7, <1>10, OpenedMoves
  <1>11. CASE ~ok /\ c.back = "mode" /\ Answer(p, FALSE)
    BY <1>2, <1>6, <1>7, <1>11, AnswerMoves
  <1>12. CASE ~ok /\ c.back = "cache" /\ Over(p)
    BY <1>3, <1>7, <1>12, OverMoves
  <1> QED
    BY <1>8, <1>9, <1>10, <1>11, <1>12 DEF ReadInode

LEMMA ReadContentKeeps ==
    ASSUME IInv, NEW p \in Procs, NEW ok \in BOOLEAN, ReadContent(p, ok)
    PROVE  IInv'
  <1> DEFINE c == call[p]
             done == ok /\ file[c.f].inode
             v == file[c.f].opened \/ done
  <1>1. CallIn(file, cleared, c) /\ TreeIn(file)
    BY CallFacts
  <1>2. /\ c.pc = "content" /\ Opened(p, done)
        /\ file' = [file EXCEPT ![c.f].opened = file[c.f].opened \/ done]
        /\ cleared' = cleared
        /\ UNCHANGED <<handles, calls, browsed, raced>>
    BY DEF ReadContent, At
  <1>3. c.f \in PointersOf(file)
    BY <1>1, <1>2 DEF CallIn, Working
  <1>4. file' = WithOpened(file, c.f, v)
    BY <1>2 DEF WithOpened
  <1>5. v \in BOOLEAN /\ done \in BOOLEAN
    OBVIOUS
  <1> HIDE DEF v, done
  <1>6. /\ TreeIn(file') /\ Len(file') = Len(file)
        /\ Grown(file, cleared, file', cleared')
    <2>1. c.f \in 1..Len(file)
      BY <1>3 DEF PointersOf
    <2>2. cleared' = cleared
      BY <1>2
    <2> QED
      BY <1>1, <1>4, <1>5, <2>1, <2>2, OpenedTree
  <1>7. PointersOf(file) = PointersOf(file') /\ Len(file) <= Len(file')
    BY <1>1, <1>6, TreeTyped DEF PointersOf
  <1>8. Moves(p, file', cleared') /\ call'[p].pc # "store"
    BY <1>2, <1>5, <1>6, <1>7, OpenedMoves
  <1> QED
    BY <1>2, <1>6, <1>7, <1>8, TreeKeeps

LEMMA ReadModeKeeps ==
    ASSUME IInv, NEW p \in Procs, ReadMode(p)
    PROVE  IInv'
  <1> DEFINE c == call[p]
  <1>1. CallIn(file, cleared, c) /\ TreeIn(file)
    BY CallFacts
  <1>2. c.pc = "mode" /\ UNCHANGED <<tree, handles, calls>>
    BY DEF ReadMode, At
  <1>3. IsThere(file, cleared, c.f)
    BY <1>1, <1>2 DEF CallIn
  <1>4. PICK is \in IF file[c.f].inode THEN {IsDir(file[c.f].inum)} ELSE BOOLEAN : Answer(p, is)
    BY DEF ReadMode
  <1>5. is \in BOOLEAN
    <2>1. IsDir(file[c.f].inum) \in BOOLEAN
      BY DEF IsDir
    <2>2. CASE file[c.f].inode
      <3>1. is = IsDir(file[c.f].inum)
        BY <1>4, <2>2, Zenon
      <3> QED
        BY <2>1, <3>1, Zenon
    <2>3. CASE ~file[c.f].inode
      BY <1>4, <2>3, Zenon
    <2> QED
      BY <2>2, <2>3
  <1>6. is => IsDirIn(file, cleared, c.f)
    BY <1>3, <1>4 DEF IsThere, IsDirIn, IsDir
  <1>7. Moves(p, file, cleared) /\ call'[p].pc # "store"
    BY <1>1, <1>2, <1>3, <1>4, <1>5, <1>6, AnswerMoves
  <1> QED
    BY <1>2, <1>7, StillKeeps

LEMMA BrowseStartKeeps ==
    ASSUME IInv, NEW p \in Procs, BrowseStart(p)
    PROVE  IInv'
  <1> DEFINE b == call[p]
             c == [b EXCEPT !.f = b.dir]
             d == IF HasInode(c.dir) THEN Cached(c) ELSE Reads(c, "cache")
  <1>1. /\ b \in CallRecord /\ CallIn(file, cleared, b) /\ StringIn(b, string[p])
        /\ TreeIn(file) /\ b.dir \in Nat
    BY CallFacts
  <1>2. b.pc = "cache" /\ Goes(p, d) /\ UNCHANGED <<tree, handles, calls>>
    BY DEF BrowseStart, At
  <1>3. b.dir \in PointersOf(file) /\ b.then \in {"none", "down"} /\ Down(b)
    BY <1>1, <1>2 DEF CallIn, HasDir, Down
  <1>4. /\ c \in CallRecord /\ SameWork(c, b) /\ c.pc = b.pc
        /\ c.f = b.dir /\ c.then = b.then /\ c.back = b.back
    BY <1>1, WorksOnHolds, Zenon
  <1>5. c.dir = b.dir /\ c.op = b.op /\ c.path = b.path /\ c.rest = b.rest
    BY <1>4 DEF SameWork
  <1> HIDE DEF c, b
  <1>6. Down(c)
    BY <1>2, <1>4 DEF Down, b
  <1>7. StringIn(c, string[p])
    BY <1>1, <1>3, <1>5, <1>6, SameString DEF b
  <1>8. CASE HasInode(c.dir)
    <2>1. d = Cached(c)
      BY <1>8
    <2>2. CallIn(file, cleared, d) /\ StringIn(d, string[p]) /\ d.pc # "store"
      BY <1>1, <1>3, <1>4, <1>5, <1>6, <1>7, <2>1, CachedIn
    <2> HIDE DEF d
    <2>3. Moves(p, file, cleared) /\ call'[p].pc # "store"
      BY <1>2, <2>2, GoesMoves
    <2> QED
      BY <1>2, <2>3, StillKeeps
  <1>9. CASE ~HasInode(c.dir)
    <2>1. d = Reads(c, "cache") /\ "cache" \in Backs
      BY <1>9 DEF Backs
    <2> HIDE DEF d
    <2>2. /\ d \in CallRecord /\ SameWork(d, c)
          /\ d.pc = "clear" /\ d.f = c.f /\ d.then = c.then /\ d.back = "cache"
      BY <1>4, <2>1, ReadsHolds
    <2>3. d.op = c.op /\ d.path = c.path /\ d.rest = c.rest /\ d.dir = c.dir
      BY <2>2 DEF SameWork
    <2>4. Down(d)
      BY <1>3, <1>4, <2>2 DEF Down, Working
    <2>5. CallIn(file, cleared, d)
      BY <1>3, <1>4, <1>5, <2>2, <2>3, <2>4 DEF CallIn, HasDir, Working
    <2>6. StringIn(d, string[p])
      BY <1>6, <1>7, <2>3, <2>4, SameString
    <2>7. Moves(p, file, cleared) /\ call'[p].pc # "store"
      BY <1>2, <2>2, <2>5, <2>6, GoesMoves
    <2> QED
      BY <1>2, <2>7, StillKeeps
  <1> QED
    BY <1>8, <1>9

LEMMA BrowseSizeKeeps ==
    ASSUME IInv, NEW p \in Procs, BrowseSize(p)
    PROVE  IInv'
  <1> DEFINE c == call[p]
             pc == IF file[c.dir].inode THEN "browse" ELSE "wild"
             d == [c EXCEPT !.pc = pc, !.i = 1, !.f = NULL, !.then = "none", !.back = "none"]
  <1>1. c \in CallRecord /\ CallIn(file, cleared, c) /\ StringIn(c, string[p]) /\ TreeIn(file)
    BY CallFacts
  <1>2. c.pc = "size" /\ Goes(p, d) /\ UNCHANGED <<tree, handles, calls>>
    BY DEF BrowseSize, At
  <1>3. c.dir \in PointersOf(file) /\ IsThere(file, cleared, c.dir) /\ Down(c)
    BY <1>1, <1>2 DEF CallIn, HasDir, Down
  <1>4. pc \in {"browse", "wild"} /\ (pc = "wild" => c.dir \in cleared)
    BY <1>3 DEF IsThere
  <1>5. pc \in Pcs
    BY <1>4 DEF Pcs
  <1> HIDE DEF pc
  <1>6. d \in CallRecord /\ SameWork(d, c) /\ d.pc = pc
    BY <1>1, <1>5, SizeHolds, Zenon
  <1> HIDE DEF d, c
  <1>7. d.op = c.op /\ d.path = c.path /\ d.rest = c.rest /\ d.dir = c.dir
    BY <1>6 DEF SameWork
  <1>8. Down(d)
    BY <1>4, <1>6 DEF Down
  <1>9. CallIn(file, cleared, d)
    BY <1>3, <1>4, <1>6, <1>7 DEF CallIn, HasDir, Working
  <1>10. StringIn(d, string[p])
    BY <1>1, <1>3, <1>7, <1>8, SameString
  <1>11. Moves(p, file, cleared) /\ call'[p].pc # "store"
    BY <1>2, <1>4, <1>6, <1>9, <1>10, GoesMoves
  <1> QED
    BY <1>2, <1>11, StillKeeps

\* An entry of a directory of the disk.
LEMMA EntryHolds ==
    ASSUME NEW inum, NEW i \in 1..Len(EntriesOf(inum))
    PROVE  LET entry == EntriesOf(inum)[i]
           IN  /\ entry.name \in Names /\ entry.inum \in Inodes
               /\ [name |-> entry.name, inum |-> entry.inum] \in DiskEntries(inum)
  <1> DEFINE entry == EntriesOf(inum)[i]
  <1>1. IsDir(inum)
    <2>1. CASE ~IsDir(inum)
      <3>1. EntriesOf(inum) = <<>>
        BY <2>1 DEF EntriesOf
      <3> QED
        BY <3>1
    <2> QED
      BY <2>1
  <1>2. inum \in DOMAIN Entries /\ EntriesOf(inum) = Entries[inum]
    BY <1>1 DEF EntriesOf, IsDir
  <1>3. Entries[inum] \in Seq([name : STRING, inum : Nat])
    BY <1>2, EntriesAssumption
  <1>4. i \in DOMAIN EntriesOf(inum) /\ entry \in [name : STRING, inum : Nat]
    <2>1. EntriesOf(inum) \in Seq([name : STRING, inum : Nat])
      BY <1>2, <1>3
    <2> QED
      BY <2>1, LenProperties, ElementOfSeq
  <1>5. entry \in DiskEntries(inum)
    BY <1>4 DEF DiskEntries
  <1>6. [name |-> entry.name, inum |-> entry.inum] = entry
    BY <1>4
  <1>7. entry.name \in Names /\ entry.inum \in Inodes
    BY <1>2, <1>5 DEF Names, Inodes
  <1> QED
    BY <1>5, <1>6, <1>7

LEMMA BrowseCheckKeeps ==
    ASSUME IInv, NEW p \in Procs, BrowseCheck(p)
    PROVE  IInv'
  <1> DEFINE c == call[p]
             entries == EntriesOf(file[c.dir].inum)
             r == NewFile(c.dir, entries[c.i])
             d == [c EXCEPT !.i = @ + 1]
             e == [c EXCEPT !.pc = "next", !.new = Len(file) + 1, !.seen = file[c.dir].leaf]
  <1>1. c \in CallRecord /\ CallIn(file, cleared, c) /\ StringIn(c, string[p]) /\ TreeIn(file)
    BY CallFacts
  <1>2. /\ c.pc = "browse" /\ c.i <= Len(entries)
        /\ UNCHANGED <<handles, local, calls, browsed, raced, cleared>>
        /\ \/ Goto(p, d) /\ file' = file
           \/ Goto(p, e) /\ file' = Append(file, r)
    BY DEF BrowseCheck, At, MoreEntries
  <1>3. c.dir \in PointersOf(file) /\ Down(c)
    BY <1>1, <1>2 DEF CallIn, HasDir, Down
  <1>4. CASE Goto(p, d) /\ file' = file
    <2>1. /\ d \in CallRecord /\ SameWork(d, c)
          /\ d.pc = c.pc /\ d.f = c.f /\ d.then = c.then /\ d.back = c.back
      BY <1>1, NextEntryHolds, Zenon
    <2>2. Goes(p, d)
      BY <1>2, <1>4 DEF Goes
    <2> HIDE DEF d, c
    <2>3. d.op = c.op /\ d.path = c.path /\ d.rest = c.rest /\ d.dir = c.dir
      BY <2>1 DEF SameWork
    <2>4. Down(d)
      BY <1>2, <2>1 DEF Down
    <2>5. CallIn(file, cleared, d)
      BY <1>2, <1>3, <2>1, <2>3 DEF CallIn, HasDir, Working
    <2>6. StringIn(d, string[p])
      BY <1>1, <1>3, <2>3, <2>4, SameString
    <2>7. Moves(p, file, cleared) /\ call'[p].pc # "store"
      BY <1>2, <2>1, <2>2, <2>5, <2>6, GoesMoves
    <2> QED
      BY <1>2, <1>4, <2>7, StillKeeps DEF tree
  <1>5. CASE Goto(p, e) /\ file' = Append(file, r)
    <2>1. Len(file) \in Nat /\ Len(file) + 1 \in Nat /\ file[c.dir].leaf \in Nat
      BY <1>1, <1>3, TreeTyped DEF PointersOf
    <2>2. /\ e \in CallRecord /\ e.op = c.op /\ e.path = c.path /\ e.rest = c.rest
          /\ e.dir = c.dir /\ e.pc = "next" /\ e.new = Len(file) + 1
      BY <1>1, <2>1, NewFileHolds, Zenon
    <2>3. Goes(p, e)
      BY <1>2, <1>5 DEF Goes
    <2> HIDE DEF e
    <2>4. c.i \in 1..Len(entries)
      <3>1. c.i \in Nat \ {0}
        BY <1>1, Zenon DEF CallRecord
      <3>2. Len(entries) \in Nat
        <4>1. entries = <<>> \/ entries \in Seq([name : STRING, inum : Nat])
          BY EntriesAssumption DEF EntriesOf, IsDir
        <4> QED
          BY <4>1
      <3> HIDE DEF entries, c
      <3> QED
        BY <1>2, <3>1, <3>2
    <2>5. /\ r.name = entries[c.i].name /\ r.inum = entries[c.i].inum
          /\ r.leaf = NULL /\ r.next = NULL /\ r.parent = c.dir
          /\ r.inode = FALSE /\ r.opened = FALSE
          /\ r = [inum |-> r.inum, name |-> r.name, inode |-> FALSE, opened |-> FALSE,
                  leaf |-> NULL, next |-> NULL, parent |-> c.dir]
      BY DEF NewFile
    <2>6. /\ r.name \in Names /\ r.inum \in Inodes
          /\ [name |-> r.name, inum |-> r.inum] \in DiskEntries(file[c.dir].inum)
      BY <2>4, <2>5, EntryHolds
    <2> HIDE DEF r, entries
    <2>7. r \in FileRecord
      <3>1. c.dir \in Nat /\ NULL \in Nat
        BY <1>1, CallFacts DEF NULL
      <3> QED
        BY <2>5, <2>6, <3>1 DEF FileRecord
    <2>8. c.dir \in 1..Len(file)
      BY <1>3 DEF PointersOf
    <2>9. /\ TreeIn(file') /\ Len(file') = Len(file) + 1
          /\ Len(file) + 1 # Root /\ file'[Len(file) + 1] = r
          /\ Grown(file, cleared, file', cleared)
      BY <1>1, <1>5, <2>5, <2>6, <2>7, <2>8, AppendTree
    <2>10. Len(file) + 1 \in PointersOf(file') /\ PointersOf(file) \subseteq PointersOf(file')
           /\ Len(file) <= Len(file')
      BY <2>1, <2>9 DEF PointersOf
    <2>11. CallIn(file', cleared', e)
      BY <1>3, <2>2, <2>5, <2>9, <2>10 DEF CallIn, HasDir, Working
    <2>12. StringIn(e, string[p])
      <3>1. Down(e)
        BY <2>2 DEF Down
      <3> QED
        BY <1>1, <1>3, <2>2, <3>1, SameString
    <2>13. Moves(p, file', cleared') /\ call'[p].pc # "store"
      BY <2>2, <2>3, <2>10, <2>11, <2>12, GoesMoves
    <2>14. cleared' = cleared /\ UNCHANGED <<handles, calls, browsed, raced>>
      BY <1>2
    <2> QED
      BY <2>9, <2>10, <2>13, <2>14, TreeKeeps
  <1> QED
    BY <1>2, <1>4, <1>5

LEMMA BrowseNextKeeps ==
    ASSUME IInv, NEW p \in Procs, BrowseNext(p)
    PROVE  IInv'
  <1> DEFINE c == call[p]
             d == [c EXCEPT !.pc = "leaf"]
             g == file[c.dir].leaf
  <1>1. c \in CallRecord /\ CallIn(file, cleared, c) /\ StringIn(c, string[p]) /\ TreeIn(file)
    BY CallFacts
  <1>2. /\ c.pc = "next" /\ Goes(p, d) /\ file' = WithNext(file, c.new, g)
        /\ UNCHANGED <<handles, calls, browsed, raced, cleared>>
    BY DEF BrowseNext, At, Goes, WithNext
  <1>3. /\ c.dir \in PointersOf(file) /\ Down(c)
        /\ c.new \in PointersOf(file) /\ file[c.new].parent = c.dir /\ c.new # Root
    BY <1>1, <1>2 DEF CallIn, HasDir, Down
  <1>4. "leaf" \in Pcs
    BY DEF Pcs
  <1>5. d \in CallRecord /\ SameWork(d, c) /\ d.pc = "leaf"
    BY <1>1, <1>4, GoesOnHolds, Zenon
  <1> HIDE DEF d, c
  <1>6. d.op = c.op /\ d.path = c.path /\ d.rest = c.rest /\ d.dir = c.dir /\ d.new = c.new
    BY <1>5 DEF SameWork
  <1>7. CallIn(file, cleared, d) /\ Down(d)
    BY <1>3, <1>5, <1>6 DEF CallIn, HasDir, Working, Down
  <1>8. StringIn(d, string[p])
    BY <1>1, <1>3, <1>6, <1>7, SameString
  <1>9. /\ g \in 0..Len(file) /\ c.new \in 1..Len(file)
        /\ g # NULL => file[g].parent = file[c.new].parent /\ g # Root
    BY <1>1, <1>3, TreeTyped DEF PointersOf, TreeIn
  <1> HIDE DEF g
  <1>10. TreeIn(file') /\ Len(file') = Len(file) /\ Grown(file, cleared, file', cleared')
    <2>1. cleared' = cleared
      BY <1>2
    <2> QED
      BY <1>1, <1>2, <1>9, <2>1, NextTree
  <1>11. PointersOf(file) = PointersOf(file') /\ Len(file) <= Len(file')
    BY <1>1, <1>10, TreeTyped DEF PointersOf
  <1>12. CallIn(file', cleared', d)
    BY <1>1, <1>7, <1>10, CallGrows
  <1>13. Moves(p, file', cleared') /\ call'[p].pc # "store"
    BY <1>2, <1>5, <1>8, <1>11, <1>12, GoesMoves
  <1> QED
    BY <1>2, <1>10, <1>11, <1>13, TreeKeeps

LEMMA BrowseLeafKeeps ==
    ASSUME IInv, NEW p \in Procs, BrowseLeaf(p)
    PROVE  IInv'
  <1> DEFINE c == call[p]
             d == [c EXCEPT !.pc = "browse", !.i = @ + 1, !.new = NULL, !.seen = NULL]
  <1>1. c \in CallRecord /\ CallIn(file, cleared, c) /\ StringIn(c, string[p]) /\ TreeIn(file)
    BY CallFacts
  <1>2. /\ c.pc = "leaf" /\ Goes(p, d) /\ file' = WithLeaf(file, c.dir, c.new)
        /\ raced' \subseteq raced \cup {c.dir}
        /\ UNCHANGED <<handles, calls, browsed, cleared>>
    BY DEF BrowseLeaf, At, Goes, WithLeaf
  <1>3. /\ c.dir \in PointersOf(file) /\ Down(c)
        /\ c.new \in PointersOf(file) /\ file[c.new].parent = c.dir /\ c.new # Root
    BY <1>1, <1>2 DEF CallIn, HasDir, Down
  <1>4. /\ d \in CallRecord /\ d.op = c.op /\ d.path = c.path /\ d.rest = c.rest
        /\ d.dir = c.dir /\ d.pc = "browse"
    BY <1>1, NextEntryHolds, Zenon
  <1> HIDE DEF d, c
  <1>5. CallIn(file, cleared, d) /\ Down(d)
    BY <1>3, <1>4 DEF CallIn, HasDir, Working, Down
  <1>6. StringIn(d, string[p])
    BY <1>1, <1>3, <1>4, <1>5, SameString
  <1>7. TreeIn(file') /\ Len(file') = Len(file) /\ Grown(file, cleared, file', cleared')
    <2>1. cleared' = cleared /\ c.dir \in 1..Len(file) /\ c.new \in 1..Len(file)
      BY <1>2, <1>3 DEF PointersOf
    <2> QED
      BY <1>1, <1>2, <1>3, <2>1, LeafTree
  <1>8. PointersOf(file) = PointersOf(file')
    BY <1>1, <1>7, TreeTyped DEF PointersOf
  <1>9. CallIn(file', cleared', d)
    BY <1>1, <1>5, <1>7, CallGrows
  <1>10. Moves(p, file', cleared') /\ call'[p].pc # "store"
    BY <1>2, <1>4, <1>6, <1>8, <1>9, GoesMoves
  <1>11. browsed' \subseteq PointersOf(file') /\ raced' \subseteq PointersOf(file')
    BY <1>2, <1>3, <1>8 DEF IInv, Typed, Pointers, PointersOf
  <1> QED
    BY <1>2, <1>7, <1>10, <1>11, MovesKeep

LEMMA BrowseEndKeeps ==
    ASSUME IInv, NEW p \in Procs, BrowseEnd(p)
    PROVE  IInv'
  <1> DEFINE c == call[p]
  <1>1. CallIn(file, cleared, c) /\ TreeIn(file)
    BY CallFacts
  <1>2. /\ c.pc = "browse" /\ Over(p) /\ browsed' = browsed \cup {c.dir}
        /\ UNCHANGED <<handles, calls, file, raced, cleared>>
    BY DEF BrowseEnd, At
  <1>3. c.dir \in PointersOf(file) /\ Down(c)
    BY <1>1, <1>2 DEF CallIn, HasDir, Down
  <1>4. file' = file /\ cleared' = cleared
    BY <1>2
  <1>5. Moves(p, file', cleared') /\ call'[p].pc # "store"
    BY <1>3, <1>2, <1>4, OverMoves
  <1>6. TreeIn(file') /\ Grown(file, cleared, file', cleared')
    BY <1>1, <1>4, SameTree
  <1>7. browsed' \subseteq PointersOf(file') /\ raced' \subseteq PointersOf(file')
    BY <1>2, <1>3 DEF IInv, Typed, Pointers, PointersOf
  <1> QED
    BY <1>2, <1>5, <1>6, <1>7, MovesKeep

-----------------------------------------------------------------------------
(* Calls begin, and handles are given.                                      *)

LEMMA BeginHolds ==
    ASSUME IInv, NEW p \in Procs, NEW kind \in Kinds, NEW d \in CallRecord, Begin(p, kind, d)
    PROVE  /\ call[p].pc = "user" /\ call[p].op = "none"
           /\ call' \in [Procs -> CallRecord] /\ call'[p] = d
           /\ \A q \in Procs \ {p} : call'[q] = call[q]
           /\ calls' \in [Procs -> [Kinds -> Nat]]
           /\ \A q \in Procs : \A k \in Kinds : calls'[q][k] <= MaxCalls[q][k]
  <1>1. /\ call[p].pc = "user" /\ call' = [call EXCEPT ![p] = d]
        /\ calls' = [calls EXCEPT ![p][kind] = calls[p][kind] + 1]
        /\ calls[p][kind] < MaxCalls[p][kind]
    BY DEF Begin, At, Goto
  <1>2. /\ calls \in [Procs -> [Kinds -> Nat]]
        /\ \A q \in Procs : \A k \in Kinds : calls[q][k] <= MaxCalls[q][k]
        /\ call \in [Procs -> CallRecord]
    BY DEF IInv, Typed
  <1>3. MaxCalls \in [Procs -> [Kinds -> Nat]]
    BY MaxCallsAssumption
  <1>4. calls[p][kind] + 1 \in Nat /\ calls[p][kind] + 1 <= MaxCalls[p][kind]
    BY <1>1, <1>2, <1>3
  <1>5. calls' \in [Procs -> [Kinds -> Nat]]
    BY <1>1, <1>2, <1>4
  <1>6. \A q \in Procs : \A k \in Kinds :
           calls'[q][k] = IF q = p /\ k = kind THEN calls[p][kind] + 1 ELSE calls[q][k]
    BY <1>1, <1>2
  <1>7. \A q \in Procs : \A k \in Kinds : calls'[q][k] <= MaxCalls[q][k]
    BY <1>2, <1>4, <1>6
  <1>8. call[p].op = "none"
    BY <1>1, CallFacts DEF CallIn
  <1> QED
    BY <1>1, <1>2, <1>5, <1>7, <1>8

\* A call begins that changes nothing yet.
LEMMA StartKeeps ==
    ASSUME IInv, NEW p \in Procs, NEW kind \in Kinds, NEW d, Begin(p, kind, d),
           CallIn(file, cleared, d), d.pc # "store", d.op # "open",
           UNCHANGED <<tree, handles, local>>
    PROVE  IInv'
  <1>1. d \in CallRecord
    BY DEF CallIn
  <1>2. /\ call[p].op = "none"
        /\ call' \in [Procs -> CallRecord] /\ call'[p] = d
        /\ \A q \in Procs \ {p} : call'[q] = call[q]
        /\ calls' \in [Procs -> [Kinds -> Nat]]
        /\ \A q \in Procs : \A k \in Kinds : calls'[q][k] <= MaxCalls[q][k]
    BY <1>1, BeginHolds
  <1>3. /\ file' = file /\ cleared' = cleared /\ browsed' = browsed /\ raced' = raced
        /\ s_HandleCount' = s_HandleCount /\ dirHandleList' = dirHandleList /\ torn' = torn
        /\ string' = string /\ currentDirectory' = currentDirectory
    BY DEF tree, handles, local
  <1>4. /\ string \in [Procs -> StringRecord] /\ StringIn(call[p], string[p])
        /\ currentDirectory \in [Procs -> Nat] /\ currentDirectory[p] \in PointersOf(file)
        /\ TreeIn(file)
    BY CallFacts
  <1>5. StringIn(d, string[p])
    BY <1>2, <1>4, OtherString
  <1>6. Moves(p, file', cleared')
    BY <1>2, <1>3, <1>4, <1>5 DEF Moves
  <1>7. /\ s_HandleCount \in Nat /\ torn \in BOOLEAN
        /\ dirHandleList \in [Procs -> Seq(HandleRecord)]
        /\ browsed \subseteq PointersOf(file) /\ raced \subseteq PointersOf(file)
        /\ HandlesIn(file, cleared, dirHandleList[p])
        /\ ~torn => OldHandles(s_HandleCount, dirHandleList[p])
        /\ s_HandleCount <= s_HandleCount
    BY DEF IInv, Typed, Pointers, PointersOf, DirectoriesAreThere, HandlesAreOld
  <1>8. TreeIn(file') /\ Grown(file, cleared, file', cleared')
    BY <1>3, <1>4, SameTree
  <1> QED
    BY <1>2, <1>3, <1>6, <1>7, <1>8, StepKeeps

LEMMA SysOpenDirKeeps ==
    ASSUME IInv, NEW p \in Procs, NEW s \in Strings(p), SysOpenDir(p, s)
    PROVE  IInv'
  <1> DEFINE start == StartOf(p, s.now)
             kind == IF s.now = s.wrote THEN "open" ELSE "again"
             d == [NoCall EXCEPT !.pc = "walk", !.op = "open", !.path = s.now,
                                 !.start = start, !.rest = s.now.comps, !.dir = start]
  <1>1. /\ Begin(p, kind, d) /\ string' = [string EXCEPT ![p] = s]
        /\ UNCHANGED <<tree, handles, currentDirectory>> /\ kind \in Kinds
    BY DEF SysOpenDir, Kinds
  <1> HIDE DEF kind
  <1>2. /\ string \in [Procs -> StringRecord] /\ StringIn(call[p], string[p])
        /\ currentDirectory \in [Procs -> Nat] /\ currentDirectory[p] \in PointersOf(file)
        /\ TreeIn(file) /\ CallIn(file, cleared, call[p]) /\ string[p] \in StringRecord
    BY CallFacts
  <1>3. call[p].op = "none"
    BY <1>1, <1>2 DEF Begin, At, CallIn
  <1>4. s \in StringRecord /\ IsCut(s.now, s.wrote) /\ (s.now = s.wrote \/ s.refused)
    <2>1. CASE s = string[p]
      BY <1>2, <1>3, <2>1 DEF StringIn
    <2>2. ASSUME NEW path \in Paths[p], s = [wrote |-> path, now |-> path, refused |-> FALSE]
          PROVE  s \in StringRecord /\ IsCut(s.now, s.wrote) /\ s.now = s.wrote
      <3>1. path \in PathRecord
        BY PathsAssumption DEF PathRecord
      <3>2. s.now = path /\ s.wrote = path
        BY <2>2
      <3>3. s \in StringRecord
        BY <2>2, <3>1 DEF StringRecord
      <3> QED
        BY <3>1, <3>2, <3>3, CutRefl
    <2> QED
      BY <2>1, <2>2 DEF Strings
  <1>5. s.now \in PathRecord /\ s.now.comps \in Seq(STRING)
    BY <1>4, Zenon DEF StringRecord, PathRecord
  <1>6. start \in PointersOf(file) /\ start \in Nat
    <2>1. Root \in PointersOf(file)
      BY <1>2 DEF TreeIn
    <2>2. start \in PointersOf(file)
      BY <1>2, <2>1 DEF StartOf
    <2> QED
      BY <1>2, <2>2, TreeTyped DEF PointersOf
  <1> HIDE DEF start
  <1>7. /\ d \in CallRecord /\ d.pc = "walk" /\ d.op = "open" /\ d.path = s.now
        /\ d.rest = s.now.comps /\ d.dir = start /\ d.then = "none" /\ d.back = "none"
    <2>1. "walk" \in Pcs /\ "open" \in Ops
      BY DEF Pcs, Ops
    <2> QED
      BY <1>5, <1>6, <2>1, NoCallHolds, Zenon DEF CallRecord
  <1> HIDE DEF d
  <1>8. CallIn(file, cleared, d) /\ ~Down(d)
    BY <1>6, <1>7 DEF CallIn, HasDir, Working, Down
  <1>9. StringIn(d, s)
    <2>1. Len(d.rest) <= Len(d.path.comps)
      BY <1>5, <1>7
    <2> QED
      BY <1>4, <1>7, <1>8, <2>1 DEF StringIn
  <1>10. /\ call' \in [Procs -> CallRecord] /\ call'[p] = d
         /\ \A q \in Procs \ {p} : call'[q] = call[q]
         /\ calls' \in [Procs -> [Kinds -> Nat]]
         /\ \A q \in Procs : \A k \in Kinds : calls'[q][k] <= MaxCalls[q][k]
    BY <1>1, <1>7, BeginHolds
  <1>11. /\ string' \in [Procs -> StringRecord] /\ string'[p] = s
         /\ \A q \in Procs \ {p} : string'[q] = string[q]
    BY <1>1, <1>2, <1>4
  <1>12. /\ file' = file /\ cleared' = cleared /\ browsed' = browsed /\ raced' = raced
         /\ s_HandleCount' = s_HandleCount /\ dirHandleList' = dirHandleList /\ torn' = torn
         /\ currentDirectory' = currentDirectory
    BY <1>1 DEF tree, handles
  <1>13. Moves(p, file', cleared')
    BY <1>2, <1>8, <1>9, <1>10, <1>11, <1>12 DEF Moves
  <1>14. /\ s_HandleCount \in Nat /\ torn \in BOOLEAN
         /\ dirHandleList \in [Procs -> Seq(HandleRecord)]
         /\ browsed \subseteq PointersOf(file) /\ raced \subseteq PointersOf(file)
         /\ HandlesIn(file, cleared, dirHandleList[p])
         /\ ~torn => OldHandles(s_HandleCount, dirHandleList[p])
         /\ s_HandleCount <= s_HandleCount
    BY DEF IInv, Typed, Pointers, PointersOf, DirectoriesAreThere, HandlesAreOld
  <1>15. TreeIn(file') /\ Grown(file, cleared, file', cleared')
    BY <1>2, <1>12, SameTree
  <1> QED
    BY <1>7, <1>10, <1>12, <1>13, <1>14, <1>15, StepKeeps

LEMMA SysGetProcDirKeeps ==
    ASSUME IInv, NEW p \in Procs, SysGetProcDir(p)
    PROVE  IInv'
  <1> DEFINE c == [NoCall EXCEPT !.op = "get"]
             f == currentDirectory[p]
             d == Asks(c, f, "dirhandle")
  <1>1. Begin(p, "get", d) /\ UNCHANGED <<tree, handles, local>> /\ "get" \in Kinds
    BY DEF SysGetProcDir, Kinds
  <1>2. c \in CallRecord /\ c.op = "get" /\ c.back = "none"
    <2>1. "get" \in Ops
      BY DEF Ops
    <2> QED
      BY <2>1, NoCallHolds, Zenon DEF CallRecord
  <1> HIDE DEF c
  <1>3. f \in PointersOf(file) /\ TreeIn(file) /\ "dirhandle" \in Thens \ {"none"}
    BY CallFacts DEF Thens
  <1>4. /\ d \in CallRecord /\ CallIn(file, cleared, d) /\ SameWork(d, c) /\ d.pc # "store"
    BY <1>2, <1>3, WorksIn
  <1> HIDE DEF d
  <1>5. d.op # "open"
    BY <1>2, <1>4 DEF SameWork
  <1> QED
    BY <1>1, <1>4, <1>5, StartKeeps

LEMMA PlaceHolds ==
    ASSUME IInv, NEW p \in Procs, NEW h, PlacesOf(p, h) # {}
    PROVE  /\ GetDirFromHandle(p, h) \in DOMAIN dirHandleList[p]
           /\ GetDirFromHandle(p, h) \in 1..Len(dirHandleList[p])
           /\ dirHandleList[p] \in Seq(HandleRecord)
  <1>1. dirHandleList[p] \in Seq(HandleRecord)
    BY DEF IInv, Typed
  <1>2. DOMAIN dirHandleList[p] = 1..Len(dirHandleList[p]) /\ Len(dirHandleList[p]) \in Nat
    BY <1>1
  <1>3. PlacesOf(p, h) \subseteq DOMAIN dirHandleList[p] /\ PlacesOf(p, h) \subseteq Nat
    BY <1>2 DEF PlacesOf
  <1>4. \E i \in PlacesOf(p, h) : \A j \in PlacesOf(p, h) : i <= j
    BY <1>3, LeastExists
  <1>5. GetDirFromHandle(p, h) \in PlacesOf(p, h)
    BY <1>4 DEF GetDirFromHandle
  <1> QED
    BY <1>1, <1>2, <1>3, <1>5

LEMMA SysSetProcDirKeeps ==
    ASSUME IInv, NEW p \in Procs, NEW h, SysSetProcDir(p, h)
    PROVE  IInv'
  <1> DEFINE dir == dirHandleList[p][GetDirFromHandle(p, h)].dir
             d == [NoCall EXCEPT !.pc = "cache", !.op = "set", !.dir = dir]
  <1>1. /\ PlacesOf(p, h) # {} /\ Begin(p, "set", d) /\ "set" \in Kinds
        /\ UNCHANGED <<tree, handles, local>>
    BY DEF SysSetProcDir, Kinds
  <1>2. dir \in PointersOf(file)
    BY <1>1, PlaceHolds DEF IInv, DirectoriesAreThere, HandlesIn
  <1>3. dir \in Nat
    BY <1>2, CallFacts, TreeTyped DEF PointersOf
  <1> HIDE DEF dir
  <1>4. /\ d \in CallRecord /\ d.pc = "cache" /\ d.op = "set" /\ d.dir = dir /\ d.then = "none"
    <2>1. "set" \in Ops /\ "cache" \in Pcs
      BY DEF Ops, Pcs
    <2> QED
      BY <1>3, <2>1, NoCallHolds, Zenon DEF CallRecord
  <1> HIDE DEF d
  <1>5. CallIn(file, cleared, d)
    BY <1>2, <1>4 DEF CallIn, HasDir, Working
  <1> QED
    BY <1>1, <1>4, <1>5, StartKeeps

LEMMA UnknownHandleKeeps ==
    ASSUME IInv, NEW p \in Procs, NEW h, UnknownHandle(p, h)
    PROVE  IInv'
  <1>1. Begin(p, "read", NoCall) /\ UNCHANGED <<tree, handles, local>> /\ "read" \in Kinds
    BY DEF UnknownHandle, Kinds
  <1> QED
    BY <1>1, NoCallHolds, NoCallIn, StartKeeps

\* The handle that SysReadDir moves.
LEMMA MovedHolds ==
    ASSUME IInv, NEW hd \in HandleRecord, hd.dir \in PointersOf(file),
           hd.cursor \in {NULL} \cup PointersOf(file)
    PROVE  /\ Cursor(hd) \in {NULL} \cup PointersOf(file)
           /\ Moved(hd) \in HandleRecord /\ Moved(hd).handle = hd.handle
           /\ Moved(hd).dir = hd.dir /\ Moved(hd).cursor = Cursor(hd)
  <1> DEFINE f == Cursor(hd)
             whole == IF hd.cursor = NULL THEN hd.dir \in browsed ELSE hd.whole
             listed == IF f = NULL THEN (IF hd.cursor = NULL THEN <<>> ELSE hd.listed)
                       ELSE IF hd.cursor = NULL THEN <<file[f].name>>
                       ELSE Append(hd.listed, file[f].name)
  <1>1. TreeIn(file)
    BY DEF IInv
  <1>2. f \in {NULL} \cup PointersOf(file)
    <2>1. CASE hd.cursor = NULL
      <3>1. f = file[hd.dir].leaf
        BY <2>1 DEF Cursor
      <3> QED
        BY <1>1, <3>1 DEF TreeIn
    <2>2. CASE hd.cursor # NULL
      <3>1. f = file[hd.cursor].next /\ hd.cursor \in PointersOf(file)
        BY <2>2 DEF Cursor
      <3> QED
        BY <1>1, <3>1 DEF TreeIn
    <2> QED
      BY <2>1, <2>2
  <1>3. f \in Nat
    BY <1>1, <1>2, TreeTyped DEF NULL, PointersOf
  <1>4. Moved(hd) = [hd EXCEPT !.cursor = f, !.whole = whole, !.listed = listed]
    BY DEF Moved
  <1> HIDE DEF f
  <1>5. whole \in BOOLEAN
    <2>1. hd.whole \in BOOLEAN
      BY Zenon DEF HandleRecord
    <2>2. CASE hd.cursor = NULL
      <3>1. whole = (hd.dir \in browsed)
        BY <2>2, Zenon
      <3>2. (hd.dir \in browsed) \in BOOLEAN
        OBVIOUS
      <3> HIDE DEF whole
      <3> QED
        BY <3>1, <3>2, Zenon
    <2>3. CASE hd.cursor # NULL
      BY <2>1, <2>3, Zenon
    <2> QED
      BY <2>2, <2>3
  <1>6. listed \in Seq(Names)
    <2>1. hd.listed \in Seq(Names)
      BY Zenon DEF HandleRecord
    <2>2. ASSUME f # NULL
          PROVE  file[f].name \in Names
      BY <1>1, <1>2, <2>2, TreeTyped DEF PointersOf
    <2>3. CASE f = NULL
      BY <2>1, <2>3
    <2>4. CASE f # NULL
      <3>1. <<file[f].name>> \in Seq(Names) /\ Append(hd.listed, file[f].name) \in Seq(Names)
        BY <2>1, <2>2, <2>4
      <3> QED
        BY <2>4, <3>1
    <2> QED
      BY <2>3, <2>4
  <1> HIDE DEF whole, listed
  <1>7. /\ Moved(hd) \in HandleRecord /\ Moved(hd).handle = hd.handle
        /\ Moved(hd).dir = hd.dir /\ Moved(hd).cursor = f
    BY <1>3, <1>4, <1>5, <1>6, Zenon DEF HandleRecord
  <1> QED
    BY <1>2, <1>7 DEF f

LEMMA SysReadDirKeeps ==
    ASSUME IInv, NEW p \in Procs, NEW h, SysReadDir(p, h)
    PROVE  IInv'
  <1> DEFINE i == GetDirFromHandle(p, h)
             L == dirHandleList[p]
             f == Cursor(L[i])
             m == Moved(L[i])
             e == [NoCall EXCEPT !.op = "read"]
             d == IF f = NULL THEN NoCall ELSE Asks(e, f, "entry")
  <1>1. /\ PlacesOf(p, h) # {} /\ Begin(p, "read", d) /\ "read" \in Kinds
        /\ dirHandleList' = [dirHandleList EXCEPT ![p][i] = m]
        /\ UNCHANGED <<tree, s_HandleCount, torn, local>>
    BY DEF SysReadDir, Kinds
  <1>2. i \in DOMAIN L /\ i \in 1..Len(L) /\ L \in Seq(HandleRecord)
    BY <1>1, PlaceHolds
  <1>3. L[i] \in HandleRecord /\ HandlesIn(file, cleared, L)
    BY <1>2, ElementOfSeq DEF IInv, DirectoriesAreThere
  <1>4. /\ f \in {NULL} \cup PointersOf(file)
        /\ m \in HandleRecord /\ m.handle = L[i].handle /\ m.dir = L[i].dir /\ m.cursor = f
    BY <1>2, <1>3, MovedHolds DEF HandlesIn
  <1> HIDE DEF i, f, m
  <1>5. d \in CallRecord /\ CallIn(file, cleared, d) /\ d.pc # "store" /\ d.op # "open"
    <2>1. CASE f = NULL
      BY <2>1, NoCallHolds, NoCallIn
    <2>2. CASE f # NULL
      <3>1. e \in CallRecord /\ e.op = "read" /\ e.back = "none"
        <4>1. "read" \in Ops
          BY DEF Ops
        <4> QED
          BY <4>1, NoCallHolds, Zenon DEF CallRecord
      <3>2. d = Asks(e, f, "entry") /\ "entry" \in Thens \ {"none"} /\ TreeIn(file)
        BY <2>2, CallFacts DEF Thens
      <3>3. f \in PointersOf(file)
        BY <1>4, <2>2
      <3> HIDE DEF e, d
      <3>4. d \in CallRecord /\ CallIn(file, cleared, d) /\ SameWork(d, e) /\ d.pc # "store"
        BY <3>1, <3>2, <3>3, WorksIn
      <3> QED
        BY <3>1, <3>4 DEF SameWork
    <2> QED
      BY <2>1, <2>2
  <1> HIDE DEF d
  <1>6. /\ call[p].op = "none"
        /\ call' \in [Procs -> CallRecord] /\ call'[p] = d
        /\ \A q \in Procs \ {p} : call'[q] = call[q]
        /\ calls' \in [Procs -> [Kinds -> Nat]]
        /\ \A q \in Procs : \A k \in Kinds : calls'[q][k] <= MaxCalls[q][k]
    BY <1>1, <1>5, BeginHolds
  <1>7. /\ file' = file /\ cleared' = cleared /\ browsed' = browsed /\ raced' = raced
        /\ s_HandleCount' = s_HandleCount /\ torn' = torn
        /\ string' = string /\ currentDirectory' = currentDirectory
    BY <1>1 DEF tree, local
  <1>8. /\ string \in [Procs -> StringRecord] /\ StringIn(call[p], string[p])
        /\ currentDirectory \in [Procs -> Nat] /\ currentDirectory[p] \in PointersOf(file)
        /\ TreeIn(file) /\ dirHandleList \in [Procs -> Seq(HandleRecord)]
    BY CallFacts DEF Typed
  <1>9. StringIn(d, string[p])
    BY <1>5, <1>6, <1>8, OtherString
  <1>10. Moves(p, file', cleared')
    BY <1>5, <1>6, <1>7, <1>8, <1>9 DEF Moves
  <1> DEFINE K == [L EXCEPT ![i] = m]
  <1>11. /\ K \in Seq(HandleRecord) /\ DOMAIN K = DOMAIN L /\ K[i] = m
         /\ \A j \in DOMAIN L : j # i => K[j] = L[j]
    <2>1. K \in Seq(HandleRecord) /\ Len(K) = Len(L)
      BY <1>2, <1>4, ExceptSeq
    <2>2. DOMAIN K = 1..Len(K) /\ DOMAIN L = 1..Len(L)
      BY <1>2, <2>1, LenProperties
    <2> HIDE DEF L
    <2>3. K[i] = m /\ \A j \in DOMAIN L : j # i => K[j] = L[j]
      BY <1>2
    <2> QED
      BY <2>1, <2>2, <2>3
  <1>12. /\ dirHandleList'[p] = K
         /\ \A q \in Procs \ {p} : dirHandleList'[q] = dirHandleList[q]
         /\ dirHandleList' \in [Procs -> Seq(HandleRecord)]
    <2>1. dirHandleList' = [dirHandleList EXCEPT ![p] = K]
      BY <1>1
    <2> HIDE DEF K
    <2> QED
      BY <1>8, <1>11, <2>1
  <1> HIDE DEF K
  <1>13. HandlesIn(file', cleared', dirHandleList'[p])
    <2>1. ASSUME NEW j \in DOMAIN K
          PROVE  /\ K[j].dir \in PointersOf(file)
                 /\ K[j].cursor \in {NULL} \cup PointersOf(file)
                 /\ IsDirIn(file, cleared, K[j].dir)
      <3>1. /\ L[j].dir \in PointersOf(file) /\ L[j].cursor \in {NULL} \cup PointersOf(file)
            /\ IsDirIn(file, cleared, L[j].dir)
        BY <1>3, <1>11 DEF HandlesIn
      <3>2. CASE j = i
        BY <1>4, <1>11, <3>1, <3>2
      <3>3. CASE j # i
        BY <1>11, <3>1, <3>3
      <3> QED
        BY <3>2, <3>3
    <2> QED
      BY <1>7, <1>12, <2>1 DEF HandlesIn
  <1>14. /\ s_HandleCount \in Nat /\ torn \in BOOLEAN
         /\ browsed \subseteq PointersOf(file) /\ raced \subseteq PointersOf(file)
         /\ s_HandleCount <= s_HandleCount
         /\ ~torn => OldHandles(s_HandleCount, L)
    BY DEF IInv, Typed, Pointers, PointersOf, HandlesAreOld
  <1>15. ~torn => OldHandles(s_HandleCount, K)
    <2>1. \A j \in DOMAIN K : K[j].handle = L[j].handle
      BY <1>4, <1>11
    <2> HIDE DEF L
    <2> QED
      BY <1>11, <1>14, <2>1 DEF OldHandles
  <1>16. TreeIn(file') /\ Grown(file, cleared, file', cleared')
    BY <1>7, <1>8, SameTree
  <1> QED
    BY <1>5, <1>6, <1>7, <1>10, <1>12, <1>13, <1>14, <1>15, <1>16, StepKeeps

LEMMA LoadCountKeeps ==
    ASSUME IInv, NEW p \in Procs, LoadCount(p)
    PROVE  IInv'
  <1> DEFINE c == call[p]
             d == [c EXCEPT !.pc = "store", !.count = s_HandleCount]
  <1>1. /\ c \in CallRecord /\ CallIn(file, cleared, c) /\ StringIn(c, string[p]) /\ TreeIn(file)
        /\ Typed
    BY CallFacts
  <1>2. /\ c.pc = "create" /\ Goes(p, d) /\ UNCHANGED <<tree, handles, local, calls>>
    BY DEF LoadCount, At, Goes
  <1>3. s_HandleCount \in Nat
    BY <1>1 DEF Typed
  <1>4. d \in CallRecord /\ SameWork(d, c) /\ d.pc = "store" /\ d.count = s_HandleCount
    BY <1>1, <1>3, StoresHolds, Zenon
  <1> HIDE DEF d, c
  <1>5. d.op = c.op /\ d.path = c.path /\ d.rest = c.rest /\ d.dir = c.dir
    BY <1>4 DEF SameWork
  <1>6. ~Down(d) /\ ~Down(c)
    BY <1>2, <1>4 DEF Down, Working
  <1>7. CallIn(file, cleared, d)
    BY <1>1, <1>2, <1>4, <1>5 DEF CallIn, HasDir, Working
  <1>8. StringIn(d, string[p])
    BY <1>1, <1>5, <1>6, SameString
  <1>9. /\ file' = file /\ cleared' = cleared /\ browsed' = browsed /\ raced' = raced
        /\ s_HandleCount' = s_HandleCount /\ dirHandleList' = dirHandleList /\ torn' = torn
        /\ calls' = calls
    BY <1>2 DEF tree, handles
  <1>10. Moves(p, file', cleared') /\ call'[p] = d
    BY <1>2, <1>7, <1>8, <1>9, GoesMoves
  <1>11. /\ torn \in BOOLEAN
         /\ dirHandleList \in [Procs -> Seq(HandleRecord)]
         /\ browsed \subseteq PointersOf(file) /\ raced \subseteq PointersOf(file)
         /\ HandlesIn(file, cleared, dirHandleList[p])
         /\ ~torn => OldHandles(s_HandleCount, dirHandleList[p])
         /\ s_HandleCount <= s_HandleCount
         /\ calls \in [Procs -> [Kinds -> Nat]]
         /\ \A q \in Procs : \A k \in Kinds : calls[q][k] <= MaxCalls[q][k]
    BY <1>3 DEF IInv, Typed, Pointers, PointersOf, DirectoriesAreThere, HandlesAreOld
  <1>12. TreeIn(file') /\ Grown(file, cleared, file', cleared')
    BY <1>1, <1>9, SameTree
  <1> QED
    BY <1>3, <1>4, <1>9, <1>10, <1>11, <1>12, StepKeeps

LEMMA StoreCountKeeps ==
    ASSUME IInv, NEW p \in Procs, StoreCount(p)
    PROVE  IInv'
  <1> DEFINE c == call[p]
             L == dirHandleList[p]
             hd == [handle |-> c.count, dir |-> c.dir, cursor |-> NULL,
                    listed |-> <<>>, whole |-> FALSE]
             K == IF c.op = "readfile" THEN L ELSE Append(L, hd)
             ret == IF c.op = "open" THEN 0 ELSE 1
  <1>1. /\ c \in CallRecord /\ CallIn(file, cleared, c) /\ StringIn(c, string[p]) /\ TreeIn(file)
        /\ Typed
    BY CallFacts
  <1>2. /\ c.pc = "store" /\ Return(p, ret)
        /\ s_HandleCount' = c.count + 4 /\ torn' = (torn \/ s_HandleCount # c.count)
        /\ UNCHANGED <<tree, calls>>
    BY DEF StoreCount, At, NextCount, CountStep
  <1>3. dirHandleList' = IF c.op = "readfile" THEN dirHandleList
                         ELSE [dirHandleList EXCEPT ![p] = Append(L, hd)]
    BY DEF StoreCount
  <1>4. /\ dirHandleList \in [Procs -> Seq(HandleRecord)] /\ L \in Seq(HandleRecord)
        /\ s_HandleCount \in Nat /\ torn \in BOOLEAN
        /\ calls \in [Procs -> [Kinds -> Nat]]
        /\ \A q \in Procs : \A k \in Kinds : calls[q][k] <= MaxCalls[q][k]
        /\ browsed \subseteq PointersOf(file) /\ raced \subseteq PointersOf(file)
        /\ HandlesIn(file, cleared, L)
        /\ ~torn => OldHandles(s_HandleCount, L)
    BY <1>1 DEF IInv, Typed, Pointers, PointersOf, DirectoriesAreThere, HandlesAreOld
  <1>5. c.count \in Nat /\ c.dir \in Nat
    BY <1>1, Zenon DEF CallRecord
  <1>6. /\ c.dir \in PointersOf(file) /\ ~Down(c)
        /\ c.op # "readfile" => IsDirIn(file, cleared, c.dir)
    BY <1>1, <1>2 DEF CallIn, HasDir, Down, Working
  <1>7. /\ hd.handle = c.count /\ hd.dir = c.dir /\ hd.cursor = NULL /\ hd \in HandleRecord
    <2>1. NULL \in Nat /\ <<>> \in Seq(Names)
      BY DEF NULL
    <2> QED
      BY <1>5, <2>1 DEF HandleRecord
  <1> HIDE DEF hd
  <1>8. /\ file' = file /\ cleared' = cleared /\ browsed' = browsed /\ raced' = raced
        /\ calls' = calls
    BY <1>2 DEF tree
  <1>9. Moves(p, file', cleared') /\ call'[p] = NoCall
    <2>1. ret \in Int
      OBVIOUS
    <2> HIDE DEF ret
    <2> QED
      BY <1>2, <1>6, <1>8, <2>1, ReturnMoves
  <1>10. K \in Seq(HandleRecord)
    BY <1>4, <1>7, AppendProperties
  <1>11. /\ dirHandleList'[p] = K
         /\ \A q \in Procs \ {p} : dirHandleList'[q] = dirHandleList[q]
         /\ dirHandleList' \in [Procs -> Seq(HandleRecord)]
    BY <1>3, <1>4, <1>10
  <1>12. \A j \in DOMAIN K : \/ j \in DOMAIN L /\ K[j] = L[j]
                             \/ j = Len(L) + 1 /\ K[j] = hd /\ c.op # "readfile"
    <2>1. CASE c.op = "readfile"
      BY <2>1
    <2>2. CASE c.op # "readfile"
      <3>1. K = Append(L, hd)
        BY <2>2
      <3>2. /\ Len(K) = Len(L) + 1 /\ K[Len(L) + 1] = hd /\ Len(L) \in Nat
            /\ \A j \in 1..Len(L) : K[j] = L[j]
        BY <1>4, <1>7, <3>1, AppendProperties, LenProperties
      <3>3. DOMAIN K = 1..(Len(L) + 1) /\ DOMAIN L = 1..Len(L)
        BY <1>4, <1>10, <3>2, LenProperties
      <3> QED
        BY <2>2, <3>2, <3>3
    <2> QED
      BY <2>1, <2>2
  <1> HIDE DEF K
  <1>13. HandlesIn(file', cleared', dirHandleList'[p])
    <2>1. ASSUME NEW j \in DOMAIN K
          PROVE  /\ K[j].dir \in PointersOf(file)
                 /\ K[j].cursor \in {NULL} \cup PointersOf(file)
                 /\ IsDirIn(file, cleared, K[j].dir)
      <3>1. CASE j \in DOMAIN L /\ K[j] = L[j]
        BY <1>4, <3>1 DEF HandlesIn
      <3>2. CASE K[j] = hd /\ c.op # "readfile"
        BY <1>6, <1>7, <3>2
      <3> QED
        BY <1>12, <3>1, <3>2
    <2> QED
      BY <1>8, <1>11, <2>1 DEF HandlesIn
  <1>14. s_HandleCount' \in Nat /\ torn' \in BOOLEAN /\ (torn => torn')
    BY <1>2, <1>4, <1>5
  <1>15. ~torn' => /\ s_HandleCount <= s_HandleCount'
                   /\ OldHandles(s_HandleCount', dirHandleList'[p])
    <2> HAVE ~torn'
    <2>1. c.count = s_HandleCount /\ ~torn
      BY <1>2
    <2>2. OldHandles(s_HandleCount, L)
      BY <1>4, <2>1
    <2>3. \A j \in DOMAIN L : L[j].handle \in Nat
      <3>1. \A j \in DOMAIN L : L[j] \in HandleRecord
        BY <1>4
      <3> QED
        BY <3>1 DEF HandleRecord
    <2> HIDE DEF L
    <2>4. \A j \in DOMAIN L : L[j].handle < s_HandleCount /\ L[j].handle \in Nat
      BY <2>2, <2>3 DEF OldHandles
    <2>5. \A j \in DOMAIN K : K[j].handle < s_HandleCount'
      <3>1. s_HandleCount' = s_HandleCount + 4 /\ s_HandleCount \in Nat
        BY <1>2, <1>4, <2>1
      <3>2. hd.handle = s_HandleCount
        BY <1>7, <2>1
      <3> QED
        BY <1>12, <2>4, <3>1, <3>2
    <2>6. \A i, j \in DOMAIN K : K[i].handle = K[j].handle => i = j
      BY <1>4, <1>7, <1>12, <2>1, <2>2, <2>4 DEF OldHandles
    <2>7. s_HandleCount <= s_HandleCount'
      BY <1>2, <1>4, <2>1
    <2> QED
      BY <1>11, <2>5, <2>6, <2>7 DEF OldHandles
  <1>16. TreeIn(file') /\ Grown(file, cleared, file', cleared')
    BY <1>1, <1>8, SameTree
  <1>17. call'[p].pc # "store"
    BY <1>9, NoCallHolds
  <1> QED
    BY <1>4, <1>8, <1>9, <1>11, <1>13, <1>14, <1>15, <1>16, <1>17, StepKeeps

-----------------------------------------------------------------------------
(* The invariant.                                                          *)

\* The tree of the boot.
LEMMA InitFile ==
    ASSUME Init
    PROVE  LET n == Len(Entries[RootInode])
           IN  /\ n \in Nat \ {0} /\ file \in Seq(FileRecord) /\ Len(file) = n + 1
               /\ EntriesOf(RootInode) = Entries[RootInode]
               /\ file[1].inum = RootInode /\ file[1].leaf = n + 1
               /\ file[1].next = NULL /\ file[1].parent = Root
               /\ \A f \in 2..(n + 1) :
                     /\ f - 1 \in 1..n
                     /\ file[f].inum = Entries[RootInode][f - 1].inum
                     /\ file[f].name = Entries[RootInode][f - 1].name
                     /\ file[f].leaf = NULL /\ file[f].parent = Root
                     /\ file[f].next = IF f - 1 = 1 THEN NULL ELSE f - 1
                     /\ [name |-> file[f].name, inum |-> file[f].inum]
                           \in DiskEntries(RootInode)
  <1> DEFINE n == Len(Entries[RootInode])
             top == [inum |-> RootInode, name |-> "/", inode |-> TRUE, opened |-> TRUE,
                     leaf |-> n + 1, next |-> NULL, parent |-> Root]
             first == [i \in 1..n |->
                         [inum |-> Entries[RootInode][i].inum,
                          name |-> Entries[RootInode][i].name,
                          inode |-> i = 1, opened |-> i = 1, leaf |-> NULL,
                          next |-> IF i = 1 THEN NULL ELSE i, parent |-> Root]]
  <1>1. file = <<top>> \o first
    BY DEF Init
  <1>2. IsDir(RootInode) /\ EntriesOf(RootInode) = Entries[RootInode]
    BY EntriesAssumption DEF IsDir, EntriesOf
  <1>3. n \in Nat \ {0}
    BY EntriesAssumption, EmptySeq
  <1>4. ASSUME NEW i \in 1..n
        PROVE  /\ Entries[RootInode][i].name \in Names /\ Entries[RootInode][i].inum \in Inodes
               /\ [name |-> Entries[RootInode][i].name, inum |-> Entries[RootInode][i].inum]
                     \in DiskEntries(RootInode)
    BY <1>2, EntryHolds
  <1>5. top \in FileRecord
    <2>1. RootInode \in Inodes /\ "/" \in Names
      BY DEF Inodes, Names
    <2>2. n + 1 \in Nat /\ NULL \in Nat /\ Root \in Nat
      BY <1>3 DEF NULL, Root
    <2> QED
      BY <2>1, <2>2 DEF FileRecord
  <1>6. first \in [1..n -> FileRecord]
    <2>1. ASSUME NEW i \in 1..n
          PROVE  [inum |-> Entries[RootInode][i].inum,
                  name |-> Entries[RootInode][i].name,
                  inode |-> i = 1, opened |-> i = 1, leaf |-> NULL,
                  next |-> IF i = 1 THEN NULL ELSE i, parent |-> Root] \in FileRecord
      <3>1. /\ NULL \in Nat /\ Root \in Nat /\ (IF i = 1 THEN NULL ELSE i) \in Nat
            /\ (i = 1) \in BOOLEAN
        BY DEF NULL, Root
      <3> QED
        BY <1>4, <3>1, Zenon DEF FileRecord
    <2> QED
      BY <2>1
  <1>7. /\ \A i \in 1..n : /\ first[i].inum = Entries[RootInode][i].inum
                           /\ first[i].name = Entries[RootInode][i].name
                           /\ first[i].leaf = NULL /\ first[i].parent = Root
                           /\ first[i].next = IF i = 1 THEN NULL ELSE i
        /\ top.inum = RootInode /\ top.leaf = n + 1 /\ top.next = NULL /\ top.parent = Root
    OBVIOUS
  <1> HIDE DEF top, first
  <1>8. first \in Seq(FileRecord) /\ Len(first) = n /\ <<top>> \in Seq(FileRecord)
        /\ Len(<<top>>) = 1 /\ <<top>>[1] = top
    BY <1>3, <1>5, <1>6
  <1>9. /\ file \in Seq(FileRecord) /\ Len(file) = n + 1 /\ file[1] = top
        /\ \A f \in 2..(n + 1) : file[f] = first[f - 1]
    <2>1. /\ <<top>> \o first \in Seq(FileRecord)
          /\ Len(<<top>> \o first) = Len(<<top>>) + Len(first)
          /\ \A i \in 1..(Len(<<top>>) + Len(first)) :
                (<<top>> \o first)[i] = IF i <= Len(<<top>>) THEN <<top>>[i]
                                        ELSE first[i - Len(<<top>>)]
      BY <1>8, ConcatProperties
    <2> DEFINE G == <<top>> \o first
    <2>2. file = G
      BY <1>1
    <2>3. /\ G \in Seq(FileRecord) /\ Len(G) = 1 + n
          /\ \A i \in 1..(1 + n) : G[i] = IF i <= 1 THEN top ELSE first[i - 1]
      BY <1>8, <2>1
    <2> HIDE DEF G, n
    <2> QED
      BY <1>3, <2>2, <2>3
  <1> HIDE DEF n
  <1>10. \A f \in 2..(n + 1) : f - 1 \in 1..n
    BY <1>3
  <1>11. \A f \in 2..(n + 1) :
            /\ file[f].inum = Entries[RootInode][f - 1].inum
            /\ file[f].name = Entries[RootInode][f - 1].name
            /\ file[f].leaf = NULL /\ file[f].parent = Root
            /\ file[f].next = IF f - 1 = 1 THEN NULL ELSE f - 1
    BY <1>7, <1>9, <1>10
  <1>12. \A f \in 2..(n + 1) : [name |-> file[f].name, inum |-> file[f].inum]
                                  \in DiskEntries(RootInode)
    BY <1>4, <1>10, <1>11
  <1> QED
    BY <1>2, <1>3, <1>7, <1>9, <1>10, <1>11, <1>12 DEF n

LEMMA InitHolds ==
    ASSUME Init
    PROVE  IInv
  <1> DEFINE n == Len(Entries[RootInode])
  <1>1. /\ s_HandleCount = 1
        /\ currentDirectory = [p \in Procs |-> Root]
        /\ dirHandleList = [p \in Procs |-> <<>>]
        /\ call = [p \in Procs |-> NoCall]
        /\ calls = [p \in Procs |-> [k \in Kinds |-> 0]]
        /\ string = [p \in Procs |-> NoString]
        /\ browsed = {Root} /\ raced = {} /\ cleared = {} /\ torn = FALSE
    BY DEF Init
  <1>2. /\ n \in Nat \ {0} /\ file \in Seq(FileRecord) /\ Len(file) = n + 1
        /\ file[1].inum = RootInode /\ file[1].leaf = n + 1
        /\ file[1].next = NULL /\ file[1].parent = Root
        /\ \A f \in 2..(n + 1) :
              /\ f - 1 \in 1..n
              /\ file[f].leaf = NULL /\ file[f].parent = Root
              /\ file[f].next = IF f - 1 = 1 THEN NULL ELSE f - 1
              /\ [name |-> file[f].name, inum |-> file[f].inum] \in DiskEntries(RootInode)
    BY InitFile
  <1> HIDE DEF n
  <1>10. PointersOf(file) = 1..(n + 1) /\ Root = 1 /\ NULL = 0
    BY <1>2 DEF PointersOf, Root, NULL
  <1>11. TreeIn(file)
    <2>1. ASSUME NEW f \in PointersOf(file)
          PROVE  /\ file[f].parent \in PointersOf(file)
                 /\ file[f].leaf \in {NULL} \cup PointersOf(file)
                 /\ file[f].next \in {NULL} \cup PointersOf(file)
                 /\ f # Root => [name |-> file[f].name, inum |-> file[f].inum]
                                   \in DiskEntries(file[file[f].parent].inum)
                 /\ file[f].leaf # NULL => file[file[f].leaf].parent = f /\ file[f].leaf # Root
                 /\ file[f].next # NULL => /\ file[file[f].next].parent = file[f].parent
                                           /\ file[f].next # Root
      <3>1. CASE f = 1
        <4>1. n + 1 \in 2..(n + 1)
          BY <1>2
        <4>2. file[n + 1].parent = Root
          BY <1>2, <4>1
        <4> QED
          BY <1>2, <1>10, <3>1, <4>1, <4>2
      <3>2. CASE f # 1
        <4>1. f \in 2..(n + 1) /\ f - 1 \in 1..n
          BY <1>2, <1>10, <3>2
        <4>3. /\ file[f].parent = Root /\ file[f].leaf = NULL
              /\ file[f].next = IF f - 1 = 1 THEN NULL ELSE f - 1
              /\ [name |-> file[f].name, inum |-> file[f].inum] \in DiskEntries(RootInode)
          BY <1>2, <4>1
        <4>4. file[Root].inum = RootInode
          BY <1>2, <1>10
        <4>5. [name |-> file[f].name, inum |-> file[f].inum]
                 \in DiskEntries(file[file[f].parent].inum)
          BY <4>3, <4>4
        <4>6. ASSUME file[f].next # NULL
              PROVE  /\ file[f].next \in PointersOf(file) /\ file[f].next # Root
                     /\ file[file[f].next].parent = Root
          <5>1. file[f].next = f - 1 /\ f - 1 \in 2..(n + 1)
            BY <1>2, <1>10, <4>1, <4>3, <4>6
          <5>2. file[f - 1].parent = Root
            BY <1>2, <5>1
          <5> QED
            BY <1>10, <5>1, <5>2
        <4>7. Root \in PointersOf(file)
          BY <1>2, <1>10
        <4> QED
          BY <4>3, <4>5, <4>6, <4>7
      <3> QED
        BY <3>1, <3>2
    <2>2. Root \in PointersOf(file)
      BY <1>2, <1>10
    <2> QED
      BY <1>2, <2>1, <2>2 DEF TreeIn
  <1>12. Root \in PointersOf(file) /\ Root \in Nat /\ Root \in Pointers
    BY <1>2, <1>10 DEF Pointers
  <1>13. NoString \in StringRecord /\ NoString.now = NoString.wrote /\ NoString.now \in PathRecord
    <2>1. NoPath \in PathRecord
      BY DEF NoPath, PathRecord
    <2> QED
      BY <2>1, Zenon DEF NoString, StringRecord
  <1>14. Typed
    <2>1. /\ s_HandleCount \in Nat
          /\ currentDirectory \in [Procs -> Nat]
          /\ dirHandleList \in [Procs -> Seq(HandleRecord)]
          /\ torn \in BOOLEAN
      <3>1. 1 \in Nat /\ FALSE \in BOOLEAN /\ <<>> \in Seq(HandleRecord)
        OBVIOUS
      <3>2. currentDirectory = [p \in Procs |-> Root] /\ dirHandleList = [p \in Procs |-> <<>>]
        BY <1>1
      <3>3. s_HandleCount = 1 /\ torn = FALSE
        BY <1>1
      <3> QED
        BY <1>12, <3>1, <3>2, <3>3
    <2>2. call \in [Procs -> CallRecord] /\ string \in [Procs -> StringRecord]
      BY <1>1, <1>13, NoCallHolds
    <2>3. /\ calls \in [Procs -> [Kinds -> Nat]]
          /\ \A p \in Procs : \A k \in Kinds : calls[p][k] <= MaxCalls[p][k]
      BY <1>1, MaxCallsAssumption
    <2>4. browsed \subseteq Pointers /\ raced \subseteq Pointers
      BY <1>1, <1>12
    <2> QED
      BY <2>1, <2>2, <2>3, <2>4 DEF Typed
  <1>15. CallsAreSound
    BY <1>1, NoCallIn DEF CallsAreSound
  <1>16. StringsAreSound
    <2>1. IsCut(NoString.now, NoString.wrote)
      BY <1>13, CutRefl
    <2>2. StringIn(NoCall, NoString)
      BY <1>13, <2>1, NoCallHolds DEF StringIn
    <2> QED
      BY <1>1, <2>2 DEF StringsAreSound
  <1>17. DirectoriesAreThere
    BY <1>1, <1>12 DEF DirectoriesAreThere, HandlesIn
  <1>18. HandlesAreOld
    BY <1>1, NoCallHolds DEF HandlesAreOld, OldHandles
  <1> QED
    BY <1>11, <1>14, <1>15, <1>16, <1>17, <1>18 DEF IInv

LEMMA NextKeeps ==
    ASSUME IInv, [Next]_vars
    PROVE  IInv'
  <1>1. CASE UNCHANGED vars
    BY <1>1 DEF vars, IInv, Typed, CallsAreSound, StringsAreSound, DirectoriesAreThere,
                HandlesAreOld, Pointers
  <1>2. CASE Next
    <2>1. PICK p \in Procs : Starts(p) \/ Walks(p) \/ Opening(p) \/ Browses(p) \/ Makes(p)
      BY <1>2 DEF Next
    <2>2. CASE Starts(p)
      BY <2>2, SysOpenDirKeeps, SysGetProcDirKeeps, SysReadDirKeeps, UnknownHandleKeeps,
         SysSetProcDirKeeps DEF Starts
    <2>3. CASE Walks(p)
      BY <2>3, WalkEndKeeps, WalkDotsKeeps, WalkLastKeeps, WalkDownKeeps DEF Walks
    <2>4. CASE Opening(p)
      <3>1. DiskOutcomes \subseteq BOOLEAN
        BY DiskAssumption
      <3> QED
        BY <2>4, <3>1, TestInodeKeeps, ClearInodeKeeps, ReadInodeKeeps, ReadContentKeeps,
           ReadModeKeeps DEF Opening
    <2>5. CASE Browses(p)
      BY <2>5, BrowseStartKeeps, BrowseSizeKeeps, BrowseCheckKeeps, BrowseNextKeeps,
         BrowseLeafKeeps, BrowseEndKeeps DEF Browses
    <2>6. CASE Makes(p)
      BY <2>6, LoadCountKeeps, StoreCountKeeps DEF Makes
    <2> QED
      BY <2>1, <2>2, <2>3, <2>4, <2>5, <2>6
  <1> QED
    BY <1>1, <1>2

\* The inductive invariant holds in every state.
THEOREM Invariance == Spec => []IInv
  <1>1. Init => IInv
    BY InitHolds
  <1>2. IInv /\ [Next]_vars => IInv'
    BY NextKeeps
  <1> QED
    BY <1>1, <1>2, PTL DEF Spec

-----------------------------------------------------------------------------
(* What it says of the calls.                                               *)

LEMMA TypeHolds ==
    ASSUME IInv
    PROVE  TypeOK
  <1>1. TreeIn(file) /\ Typed
    BY DEF IInv
  <1>2. file \in Seq(FileRecords)
    <2>1. /\ Len(file) \in Nat /\ file \in [1..Len(file) -> FileRecord]
          /\ \A f \in 1..Len(file) : /\ file[f].next \in 0..Len(file)
                                     /\ file[f].leaf \in 0..Len(file)
                                     /\ file[f].parent \in 1..Len(file)
      BY <1>1, TreeTyped
    <2>2. \A f \in 1..Len(file) : file[f] \in FileRecords
      <3> SUFFICES ASSUME NEW f \in 1..Len(file)
                   PROVE  file[f] \in FileRecords
        OBVIOUS
      <3>1. file[f] \in FileRecord
        BY <2>1
      <3>2. /\ file[f].next \in {NULL} \cup Pointers /\ file[f].leaf \in {NULL} \cup Pointers
            /\ file[f].parent \in Pointers
        BY <2>1 DEF NULL, Pointers
      <3> QED
        BY <3>1, <3>2 DEF FileRecord, FileRecords
    <2>3. file \in [1..Len(file) -> FileRecords]
      BY <2>1, <2>2
    <2> QED
      BY <2>1, <2>3
  <1>3. currentDirectory \in [Procs -> Pointers]
    BY <1>1 DEF Typed, IInv, DirectoriesAreThere
  <1>4. ASSUME NEW p \in Procs
        PROVE  /\ \A i \in DOMAIN dirHandleList[p] :
                     /\ dirHandleList[p][i].dir \in Pointers
                     /\ dirHandleList[p][i].cursor \in {NULL} \cup Pointers
               /\ call[p].pc \in Pcs
               /\ call[p].pc \in {"walk", "browse", "size", "create"} => call[p].dir \in Pointers
               /\ call[p].pc \in {"open", "isdir", "clear", "inode"} => call[p].f \in Pointers
               /\ call[p].pc \in {"next", "leaf"} => call[p].new \in Pointers
    <2>1. \A i \in DOMAIN dirHandleList[p] :
             /\ dirHandleList[p][i].dir \in Pointers
             /\ dirHandleList[p][i].cursor \in {NULL} \cup Pointers
      BY DEF IInv, DirectoriesAreThere, HandlesIn, Pointers, PointersOf
    <2>2. call[p].pc \in Pcs
      BY CallFacts, Zenon DEF CallRecord
    <2>3. /\ call[p].pc \in {"walk", "browse", "size", "create"} => call[p].dir \in Pointers
          /\ call[p].pc \in {"open", "isdir", "clear", "inode"} => call[p].f \in Pointers
          /\ call[p].pc \in {"next", "leaf"} => call[p].new \in Pointers
      BY CallFacts DEF CallIn, HasDir, Working, Pointers, PointersOf
    <2> QED
      BY <2>1, <2>2, <2>3
  <1>5. \A p \in Procs : \A k \in Kinds : calls[p][k] \in 0..MaxCalls[p][k]
    BY <1>1, MaxCallsAssumption DEF Typed
  <1> QED
    BY <1>1, <1>2, <1>3, <1>4, <1>5 DEF TypeOK, Typed

\* Every pointer is NULL where NULL may be, or that of a file of the tree;
\* the directory of a process and of a handle is always one.
THEOREM TypeCorrect == Spec => []TypeOK
  <1>1. IInv => TypeOK
    BY TypeHolds
  <1> QED
    BY <1>1, Invariance, PTL

\* However calls interleave, a file in the tree is what the disk says: the
\* directory it hangs under has an entry of that name with that inode, and
\* the lists never mix the files of two directories (BrowseAndCacheDirectory).
THEOREM TreeIsTheDisk == Spec => []TreeMatchesDisk
  <1>1. IInv => TreeMatchesDisk
    BY TypeHolds DEF IInv, TreeIn, TreeMatchesDisk, Pointers, PointersOf
  <1> QED
    BY <1>1, Invariance, PTL

\* Whoever looks into an inode finds one, and only directories get directory
\* handles, unless two calls have read the inode of the file at once
\* (IsDirectory, BrowseAndCacheDirectory, CreateDirHandle).
THEOREM InodesAreThere == Spec => []InodeIsThere
  <1>1. IInv => InodeIsThere
    <2> SUFFICES ASSUME IInv
                 PROVE  InodeIsThere
      OBVIOUS
    <2>1. ASSUME NEW p \in Procs
          PROVE  /\ call[p].pc = "mode" => file[call[p].f].inode \/ call[p].f \in cleared
                 /\ call[p].pc = "size" => file[call[p].dir].inode \/ call[p].dir \in cleared
                 /\ call[p].pc = "wild" => call[p].dir \in cleared
      BY CallFacts DEF CallIn, IsThere
    <2>2. ASSUME NEW p \in Procs, NEW i \in DOMAIN dirHandleList[p]
          PROVE  \/ IsDir(file[dirHandleList[p][i].dir].inum)
                 \/ dirHandleList[p][i].dir \in cleared
      BY DEF IInv, DirectoriesAreThere, HandlesIn, IsDirIn
    <2> QED
      BY <2>1, <2>2 DEF InodeIsThere
  <1> QED
    BY <1>1, Invariance, PTL

\* Unless two calls have incremented s_HandleCount at once, GetDirFromHandle
\* finds the directory that each handle of a process was made for.
THEOREM HandlesDiffer == Spec => []HandlesAreDistinct
  <1>1. IInv => HandlesAreDistinct
    <2> SUFFICES ASSUME IInv, ~torn, NEW p \in Procs, NEW i \in DOMAIN dirHandleList[p]
                 PROVE  GetDirFromHandle(p, dirHandleList[p][i].handle) = i
      BY DEF HandlesAreDistinct
    <2> DEFINE h == dirHandleList[p][i].handle
    <2>1. \A j \in DOMAIN dirHandleList[p] : dirHandleList[p][j].handle = h => j = i
      BY DEF IInv, HandlesAreOld, OldHandles
    <2>2. PlacesOf(p, h) = {i}
      BY <2>1 DEF PlacesOf
    <2>3. i \in Nat
      <3>1. dirHandleList[p] \in Seq(HandleRecord)
        BY DEF IInv, Typed
      <3> QED
        BY <3>1
    <2> HIDE DEF h
    <2> QED
      BY <2>2, <2>3 DEF GetDirFromHandle, h
  <1> QED
    BY <1>1, Invariance, PTL

\* SysOpenDir gives the string of the program back as it was, unless it has
\* answered -1 (OpenFileFromName).
THEOREM PathsArePutBack == Spec => []PathIsPutBack
  <1>1. IInv => PathIsPutBack
    <2> SUFFICES ASSUME IInv, NEW p \in Procs
                 PROVE  LET s == string[p]
                        IN  /\ (At(p, "user") /\ s.now # s.wrote) => s.refused
                            /\ s.now.abs = s.wrote.abs
                            /\ s.now.comps = SubSeq(s.wrote.comps, 1, Len(s.now.comps))
      BY DEF PathIsPutBack
    <2>1. CallIn(file, cleared, call[p]) /\ StringIn(call[p], string[p])
      BY CallFacts
    <2>2. call[p].pc = "user" => call[p].op # "open"
      BY <2>1 DEF CallIn
    <2> QED
      BY <2>1, <2>2 DEF At, StringIn, IsCut
  <1> QED
    BY <1>1, Invariance, PTL

-----------------------------------------------------------------------------
(* The lists of the tree, and what the calls know of them.                  *)

\* L holds the files from f on, along next, each once.
IsListIn(F, f, L) ==
    /\ L \in Seq(PointersOf(F))
    /\ IF f = NULL THEN L = <<>> ELSE L # <<>> /\ L[1] = f
    /\ \A i \in 1..Len(L) : F[L[i]].next = IF i < Len(L) THEN L[i + 1] ELSE NULL
    /\ \A i, j \in 1..Len(L) : L[i] = L[j] => i = j
ListFrom(F, f) == CHOOSE L : IsListIn(F, f, L)
ListsEnd(F) == \A f \in {NULL} \cup PointersOf(F) : IsListIn(F, f, ListFrom(F, f))

ListOf(F, d) == ListFrom(F, F[d].leaf)
NamesIn(F, d) == {F[ListOf(F, d)[i]].name : i \in 1..Len(ListOf(F, d))}
Hangs(c) == c.pc \in {"next", "leaf"}
Turns(c) == c.pc \in {"browse", "next", "leaf"}

\* What a call is about to hang into a list is in none yet.
IsApart(F, c) ==
    Hangs(c) => /\ c.seen \in {NULL} \cup PointersOf(F)
                /\ \A f \in PointersOf(F) : F[f].leaf # c.new /\ F[f].next # c.new
                /\ c.pc = "next" => F[c.new].next = NULL
NewsAreApart ==
    \A p \in Procs :
        /\ IsApart(file, call[p])
        /\ \A q \in Procs : Hangs(call[p]) /\ Hangs(call[q]) =>
              call[q].seen # call[p].new /\ (call[q].new = call[p].new => q = p)

\* B are the directories that were browsed, R those that two calls changed.
DirIn(F, B, R, d) ==
    d \notin R =>
        /\ \A i, j \in 1..Len(ListOf(F, d)) :
              F[ListOf(F, d)[i]].name = F[ListOf(F, d)[j]].name => i = j
        /\ d \in B => \A e \in DiskEntries(F[d].inum) : e.name \in NamesIn(F, d)

\* The entries before the one at work are cached.
TurnIn(F, R, c) ==
    Turns(c) /\ c.dir \notin R =>
        LET entries == EntriesOf(F[c.dir].inum)
        IN  /\ \A j \in DOMAIN entries : j < c.i => entries[j].name \in NamesIn(F, c.dir)
            /\ Hangs(c) =>
                  /\ c.i \in DOMAIN entries /\ F[c.new].name = entries[c.i].name
                  /\ F[c.dir].leaf = c.seen =>
                        /\ F[c.new].name \notin NamesIn(F, c.dir)
                        /\ c.pc = "leaf" => F[c.new].next = c.seen

\* What a handle has listed is the beginning of the list, up to its cursor.
ListedIn(F, B, R, hd) ==
    hd.whole /\ hd.dir \notin R =>
        LET L == ListOf(F, hd.dir)
        IN  /\ hd.dir \in B
            /\ \E k \in 0..Len(L) :
                  /\ IF hd.cursor = NULL THEN k = Len(L) ELSE k > 0 /\ hd.cursor = L[k]
                  /\ hd.listed = [i \in 1..k |-> F[L[i]].name]

\* The walk is where its path leads.
PlaceIn(F, f) == [dir |-> F[F[f].parent].inum, inum |-> F[f].inum]
ReachedIn(F, c, k) == PlacesBehind(PlaceIn(F, c.start), c.path.comps)[k]
Gone(c) == Len(c.path.comps) - Len(c.rest)
Target(c) == IF c.pc \in Working /\ ~Down(c) THEN c.f ELSE c.dir
Steps(c) == IF c.pc = "walk" THEN Gone(c) ELSE IF Down(c) THEN Gone(c) + 1 ELSE Len(c.path.comps)
OpenIn(F, c) ==
    c.op = "open" =>
        /\ c.start \in PointersOf(F) /\ (c.path.abs => c.start = Root)
        /\ \A i \in 1..Len(c.rest) : c.rest[i] = c.path.comps[Gone(c) + i]
        /\ PlaceIn(F, Target(c)) = ReachedIn(F, c, Steps(c))

RootIn(F) == F[Root].inum = RootInode /\ F[Root].parent = Root

LInv ==
    /\ RootIn(file)
    /\ ListsEnd(file)
    /\ NewsAreApart
    /\ \A d \in Pointers : DirIn(file, browsed, raced, d)
    /\ \A p \in Procs : /\ TurnIn(file, raced, call[p])
                        /\ OpenIn(file, call[p])
                        /\ \A i \in DOMAIN dirHandleList[p] :
                              ListedIn(file, browsed, raced, dirHandleList[p][i])

-----------------------------------------------------------------------------
(* Lists.                                                                  *)

LEMMA OneToOne ==
    ASSUME NEW m \in Nat, NEW n \in Nat, NEW f \in [1..m -> 1..n],
           \A i, j \in 1..m : f[i] = f[j] => i = j
    PROVE  m <= n
  <1>1. /\ IsFiniteSet(1..m) /\ Cardinality(1..m) = m
        /\ IsFiniteSet(1..n) /\ Cardinality(1..n) = n
    BY FS_Interval
  <1>2. ~(n < m)
    BY <1>1, FS_PigeonHole
  <1> QED
    BY <1>2

LEMMA ListMeans ==
    ASSUME NEW F, TreeIn(F), NEW f, NEW L, IsListIn(F, f, L)
    PROVE  /\ L \in Seq(1..Len(F)) /\ Len(L) \in Nat /\ L \in [1..Len(L) -> 1..Len(F)]
           /\ \A i \in 1..Len(L) : L[i] \in 1..Len(F)
           /\ Len(L) <= Len(F)
           /\ f = NULL <=> L = <<>>
           /\ f = NULL <=> Len(L) = 0
           /\ f # NULL => f \in 1..Len(F)
  <1>1. L \in Seq(1..Len(F)) /\ Len(F) \in Nat
    BY TreeTyped DEF IsListIn, PointersOf
  <1>2. Len(L) \in Nat /\ L \in [1..Len(L) -> 1..Len(F)]
    BY <1>1
  <1>3. \A i, j \in 1..Len(L) : L[i] = L[j] => i = j
    BY DEF IsListIn
  <1>4. Len(L) <= Len(F)
    BY <1>1, <1>2, <1>3, OneToOne
  <1>5. f = NULL <=> L = <<>>
    BY DEF IsListIn
  <1>6. L = <<>> <=> Len(L) = 0
    BY <1>1, EmptySeq
  <1>7. f # NULL => f \in 1..Len(F)
    <2>1. f # NULL => L[1] = f /\ Len(L) # 0
      BY <1>6 DEF IsListIn
    <2> QED
      BY <2>1, <1>2
  <1> QED
    BY <1>1, <1>2, <1>4, <1>5, <1>6, <1>7

\* The rows of Chain walk along a list to its end.
LEMMA RowsWalk ==
    ASSUME NEW F, TreeIn(F), NEW from, RowsOf(Len(F), [f \in 1..Len(F) |-> F[f].next], from),
           NEW f, NEW L, IsListIn(F, f, L)
    PROVE  from[Len(F)][f] = L
  <1> DEFINE N == Len(F)
             next == [g \in 1..N |-> F[g].next]
             IsWalked(n) == \A g \in 0..N : \A M :
                               IsListIn(F, g, M) /\ Len(M) <= n => from[n][g] = M
             T == {n \in 0..N : IsWalked(n)}
  <1>1. N \in Nat /\ \A g \in 1..N : F[g].next \in 0..N
    BY TreeTyped
  <1>2. \A n, g \in 0..N :
           from[n][g] = IF n = 0 \/ g = NULL THEN <<>> ELSE <<g>> \o from[n - 1][next[g]]
    <2> DEFINE rows == [n \in 0..N |-> [g \in 0..N |->
                      IF n = 0 \/ g = NULL THEN <<>> ELSE <<g>> \o from[n - 1][next[g]]]]
    <2>1. from = rows
      BY DEF RowsOf
    <2>2. \A n, g \in 0..N :
             rows[n][g] = IF n = 0 \/ g = NULL THEN <<>> ELSE <<g>> \o from[n - 1][next[g]]
      OBVIOUS
    <2> HIDE DEF rows, next
    <2> QED
      BY <2>1, <2>2
  <1>3. IsWalked(0)
    <2>1. ASSUME NEW g \in 0..N, NEW M, IsListIn(F, g, M), Len(M) <= 0
          PROVE  from[0][g] = M
      <3>1. M = <<>>
        BY <2>1, ListMeans
      <3>2. 0 \in 0..N
        BY <1>1
      <3> HIDE DEF next, N
      <3>3. from[0][g] = <<>>
        BY <3>2, <1>2
      <3> QED
        BY <3>1, <3>3
    <2> QED
      BY <2>1
  <1>4. ASSUME NEW n \in 0..N, n < N, IsWalked(n)
        PROVE  IsWalked(n + 1)
    <2>1. ASSUME NEW g \in 0..N, NEW M, IsListIn(F, g, M), Len(M) <= n + 1
          PROVE  from[n + 1][g] = M
      <3>1. n + 1 \in 0..N /\ n + 1 # 0 /\ (n + 1) - 1 = n
        BY <1>1, <1>4
      <3>2. CASE g = NULL
        BY <3>1, <3>2, <1>2, <2>1, ListMeans
      <3>3. CASE g # NULL
        <4>1. M \in Seq(1..N) /\ Len(M) \in Nat /\ Len(M) # 0 /\ g \in 1..N /\ M # <<>>
          BY <2>1, <3>3, ListMeans
        <4>2. /\ M[1] = g
              /\ \A i \in 1..Len(M) : F[M[i]].next = IF i < Len(M) THEN M[i + 1] ELSE NULL
              /\ \A i, j \in 1..Len(M) : M[i] = M[j] => i = j
          BY <2>1, <3>3 DEF IsListIn
        <4>3. /\ Tail(M) \in Seq(1..N) /\ Len(Tail(M)) = Len(M) - 1
              /\ \A i \in 1..Len(Tail(M)) : Tail(M)[i] = M[i + 1]
          BY <4>1, HeadTailProperties
        <4>4. F[g].next = IF 1 < Len(M) THEN M[2] ELSE NULL
          BY <4>1, <4>2
        <4>5. IsListIn(F, F[g].next, Tail(M))
          <5> DEFINE U == Tail(M)
          <5> HIDE DEF U, IsWalked, T, N, next
          <5>1. U \in Seq(PointersOf(F)) /\ Len(U) = Len(M) - 1
                /\ \A i \in 1..Len(U) : U[i] = M[i + 1]
            BY <4>3 DEF PointersOf, N, U
          <5>2. CASE Len(M) = 1
            <6>1. U = <<>> /\ F[g].next = NULL
              BY <4>4, <5>1, <5>2, EmptySeq
            <6>2. 1..Len(U) = {} /\ U \in Seq(PointersOf(F))
              BY <5>1, <5>2
            <6> QED
              BY <6>1, <6>2 DEF IsListIn, U
          <5>3. CASE Len(M) # 1
            <6>1. Len(U) # 0 /\ U # <<>> /\ U[1] = F[g].next /\ Len(U) \in Nat
              BY <4>1, <4>4, <5>1, <5>3, EmptySeq
            <6>2. F[g].next # NULL
              <7> DEFINE m == Len(M)
              <7>0. m \in Nat /\ m # 0 /\ m # 1
                BY <4>1, <5>3
              <7>1. 2 \in 1..m /\ 1 < m
                <8> HIDE DEF m
                <8>1. 1 < m
                  BY <7>0
                <8> QED
                  BY <7>0, <8>1
              <7>2. M[2] \in 1..N
                BY <2>1, <7>1, ListMeans DEF N
              <7> QED
                BY <4>4, <7>1, <7>2, <1>1 DEF NULL
            <6>3. ASSUME NEW i \in 1..Len(U)
                  PROVE  F[U[i]].next = IF i < Len(U) THEN U[i + 1] ELSE NULL
              <7>1. i + 1 \in 1..Len(M) /\ U[i] = M[i + 1] /\ (i < Len(U) <=> i + 1 < Len(M))
                BY <4>1, <5>1, <6>1
              <7>2. i < Len(U) => U[i + 1] = M[(i + 1) + 1]
                BY <5>1, <6>1
              <7> QED
                BY <4>2, <7>1, <7>2
            <6>4. \A i, j \in 1..Len(U) : U[i] = U[j] => i = j
              <7>1. \A i \in 1..Len(U) : i + 1 \in 1..Len(M) /\ i \in Nat
                BY <4>1, <5>1, <6>1
              <7>2. \A i, j \in 1..Len(U) : U[i] = U[j] => i + 1 = j + 1
                BY <4>2, <5>1, <7>1
              <7> QED
                BY <7>1, <7>2
            <6> QED
              BY <5>1, <6>1, <6>2, <6>3, <6>4 DEF IsListIn, U
          <5> QED
            BY <5>2, <5>3
        <4>6. F[g].next \in 0..N /\ Len(Tail(M)) <= n
          BY <1>1, <2>1, <4>1, <4>3
        <4>7. from[n][F[g].next] = Tail(M)
          BY <1>4, <4>5, <4>6
        <4>8. from[n + 1][g] = <<g>> \o Tail(M)
          <5>1. next[g] = F[g].next
            BY <4>1
          <5> HIDE DEF next
          <5>2. g \in 0..N
            OBVIOUS
          <5>3. from[n + 1][g] = <<g>> \o from[n][next[g]]
            BY <1>2, <3>1, <3>3, <5>2
          <5> QED
            BY <4>7, <5>1, <5>3
        <4>9. M = <<Head(M)>> \o Tail(M) /\ Head(M) = g
          BY <4>1, <4>2, HeadTailProperties
        <4> QED
          BY <4>8, <4>9
      <3> QED
        BY <3>2, <3>3
    <2> HIDE DEF N
    <2> QED
      BY <2>1
  <1>5. 0..N \subseteq T
    <2> HIDE DEF IsWalked, N
    <2>1. 0 \in T /\ T \in SUBSET Nat
      BY <1>1, <1>3
    <2>2. \A n \in T : n < N => n + 1 \in T
      BY <1>1, <1>4
    <2> HIDE DEF T
    <2> QED
      BY <1>1, <2>1, <2>2, UpTo
  <1>6. IsWalked(N)
    <2> HIDE DEF IsWalked
    <2> QED
      BY <1>1, <1>5
  <1>7. f \in 0..N /\ Len(L) <= N
    BY ListMeans DEF NULL
  <1> QED
    BY <1>6, <1>7

LEMMA ListIs ==
    ASSUME NEW F, TreeIn(F), NEW f, NEW L, IsListIn(F, f, L)
    PROVE  ListFrom(F, f) = L
  <1>1. IsListIn(F, f, ListFrom(F, f))
    BY DEF ListFrom
  <1>2. Len(F) \in Nat /\ [g \in 1..Len(F) |-> F[g].next] \in [1..Len(F) -> 0..Len(F)]
    BY TreeTyped
  <1>3. PICK from : RowsOf(Len(F), [g \in 1..Len(F) |-> F[g].next], from)
    BY <1>2, RowsExist
  <1> QED
    BY <1>1, <1>3, RowsWalk

LEMMA ChainIs ==
    ASSUME TreeIn(file), NEW dir \in Pointers, ListsEnd(file)
    PROVE  /\ Chain(dir) = ListOf(file, dir)
           /\ IsListIn(file, file[dir].leaf, ListOf(file, dir))
  <1> DEFINE N == Len(file)
             next == [f \in 1..N |-> file[f].next]
             rows(g) == [n \in 0..N |-> [f \in 0..N |->
                            IF n = 0 \/ f = NULL THEN <<>> ELSE <<f>> \o g[n - 1][file[f].next]]]
             from == CHOOSE g : g = rows(g)
  <1>1. N \in Nat /\ next \in [1..N -> 0..N] /\ file[dir].leaf \in 0..N
    BY TreeTyped DEF Pointers
  <1>2. \A g : g = rows(g) <=> RowsOf(N, next, g)
    <2>1. \A f \in 0..N : f # NULL => next[f] = file[f].next
      BY DEF NULL
    <2>2. \A g : rows(g) = [n \in 0..N |-> [f \in 0..N |->
                               IF n = 0 \/ f = NULL THEN <<>> ELSE <<f>> \o g[n - 1][next[f]]]]
      BY <2>1
    <2> HIDE DEF rows
    <2> QED
      BY <2>2 DEF RowsOf
  <1>3. Chain(dir) = from[N][file[dir].leaf]
    BY DEF Chain
  <1>4. IsListIn(file, file[dir].leaf, ListOf(file, dir))
    <2>1. file[dir].leaf \in {NULL} \cup PointersOf(file)
      BY <1>1 DEF PointersOf, NULL
    <2> QED
      BY <2>1 DEF ListsEnd, ListOf
  <1> HIDE DEF rows
  <1>5. PICK g : RowsOf(N, next, g)
    <2> HIDE DEF N, next
    <2> QED
      BY <1>1, RowsExist
  <1>6. from = rows(from)
    <2> HIDE DEF N, next
    <2> QED
      BY <1>2, <1>5
  <1> HIDE DEF from
  <1>7. from[N][file[dir].leaf] = ListOf(file, dir)
    BY <1>2, <1>4, <1>6, RowsWalk
  <1> QED
    BY <1>3, <1>4, <1>7

\* A list stays a list while its files keep their next ones.
LEMMA ListKeeps ==
    ASSUME NEW F, NEW G, TreeIn(F), TreeIn(G), Len(F) <= Len(G),
           NEW f, NEW L, IsListIn(F, f, L),
           \A i \in 1..Len(L) : G[L[i]].next = F[L[i]].next
    PROVE  IsListIn(G, f, L) /\ ListFrom(G, f) = L
  <1>1. L \in Seq(PointersOf(G))
    <2>1. L \in Seq(PointersOf(F))
      BY DEF IsListIn
    <2>2. PointersOf(F) \subseteq PointersOf(G)
      BY TreeTyped DEF PointersOf
    <2> QED
      BY <2>1, <2>2
  <1>2. IsListIn(G, f, L)
    BY <1>1, Zenon DEF IsListIn
  <1> QED
    BY <1>2, ListIs

\* A file that nothing points to is in no list but its own.
LEMMA NotInList ==
    ASSUME NEW F, TreeIn(F), NEW f, NEW L, IsListIn(F, f, L), NEW n, f # n,
           \A h \in PointersOf(F) : F[h].next # n
    PROVE  \A i \in 1..Len(L) : L[i] # n
  <1>1. Len(L) \in Nat /\ \A i \in 1..Len(L) : L[i] \in PointersOf(F)
    BY ListMeans DEF PointersOf
  <1>2. ASSUME NEW i \in 1..Len(L)
        PROVE  L[i] # n
    <2>1. CASE i = 1
      <3>1. f # NULL
        BY <1>1, ListMeans
      <3> QED
        BY <2>1, <3>1 DEF IsListIn
    <2>2. CASE i # 1
      <3>1. i - 1 \in 1..Len(L) /\ i - 1 < Len(L) /\ (i - 1) + 1 = i
        BY <1>1, <2>2
      <3>2. F[L[i - 1]].next = L[i]
        BY <3>1 DEF IsListIn
      <3> QED
        BY <1>1, <3>1, <3>2
    <2> QED
      BY <2>1, <2>2
  <1> QED
    BY <1>2

\* A file in front of a list.
LEMMA ListBefore ==
    ASSUME NEW F, NEW G, TreeIn(F), TreeIn(G), Len(F) <= Len(G),
           NEW f, NEW L, IsListIn(F, f, L),
           \A i \in 1..Len(L) : G[L[i]].next = F[L[i]].next,
           NEW n \in PointersOf(G), G[n].next = f, \A i \in 1..Len(L) : L[i] # n
    PROVE  IsListIn(G, n, <<n>> \o L)
  <1> DEFINE M == <<n>> \o L
             m == Len(L)
  <1>1. /\ L \in Seq(PointersOf(G)) /\ m \in Nat
        /\ IF f = NULL THEN m = 0 ELSE m # 0 /\ L[1] = f
        /\ \A i \in 1..m : G[L[i]].next = IF i < m THEN L[i + 1] ELSE NULL
        /\ \A i, j \in 1..m : L[i] = L[j] => i = j
    <2>1. IsListIn(G, f, L) /\ m \in Nat
      BY ListKeeps, ListMeans
    <2>2. L = <<>> <=> m = 0
      BY <2>1, EmptySeq DEF IsListIn
    <2> QED
      BY <2>1, <2>2 DEF IsListIn
  <1>2. /\ M \in Seq(PointersOf(G)) /\ Len(M) = m + 1 /\ M[1] = n
        /\ \A i \in 1..m : M[i + 1] = L[i]
    <2>1. <<n>> \in Seq(PointersOf(G)) /\ Len(<<n>>) = 1
      OBVIOUS
    <2>2. /\ M \in Seq(PointersOf(G)) /\ Len(M) = Len(<<n>>) + Len(L)
          /\ \A i \in 1..(Len(<<n>>) + Len(L)) :
                M[i] = IF i <= Len(<<n>>) THEN <<n>>[i] ELSE L[i - Len(<<n>>)]
      BY <1>1, <2>1, ConcatProperties
    <2> HIDE DEF M, m
    <2>3. /\ Len(M) = 1 + m
          /\ \A i \in 1..(1 + m) : M[i] = IF i <= 1 THEN <<n>>[i] ELSE L[i - 1]
      BY <2>1, <2>2 DEF m
    <2>4. 1 \in 1..(1 + m) /\ M[1] = n
      BY <1>1, <2>3
    <2>5. ASSUME NEW i \in 1..m
          PROVE  M[i + 1] = L[i]
      <3>1. i + 1 \in 1..(1 + m) /\ ~(i + 1 <= 1) /\ (i + 1) - 1 = i
        BY <1>1
      <3> QED
        BY <2>3, <3>1
    <2> QED
      BY <1>1, <2>2, <2>3, <2>4, <2>5
  <1>3. n # NULL /\ M # <<>>
    <2>1. n # NULL
      BY TreeTyped DEF PointersOf, NULL
    <2> HIDE DEF M, m
    <2> QED
      BY <2>1, <1>1, <1>2, EmptySeq
  <1> HIDE DEF M, m
  <1>4. \A i \in 1..(m + 1) : i = 1 \/ (i - 1 \in 1..m /\ M[i] = L[i - 1])
    <2>1. \A i \in 1..(m + 1) : i = 1 \/ (i - 1 \in 1..m /\ (i - 1) + 1 = i)
      BY <1>1
    <2> QED
      BY <1>2, <2>1
  <1>5. ASSUME NEW i \in 1..(m + 1)
        PROVE  G[M[i]].next = IF i < m + 1 THEN M[i + 1] ELSE NULL
    <2>1. CASE i = 1
      <3>1. CASE m = 0
        BY <1>1, <1>2, <2>1, <3>1
      <3>2. CASE m # 0
        <4>1. 1 \in 1..m /\ 1 < m + 1 /\ M[1 + 1] = L[1]
          BY <1>1, <1>2, <3>2
        <4> QED
          BY <1>1, <1>2, <2>1, <3>2, <4>1
      <3> QED
        BY <3>1, <3>2
    <2>2. CASE i # 1
      <3>1. i - 1 \in 1..m /\ M[i] = L[i - 1] /\ (i - 1 < m <=> i < m + 1) /\ (i - 1) + 1 = i
        BY <1>1, <1>4, <2>2
      <3>2. i < m + 1 => i \in 1..m /\ M[i + 1] = L[i]
        BY <1>1, <1>2
      <3> QED
        BY <1>1, <3>1, <3>2
    <2> QED
      BY <2>1, <2>2
  <1>6. ASSUME NEW i \in 1..(m + 1), NEW j \in 1..(m + 1), M[i] = M[j]
        PROVE  i = j
    <2>1. \A k \in 1..m : L[k] # n
      BY DEF m
    <2>2. CASE i = 1 \/ j = 1
      BY <1>2, <1>4, <1>6, <2>1, <2>2
    <2>3. CASE i # 1 /\ j # 1
      <3>1. i - 1 \in 1..m /\ j - 1 \in 1..m /\ L[i - 1] = L[j - 1]
        BY <1>4, <1>6, <2>3
      <3>2. i - 1 = j - 1
        BY <1>1, <3>1
      <3> QED
        BY <1>1, <3>2
    <2> QED
      BY <2>2, <2>3
  <1> QED
    BY <1>2, <1>3, <1>5, <1>6 DEF IsListIn, M

\* The list of a directory holds its files.
LEMMA ListedIsOwn ==
    ASSUME NEW F, TreeIn(F), NEW d \in PointersOf(F), NEW L, IsListIn(F, F[d].leaf, L)
    PROVE  \A i \in 1..Len(L) : /\ L[i] \in PointersOf(F) /\ L[i] # Root
                                /\ F[L[i]].parent = d
  <1> DEFINE IsOwn(i) == i = 0 \/ (L[i] # Root /\ F[L[i]].parent = d)
             T == {i \in 0..Len(L) : IsOwn(i)}
  <1>1. Len(L) \in Nat /\ \A i \in 1..Len(L) : L[i] \in PointersOf(F) /\ L[i] # NULL
    BY ListMeans, TreeTyped DEF PointersOf, NULL
  <1>2. ASSUME NEW i \in 0..Len(L), i < Len(L), IsOwn(i)
        PROVE  IsOwn(i + 1)
    <2>1. CASE i = 0
      <3>1. F[d].leaf # NULL /\ L[1] = F[d].leaf
        BY <1>1, <1>2, <2>1, ListMeans DEF IsListIn
      <3>2. F[F[d].leaf].parent = d /\ F[d].leaf # Root
        BY <3>1 DEF TreeIn
      <3> QED
        BY <2>1, <3>1, <3>2
    <2>2. CASE i # 0
      <3>1. i \in 1..Len(L) /\ i + 1 \in 1..Len(L)
        BY <1>1, <1>2, <2>2
      <3>2. F[L[i]].next = L[i + 1]
        BY <1>2, <3>1 DEF IsListIn
      <3>3. F[L[i]].next # NULL /\ L[i] \in PointersOf(F)
        BY <1>1, <3>1, <3>2
      <3>4. F[F[L[i]].next].parent = F[L[i]].parent /\ F[L[i]].next # Root
        BY <3>3 DEF TreeIn
      <3> QED
        BY <1>2, <2>2, <3>2, <3>4
    <2> QED
      BY <2>1, <2>2
  <1>3. 0..Len(L) \subseteq T
    <2> HIDE DEF IsOwn
    <2>1. 0 \in T /\ T \in SUBSET Nat
      <3>1. IsOwn(0)
        BY DEF IsOwn
      <3> QED
        BY <1>1, <3>1
    <2>2. \A i \in T : i < Len(L) => i + 1 \in T
      BY <1>1, <1>2
    <2> HIDE DEF T
    <2> QED
      BY <1>1, <2>1, <2>2, UpTo
  <1>4. \A i \in 1..Len(L) : i \in T /\ i # 0
    BY <1>1, <1>3
  <1> QED
    BY <1>1, <1>4

LEMMA ListOfHolds ==
    ASSUME NEW F, TreeIn(F), ListsEnd(F), NEW d \in PointersOf(F)
    PROVE  /\ IsListIn(F, F[d].leaf, ListOf(F, d))
           /\ Len(ListOf(F, d)) \in Nat
           /\ \A i \in 1..Len(ListOf(F, d)) :
                 /\ ListOf(F, d)[i] \in PointersOf(F) /\ ListOf(F, d)[i] # Root
                 /\ F[ListOf(F, d)[i]].parent = d
  <1>1. F[d].leaf \in {NULL} \cup PointersOf(F)
    BY DEF TreeIn
  <1>2. IsListIn(F, F[d].leaf, ListOf(F, d))
    BY <1>1 DEF ListsEnd, ListOf
  <1> QED
    BY <1>2, ListedIsOwn, ListMeans

\* The files that IsCached finds are those of the list.
LEMMA CachedIs ==
    ASSUME TreeIn(file), ListsEnd(file), NEW d \in Pointers, NEW name
    PROVE  /\ IsCached(d, name) # NULL <=> name \in NamesIn(file, d)
           /\ IsCached(d, name) # NULL =>
                 /\ IsCached(d, name) \in Pointers /\ IsCached(d, name) # Root
                 /\ file[IsCached(d, name)].name = name
                 /\ file[IsCached(d, name)].parent = d
  <1> DEFINE L == ListOf(file, d)
             at == {i \in DOMAIN L : file[L[i]].name = name}
             first == CHOOSE i \in at : \A j \in at : i <= j
  <1>1. Chain(d) = L
    BY ChainIs
  <1>2. /\ L \in Seq(Pointers) /\ Len(L) \in Nat
        /\ \A i \in 1..Len(L) : L[i] \in Pointers /\ L[i] # Root /\ file[L[i]].parent = d
    BY ListOfHolds DEF IsListIn, Pointers, PointersOf
  <1>3. DOMAIN L = 1..Len(L) /\ \A i \in 1..Len(L) : L[i] # NULL
    BY <1>2 DEF Pointers, NULL
  <1>4. IsCached(d, name) = IF at = {} THEN NULL ELSE L[first]
    BY <1>1 DEF IsCached
  <1>5. name \in NamesIn(file, d) <=> at # {}
    BY <1>3 DEF NamesIn
  <1> HIDE DEF L
  <1>6. CASE at = {}
    BY <1>4, <1>5, <1>6
  <1>7. CASE at # {}
    <2>1. at \subseteq Nat
      BY <1>2, <1>3
    <2>2. \E i \in at : \A j \in at : i <= j
      BY <1>7, <2>1, LeastExists
    <2>3. first \in at
      BY <2>2
    <2> HIDE DEF first
    <2> QED
      BY <1>2, <1>3, <1>4, <1>5, <1>7, <2>3
  <1> QED
    BY <1>6, <1>7

-----------------------------------------------------------------------------
(* What stays the same of a directory.                                     *)

SameDir(F, G, d) ==
    /\ G[d].inum = F[d].inum /\ G[d].leaf = F[d].leaf
    /\ ListOf(G, d) = ListOf(F, d)
    /\ \A i \in 1..Len(ListOf(F, d)) : G[ListOf(F, d)[i]].name = F[ListOf(F, d)[i]].name

LEMMA SameNames ==
    ASSUME NEW F, NEW G, NEW d, SameDir(F, G, d)
    PROVE  NamesIn(G, d) = NamesIn(F, d)
  BY DEF SameDir, NamesIn

\* Nothing that the list of d goes through is written.
LEMMA DirStays ==
    ASSUME NEW F, NEW G, TreeIn(F), TreeIn(G), ListsEnd(F), Len(F) <= Len(G),
           NEW d \in PointersOf(F), G[d].inum = F[d].inum, G[d].leaf = F[d].leaf,
           \A i \in 1..Len(ListOf(F, d)) :
               /\ G[ListOf(F, d)[i]].name = F[ListOf(F, d)[i]].name
               /\ G[ListOf(F, d)[i]].next = F[ListOf(F, d)[i]].next
    PROVE  SameDir(F, G, d)
  <1>1. IsListIn(F, F[d].leaf, ListOf(F, d))
    BY ListOfHolds
  <1>2. ListFrom(G, F[d].leaf) = ListOf(F, d)
    BY <1>1, ListKeeps
  <1> QED
    BY <1>2 DEF SameDir, ListOf

LEMMA DirInStays ==
    ASSUME NEW F, NEW G, NEW B, NEW R, NEW A, NEW S, NEW d,
           SameDir(F, G, d), DirIn(F, B, R, d), R \subseteq S, d \in A => d \in B
    PROVE  DirIn(G, A, S, d)
  <1>1. NamesIn(G, d) = NamesIn(F, d)
    BY SameNames
  <1> QED
    BY <1>1 DEF DirIn, SameDir

LEMMA TurnInStays ==
    ASSUME NEW F, NEW G, NEW R, NEW S, NEW c, SameDir(F, G, c.dir), R \subseteq S,
           Hangs(c) => G[c.new].name = F[c.new].name /\ G[c.new].next = F[c.new].next,
           TurnIn(F, R, c)
    PROVE  TurnIn(G, S, c)
  <1>1. NamesIn(G, c.dir) = NamesIn(F, c.dir)
    BY SameNames
  <1> QED
    BY <1>1 DEF TurnIn, SameDir

LEMMA ListedInStays ==
    ASSUME NEW F, NEW G, NEW B, NEW R, NEW A, NEW S, NEW hd,
           SameDir(F, G, hd.dir), R \subseteq S, B \subseteq A, ListedIn(F, B, R, hd)
    PROVE  ListedIn(G, A, S, hd)
  <1> DEFINE L == ListOf(F, hd.dir)
  <1>1. SUFFICES ASSUME hd.whole, hd.dir \notin S
                 PROVE  /\ hd.dir \in A
                        /\ \E k \in 0..Len(L) :
                              /\ IF hd.cursor = NULL THEN k = Len(L) ELSE k > 0 /\ hd.cursor = L[k]
                              /\ hd.listed = [i \in 1..k |-> G[L[i]].name]
    BY DEF ListedIn, SameDir
  <1>2. PICK k \in 0..Len(L) :
              /\ IF hd.cursor = NULL THEN k = Len(L) ELSE k > 0 /\ hd.cursor = L[k]
              /\ hd.listed = [i \in 1..k |-> F[L[i]].name]
    BY <1>1 DEF ListedIn
  <1>3. hd.dir \in A
    BY <1>1 DEF ListedIn
  <1>4. [i \in 1..k |-> G[L[i]].name] = [i \in 1..k |-> F[L[i]].name]
    <2>1. \A i \in 1..k : i \in 1..Len(L)
      OBVIOUS
    <2> QED
      BY <2>1 DEF SameDir
  <1> QED
    BY <1>2, <1>3, <1>4

LEMMA TargetIn ==
    ASSUME NEW F, NEW C, NEW c, CallIn(F, C, c), c.op = "open"
    PROVE  Target(c) \in PointersOf(F)
  <1>1. c.pc \in HasDir => c.dir \in PointersOf(F)
    BY DEF CallIn
  <1>2. c.pc \in Working => c.f \in PointersOf(F) /\ (Down(c) => c.f = c.dir)
    BY DEF CallIn
  <1>3. c.pc \in HasDir \/ c.pc \in Working
    <2>1. c.pc \in Pcs
      BY Zenon DEF CallIn, CallRecord
    <2>2. c.pc # "user"
      BY DEF CallIn
    <2> QED
      BY <2>1, <2>2 DEF Pcs, HasDir, Working
  <1> QED
    BY <1>1, <1>2, <1>3 DEF Target

\* The places of the files of the tree stay.
LEMMA OpenInStays ==
    ASSUME NEW F, NEW G, TreeIn(F), TreeIn(G), Len(F) <= Len(G),
           \A f \in PointersOf(F) : G[f].inum = F[f].inum /\ G[f].parent = F[f].parent,
           NEW c, c.op = "open" => Target(c) \in PointersOf(F), OpenIn(F, c)
    PROVE  OpenIn(G, c)
  <1>1. \A f \in PointersOf(F) : /\ F[f].parent \in PointersOf(F) /\ f \in PointersOf(G)
                                 /\ PlaceIn(G, f) = PlaceIn(F, f)
    <2>1. \A f \in PointersOf(F) : F[f].parent \in PointersOf(F)
      BY DEF TreeIn
    <2>2. PointersOf(F) \subseteq PointersOf(G)
      BY TreeTyped DEF PointersOf
    <2> QED
      BY <2>1, <2>2 DEF PlaceIn
  <1>2. SUFFICES ASSUME c.op = "open"
                 PROVE  OpenIn(G, c)
    BY DEF OpenIn
  <1>3. c.start \in PointersOf(F) /\ Target(c) \in PointersOf(F)
    BY <1>2 DEF OpenIn
  <1>4. /\ PlaceIn(G, Target(c)) = PlaceIn(F, Target(c))
        /\ ReachedIn(G, c, Steps(c)) = ReachedIn(F, c, Steps(c))
        /\ c.start \in PointersOf(G)
    BY <1>1, <1>3 DEF ReachedIn
  <1> QED
    BY <1>4 DEF OpenIn

-----------------------------------------------------------------------------
(* What paths mean.                                                        *)

LEMMA PlacesBehindHold ==
    ASSUME NEW start, NEW comps \in Seq(STRING)
    PROVE  /\ PlacesBehind(start, comps)[0] = start
           /\ \A k \in 1..Len(comps) : PlacesBehind(start, comps)[k] =
                                          Behind(PlacesBehind(start, comps)[k - 1], comps[k])
  <1> DEFINE N == Len(comps)
             row(n, before) == IF n = 0 THEN start ELSE Behind(before, comps[n])
             IsUpTo(m, g) == \A n \in 0..m : g[n] = row(n, g[n - 1])
             T == {m \in 0..N : \E g : IsUpTo(m, g)}
             after == CHOOSE g : g = [k \in 0..N |-> row(k, g[k - 1])]
  <1>0. N \in Nat /\ \A x, y : row(0, x) = row(0, y)
    OBVIOUS
  <1>1. 0 \in T
    <2> DEFINE g == [n \in {0} |-> start]
    <2>1. IsUpTo(0, g)
      OBVIOUS
    <2>2. 0 \in 0..N
      BY <1>0
    <2> HIDE DEF IsUpTo, g
    <2> QED
      BY <2>1, <2>2
  <1>2. ASSUME NEW m \in T, m < N
        PROVE  m + 1 \in T
    <2>1. PICK g : IsUpTo(m, g)
      OBVIOUS
    <2> DEFINE h == [n \in 0..(m + 1) |-> IF n = m + 1 THEN row(m + 1, g[m]) ELSE g[n]]
    <2>2. m \in Nat /\ m + 1 \in 0..N
      BY <1>0, <1>2
    <2> HIDE DEF row, N
    <2>3. h[m + 1] = row(m + 1, g[m]) /\ \A n \in 0..m : h[n] = g[n]
      BY <2>2
    <2>4. ASSUME NEW n \in 0..(m + 1)
          PROVE  h[n] = row(n, h[n - 1])
      <3>1. CASE n = m + 1
        <4>1. n - 1 = m /\ m \in 0..m
          BY <3>1, <2>2
        <4> QED
          BY <3>1, <4>1, <2>3
      <3>2. CASE n \in 0..m /\ n # 0
        <4>1. n - 1 \in 0..m
          BY <3>2, <2>2
        <4> HIDE DEF h
        <4> QED
          BY <3>2, <4>1, <2>1, <2>3
      <3>3. CASE n = 0
        <4>1. 0 \in 0..m
          BY <2>2
        <4> HIDE DEF h
        <4> QED
          BY <3>3, <4>1, <1>0, <2>1, <2>3
      <3> QED
        BY <3>1, <3>2, <3>3, <2>2
    <2> HIDE DEF h
    <2>5. IsUpTo(m + 1, h)
      BY <2>4
    <2> HIDE DEF IsUpTo
    <2> QED
      BY <2>2, <2>5
  <1> HIDE DEF row, IsUpTo, N
  <1>3. 0..N \subseteq T
    <2>1. T \subseteq Nat
      BY <1>0
    <2> HIDE DEF T
    <2> QED
      BY <1>0, <1>1, <1>2, <2>1, UpTo
  <1>4. PICK g : IsUpTo(N, g)
    BY <1>0, <1>3
  <1> DEFINE f == [n \in 0..N |-> g[n]]
  <1>5. ASSUME NEW n \in 0..N
        PROVE  f[n] = row(n, f[n - 1])
    <2>1. CASE n = 0
      <3>1. f[0] = g[0] /\ g[0] = row(0, g[0 - 1])
        BY <1>4, <2>1 DEF IsUpTo
      <3> HIDE DEF f
      <3> QED
        BY <2>1, <3>1, <1>0
    <2>2. CASE n # 0
      <3>1. n - 1 \in 0..N
        BY <2>2, <1>0
      <3> QED
        BY <3>1, <1>4 DEF IsUpTo
    <2> QED
      BY <2>1, <2>2
  <1>6. f = [k \in 0..N |-> row(k, f[k - 1])]
    BY <1>5
  <1> HIDE DEF f
  <1>7. after = [k \in 0..N |-> row(k, after[k - 1])]
    BY <1>6
  <1>8. PlacesBehind(start, comps) = after
    BY DEF PlacesBehind, row, N
  <1> HIDE DEF after
  <1>9. \A k \in 0..N : after[k] = row(k, after[k - 1])
    BY <1>7
  <1>10. 0 \in 0..N /\ \A k \in 1..N : k \in 0..N /\ k # 0
    BY <1>0
  <1>11. after[0] = start /\ \A k \in 1..N : after[k] = Behind(after[k - 1], comps[k])
    BY <1>9, <1>10 DEF row
  <1> QED
    BY <1>8, <1>11 DEF N

\* Once there is nothing, nothing comes.
LEMMA NowhereStays ==
    ASSUME NEW start, NEW comps \in Seq(STRING), NEW k \in 0..Len(comps),
           PlacesBehind(start, comps)[k] = Nowhere
    PROVE  Resolve(start, comps) = Nowhere
  <1> DEFINE N == Len(comps)
             after == PlacesBehind(start, comps)
             T == {m \in 0..N : m < k \/ after[m] = Nowhere}
  <1>1. N \in Nat /\ k \in 0..N /\ \A m \in 1..N : after[m] = Behind(after[m - 1], comps[m])
    BY PlacesBehindHold
  <1>2. after[k] = Nowhere
    OBVIOUS
  <1> HIDE DEF N, after
  <1>3. 0 \in T /\ T \subseteq Nat
    BY <1>1, <1>2
  <1>4. ASSUME NEW m \in T, m < N
        PROVE  m + 1 \in T
    <2>1. m + 1 \in 1..N /\ (m + 1) - 1 = m /\ m \in Nat /\ m + 1 \in 0..N
      BY <1>1, <1>4
    <2>2. CASE m + 1 < k
      BY <2>1, <2>2
    <2>3. CASE m + 1 = k
      BY <1>2, <2>1, <2>3
    <2>4. CASE m + 1 > k
      <3>1. after[m] = Nowhere
        BY <1>1, <2>1, <2>4
      <3>2. after[m + 1] = Behind(Nowhere, comps[m + 1])
        BY <1>1, <2>1, <3>1
      <3> QED
        BY <2>1, <3>2 DEF Behind
    <2> QED
      BY <1>1, <2>1, <2>2, <2>3, <2>4
  <1>5. 0..N \subseteq T
    <2> HIDE DEF T
    <2> QED
      BY <1>1, <1>3, <1>4, UpTo
  <1>6. after[N] = Nowhere
    BY <1>1, <1>5
  <1> QED
    BY <1>6 DEF Resolve, N, after

LEMMA EntriesHold ==
    ASSUME NEW d, NEW e \in DiskEntries(d)
    PROVE  /\ d \in DOMAIN Entries /\ IsDir(d)
           /\ e.name \notin {".", ".."} /\ e.inum # RootInode
           /\ IsDir(e.inum) => \A g \in DOMAIN Entries :
                 (\E h \in DiskEntries(g) : h.inum = e.inum) => g = d
           /\ \A h \in DiskEntries(d) : h.name = e.name => h = e
  <1>1. d \in DOMAIN Entries
    <2>1. CASE d \notin DOMAIN Entries
      BY <2>1 DEF DiskEntries, EntriesOf, IsDir
    <2> QED
      BY <2>1
  <1>2. DiskEntries(d) = {Entries[d][i] : i \in DOMAIN Entries[d]}
    BY <1>1 DEF DiskEntries, EntriesOf, IsDir
  <1>3. \A h \in DiskEntries(d) : h.name = e.name => h = e
    BY <1>1, <1>2, EntriesAssumption
  <1> QED
    BY <1>1, <1>3, DirectoriesAssumption DEF IsDir

\* Where a file of the tree is on the disk.
LEMMA PlaceHoldsIn ==
    ASSUME NEW F, TreeIn(F), RootIn(F), NEW f \in PointersOf(F)
    PROVE  /\ F[f].parent \in PointersOf(F)
           /\ F[F[f].parent].inum \in DOMAIN Entries
           /\ PlaceIn(F, f) # Nowhere
           /\ PlaceIn(F, f).dir = F[F[f].parent].inum /\ PlaceIn(F, f).inum = F[f].inum
           /\ f # Root => [name |-> F[f].name, inum |-> F[f].inum]
                             \in DiskEntries(F[F[f].parent].inum)
  <1>1. /\ F[f].parent \in PointersOf(F)
        /\ f # Root => [name |-> F[f].name, inum |-> F[f].inum]
                          \in DiskEntries(F[F[f].parent].inum)
    BY DEF TreeIn
  <1>2. F[F[f].parent].inum \in DOMAIN Entries
    <2>1. CASE f = Root
      BY <2>1, EntriesAssumption DEF RootIn
    <2>2. CASE f # Root
      BY <1>1, <2>2, EntriesHold
    <2> QED
      BY <2>1, <2>2
  <1>3. PlaceIn(F, f).dir = F[F[f].parent].inum /\ PlaceIn(F, f).inum = F[f].inum
    BY DEF PlaceIn
  <1>4. PlaceIn(F, f) # Nowhere
    BY <1>2, <1>3, DirectoriesAssumption DEF Nowhere
  <1> QED
    BY <1>1, <1>2, <1>3, <1>4

\* Down into a file of the directory.
LEMMA BelowIs ==
    ASSUME NEW F, TreeIn(F), RootIn(F), NEW d \in PointersOf(F), NEW f \in PointersOf(F),
           f # Root, F[f].parent = d
    PROVE  Behind(PlaceIn(F, d), F[f].name) = PlaceIn(F, f)
  <1> DEFINE e == [name |-> F[f].name, inum |-> F[f].inum]
             found == {h \in DiskEntries(F[d].inum) : h.name = F[f].name}
  <1>1. e \in DiskEntries(F[d].inum) /\ PlaceIn(F, d) # Nowhere /\ PlaceIn(F, d).inum = F[d].inum
    BY PlaceHoldsIn
  <1>2. e.name = F[f].name /\ e.inum = F[f].inum
    OBVIOUS
  <1>3. /\ F[f].name \notin {".", ".."}
        /\ \A h \in DiskEntries(F[d].inum) : h.name = F[f].name => h = e
    BY <1>1, <1>2, EntriesHold
  <1> HIDE DEF e
  <1>4. found # {} /\ (CHOOSE h \in found : TRUE) = e
    BY <1>1, <1>2, <1>3
  <1>5. Below(PlaceIn(F, d), F[f].name) = [dir |-> F[d].inum, inum |-> F[f].inum]
    BY <1>1, <1>2, <1>4 DEF Below
  <1>6. PlaceIn(F, f) = [dir |-> F[d].inum, inum |-> F[f].inum]
    BY DEF PlaceIn
  <1> QED
    BY <1>1, <1>3, <1>5, <1>6 DEF Behind

LEMMA NothingBelow ==
    ASSUME NEW F, TreeIn(F), RootIn(F), NEW d \in PointersOf(F), NEW name,
           name \notin {".", ".."}, \A e \in DiskEntries(F[d].inum) : e.name # name
    PROVE  Behind(PlaceIn(F, d), name) = Nowhere
  <1>1. PlaceIn(F, d) # Nowhere /\ PlaceIn(F, d).inum = F[d].inum
    BY PlaceHoldsIn
  <1>2. Below(PlaceIn(F, d), name) = Nowhere
    BY <1>1 DEF Below
  <1> QED
    BY <1>1, <1>2 DEF Behind

\* Up into the directory above.
LEMMA AboveIs ==
    ASSUME NEW F, TreeIn(F), RootIn(F), NEW f \in PointersOf(F)
    PROVE  Behind(PlaceIn(F, f), "..") = PlaceIn(F, F[f].parent)
  <1> DEFINE d == F[f].parent
             g == F[d].parent
  <1>1. /\ d \in PointersOf(F) /\ F[d].inum \in DOMAIN Entries
        /\ PlaceIn(F, f) # Nowhere /\ PlaceIn(F, f).dir = F[d].inum
    BY PlaceHoldsIn
  <1> HIDE DEF d
  <1>2. /\ g \in PointersOf(F) /\ F[g].inum \in DOMAIN Entries
        /\ d # Root => [name |-> F[d].name, inum |-> F[d].inum] \in DiskEntries(F[g].inum)
    BY <1>1, PlaceHoldsIn
  <1>3. Parent(F[d].inum) = F[g].inum
    <2>1. CASE d = Root
      BY <2>1 DEF Parent, RootIn
    <2>2. CASE d # Root
      <3> DEFINE e == [name |-> F[d].name, inum |-> F[d].inum]
      <3>1. e \in DiskEntries(F[g].inum) /\ e.inum = F[d].inum
        BY <1>2, <2>2
      <3> HIDE DEF e, g
      <3>2. /\ F[d].inum # RootInode
            /\ \A x \in DOMAIN Entries :
                  (\E h \in DiskEntries(x) : h.inum = F[d].inum) => x = F[g].inum
        BY <1>1, <3>1, EntriesHold DEF IsDir
      <3>3. \E h \in DiskEntries(F[g].inum) : h.inum = F[d].inum
        BY <3>1
      <3>4. (CHOOSE x \in DOMAIN Entries : \E h \in DiskEntries(x) : h.inum = F[d].inum)
               = F[g].inum
        BY <1>2, <3>2, <3>3
      <3> QED
        BY <3>2, <3>4 DEF Parent
    <2> QED
      BY <2>1, <2>2
  <1>4. PlaceIn(F, d) = [dir |-> F[g].inum, inum |-> F[d].inum]
    BY DEF PlaceIn
  <1>5. Behind(PlaceIn(F, f), "..") = [dir |-> Parent(F[d].inum), inum |-> F[d].inum]
    BY <1>1 DEF Behind
  <1> QED
    BY <1>3, <1>4, <1>5 DEF d

-----------------------------------------------------------------------------
(* Steps that leave the shape of the tree.                                 *)

SameShape(F, G) ==
    /\ Len(G) = Len(F)
    /\ \A f \in PointersOf(F) : /\ G[f].inum = F[f].inum /\ G[f].name = F[f].name
                                /\ G[f].leaf = F[f].leaf /\ G[f].next = F[f].next
                                /\ G[f].parent = F[f].parent

LEMMA ShapeStays ==
    ASSUME NEW F, NEW G, TreeIn(F), TreeIn(G), ListsEnd(F), SameShape(F, G)
    PROVE  /\ ListsEnd(G) /\ PointersOf(G) = PointersOf(F)
           /\ \A d \in PointersOf(F) : SameDir(F, G, d)
  <1>1. PointersOf(G) = PointersOf(F) /\ Len(F) <= Len(G) /\ Len(F) \in Nat
    BY TreeTyped DEF PointersOf, SameShape
  <1>2. ASSUME NEW f \in {NULL} \cup PointersOf(F)
        PROVE  IsListIn(G, f, ListFrom(G, f))
    <2> DEFINE L == ListFrom(F, f)
    <2>1. IsListIn(F, f, L)
      BY DEF ListsEnd
    <2> HIDE DEF L
    <2>2. \A i \in 1..Len(L) : L[i] \in PointersOf(F)
      BY <2>1, ListMeans DEF PointersOf
    <2>3. \A i \in 1..Len(L) : G[L[i]].next = F[L[i]].next
      BY <2>2 DEF SameShape
    <2> QED
      BY <1>1, <2>1, <2>3, ListKeeps
  <1>3. ASSUME NEW d \in PointersOf(F)
        PROVE  SameDir(F, G, d)
    <2> DEFINE L == ListOf(F, d)
    <2>1. \A i \in 1..Len(L) : L[i] \in PointersOf(F)
      BY ListOfHolds
    <2> HIDE DEF L
    <2>2. \A i \in 1..Len(L) : G[L[i]].next = F[L[i]].next /\ G[L[i]].name = F[L[i]].name
      BY <2>1 DEF SameShape
    <2>3. G[d].inum = F[d].inum /\ G[d].leaf = F[d].leaf
      BY DEF SameShape
    <2> QED
      BY <1>1, <2>2, <2>3, DirStays DEF L
  <1> QED
    BY <1>1, <1>2, <1>3 DEF ListsEnd

LEMMA LFacts ==
    ASSUME IInv, LInv
    PROVE  /\ TreeIn(file) /\ ListsEnd(file) /\ RootIn(file) /\ Pointers = PointersOf(file)
           /\ browsed \subseteq PointersOf(file) /\ raced \subseteq PointersOf(file)
           /\ \A d \in PointersOf(file) : DirIn(file, browsed, raced, d)
           /\ \A q \in Procs :
                 /\ CallIn(file, cleared, call[q]) /\ call[q] \in CallRecord
                 /\ TurnIn(file, raced, call[q]) /\ OpenIn(file, call[q])
                 /\ IsApart(file, call[q])
                 /\ call[q].op = "open" => Target(call[q]) \in PointersOf(file)
                 /\ Turns(call[q]) => call[q].dir \in PointersOf(file)
                 /\ Hangs(call[q]) => /\ call[q].new \in PointersOf(file)
                                      /\ file[call[q].new].parent = call[q].dir
                                      /\ call[q].new # Root
                 /\ \A i \in DOMAIN dirHandleList[q] :
                       /\ ListedIn(file, browsed, raced, dirHandleList[q][i])
                       /\ dirHandleList[q][i].dir \in PointersOf(file)
                       /\ dirHandleList[q][i].cursor \in {NULL} \cup PointersOf(file)
  <1>1. TreeIn(file) /\ Typed /\ Pointers = PointersOf(file)
    BY DEF IInv, Pointers, PointersOf
  <1>2. browsed \subseteq PointersOf(file) /\ raced \subseteq PointersOf(file)
    BY <1>1 DEF Typed
  <1>3. /\ ListsEnd(file) /\ RootIn(file)
        /\ \A d \in PointersOf(file) : DirIn(file, browsed, raced, d)
    BY <1>1 DEF LInv
  <1>4. ASSUME NEW q \in Procs
        PROVE    /\ CallIn(file, cleared, call[q]) /\ call[q] \in CallRecord
                 /\ TurnIn(file, raced, call[q]) /\ OpenIn(file, call[q])
                 /\ IsApart(file, call[q])
                 /\ call[q].op = "open" => Target(call[q]) \in PointersOf(file)
                 /\ Turns(call[q]) => call[q].dir \in PointersOf(file)
                 /\ Hangs(call[q]) => /\ call[q].new \in PointersOf(file)
                                      /\ file[call[q].new].parent = call[q].dir
                                      /\ call[q].new # Root
                 /\ \A i \in DOMAIN dirHandleList[q] :
                       /\ ListedIn(file, browsed, raced, dirHandleList[q][i])
                       /\ dirHandleList[q][i].dir \in PointersOf(file)
                       /\ dirHandleList[q][i].cursor \in {NULL} \cup PointersOf(file)
    <2>1. CallIn(file, cleared, call[q]) /\ call[q] \in CallRecord
      BY CallFacts
    <2>2. Turns(call[q]) => call[q].dir \in PointersOf(file)
      BY <2>1 DEF CallIn, Turns, HasDir
    <2>3. Hangs(call[q]) => /\ call[q].new \in PointersOf(file)
                            /\ file[call[q].new].parent = call[q].dir
                            /\ call[q].new # Root
      BY <2>1 DEF CallIn, Hangs
    <2>4. /\ TurnIn(file, raced, call[q]) /\ OpenIn(file, call[q])
          /\ \A i \in DOMAIN dirHandleList[q] :
                ListedIn(file, browsed, raced, dirHandleList[q][i])
      BY DEF LInv
    <2>5. IsApart(file, call[q])
      BY DEF LInv, NewsAreApart
    <2>6. \A i \in DOMAIN dirHandleList[q] :
             /\ dirHandleList[q][i].dir \in PointersOf(file)
             /\ dirHandleList[q][i].cursor \in {NULL} \cup PointersOf(file)
      BY DEF IInv, DirectoriesAreThere, HandlesIn
    <2> QED
      BY <2>1, <2>2, <2>3, <2>4, <2>5, <2>6, TargetIn
  <1> QED
    BY <1>1, <1>2, <1>3, <1>4

LEMMA StillShows ==
    ASSUME IInv, IInv', LInv, NEW p \in Procs, SameShape(file, file'),
           browsed \subseteq browsed', raced' = raced,
           \A d \in browsed' \ browsed : d \notin raced =>
               \A e \in DiskEntries(file[d].inum) : e.name \in NamesIn(file, d),
           \A q \in Procs \ {p} : call'[q] = call[q] /\ dirHandleList'[q] = dirHandleList[q],
           ~Hangs(call'[p]), TurnIn(file, raced, call'[p]), OpenIn(file, call'[p]),
           \A i \in DOMAIN dirHandleList'[p] :
               ListedIn(file, browsed, raced, dirHandleList'[p][i])
    PROVE  LInv'
  <1>1. /\ TreeIn(file) /\ ListsEnd(file) /\ RootIn(file)
        /\ browsed' \subseteq PointersOf(file')
        /\ \A d \in PointersOf(file) : DirIn(file, browsed, raced, d)
    BY LFacts DEF IInv, Typed, Pointers, PointersOf
  <1>2. TreeIn(file') /\ Pointers' = PointersOf(file')
    BY DEF IInv, Pointers, PointersOf
  <1>3. /\ ListsEnd(file') /\ PointersOf(file') = PointersOf(file)
        /\ \A d \in PointersOf(file) : SameDir(file, file', d)
    BY <1>1, <1>2, ShapeStays
  <1>4. RootIn(file')
    <2>1. Root \in PointersOf(file)
      BY <1>1 DEF TreeIn
    <2> QED
      BY <1>1, <2>1 DEF RootIn, SameShape
  <1>5. ASSUME NEW q \in Procs
        PROVE  /\ CallIn(file', cleared', call'[q])
               /\ TurnIn(file, raced, call'[q]) /\ OpenIn(file, call'[q])
               /\ Hangs(call'[q]) => q # p /\ call'[q] = call[q]
               /\ \A i \in DOMAIN dirHandleList'[q] :
                     /\ ListedIn(file, browsed, raced, dirHandleList'[q][i])
                     /\ dirHandleList'[q][i].dir \in PointersOf(file')
    <2>1. CallIn(file', cleared', call'[q])
      BY DEF IInv, CallsAreSound
    <2>2. \A i \in DOMAIN dirHandleList'[q] : dirHandleList'[q][i].dir \in PointersOf(file')
      BY DEF IInv, DirectoriesAreThere, HandlesIn
    <2>3. CASE q = p
      BY <2>1, <2>2, <2>3
    <2>4. CASE q # p
      <3>1. call'[q] = call[q] /\ dirHandleList'[q] = dirHandleList[q]
        BY <2>4
      <3>2. /\ TurnIn(file, raced, call[q]) /\ OpenIn(file, call[q])
            /\ \A i \in DOMAIN dirHandleList[q] :
                     ListedIn(file, browsed, raced, dirHandleList[q][i])
        BY LFacts
      <3> QED
        BY <2>1, <2>2, <2>4, <3>1, <3>2
    <2> QED
      BY <2>3, <2>4
  <1>6. ASSUME NEW q \in Procs
        PROVE  /\ TurnIn(file', raced', call'[q]) /\ OpenIn(file', call'[q])
               /\ \A i \in DOMAIN dirHandleList'[q] :
                     ListedIn(file', browsed', raced', dirHandleList'[q][i])
    <2>1. TurnIn(file', raced', call'[q])
      <3>1. CASE ~Turns(call'[q])
        BY <3>1 DEF TurnIn
      <3>2. CASE Turns(call'[q])
        <4>1. call'[q].dir \in PointersOf(file')
          BY <1>5, <3>2 DEF CallIn, Turns, HasDir
        <4>2. Hangs(call'[q]) => call'[q].new \in PointersOf(file')
          BY <1>5 DEF CallIn, Hangs
        <4>3. Hangs(call'[q]) => /\ file'[call'[q].new].name = file[call'[q].new].name
                                 /\ file'[call'[q].new].next = file[call'[q].new].next
          BY <1>3, <4>2 DEF SameShape
        <4> QED
          BY <1>3, <1>5, <4>1, <4>3, TurnInStays
      <3> QED
        BY <3>1, <3>2
    <2>2. OpenIn(file', call'[q])
      <3>1. call'[q].op = "open" => Target(call'[q]) \in PointersOf(file)
        BY <1>3, <1>5, TargetIn
      <3>2. Len(file) <= Len(file')
        BY <1>1, TreeTyped DEF SameShape
      <3> QED
        BY <1>1, <1>2, <1>5, <3>1, <3>2, OpenInStays DEF SameShape
    <2>3. \A i \in DOMAIN dirHandleList'[q] :
             ListedIn(file', browsed', raced', dirHandleList'[q][i])
      BY <1>3, <1>5, ListedInStays
    <2> QED
      BY <2>1, <2>2, <2>3
  <1>7. \A d \in PointersOf(file') : DirIn(file', browsed', raced', d)
    <2>1. ASSUME NEW d \in PointersOf(file)
          PROVE  DirIn(file, browsed', raced, d)
      BY <1>1 DEF DirIn
    <2> QED
      BY <1>3, <2>1, DirInStays
  <1>8. NewsAreApart'
    <2>1. ASSUME NEW q \in Procs
          PROVE  IsApart(file', call'[q])
      <3>1. SUFFICES ASSUME Hangs(call'[q])
                     PROVE  IsApart(file', call'[q])
        BY DEF IsApart
      <3>2. call'[q] = call[q] /\ Hangs(call[q]) /\ IsApart(file, call[q])
            /\ call[q].new \in PointersOf(file)
        BY <1>5, <3>1, LFacts
      <3> QED
        BY <1>3, <3>2 DEF IsApart, SameShape
    <2>2. ASSUME NEW q \in Procs, NEW r \in Procs, Hangs(call'[q]), Hangs(call'[r])
          PROVE  call'[r].seen # call'[q].new /\ (call'[r].new = call'[q].new => r = q)
      <3>1. call'[q] = call[q] /\ call'[r] = call[r]
        BY <1>5, <2>2
      <3> QED
        BY <2>2, <3>1 DEF LInv, NewsAreApart
    <2> QED
      BY <2>1, <2>2 DEF NewsAreApart
  <1> QED
    BY <1>2, <1>3, <1>4, <1>6, <1>7, <1>8 DEF LInv

-----------------------------------------------------------------------------
(* Where the calls go.                                                     *)

\* The call of p goes on outside of the loop over entries, where its path leads.
GoesOn(p) == \E d : call' = [call EXCEPT ![p] = d] /\ ~Turns(d) /\ OpenIn(file, d)

LEMMA MovesShow ==
    ASSUME IInv, IInv', LInv, NEW p \in Procs, SameShape(file, file'), GoesOn(p),
           UNCHANGED <<browsed, raced, handles>>
    PROVE  LInv'
  <1>1. PICK d : call' = [call EXCEPT ![p] = d] /\ ~Turns(d) /\ OpenIn(file, d)
    BY DEF GoesOn
  <1>2. call \in [Procs -> CallRecord]
    BY CallFacts
  <1>3. /\ call'[p] = d /\ ~Hangs(d) /\ TurnIn(file, raced, d)
        /\ \A q \in Procs \ {p} : call'[q] = call[q]
    BY <1>1, <1>2 DEF TurnIn, Hangs, Turns
  <1>4. dirHandleList' = dirHandleList /\ browsed' = browsed /\ raced' = raced
    BY DEF handles
  <1>5. \A i \in DOMAIN dirHandleList[p] : ListedIn(file, browsed, raced, dirHandleList[p][i])
    BY LFacts
  <1> QED
    BY <1>1, <1>3, <1>4, <1>5, StillShows

LEMMA SameTreeMoves ==
    ASSUME IInv, IInv', LInv, NEW p \in Procs, UNCHANGED <<tree, handles>>, GoesOn(p)
    PROVE  LInv'
  <1>1. file' = file /\ browsed' = browsed /\ raced' = raced
    BY DEF tree
  <1>2. SameShape(file, file')
    BY <1>1 DEF SameShape
  <1> QED
    BY <1>1, <1>2, MovesShow

LEMMA OpenGoes ==
    ASSUME NEW F, NEW c, NEW d, OpenIn(F, c), d.op = "open" => c.op = "open",
           d.path = c.path, d.rest = c.rest, d.start = c.start,
           d.op = "open" => Target(d) = Target(c) /\ Steps(d) = Steps(c)
    PROVE  OpenIn(F, d)
  BY DEF OpenIn, Gone, ReachedIn

LEMMA NoCallLeads ==
    ASSUME NEW p \in Procs, call' = [call EXCEPT ![p] = NoCall]
    PROVE  GoesOn(p)
  <1>1. ~Turns(NoCall) /\ OpenIn(file, NoCall)
    BY NoCallHolds DEF Turns, OpenIn
  <1> QED
    BY <1>1 DEF GoesOn

LEMMA ReturnLeads ==
    ASSUME NEW p \in Procs, NEW ret, Return(p, ret)
    PROVE  GoesOn(p)
  BY NoCallLeads DEF Return, Goto

LEMMA GoesLeads ==
    ASSUME NEW p \in Procs, NEW d, Goes(p, d), ~Turns(d), OpenIn(file, d)
    PROVE  GoesOn(p)
  BY DEF GoesOn, Goes, Goto

\* A call that works on the file it worked on.
LEMMA WorkLeads ==
    ASSUME IInv, LInv, NEW p \in Procs, NEW d, Goes(p, d),
           d.op = call[p].op, d.path = call[p].path, d.rest = call[p].rest,
           d.start = call[p].start,
           d.pc \in Working, d.f = Target(call[p]), Down(d) <=> Down(call[p]),
           Down(d) => d.dir = call[p].dir, call[p].pc # "walk"
    PROVE  GoesOn(p)
  <1> DEFINE c == call[p]
  <1>1. OpenIn(file, c)
    BY LFacts
  <1>2. Target(d) = Target(c) /\ Steps(d) = Steps(c)
    <2>1. d.pc # "walk"
      BY DEF Working
    <2>2. Down(c) => Target(c) = c.dir
      BY DEF Target
    <2> QED
      BY <2>1, <2>2 DEF Target, Steps, Gone
  <1>3. OpenIn(file, d)
    BY <1>1, <1>2, OpenGoes
  <1>4. ~Turns(d)
    BY DEF Turns, Working
  <1> QED
    BY <1>3, <1>4, GoesLeads

\* Browsing is over.
LEMMA OverLeads ==
    ASSUME IInv, LInv, NEW p \in Procs, Over(p), Down(call[p])
    PROVE  GoesOn(p)
  <1> DEFINE c == call[p]
             d == [c EXCEPT !.pc = "walk", !.rest = Tail(@), !.i = 1, !.f = NULL,
                            !.then = "none", !.back = "none"]
  <1>1. c \in CallRecord /\ OpenIn(file, c) /\ StringIn(c, string[p]) /\ c.rest \in Seq(STRING)
    BY LFacts, CallFacts
  <1>2. CASE c.op = "open"
    <2>1. call' = [call EXCEPT ![p] = d]
      BY <1>2 DEF Over, Goto
    <2>2. c.rest # <<>>
      BY <1>1, <1>2 DEF StringIn
    <2>3. /\ d.op = c.op /\ d.path = c.path /\ d.dir = c.dir
          /\ d.pc = "walk" /\ d.rest = Tail(c.rest) /\ d.then = "none"
      BY <1>1, <2>2, WalksOnHolds
    <2>4. d.start = c.start
      BY <1>1, Zenon DEF CallRecord
    <2>5. /\ Len(d.rest) = Len(c.rest) - 1 /\ Len(c.rest) \in Nat
          /\ \A i \in 1..Len(d.rest) : d.rest[i] = c.rest[i + 1]
      BY <1>1, <2>2, <2>3, HeadTailProperties
    <2> HIDE DEF d, c
    <2>6. c.path.comps \in Seq(STRING)
      BY <1>1, CallFacts, Zenon DEF c, PathRecord
    <2> DEFINE m == Len(c.path.comps)
               n == Len(c.rest)
    <2>7. Gone(d) = Gone(c) + 1 /\ Gone(c) \in Int
      <3>1. m \in Nat /\ n \in Nat
        BY <2>5, <2>6
      <3>2. Gone(c) = m - n /\ Gone(d) = m - (n - 1)
        BY <2>3, <2>5 DEF Gone
      <3> HIDE DEF m, n
      <3> QED
        BY <3>1, <3>2
    <2>8. Steps(d) = Steps(c) /\ Target(d) = Target(c)
      <3>1. Down(c) /\ c.pc # "walk"
        BY DEF c, Down, Working
      <3> QED
        BY <2>3, <2>7, <3>1 DEF Steps, Target, Working
    <2>9. \A i \in 1..Len(d.rest) : d.rest[i] = d.path.comps[Gone(d) + i]
      <3>1. ASSUME NEW i \in 1..Len(d.rest)
            PROVE  d.rest[i] = d.path.comps[Gone(d) + i]
        <4>1. i + 1 \in 1..Len(c.rest) /\ Gone(d) + i = Gone(c) + (i + 1)
          <5>1. n \in Nat /\ i \in 1..(n - 1)
            BY <2>5
          <5> HIDE DEF n
          <5>2. i + 1 \in 1..n
            BY <5>1
          <5>3. Gone(d) + i = Gone(c) + (i + 1)
            BY <5>1, <2>7
          <5> QED
            BY <5>2, <5>3 DEF n
        <4>2. c.rest[i + 1] = c.path.comps[Gone(c) + (i + 1)]
          BY <1>1, <1>2, <4>1 DEF OpenIn
        <4> QED
          BY <2>3, <2>5, <4>1, <4>2
      <3> QED
        BY <3>1
    <2>10. OpenIn(file, d)
      BY <1>1, <1>2, <2>3, <2>4, <2>8, <2>9 DEF OpenIn, ReachedIn
    <2>11. ~Turns(d)
      BY <2>3 DEF Turns
    <2> QED
      BY <2>1, <2>10, <2>11 DEF GoesOn
  <1>3. CASE c.op = "set"
    BY <1>3, NoCallLeads DEF Over, Goto
  <1> QED
    BY <1>2, <1>3 DEF Over

LEMMA AnswerLeads ==
    ASSUME IInv, LInv, NEW p \in Procs, NEW is \in BOOLEAN, Answer(p, is),
           call[p].pc = "mode" \/ (call[p].pc = "inode" /\ call[p].back = "mode")
    PROVE  GoesOn(p)
  <1> DEFINE c == call[p]
  <1>1. c \in CallRecord /\ CallIn(file, cleared, c) /\ OpenIn(file, c)
    BY LFacts
  <1>2. /\ c.pc \in Working /\ c.pc # "walk" /\ c.f \in Nat
        /\ Down(c) => c.f = c.dir
        /\ Down(c) <=> c.then \in {"none", "down", "browse"}
        /\ Target(c) = c.f
    <2>1. c.f \in Nat
      BY CallFacts
    <2> QED
      BY <1>1, <2>1 DEF CallIn, Working, Down, Target
  <1> HIDE DEF c
  <1>3. ASSUME NEW then \in {"dirhandle", "filehandle"}, Goes(p, Asks(c, c.f, then)),
               c.then \in {"opened", "entry"}
        PROVE  GoesOn(p)
    <2> DEFINE d == Asks(c, c.f, then)
    <2>1. then \in Thens
      BY DEF Thens
    <2>2. SameWork(d, c) /\ d.pc = "isdir" /\ d.f = c.f /\ d.then = then /\ d.start = c.start
      BY <1>1, <1>2, <2>1, AsksHolds DEF SameWork
    <2> HIDE DEF d
    <2>3. ~Down(d) /\ ~Down(c) /\ d.pc \in Working
      BY <1>2, <1>3, <2>2 DEF Down, Working
    <2>4. Goes(p, d)
      BY <1>3 DEF d
    <2> QED
      BY <1>2, <2>2, <2>3, <2>4, WorkLeads DEF SameWork, c
  <1>4. ASSUME NEW op \in {c.op, "readfile"}, Goes(p, Creates(c, op)),
               c.then \in {"dirhandle", "filehandle"}
        PROVE  GoesOn(p)
    <2> DEFINE d == Creates(c, op)
    <2>1. op \in Ops
      <3>1. c.op \in Ops
        BY <1>1, Zenon DEF CallRecord
      <3> QED
        BY <3>1 DEF Ops
    <2>2. /\ d.path = c.path /\ d.rest = c.rest /\ d.start = c.start
          /\ d.pc = "create" /\ d.op = op /\ d.dir = c.f
      BY <1>1, <2>1, CreatesHolds
    <2> HIDE DEF d
    <2>3. ~Down(d) /\ ~Down(c) /\ d.pc \notin Working /\ d.pc # "walk"
      BY <1>2, <1>4, <2>2 DEF Down, Working
    <2>4. Target(d) = Target(c) /\ Steps(d) = Steps(c)
      BY <1>2, <2>2, <2>3 DEF Target, Steps
    <2>5. d.op = "open" => c.op = "open"
      BY <2>2
    <2>6. OpenIn(file, d)
      BY <1>1, <2>2, <2>4, <2>5, OpenGoes
    <2>7. ~Turns(d)
      BY <2>2 DEF Turns
    <2> QED
      BY <1>4, <2>6, <2>7, GoesLeads DEF d
  <1>5. CASE c.then = "opened" /\ is /\ Goes(p, Asks(c, c.f, "dirhandle"))
    BY <1>3, <1>5
  <1>6. CASE c.then = "entry" /\ Goes(p, Asks(c, c.f, IF is THEN "dirhandle" ELSE "filehandle"))
    BY <1>3, <1>6
  <1>7. CASE c.then = "dirhandle" /\ is /\ Goes(p, Creates(c, c.op))
    BY <1>4, <1>7
  <1>8. CASE c.then = "filehandle" /\ ~is /\ Goes(p, Creates(c, "readfile"))
    BY <1>4, <1>8
  <1>9. CASE c.then = "browse" /\ is /\ Goes(p, [c EXCEPT !.pc = "size"])
    <2> DEFINE d == [c EXCEPT !.pc = "size"]
    <2>1. "size" \in Pcs
      BY DEF Pcs
    <2>2. SameWork(d, c) /\ d.pc = "size"
      BY <1>1, <2>1, GoesOnHolds, Zenon
    <2> HIDE DEF d
    <2>3. Down(d) /\ Down(c) /\ d.pc \notin Working /\ d.pc # "walk"
      BY <1>2, <1>9, <2>2 DEF Down, Working
    <2>4. Target(d) = Target(c)
      BY <1>2, <2>2, <2>3 DEF Target, SameWork
    <2>5. Steps(d) = Steps(c)
      BY <1>2, <2>2, <2>3 DEF Steps, SameWork, Gone
    <2>6. OpenIn(file, d)
      BY <1>1, <2>2, <2>4, <2>5, OpenGoes DEF SameWork
    <2>7. ~Turns(d)
      BY <2>2 DEF Turns
    <2> QED
      BY <1>9, <2>6, <2>7, GoesLeads DEF d
  <1>10. CASE c.then = "browse" /\ ~is /\ Over(p)
    BY <1>2, <1>10, OverLeads DEF c
  <1>11. CASE \E ret \in {-2, -3} : Return(p, ret)
    BY <1>11, ReturnLeads
  <1> QED
    BY <1>5, <1>6, <1>7, <1>8, <1>9, <1>10, <1>11 DEF Answer, c

LEMMA OpenedLeads ==
    ASSUME IInv, LInv, NEW p \in Procs, NEW ok \in BOOLEAN, Opened(p, ok),
           call[p].pc = "content" \/ (call[p].pc = "inode" /\ call[p].back = "content")
    PROVE  GoesOn(p)
  <1> DEFINE c == call[p]
  <1>1. c \in CallRecord /\ CallIn(file, cleared, c) /\ OpenIn(file, c)
    BY LFacts
  <1>2. /\ c.pc \in Working /\ c.pc # "walk" /\ c.f \in Nat
        /\ Down(c) => c.f = c.dir
        /\ Down(c) <=> c.then \in {"none", "down", "browse"}
        /\ Target(c) = c.f
    <2>1. c.f \in Nat
      BY CallFacts
    <2> QED
      BY <1>1, <2>1 DEF CallIn, Working, Down, Target
  <1> HIDE DEF c
  <1>3. ASSUME NEW then \in {"opened", "browse"}, Goes(p, Asks(c, c.f, then)),
               then = "opened" => c.then = "last", then = "browse" => c.then = "browse"
        PROVE  GoesOn(p)
    <2> DEFINE d == Asks(c, c.f, then)
    <2>1. then \in Thens
      BY DEF Thens
    <2>2. SameWork(d, c) /\ d.pc = "isdir" /\ d.f = c.f /\ d.then = then /\ d.start = c.start
      BY <1>1, <1>2, <2>1, AsksHolds DEF SameWork
    <2> HIDE DEF d
    <2>3. (Down(d) <=> Down(c)) /\ d.pc \in Working
      BY <1>2, <1>3, <2>2 DEF Down, Working
    <2>4. Goes(p, d)
      BY <1>3 DEF d
    <2> QED
      BY <1>2, <2>2, <2>3, <2>4, WorkLeads DEF SameWork, c
  <1>4. CASE c.then = "last" /\ ok /\ Goes(p, Asks(c, c.f, "opened"))
    BY <1>3, <1>4
  <1>5. CASE c.then = "browse" /\ ok /\ Goes(p, Asks(c, c.f, "browse"))
    BY <1>3, <1>5
  <1>6. CASE c.then = "down" /\ ok /\ Goes(p, [c EXCEPT !.pc = "cache"])
    <2> DEFINE d == [c EXCEPT !.pc = "cache"]
    <2>1. "cache" \in Pcs
      BY DEF Pcs
    <2>2. SameWork(d, c) /\ d.pc = "cache"
      BY <1>1, <2>1, GoesOnHolds, Zenon
    <2> HIDE DEF d
    <2>3. Down(d) /\ Down(c) /\ d.pc \notin Working /\ d.pc # "walk"
      BY <1>2, <1>6, <2>2 DEF Down, Working
    <2>4. Target(d) = Target(c)
      BY <1>2, <2>2, <2>3 DEF Target, SameWork
    <2>5. Steps(d) = Steps(c)
      BY <1>2, <2>2, <2>3 DEF Steps, SameWork, Gone
    <2>6. OpenIn(file, d)
      BY <1>1, <2>2, <2>4, <2>5, OpenGoes DEF SameWork
    <2>7. ~Turns(d)
      BY <2>2 DEF Turns
    <2> QED
      BY <1>6, <2>6, <2>7, GoesLeads DEF d
  <1>7. CASE c.then = "browse" /\ ~ok /\ Over(p)
    BY <1>2, <1>7, OverLeads DEF c
  <1>8. CASE Return(p, -1)
    BY <1>8, ReturnLeads
  <1> QED
    BY <1>4, <1>5, <1>6, <1>7, <1>8 DEF Opened, c

-----------------------------------------------------------------------------
(* The walk and the work on one file.                                      *)

LEMMA WalkFacts ==
    ASSUME IInv, LInv, NEW p \in Procs, call[p].pc = "walk"
    PROVE  LET c == call[p]
           IN  /\ c \in CallRecord /\ c.op = "open" /\ c.dir \in PointersOf(file)
               /\ ~Down(c) /\ c.back = "none" /\ Target(c) = c.dir /\ Steps(c) = Gone(c)
               /\ OpenIn(file, c) /\ c.start \in PointersOf(file)
               /\ c.rest \in Seq(STRING) /\ c.path.comps \in Seq(STRING)
               /\ Len(c.rest) \in Nat /\ Len(c.path.comps) \in Nat
               /\ Len(c.rest) <= Len(c.path.comps) /\ Gone(c) \in 0..Len(c.path.comps)
               /\ PlaceIn(file, c.dir) = ReachedIn(file, c, Gone(c))
               /\ c.rest # <<>> =>
                     /\ Len(c.rest) # 0
                     /\ Gone(c) + 1 \in 1..Len(c.path.comps)
                     /\ Head(c.rest) = c.path.comps[Gone(c) + 1]
                     /\ ReachedIn(file, c, Gone(c) + 1)
                            = Behind(PlaceIn(file, c.dir), Head(c.rest))
  <1> DEFINE c == call[p]
             m == Len(c.path.comps)
             n == Len(c.rest)
  <1>1. /\ c \in CallRecord /\ CallIn(file, cleared, c) /\ StringIn(c, string[p])
        /\ OpenIn(file, c) /\ c.rest \in Seq(STRING) /\ c.path \in PathRecord
    BY LFacts, CallFacts
  <1>2. c.op = "open" /\ c.dir \in PointersOf(file) /\ c.back = "none" /\ ~Down(c)
    BY <1>1 DEF CallIn, HasDir, Down, Working
  <1>3. Target(c) = c.dir /\ Steps(c) = Gone(c)
    BY <1>2 DEF Target, Steps, Working
  <1>4. c.path.comps \in Seq(STRING)
    BY <1>1, Zenon DEF PathRecord
  <1>5. m \in Nat /\ n \in Nat /\ n <= m /\ Gone(c) = m - n
    BY <1>1, <1>2, <1>4 DEF StringIn, Gone
  <1>6. /\ c.start \in PointersOf(file)
        /\ PlaceIn(file, c.dir) = ReachedIn(file, c, Gone(c))
        /\ \A i \in 1..n : c.rest[i] = c.path.comps[Gone(c) + i]
    BY <1>1, <1>2, <1>3 DEF OpenIn
  <1>7. n = 0 \/ c.rest # <<>>
    BY <1>1, EmptySeq
  <1>8. ASSUME c.rest # <<>>
        PROVE  /\ n # 0
               /\ Gone(c) + 1 \in 1..m
               /\ Head(c.rest) = c.path.comps[Gone(c) + 1]
               /\ ReachedIn(file, c, Gone(c) + 1) = Behind(PlaceIn(file, c.dir), Head(c.rest))
    <2>1. n # 0
      BY <1>1, <1>8, EmptySeq
    <2>2. Gone(c) + 1 \in 1..m /\ 1 \in 1..n /\ (Gone(c) + 1) - 1 = Gone(c)
      <3> HIDE DEF m, n
      <3>1. Gone(c) + 1 = (m - n) + 1
        BY <1>5
      <3> QED
        BY <1>5, <2>1, <3>1
    <2>3. Head(c.rest) = c.path.comps[Gone(c) + 1]
      BY <1>6, <2>2
    <2>4. PlacesBehind(PlaceIn(file, c.start), c.path.comps)[Gone(c) + 1] =
             Behind(PlacesBehind(PlaceIn(file, c.start), c.path.comps)[Gone(c)],
                    c.path.comps[Gone(c) + 1])
      BY <1>4, <2>2, PlacesBehindHold
    <2> QED
      BY <1>6, <2>1, <2>2, <2>3, <2>4 DEF ReachedIn
  <1>9. Gone(c) \in 0..m
    <2> HIDE DEF m, n
    <2> QED
      BY <1>5
  <1> QED
    BY <1>1, <1>2, <1>3, <1>4, <1>5, <1>6, <1>8, <1>9

LEMMA WalkEndShows ==
    ASSUME IInv, IInv', LInv, NEW p \in Procs, WalkEnd(p)
    PROVE  LInv'
  <1> DEFINE c == call[p]
             d == Asks(c, Root, "opened")
  <1>1. c.pc = "walk" /\ UNCHANGED <<tree, handles>> /\ c.rest = <<>>
    BY DEF WalkEnd, At
  <1>2. ASSUME c.path = NoPath, Goes(p, d)
        PROVE  GoesOn(p)
    <2>1. c \in CallRecord /\ OpenIn(file, c) /\ c.op = "open" /\ ~Down(c)
      BY <1>1, WalkFacts
    <2>2. Root \in Nat /\ "opened" \in Thens
      BY DEF Root, Thens
    <2>3. SameWork(d, c) /\ d.pc = "isdir" /\ d.f = Root /\ d.then = "opened"
          /\ d.start = c.start
      BY <2>1, <2>2, AsksHolds DEF SameWork
    <2> HIDE DEF d, c
    <2>4. c.path.comps = <<>> /\ c.path.abs = TRUE
      BY <1>2 DEF NoPath
    <2>5. c.start = Root
      BY <2>1, <2>4 DEF OpenIn
    <2>6. Target(d) = Root /\ Steps(d) = 0
      BY <2>3, <2>4 DEF Target, Steps, Working, Down, SameWork
    <2>7. PlacesBehind(PlaceIn(file, c.start), c.path.comps)[0] = PlaceIn(file, c.start)
      <3>1. c.path.comps \in Seq(STRING)
        BY <1>1, WalkFacts DEF c
      <3> QED
        BY <3>1, PlacesBehindHold
    <2>8. OpenIn(file, d)
      BY <2>1, <2>3, <2>5, <2>6, <2>7, <1>1 DEF OpenIn, SameWork, ReachedIn, Gone, c
    <2>9. ~Turns(d)
      BY <2>3 DEF Turns
    <2> QED
      BY <1>2, <2>8, <2>9, GoesLeads
  <1>3. GoesOn(p)
    BY <1>2, ReturnLeads DEF WalkEnd
  <1> QED
    BY <1>1, <1>3, SameTreeMoves

\* The file that the walk finds is where the path goes.
LEMMA FoundIs ==
    ASSUME IInv, LInv, NEW p \in Procs, call[p].pc = "walk", call[p].rest # <<>>
    PROVE  LET c == call[p]
               f == IsCached(c.dir, Head(c.rest))
           IN  f # NULL => /\ f \in PointersOf(file) /\ f \in Nat
                           /\ PlaceIn(file, f) = ReachedIn(file, c, Gone(c) + 1)
  <1> DEFINE c == call[p]
             f == IsCached(c.dir, Head(c.rest))
  <1>1. SUFFICES ASSUME f # NULL
                 PROVE  /\ f \in PointersOf(file) /\ f \in Nat
                        /\ PlaceIn(file, f) = ReachedIn(file, c, Gone(c) + 1)
    OBVIOUS
  <1>2. /\ c.dir \in PointersOf(file)
        /\ ReachedIn(file, c, Gone(c) + 1) = Behind(PlaceIn(file, c.dir), Head(c.rest))
    BY WalkFacts
  <1>3. TreeIn(file) /\ ListsEnd(file) /\ RootIn(file) /\ Pointers = PointersOf(file)
    BY LFacts
  <1>4. /\ f \in PointersOf(file) /\ f # Root
        /\ file[f].name = Head(c.rest) /\ file[f].parent = c.dir
    BY <1>1, <1>2, <1>3, CachedIs
  <1>5. f \in Nat
    BY <1>4, <1>3, TreeTyped DEF PointersOf
  <1> HIDE DEF f, c
  <1>6. Behind(PlaceIn(file, c.dir), file[f].name) = PlaceIn(file, f)
    BY <1>2, <1>3, <1>4, BelowIs
  <1> QED
    BY <1>2, <1>4, <1>5, <1>6

LEMMA WalkLastShows ==
    ASSUME IInv, IInv', LInv, NEW p \in Procs, WalkLast(p)
    PROVE  LInv'
  <1> DEFINE c == call[p]
             f == IsCached(c.dir, Head(c.rest))
  <1>1. c.pc = "walk" /\ UNCHANGED <<tree, handles>> /\ c.rest # <<>> /\ Len(c.rest) = 1
    BY DEF WalkLast, At, IsLast
  <1>2. /\ c \in CallRecord /\ c.op = "open" /\ OpenIn(file, c)
        /\ Len(c.path.comps) \in Nat
    BY <1>1, WalkFacts
  <1>3. ASSUME f # NULL, NEW then \in {"opened", "last"},
               NEW d \in {Asks(c, f, then), Opens(c, f, then)}, Goes(p, d)
        PROVE  GoesOn(p)
    <2>1. f \in Nat /\ PlaceIn(file, f) = ReachedIn(file, c, Gone(c) + 1)
      BY <1>1, <1>3, FoundIs
    <2>2. then \in Thens
      BY DEF Thens
    <2> HIDE DEF f, c
    <2>3. SameWork(d, c) /\ d.pc \in {"isdir", "open"} /\ d.f = f /\ d.then = then
      <3>1. CASE d = Asks(c, f, then)
        BY <1>2, <2>1, <2>2, <3>1, AsksHolds
      <3>2. CASE d = Opens(c, f, then)
        BY <1>2, <2>1, <2>2, <3>2, OpensHolds
      <3> QED
        BY <1>3, <3>1, <3>2
    <2>4. Target(d) = f /\ Steps(d) = Len(c.path.comps)
      BY <2>3 DEF Target, Steps, Working, Down, SameWork
    <2>5. Gone(c) + 1 = Len(c.path.comps)
      BY <1>1, <1>2 DEF Gone, c
    <2>6. OpenIn(file, d)
      BY <1>2, <2>1, <2>3, <2>4, <2>5 DEF OpenIn, SameWork, ReachedIn, Gone
    <2>7. ~Turns(d)
      BY <2>3 DEF Turns
    <2> QED
      BY <1>3, <2>6, <2>7, GoesLeads
  <1>4. GoesOn(p)
    BY <1>3, ReturnLeads DEF WalkLast
  <1> QED
    BY <1>1, <1>4, SameTreeMoves

LEMMA WalkDotsShows ==
    ASSUME IInv, IInv', LInv, NEW p \in Procs, WalkDots(p)
    PROVE  LInv'
  <1> DEFINE c == call[p]
             dir == IF Head(c.rest) = ".." THEN DotDot(c.dir) ELSE c.dir
             d == [c EXCEPT !.rest = Tail(@), !.dir = dir]
  <1>1. /\ c.pc = "walk" /\ UNCHANGED <<tree, handles>> /\ c.rest # <<>>
        /\ Head(c.rest) \in {".", ".."} /\ call' = [call EXCEPT ![p] = d]
    BY DEF WalkDots, At, Goto
  <1>2. /\ c \in CallRecord /\ c.op = "open" /\ OpenIn(file, c) /\ c.dir \in PointersOf(file)
        /\ c.rest \in Seq(STRING)
        /\ Len(c.path.comps) \in Nat /\ Len(c.rest) \in Nat
        /\ ReachedIn(file, c, Gone(c) + 1) = Behind(PlaceIn(file, c.dir), Head(c.rest))
    BY <1>1, WalkFacts
  <1>3. TreeIn(file) /\ RootIn(file)
    BY LFacts
  <1>4. dir \in Nat
    BY <1>2, <1>3, TreeTyped DEF DotDot, PointersOf
  <1>5. PlaceIn(file, dir) = Behind(PlaceIn(file, c.dir), Head(c.rest))
    <2>1. CASE Head(c.rest) = ".."
      BY <1>2, <1>3, <2>1, AboveIs DEF DotDot
    <2>2. CASE Head(c.rest) = "."
      BY <2>2 DEF Behind
    <2> QED
      BY <1>1, <2>1, <2>2
  <1> HIDE DEF dir, c
  <1>6. /\ d.op = c.op /\ d.path = c.path /\ d.pc = c.pc /\ d.rest = Tail(c.rest) /\ d.dir = dir
    BY <1>1, <1>2, <1>4, TurnHolds
  <1>7. d.start = c.start
    BY <1>2, Zenon DEF CallRecord
  <1> HIDE DEF d
  <1> DEFINE m == Len(c.path.comps)
             n == Len(c.rest)
  <1>8. /\ Len(d.rest) = n - 1 /\ n # 0
        /\ \A i \in 1..Len(d.rest) : d.rest[i] = c.rest[i + 1]
    BY <1>1, <1>2, <1>6, HeadTailProperties, EmptySeq
  <1>9. Gone(d) = Gone(c) + 1 /\ Gone(c) \in Int
    <2>1. Gone(c) = m - n /\ Gone(d) = m - (n - 1)
      BY <1>6, <1>8 DEF Gone
    <2> HIDE DEF m, n
    <2> QED
      BY <1>2, <2>1 DEF m, n
  <1>10. ASSUME NEW i \in 1..Len(d.rest)
         PROVE  d.rest[i] = d.path.comps[Gone(d) + i]
    <2>1. n \in Nat /\ i \in 1..(n - 1)
      BY <1>2, <1>8
    <2> HIDE DEF n
    <2>2. i + 1 \in 1..n
      BY <2>1
    <2>3. Gone(d) + i = Gone(c) + (i + 1)
      BY <2>1, <1>9
    <2>4. c.rest[i + 1] = c.path.comps[Gone(c) + (i + 1)]
      BY <1>2, <2>2 DEF OpenIn, n
    <2> QED
      BY <1>6, <1>8, <2>3, <2>4
  <1>11. Steps(d) = Gone(c) + 1 /\ Target(d) = dir
    BY <1>1, <1>6, <1>9 DEF Steps, Target, Working, c
  <1>12. OpenIn(file, d)
    BY <1>2, <1>5, <1>6, <1>7, <1>10, <1>11 DEF OpenIn, ReachedIn
  <1>13. ~Turns(d)
    BY <1>1, <1>6 DEF Turns, c
  <1>14. GoesOn(p)
    BY <1>1, <1>12, <1>13 DEF GoesOn
  <1> QED
    BY <1>1, <1>14, SameTreeMoves

LEMMA WalkDownShows ==
    ASSUME IInv, IInv', LInv, NEW p \in Procs, WalkDown(p)
    PROVE  LInv'
  <1> DEFINE c == call[p]
             f == IsCached(c.dir, Head(c.rest))
             e == [c EXCEPT !.dir = f]
             d == IF file[f].opened THEN [e EXCEPT !.pc = "cache"] ELSE Opens(e, f, "down")
  <1>1. /\ c.pc = "walk" /\ UNCHANGED <<tree, handles>> /\ c.rest # <<>>
        /\ call' = [call EXCEPT ![p] = IF f = NULL THEN NoCall ELSE d]
    BY DEF WalkDown, At, Goto
  <1>2. c \in CallRecord /\ c.op = "open" /\ OpenIn(file, c) /\ CallIn(file, cleared, c)
    BY <1>1, WalkFacts, LFacts
  <1>3. CASE f = NULL
    BY <1>1, <1>3, NoCallLeads, SameTreeMoves
  <1>4. CASE f # NULL
    <2>1. f \in Nat /\ PlaceIn(file, f) = ReachedIn(file, c, Gone(c) + 1)
      BY <1>1, <1>4, FoundIs
    <2>2. c.then \in {"none", "down"}
      BY <1>1, <1>2 DEF CallIn
    <2> HIDE DEF f, c
    <2>3. /\ e \in CallRecord /\ e.op = c.op /\ e.path = c.path /\ e.pc = c.pc
          /\ e.rest = c.rest /\ e.dir = f /\ e.then = c.then
      BY <1>2, <2>1, DownToHolds
    <2>4. e.start = c.start
      BY <1>2, Zenon DEF CallRecord
    <2> HIDE DEF e
    <2>5. "cache" \in Pcs /\ "down" \in Thens
      BY DEF Pcs, Thens
    <2>6. /\ SameWork([e EXCEPT !.pc = "cache"], e) /\ [e EXCEPT !.pc = "cache"].pc = "cache"
          /\ [e EXCEPT !.pc = "cache"].start = e.start
      BY <2>3, <2>5, GoesOnHolds, Zenon DEF SameWork
    <2>7. /\ SameWork(Opens(e, f, "down"), e) /\ Opens(e, f, "down").pc = "open"
          /\ Opens(e, f, "down").then = "down" /\ Opens(e, f, "down").start = e.start
      BY <2>1, <2>3, <2>5, OpensHolds DEF SameWork
    <2>8. /\ SameWork(d, e) /\ d.pc \in {"cache", "open"} /\ d.start = c.start
          /\ d.pc = "open" => d.then = "down"
      BY <2>4, <2>6, <2>7
    <2> HIDE DEF d
    <2>9. /\ d.op = "open" /\ d.path = c.path /\ d.rest = c.rest /\ d.dir = f
          /\ Down(d) /\ d.pc # "walk"
      BY <1>2, <2>3, <2>8 DEF SameWork, Down, Working
    <2>10. Target(d) = f /\ Steps(d) = Gone(c) + 1
      BY <2>9 DEF Target, Steps, Gone
    <2>11. OpenIn(file, d)
      BY <1>2, <2>1, <2>8, <2>9, <2>10 DEF OpenIn, ReachedIn, Gone
    <2>12. ~Turns(d)
      BY <2>8 DEF Turns
    <2>13. GoesOn(p)
      BY <1>1, <1>4, <2>11, <2>12 DEF GoesOn
    <2> QED
      BY <1>1, <2>13, SameTreeMoves
  <1> QED
    BY <1>3, <1>4

-----------------------------------------------------------------------------
(* The work on one file.                                                   *)

LEMMA InodeShape ==
    ASSUME NEW F, TreeIn(F), NEW f \in PointersOf(F), NEW v \in BOOLEAN
    PROVE  SameShape(F, WithInode(F, f, v))
  <1> DEFINE G == WithInode(F, f, v)
  <1>1. Len(F) \in Nat /\ F \in [1..Len(F) -> FileRecord] /\ f \in 1..Len(F)
    BY TreeTyped DEF PointersOf
  <1>2. Len(G) = Len(F)
    BY <1>1, InodeTree
  <1>3. /\ \A h \in 1..Len(F) : h # f => G[h] = F[h]
        /\ G[f].inum = F[f].inum /\ G[f].name = F[f].name /\ G[f].leaf = F[f].leaf
        /\ G[f].next = F[f].next /\ G[f].parent = F[f].parent
    BY <1>1, WithInodeHolds
  <1> HIDE DEF G
  <1> QED
    BY <1>2, <1>3 DEF SameShape, PointersOf, G

LEMMA OpenedShape ==
    ASSUME NEW F, TreeIn(F), NEW f \in PointersOf(F), NEW v \in BOOLEAN
    PROVE  SameShape(F, WithOpened(F, f, v))
  <1> DEFINE G == WithOpened(F, f, v)
  <1>1. Len(F) \in Nat /\ F \in [1..Len(F) -> FileRecord] /\ f \in 1..Len(F)
    BY TreeTyped DEF PointersOf
  <1>2. Len(G) = Len(F)
    BY <1>1, OpenedTree
  <1>3. /\ \A h \in 1..Len(F) : h # f => G[h] = F[h]
        /\ G[f].inum = F[f].inum /\ G[f].name = F[f].name /\ G[f].leaf = F[f].leaf
        /\ G[f].next = F[f].next /\ G[f].parent = F[f].parent
    BY <1>1, WithOpenedHolds
  <1> HIDE DEF G
  <1> QED
    BY <1>2, <1>3 DEF SameShape, PointersOf, G

LEMMA WorkFacts ==
    ASSUME IInv, LInv, NEW p \in Procs, call[p].pc \in Working
    PROVE  LET c == call[p]
           IN  /\ c \in CallRecord /\ CallIn(file, cleared, c) /\ OpenIn(file, c)
               /\ TreeIn(file) /\ c.f \in PointersOf(file) /\ c.pc # "walk"
               /\ Target(c) = c.f /\ (Down(c) => c.f = c.dir)
               /\ Down(c) <=> c.then \in {"none", "down", "browse"}
  <1> DEFINE c == call[p]
  <1>1. c \in CallRecord /\ CallIn(file, cleared, c) /\ OpenIn(file, c) /\ TreeIn(file)
    BY LFacts
  <1>2. c.f \in PointersOf(file) /\ (Down(c) => c.f = c.dir)
    BY <1>1 DEF CallIn
  <1>3. c.pc # "walk" /\ (Down(c) <=> c.then \in {"none", "down", "browse"})
    BY DEF Working, Down
  <1>4. Target(c) = c.f
    BY <1>2 DEF Target
  <1> QED
    BY <1>1, <1>2, <1>3, <1>4

\* Another step of the same work.
LEMMA SameWorkLeads ==
    ASSUME IInv, LInv, NEW p \in Procs, NEW d, Goes(p, d), call[p].pc \in Working,
           SameWork(d, call[p]), d.pc \in Working, d.f = call[p].f, d.then = call[p].then
    PROVE  GoesOn(p)
  <1>1. call[p].pc # "walk" /\ d.f = Target(call[p]) /\ (Down(d) <=> Down(call[p]))
    BY WorkFacts DEF Down, Working
  <1> QED
    BY <1>1, WorkLeads DEF SameWork

LEMMA TestInodeShows ==
    ASSUME IInv, IInv', LInv, NEW p \in Procs, NEW pc, NEW use, TestInode(p, pc, use),
           pc \in {"open", "isdir"}, use \in {"content", "mode"}
    PROVE  LInv'
  <1> DEFINE c == call[p]
             e == [c EXCEPT !.pc = use]
             d == IF HasInode(c.f) THEN e ELSE Reads(c, use)
  <1>1. c.pc = pc /\ Goes(p, d) /\ UNCHANGED <<tree, handles>>
    BY DEF TestInode, At
  <1>2. c \in CallRecord /\ c.pc \in Working
    BY <1>1, CallFacts DEF Working
  <1>3. use \in Pcs /\ use \in Backs /\ use \in Working
    BY DEF Pcs, Backs, Working
  <1>4. SameWork(e, c) /\ e.pc = use /\ e.f = c.f /\ e.then = c.then
    BY <1>2, <1>3, GoesOnHolds, Zenon
  <1> HIDE DEF e
  <1>5. LET g == Reads(c, use)
        IN  SameWork(g, c) /\ g.pc = "clear" /\ g.f = c.f /\ g.then = c.then
    BY <1>2, <1>3, ReadsHolds
  <1>6. SameWork(d, c) /\ d.pc \in Working /\ d.f = c.f /\ d.then = c.then
    BY <1>3, <1>4, <1>5 DEF Working
  <1> HIDE DEF d
  <1>7. GoesOn(p)
    BY <1>1, <1>2, <1>6, SameWorkLeads
  <1> QED
    BY <1>1, <1>7, SameTreeMoves

LEMMA ClearInodeShows ==
    ASSUME IInv, IInv', LInv, NEW p \in Procs, ClearInode(p)
    PROVE  LInv'
  <1> DEFINE c == call[p]
             d == [c EXCEPT !.pc = "inode"]
  <1>1. /\ c.pc = "clear" /\ Goes(p, d)
        /\ file' = WithInode(file, c.f, FALSE)
        /\ UNCHANGED <<browsed, raced, handles>>
    BY DEF ClearInode, At, WithInode
  <1>2. c \in CallRecord /\ c.pc \in Working
    BY <1>1, CallFacts DEF Working
  <1>3. "inode" \in Pcs /\ "inode" \in Working /\ FALSE \in BOOLEAN
    BY DEF Pcs, Working
  <1>4. SameWork(d, c) /\ d.pc = "inode" /\ d.f = c.f /\ d.then = c.then
    BY <1>2, <1>3, GoesOnHolds, Zenon
  <1> HIDE DEF d
  <1>5. GoesOn(p)
    BY <1>1, <1>2, <1>3, <1>4, SameWorkLeads
  <1>6. SameShape(file, file')
    BY <1>1, <1>2, <1>3, WorkFacts, InodeShape
  <1> QED
    BY <1>1, <1>5, <1>6, MovesShow

\* BrowseAndCacheDirectory goes on.
LEMMA CachedLeads ==
    ASSUME IInv, LInv, NEW p \in Procs, NEW c \in CallRecord, Goes(p, Cached(c)),
           c.op = call[p].op, c.path = call[p].path, c.rest = call[p].rest,
           c.start = call[p].start, c.dir = call[p].dir, Down(call[p]), c.dir \in Nat
    PROVE  GoesOn(p)
  <1> DEFINE d == Cached(c)
  <1>1. "browse" \in Thens
    BY DEF Thens
  <1>2. /\ SameWork(d, c) /\ d.pc \in {"isdir", "open"} /\ d.f = c.dir /\ d.then = "browse"
    BY <1>1, AsksHolds, OpensHolds DEF Cached
  <1>3. Goes(p, d)
    OBVIOUS
  <1> HIDE DEF d
  <1>4. d.pc \in Working /\ Down(d)
    BY <1>2 DEF Working, Down
  <1>5. Target(call[p]) = call[p].dir /\ call[p].pc # "walk"
    BY DEF Target, Down, Working
  <1> QED
    BY <1>2, <1>3, <1>4, <1>5, WorkLeads DEF SameWork

LEMMA ReadInodeShows ==
    ASSUME IInv, IInv', LInv, NEW p \in Procs, NEW ok \in BOOLEAN, ReadInode(p, ok)
    PROVE  LInv'
  <1> DEFINE c == call[p]
             v == file[c.f].inode \/ ok
  <1>1. /\ c.pc = "inode"
        /\ file' = WithInode(file, c.f, v)
        /\ UNCHANGED <<browsed, raced, handles>>
    BY DEF ReadInode, At, WithInode
  <1>2. c \in CallRecord /\ c.pc \in Working /\ CallIn(file, cleared, c) /\ c.dir \in Nat
    BY <1>1, CallFacts DEF Working
  <1>3. v \in BOOLEAN
    OBVIOUS
  <1>4. SameShape(file, file')
    BY <1>1, <1>2, <1>3, WorkFacts, InodeShape
  <1> HIDE DEF v
  <1> SUFFICES GoesOn(p)
    BY <1>1, <1>4, MovesShow
  <1>5. /\ c.back # "none" /\ c.back \in Backs
        /\ c.back = "cache" => Down(c)
    <2>1. c.back # "none" /\ (c.back = "cache" => c.then \in {"none", "down", "browse"})
      BY <1>1, <1>2 DEF CallIn
    <2>2. c.back \in Backs
      BY <1>2, Zenon DEF CallRecord
    <2> QED
      BY <1>2, <2>1, <2>2 DEF Down
  <1>6. CASE ok /\ c.back = "cache" /\ Goes(p, Cached(c))
    BY <1>2, <1>5, <1>6, CachedLeads
  <1>7. CASE ok /\ c.back # "cache" /\ Goes(p, [c EXCEPT !.pc = c.back, !.back = "none"])
    <2> DEFINE pc == c.back
               d == [c EXCEPT !.pc = pc, !.back = "none"]
    <2>1. pc \in Pcs /\ pc \in Working
      BY <1>5, <1>7 DEF Backs, Pcs, Working
    <2>2. Goes(p, d)
      BY <1>7
    <2> HIDE DEF pc
    <2>3. SameWork(d, c) /\ d.pc = pc /\ d.f = c.f /\ d.then = c.then
      BY <1>2, <2>1, GoesBackHolds, Zenon
    <2> HIDE DEF d
    <2> QED
      BY <1>2, <2>1, <2>2, <2>3, SameWorkLeads
  <1>8. CASE ~ok /\ c.back = "content" /\ Opened(p, FALSE)
    BY <1>1, <1>8, OpenedLeads
  <1>9. CASE ~ok /\ c.back = "mode" /\ Answer(p, FALSE)
    BY <1>1, <1>9, AnswerLeads
  <1>10. CASE ~ok /\ c.back = "cache" /\ Over(p)
    BY <1>5, <1>10, OverLeads
  <1> QED
    BY <1>6, <1>7, <1>8, <1>9, <1>10 DEF ReadInode

LEMMA ReadContentShows ==
    ASSUME IInv, IInv', LInv, NEW p \in Procs, NEW ok \in BOOLEAN, ReadContent(p, ok)
    PROVE  LInv'
  <1> DEFINE c == call[p]
             done == ok /\ file[c.f].inode
             v == file[c.f].opened \/ done
  <1>1. /\ c.pc = "content" /\ Opened(p, done)
        /\ file' = WithOpened(file, c.f, v)
        /\ UNCHANGED <<browsed, raced, handles>>
    BY DEF ReadContent, At, WithOpened
  <1>2. c.pc \in Working
    BY <1>1 DEF Working
  <1>3. v \in BOOLEAN /\ done \in BOOLEAN
    OBVIOUS
  <1> HIDE DEF v, done
  <1>4. SameShape(file, file')
    BY <1>1, <1>2, <1>3, WorkFacts, OpenedShape
  <1>5. GoesOn(p)
    BY <1>1, <1>3, OpenedLeads
  <1> QED
    BY <1>1, <1>4, <1>5, MovesShow

LEMMA ReadModeShows ==
    ASSUME IInv, IInv', LInv, NEW p \in Procs, ReadMode(p)
    PROVE  LInv'
  <1> DEFINE c == call[p]
  <1>1. c.pc = "mode" /\ UNCHANGED <<tree, handles>>
    BY DEF ReadMode, At
  <1>2. PICK is \in IF file[c.f].inode THEN {IsDir(file[c.f].inum)} ELSE BOOLEAN : Answer(p, is)
    BY DEF ReadMode
  <1>3. is \in BOOLEAN
    <2>1. IsDir(file[c.f].inum) \in BOOLEAN
      BY DEF IsDir
    <2>2. CASE file[c.f].inode
      <3>1. is = IsDir(file[c.f].inum)
        BY <1>2, <2>2, Zenon
      <3> QED
        BY <2>1, <3>1, Zenon
    <2>3. CASE ~file[c.f].inode
      BY <1>2, <2>3, Zenon
    <2> QED
      BY <2>2, <2>3
  <1>4. GoesOn(p)
    BY <1>1, <1>2, <1>3, AnswerLeads
  <1> QED
    BY <1>1, <1>4, SameTreeMoves

LEMMA BrowseStartShows ==
    ASSUME IInv, IInv', LInv, NEW p \in Procs, BrowseStart(p)
    PROVE  LInv'
  <1> DEFINE b == call[p]
             c == [b EXCEPT !.f = b.dir]
             d == IF HasInode(c.dir) THEN Cached(c) ELSE Reads(c, "cache")
  <1>1. b.pc = "cache" /\ Goes(p, d) /\ UNCHANGED <<tree, handles>>
    BY DEF BrowseStart, At
  <1> SUFFICES GoesOn(p)
    BY <1>1, SameTreeMoves
  <1>2. b \in CallRecord /\ b.dir \in Nat /\ CallIn(file, cleared, b)
    BY CallFacts
  <1>3. b.then \in {"none", "down"} /\ Down(b) /\ Target(b) = b.dir
    BY <1>1, <1>2 DEF CallIn, Down, Target, Working
  <1>4. c \in CallRecord /\ SameWork(c, b) /\ c.f = b.dir /\ c.then = b.then
    BY <1>2, WorksOnHolds, Zenon
  <1> HIDE DEF c, b
  <1>5. /\ c.op = b.op /\ c.path = b.path /\ c.rest = b.rest /\ c.start = b.start
        /\ c.dir = b.dir
    BY <1>4 DEF SameWork
  <1>6. CASE HasInode(c.dir)
    <2>1. Goes(p, Cached(c))
      BY <1>1, <1>6
    <2> QED
      BY <1>2, <1>3, <1>4, <1>5, <2>1, CachedLeads DEF b
  <1>7. CASE ~HasInode(c.dir)
    <2>1. d = Reads(c, "cache") /\ "cache" \in Backs
      BY <1>7 DEF Backs
    <2>2. SameWork(d, c) /\ d.pc = "clear" /\ d.f = c.f /\ d.then = c.then
      BY <1>4, <2>1, ReadsHolds
    <2> HIDE DEF d
    <2>3. d.pc \in Working /\ Down(d) /\ b.pc # "walk" /\ d.f = Target(b) /\ d.dir = b.dir
      BY <1>1, <1>3, <1>4, <1>5, <2>2 DEF Working, Down, SameWork
    <2> QED
      BY <1>1, <1>3, <1>5, <2>2, <2>3, WorkLeads DEF SameWork, b
  <1> QED
    BY <1>6, <1>7

-----------------------------------------------------------------------------
(* The loop over the entries.                                              *)

InLoop == {"cache", "size", "wild", "browse", "next", "leaf"}

\* From step to step of the loop a call stays where its path leads.
LEMMA LoopGoes ==
    ASSUME NEW F, NEW c, NEW d, OpenIn(F, c), c.pc \in InLoop, d.pc \in InLoop,
           d.op = c.op, d.path = c.path, d.rest = c.rest, d.start = c.start, d.dir = c.dir
    PROVE  OpenIn(F, d) /\ Target(d) = c.dir
  <1>1. c.pc \notin Working /\ d.pc \notin Working /\ c.pc # "walk" /\ d.pc # "walk"
    BY DEF InLoop, Working
  <1>2. Down(c) /\ Down(d)
    BY DEF InLoop, Down
  <1>3. Target(c) = c.dir /\ Target(d) = c.dir
    BY <1>1 DEF Target
  <1>4. Steps(d) = Steps(c)
    BY <1>1, <1>2 DEF Steps, Gone
  <1> QED
    BY <1>3, <1>4, OpenGoes

LEMMA EntriesTyped ==
    ASSUME NEW inum
    PROVE  /\ Len(EntriesOf(inum)) \in Nat
           /\ DOMAIN EntriesOf(inum) = 1..Len(EntriesOf(inum))
           /\ DiskEntries(inum) = {EntriesOf(inum)[i] : i \in 1..Len(EntriesOf(inum))}
  <1>1. EntriesOf(inum) = <<>> \/ EntriesOf(inum) \in Seq([name : STRING, inum : Nat])
    BY EntriesAssumption DEF EntriesOf, IsDir
  <1>2. <<>> \in Seq([name : STRING, inum : Nat])
    OBVIOUS
  <1>3. Len(EntriesOf(inum)) \in Nat /\ DOMAIN EntriesOf(inum) = 1..Len(EntriesOf(inum))
    BY <1>1, <1>2, LenProperties
  <1> QED
    BY <1>3 DEF DiskEntries

LEMMA LoopFacts ==
    ASSUME IInv, LInv, NEW p \in Procs, call[p].pc \in InLoop
    PROVE  LET c == call[p]
           IN  /\ c \in CallRecord /\ OpenIn(file, c) /\ TurnIn(file, raced, c)
               /\ c.dir \in PointersOf(file) /\ c.dir \in Nat /\ Down(c) /\ Target(c) = c.dir
               /\ c.i \in Nat \ {0} /\ c.seen \in Nat /\ c.new \in Nat
               /\ TreeIn(file) /\ ListsEnd(file) /\ call \in [Procs -> CallRecord]
               /\ Len(file) \in Nat
  <1> DEFINE c == call[p]
  <1>1. /\ c \in CallRecord /\ OpenIn(file, c) /\ TurnIn(file, raced, c)
        /\ CallIn(file, cleared, c) /\ TreeIn(file) /\ ListsEnd(file) /\ c.dir \in Nat
        /\ call \in [Procs -> CallRecord]
    BY LFacts, CallFacts
  <1>2. c.dir \in PointersOf(file) /\ Down(c)
    BY <1>1 DEF CallIn, InLoop, HasDir, Down
  <1>3. c.i \in Nat \ {0} /\ c.seen \in Nat /\ c.new \in Nat
    BY <1>1, Zenon DEF CallRecord
  <1>4. Target(c) = c.dir
    BY <1>2 DEF Target
  <1> QED
    BY <1>1, <1>2, <1>3, <1>4, TreeTyped

\* A step of the loop that writes nothing.
LEMMA TurnsShow ==
    ASSUME IInv, IInv', LInv, NEW p \in Procs, NEW d, Goto(p, d),
           UNCHANGED <<file, browsed, raced, handles>>,
           ~Hangs(d), TurnIn(file, raced, d), OpenIn(file, d)
    PROVE  LInv'
  <1>1. call \in [Procs -> CallRecord]
    BY CallFacts
  <1>2. /\ call'[p] = d /\ \A q \in Procs \ {p} : call'[q] = call[q]
        /\ dirHandleList' = dirHandleList /\ browsed' = browsed /\ raced' = raced
    BY <1>1 DEF Goto, handles
  <1>3. \A i \in DOMAIN dirHandleList[p] : ListedIn(file, browsed, raced, dirHandleList[p][i])
    BY LFacts
  <1>4. SameShape(file, file')
    BY DEF SameShape
  <1> QED
    BY <1>2, <1>3, <1>4, StillShows

LEMMA BrowseSizeShows ==
    ASSUME IInv, IInv', LInv, NEW p \in Procs, BrowseSize(p)
    PROVE  LInv'
  <1> DEFINE c == call[p]
             pc == IF file[c.dir].inode THEN "browse" ELSE "wild"
             d == [c EXCEPT !.pc = pc, !.i = 1, !.f = NULL, !.then = "none", !.back = "none"]
  <1>1. c.pc = "size" /\ Goto(p, d) /\ UNCHANGED <<file, browsed, raced, handles>>
    BY DEF BrowseSize, At, Goes, tree
  <1>2. c \in CallRecord /\ OpenIn(file, c) /\ c.pc \in InLoop
    BY <1>1, LFacts DEF InLoop
  <1>3. pc \in {"browse", "wild"} /\ pc \in Pcs
    BY DEF Pcs
  <1> HIDE DEF pc
  <1>4. SameWork(d, c) /\ d.pc = pc /\ d.i = 1
    BY <1>2, <1>3, SizeHolds, Zenon
  <1> HIDE DEF d, c
  <1>5. OpenIn(file, d)
    BY <1>2, <1>3, <1>4, LoopGoes DEF SameWork, InLoop
  <1>6. ~Hangs(d) /\ TurnIn(file, raced, d)
    <2>1. ~Hangs(d)
      BY <1>3, <1>4 DEF Hangs
    <2>2. DOMAIN EntriesOf(file[d.dir].inum) = 1..Len(EntriesOf(file[d.dir].inum))
          /\ Len(EntriesOf(file[d.dir].inum)) \in Nat
      BY EntriesTyped
    <2>3. \A j \in DOMAIN EntriesOf(file[d.dir].inum) : ~(j < d.i)
      BY <1>4, <2>2
    <2> QED
      BY <2>1, <2>3 DEF TurnIn
  <1> QED
    BY <1>1, <1>5, <1>6, TurnsShow

LEMMA BrowseEndShows ==
    ASSUME IInv, IInv', LInv, NEW p \in Procs, BrowseEnd(p)
    PROVE  LInv'
  <1> DEFINE c == call[p]
             entries == EntriesOf(file[c.dir].inum)
  <1>1. /\ c.pc = "browse" /\ Over(p) /\ browsed' = browsed \cup {c.dir}
        /\ UNCHANGED <<file, raced, handles>> /\ ~(c.i <= Len(entries))
    BY DEF BrowseEnd, At, MoreEntries
  <1>2. /\ TurnIn(file, raced, c) /\ Down(c) /\ c.i \in Nat \ {0} /\ call \in [Procs -> CallRecord]
    BY <1>1, LoopFacts DEF InLoop
  <1>3. PICK d : call' = [call EXCEPT ![p] = d] /\ ~Turns(d) /\ OpenIn(file, d)
    BY <1>1, <1>2, OverLeads DEF GoesOn
  <1>4. /\ call'[p] = d /\ ~Hangs(d) /\ TurnIn(file, raced, d)
        /\ \A q \in Procs \ {p} : call'[q] = call[q]
    BY <1>2, <1>3 DEF TurnIn, Hangs, Turns
  <1>5. ASSUME c.dir \notin raced
        PROVE  \A e \in DiskEntries(file[c.dir].inum) : e.name \in NamesIn(file, c.dir)
    <2>1. /\ Len(entries) \in Nat /\ DOMAIN entries = 1..Len(entries)
          /\ DiskEntries(file[c.dir].inum) = {entries[i] : i \in 1..Len(entries)}
      BY EntriesTyped
    <2>2. \A j \in DOMAIN entries : j < c.i => entries[j].name \in NamesIn(file, c.dir)
      BY <1>1, <1>2, <1>5 DEF TurnIn, Turns
    <2> HIDE DEF entries, c
    <2>3. \A j \in 1..Len(entries) : j < c.i
      BY <1>1, <1>2, <2>1
    <2> QED
      BY <2>1, <2>2, <2>3
  <1>6. /\ \A i \in DOMAIN dirHandleList[p] : ListedIn(file, browsed, raced, dirHandleList[p][i])
        /\ dirHandleList' = dirHandleList
    BY <1>1, LFacts DEF handles
  <1>7. SameShape(file, file')
    BY <1>1 DEF SameShape
  <1> HIDE DEF entries
  <1>8. /\ browsed \subseteq browsed' /\ raced' = raced
        /\ \A e \in browsed' \ browsed : e = c.dir
    BY <1>1
  <1> HIDE DEF c
  <1> QED
    BY <1>3, <1>4, <1>5, <1>6, <1>7, <1>8, StillShows

\* A file is hung: what has to be shown of the lists.
LEMMA HungShows ==
    ASSUME IInv, IInv', LInv, NEW p \in Procs, Len(file) <= Len(file'),
           \A f \in PointersOf(file) : /\ file'[f].inum = file[f].inum
                                       /\ file'[f].parent = file[f].parent,
           ListsEnd(file'), NewsAreApart',
           \A d \in PointersOf(file') : DirIn(file', browsed', raced', d),
           \A q \in Procs \ {p} : call'[q] = call[q] /\ TurnIn(file', raced', call[q]),
           TurnIn(file', raced', call'[p]), OpenIn(file, call'[p]),
           Target(call'[p]) \in PointersOf(file), dirHandleList' = dirHandleList,
           \A q \in Procs : \A i \in DOMAIN dirHandleList[q] :
               ListedIn(file', browsed', raced', dirHandleList[q][i])
    PROVE  LInv'
  <1>1. TreeIn(file) /\ TreeIn(file') /\ Pointers' = PointersOf(file') /\ RootIn(file)
    BY LFacts DEF IInv, Pointers, PointersOf
  <1>2. RootIn(file')
    <2>1. Root \in PointersOf(file)
      BY <1>1 DEF TreeIn
    <2> QED
      BY <1>1, <2>1 DEF RootIn
  <1>3. ASSUME NEW q \in Procs
        PROVE  /\ TurnIn(file', raced', call'[q]) /\ OpenIn(file', call'[q])
               /\ \A i \in DOMAIN dirHandleList'[q] :
                     ListedIn(file', browsed', raced', dirHandleList'[q][i])
    <2>1. TurnIn(file', raced', call'[q])
      <3>1. CASE q = p
        BY <3>1
      <3>2. CASE q # p
        BY <3>2
      <3> QED
        BY <3>1, <3>2
    <2>2. OpenIn(file, call'[q]) /\ (call'[q].op = "open" => Target(call'[q]) \in PointersOf(file))
      <3>1. CASE q = p
        BY <3>1
      <3>2. CASE q # p
        <4>1. /\ OpenIn(file, call[q])
              /\ call[q].op = "open" => Target(call[q]) \in PointersOf(file)
          BY LFacts
        <4>2. call'[q] = call[q]
          BY <3>2
        <4> QED
          BY <4>1, <4>2
      <3> QED
        BY <3>1, <3>2
    <2>3. OpenIn(file', call'[q])
      BY <1>1, <2>2, OpenInStays
    <2> QED
      BY <2>1, <2>3
  <1> QED
    BY <1>1, <1>2, <1>3 DEF LInv

\* A file is hung that no directory shows yet.
LEMMA SameDirsShow ==
    ASSUME IInv, IInv', LInv, NEW p \in Procs, Len(file) <= Len(file'),
           \A f \in PointersOf(file) : /\ file'[f].inum = file[f].inum
                                       /\ file'[f].parent = file[f].parent
                                       /\ file'[f].name = file[f].name,
           ListsEnd(file'), NewsAreApart',
           \A d \in PointersOf(file) : SameDir(file, file', d),
           \A d \in PointersOf(file') \ PointersOf(file) : file'[d].leaf = NULL,
           browsed' = browsed, raced' = raced, dirHandleList' = dirHandleList,
           \A q \in Procs \ {p} :
               /\ call'[q] = call[q]
               /\ Hangs(call[q]) => file'[call[q].new].next = file[call[q].new].next,
           TurnIn(file', raced', call'[p]), OpenIn(file, call'[p]),
           Target(call'[p]) \in PointersOf(file)
    PROVE  LInv'
  <1>1. TreeIn(file') /\ browsed \subseteq PointersOf(file) /\ Pointers' = PointersOf(file')
    BY LFacts DEF IInv, Pointers, PointersOf
  <1>2. \A d \in PointersOf(file') : DirIn(file', browsed', raced', d)
    <2>1. ASSUME NEW d \in PointersOf(file)
          PROVE  DirIn(file', browsed', raced', d)
      BY LFacts, DirInStays
    <2>2. ASSUME NEW d \in PointersOf(file') \ PointersOf(file)
          PROVE  DirIn(file', browsed', raced', d)
      <3>1. IsListIn(file', file'[d].leaf, ListOf(file', d))
        BY <1>1, ListOfHolds
      <3>2. Len(ListOf(file', d)) = 0
        BY <1>1, <3>1, ListMeans
      <3>3. d \notin browsed'
        BY <1>1
      <3> QED
        BY <3>2, <3>3 DEF DirIn
    <2> QED
      BY <2>1, <2>2
  <1>3. \A q \in Procs \ {p} : TurnIn(file', raced', call[q])
    <2>1. ASSUME NEW q \in Procs \ {p}
          PROVE  TurnIn(file', raced', call[q])
      <3>1. /\ TurnIn(file, raced, call[q])
            /\ Turns(call[q]) => call[q].dir \in PointersOf(file)
            /\ Hangs(call[q]) => call[q].new \in PointersOf(file)
        BY LFacts
      <3>2. CASE ~Turns(call[q])
        BY <3>2 DEF TurnIn
      <3>3. CASE Turns(call[q])
        <4>1. SameDir(file, file', call[q].dir)
          BY <3>1, <3>3
        <4>2. Hangs(call[q]) => /\ file'[call[q].new].name = file[call[q].new].name
                                /\ file'[call[q].new].next = file[call[q].new].next
          BY <3>1
        <4> QED
          BY <3>1, <4>1, <4>2, TurnInStays
      <3> QED
        BY <3>2, <3>3
    <2> QED
      BY <2>1
  <1>4. \A q \in Procs : \A i \in DOMAIN dirHandleList[q] :
           ListedIn(file', browsed', raced', dirHandleList[q][i])
    BY LFacts, ListedInStays
  <1> QED
    BY <1>2, <1>3, <1>4, HungShows

LEMMA BrowseCheckShows ==
    ASSUME IInv, IInv', LInv, NEW p \in Procs, BrowseCheck(p)
    PROVE  LInv'
  <1> DEFINE c == call[p]
             entries == EntriesOf(file[c.dir].inum)
             name == entries[c.i].name
             r == NewFile(c.dir, entries[c.i])
             n == Len(file) + 1
             seen == file[c.dir].leaf
             d == [c EXCEPT !.i = @ + 1]
             e == [c EXCEPT !.pc = "next", !.new = n, !.seen = seen]
  <1>1. /\ c.pc = "browse" /\ c.pc \in InLoop /\ c.i <= Len(entries)
        /\ UNCHANGED <<browsed, raced, handles>>
        /\ \/ IsCached(c.dir, name) # NULL /\ Goto(p, d) /\ file' = file
           \/ IsCached(c.dir, name) = NULL /\ Goto(p, e) /\ file' = Append(file, r)
    BY DEF BrowseCheck, At, MoreEntries, InLoop
  <1>2. /\ c \in CallRecord /\ OpenIn(file, c) /\ TurnIn(file, raced, c)
        /\ c.dir \in PointersOf(file) /\ c.i \in Nat \ {0}
        /\ TreeIn(file) /\ ListsEnd(file) /\ call \in [Procs -> CallRecord]
        /\ Len(file) \in Nat
    BY <1>1, LoopFacts
  <1>3. Len(entries) \in Nat /\ DOMAIN entries = 1..Len(entries)
    BY EntriesTyped
  <1>4. c.i \in DOMAIN entries
    <2> HIDE DEF entries, c
    <2> QED
      BY <1>1, <1>2, <1>3
  <1>5. IsCached(c.dir, name) # NULL <=> name \in NamesIn(file, c.dir)
    <2>1. c.dir \in Pointers
      BY <1>2 DEF Pointers, PointersOf
    <2> HIDE DEF name, c
    <2> QED
      BY <1>2, <2>1, CachedIs
  <1>6. CASE IsCached(c.dir, name) # NULL /\ Goto(p, d) /\ file' = file
    <2>1. SameWork(d, c) /\ d.pc = c.pc /\ d.i = c.i + 1
      BY <1>2, NextEntryHolds, Zenon
    <2> HIDE DEF d
    <2>2. OpenIn(file, d)
      BY <1>1, <1>2, <2>1, LoopGoes DEF SameWork
    <2>3. TurnIn(file, raced, d)
      <3>1. ~Hangs(d) /\ d.dir = c.dir
        BY <1>1, <2>1 DEF Hangs, SameWork
      <3>2. ASSUME c.dir \notin raced, NEW j \in DOMAIN entries, j < c.i + 1
            PROVE  entries[j].name \in NamesIn(file, c.dir)
        <4>1. j < c.i => entries[j].name \in NamesIn(file, c.dir)
          BY <1>1, <1>2, <3>2 DEF TurnIn, Turns
        <4>2. entries[c.i].name \in NamesIn(file, c.dir)
          BY <1>5, <1>6
        <4>3. j < c.i \/ j = c.i
          <5> HIDE DEF entries, c
          <5> QED
            BY <1>2, <1>3, <3>2
        <4> QED
          BY <4>1, <4>2, <4>3
      <3> QED
        BY <2>1, <3>1, <3>2 DEF TurnIn
    <2>4. ~Hangs(d)
      BY <1>1, <2>1 DEF Hangs
    <2> QED
      BY <1>1, <1>6, <2>2, <2>3, <2>4, TurnsShow
  <1>7. CASE IsCached(c.dir, name) = NULL /\ Goto(p, e) /\ file' = Append(file, r)
    <2> HIDE DEF d
    <2>1. n \in Nat /\ seen \in {NULL} \cup PointersOf(file) /\ seen \in Nat
      <3> HIDE DEF r, e
      <3>1. n \in Nat
        BY <1>2
      <3>2. seen \in {NULL} \cup PointersOf(file)
        BY <1>2 DEF TreeIn
      <3>3. c.dir \in 1..Len(file)
        BY <1>2 DEF PointersOf
      <3> HIDE DEF n, c
      <3>4. seen \in Nat
        BY <1>2, <3>3, TreeTyped
      <3> QED
        BY <3>1, <3>2, <3>4
    <2> HIDE DEF r, n, seen, c
    <2>0. c \in CallRecord /\ n \in Nat /\ seen \in Nat
      BY <1>2, <2>1
    <2>2. /\ e.op = c.op /\ e.path = c.path /\ e.rest = c.rest /\ e.dir = c.dir
          /\ e.pc = "next" /\ e.new = n
      <3>1. e.op = c.op /\ e.path = c.path /\ e.rest = c.rest
        BY <2>0, Zenon DEF CallRecord
      <3>2. e.dir = c.dir /\ e.pc = "next" /\ e.new = n
        BY <2>0, Zenon DEF CallRecord
      <3> QED
        BY <3>1, <3>2
    <2>3. e.start = c.start /\ e.i = c.i /\ e.seen = seen
      BY <2>0, NewFileSeen, Zenon
    <2> USE DEF r, n, seen, c
    <2> HIDE DEF e
    <2>4. r.name = name /\ r.leaf = NULL /\ r.next = NULL
      BY DEF NewFile
    <2> HIDE DEF r
    <2>5. TreeIn(file') /\ file \in Seq(FileRecord) /\ file' \in Seq(FileRecord)
      BY <1>2 DEF IInv, TreeIn
    <2>6. /\ Len(file') = n /\ file'[n] = r /\ \A h \in 1..Len(file) : file'[h] = file[h]
      <3>1. /\ DOMAIN file' = 1..(Len(file) + 1) /\ file'[Len(file) + 1] = r
            /\ \A h \in 1..Len(file) : file'[h] = file[h]
        BY <1>2, <1>7, <2>5
      <3>2. Len(file') = Len(file) + 1
        BY <1>2, <2>5, <3>1
      <3> QED
        BY <3>1, <3>2
    <2>7. /\ PointersOf(file') = PointersOf(file) \cup {n} /\ n \notin PointersOf(file)
          /\ Len(file) <= Len(file') /\ \A h \in PointersOf(file) : file'[h] = file[h]
          /\ n # NULL
      BY <1>2, <2>1, <2>6 DEF PointersOf, NULL
    <2> HIDE DEF n
    <2>8. ListsEnd(file')
      <3>1. ASSUME NEW f \in {NULL} \cup PointersOf(file)
            PROVE  IsListIn(file', f, ListFrom(file', f))
        <4> DEFINE L == ListFrom(file, f)
        <4>1. IsListIn(file, f, L)
          BY <1>2 DEF ListsEnd
        <4> HIDE DEF L
        <4>2. \A i \in 1..Len(L) : L[i] \in PointersOf(file)
          BY <1>2, <4>1, ListMeans DEF PointersOf
        <4>3. \A i \in 1..Len(L) : file'[L[i]].next = file[L[i]].next
          BY <2>7, <4>2
        <4> QED
          BY <1>2, <2>5, <2>7, <4>1, <4>3, ListKeeps
      <3>2. IsListIn(file', n, ListFrom(file', n))
        <4> DEFINE L == ListFrom(file, NULL)
        <4>1. IsListIn(file, NULL, L)
          BY <1>2 DEF ListsEnd
        <4> HIDE DEF L
        <4>2. Len(L) = 0
          BY <1>2, <4>1, ListMeans
        <4>3. \A i \in 1..Len(L) : file'[L[i]].next = file[L[i]].next /\ L[i] # n
          BY <4>2
        <4>4. n \in PointersOf(file') /\ file'[n].next = NULL
          BY <2>4, <2>6, <2>7
        <4>5. IsListIn(file', n, <<n>> \o L)
          BY <1>2, <2>5, <2>7, <4>1, <4>3, <4>4, ListBefore
        <4> QED
          BY <2>5, <4>5, ListIs
      <3> QED
        BY <2>7, <3>1, <3>2 DEF ListsEnd
    <2>9. \A x \in PointersOf(file) : SameDir(file, file', x)
      <3>1. ASSUME NEW x \in PointersOf(file)
            PROVE  SameDir(file, file', x)
        <4>1. \A i \in 1..Len(ListOf(file, x)) : ListOf(file, x)[i] \in PointersOf(file)
          BY <1>2, ListOfHolds
        <4>2. file'[x].inum = file[x].inum /\ file'[x].leaf = file[x].leaf
          BY <2>7
        <4>3. \A i \in 1..Len(ListOf(file, x)) :
                 /\ file'[ListOf(file, x)[i]].name = file[ListOf(file, x)[i]].name
                 /\ file'[ListOf(file, x)[i]].next = file[ListOf(file, x)[i]].next
          BY <2>7, <4>1
        <4> QED
          BY <1>2, <2>5, <2>7, <4>2, <4>3, DirStays
      <3> QED
        BY <3>1
    <2>10. /\ call'[p] = e /\ \A q \in Procs \ {p} : call'[q] = call[q]
      BY <1>2, <1>7 DEF Goto
    <2>11. NewsAreApart'
      <3>1. ASSUME NEW q \in Procs \ {p}
            PROVE  /\ IsApart(file', call[q])
                   /\ Hangs(call[q]) => call[q].seen # n /\ call[q].new # n /\ seen # call[q].new
        <4>1. IsApart(file, call[q]) /\ (Hangs(call[q]) => call[q].new \in PointersOf(file))
          BY LFacts
        <4>2. SUFFICES ASSUME Hangs(call[q])
                       PROVE  /\ IsApart(file', call[q])
                              /\ call[q].seen # n /\ call[q].new # n /\ seen # call[q].new
          BY DEF IsApart
        <4>3. /\ call[q].seen \in {NULL} \cup PointersOf(file)
              /\ \A f \in PointersOf(file) : /\ file[f].leaf # call[q].new
                                             /\ file[f].next # call[q].new
              /\ call[q].pc = "next" => file[call[q].new].next = NULL
              /\ call[q].new \in PointersOf(file)
          BY <4>1, <4>2 DEF IsApart
        <4>4. call[q].new # NULL
          BY <1>2, <4>3 DEF PointersOf, NULL
        <4>5. call[q].seen # n /\ call[q].new # n /\ seen # call[q].new
          BY <1>2, <2>7, <4>3
        <4>6. \A f \in PointersOf(file') : /\ file'[f].leaf # call[q].new
                                           /\ file'[f].next # call[q].new
          BY <2>4, <2>6, <2>7, <4>3, <4>4
        <4> QED
          BY <2>7, <4>3, <4>5, <4>6 DEF IsApart
      <3>2. IsApart(file', e)
        <4>1. \A f \in PointersOf(file) : /\ file[f].leaf \in {NULL} \cup PointersOf(file)
                                          /\ file[f].next \in {NULL} \cup PointersOf(file)
          BY <1>2 DEF TreeIn
        <4>2. \A f \in PointersOf(file') : file'[f].leaf # n /\ file'[f].next # n
          BY <2>4, <2>6, <2>7, <4>1
        <4> QED
          BY <2>1, <2>2, <2>3, <2>4, <2>6, <2>7, <4>2 DEF IsApart
      <3>3. e.seen # e.new
        BY <2>1, <2>2, <2>3, <2>7
      <3>4. ASSUME NEW q \in Procs
            PROVE  IsApart(file', call'[q])
        BY <2>10, <3>1, <3>2
      <3>5. ASSUME NEW q \in Procs, NEW t \in Procs, Hangs(call'[q]), Hangs(call'[t])
            PROVE  call'[t].seen # call'[q].new /\ (call'[t].new = call'[q].new => t = q)
        <4>1. CASE q = p /\ t = p
          BY <2>10, <3>3, <4>1
        <4>2. CASE q = p /\ t # p
          BY <2>2, <2>10, <3>1, <3>5, <4>2
        <4>3. CASE q # p /\ t = p
          BY <2>2, <2>3, <2>10, <3>1, <3>5, <4>3
        <4>4. CASE q # p /\ t # p
          BY <2>10, <3>5, <4>4 DEF LInv, NewsAreApart
        <4> QED
          BY <4>1, <4>2, <4>3, <4>4
      <3> QED
        BY <3>4, <3>5 DEF NewsAreApart
    <2>12. TurnIn(file', raced', e)
      <3>1. SameDir(file, file', c.dir) /\ raced' = raced
        BY <1>1, <1>2, <2>9
      <3>2. NamesIn(file', c.dir) = NamesIn(file, c.dir) /\ file'[c.dir].inum = file[c.dir].inum
        BY <3>1, SameNames DEF SameDir
      <3>3. c.dir \notin raced => \A j \in DOMAIN entries : j < c.i =>
               entries[j].name \in NamesIn(file, c.dir)
        BY <1>1, <1>2 DEF TurnIn, Turns
      <3>4. name \notin NamesIn(file, c.dir) /\ file'[n].name = name
        BY <1>5, <1>7, <2>4, <2>6
      <3> QED
        BY <1>4, <2>2, <2>3, <3>1, <3>2, <3>3, <3>4 DEF TurnIn
    <2>13. OpenIn(file, e) /\ Target(e) \in PointersOf(file)
      <3>1. e.pc \in InLoop
        BY <2>2 DEF InLoop
      <3> QED
        BY <1>1, <1>2, <2>2, <2>3, <3>1, LoopGoes
    <2>14. /\ \A x \in PointersOf(file') \ PointersOf(file) : file'[x].leaf = NULL
           /\ browsed' = browsed /\ raced' = raced /\ dirHandleList' = dirHandleList
           /\ \A q \in Procs \ {p} : Hangs(call[q]) =>
                 file'[call[q].new].next = file[call[q].new].next
      <3>1. \A q \in Procs \ {p} : Hangs(call[q]) => call[q].new \in PointersOf(file)
        BY LFacts
      <3> QED
        BY <1>1, <2>4, <2>6, <2>7, <3>1 DEF handles
    <2>15. \A f \in PointersOf(file) : /\ file'[f].inum = file[f].inum
                                       /\ file'[f].parent = file[f].parent
                                       /\ file'[f].name = file[f].name
      BY <2>7
    <2> QED
      BY <2>7, <2>8, <2>9, <2>10, <2>11, <2>12, <2>13, <2>14, <2>15, SameDirsShow
  <1> QED
    BY <1>1, <1>6, <1>7

\* What a call that hangs a file knows.
LEMMA HangFacts ==
    ASSUME IInv, LInv, NEW p \in Procs, Hangs(call[p])
    PROVE  LET c == call[p]
           IN  /\ c.new \in PointersOf(file) /\ c.new # Root /\ file[c.new].parent = c.dir
               /\ c.seen \in {NULL} \cup PointersOf(file)
               /\ \A f \in PointersOf(file) : file[f].leaf # c.new /\ file[f].next # c.new
               /\ \A q \in Procs : Hangs(call[q]) =>
                     c.seen # call[q].new /\ (call[q].new = c.new => q = p)
               /\ c.new # NULL
               /\ \A d \in PointersOf(file) : \A i \in 1..Len(ListOf(file, d)) :
                     ListOf(file, d)[i] # c.new
  <1> DEFINE c == call[p]
  <1>1. /\ c.new \in PointersOf(file) /\ c.new # Root /\ file[c.new].parent = c.dir
        /\ IsApart(file, c) /\ TreeIn(file) /\ ListsEnd(file)
    BY LFacts
  <1>2. /\ c.seen \in {NULL} \cup PointersOf(file)
        /\ \A f \in PointersOf(file) : file[f].leaf # c.new /\ file[f].next # c.new
    BY <1>1 DEF IsApart
  <1>3. \A q \in Procs : Hangs(call[q]) =>
           c.seen # call[q].new /\ (call[q].new = c.new => q = p)
    BY DEF LInv, NewsAreApart
  <1>4. c.new # NULL
    BY <1>1 DEF PointersOf, NULL
  <1> HIDE DEF c
  <1>5. ASSUME NEW d \in PointersOf(file)
        PROVE  \A i \in 1..Len(ListOf(file, d)) : ListOf(file, d)[i] # c.new
    <2>1. IsListIn(file, file[d].leaf, ListOf(file, d))
      BY <1>1, ListOfHolds
    <2> QED
      BY <1>1, <1>2, <2>1, NotInList
  <1> QED
    BY <1>1, <1>2, <1>3, <1>4, <1>5 DEF c

LEMMA BrowseNextShows ==
    ASSUME IInv, IInv', LInv, NEW p \in Procs, BrowseNext(p)
    PROVE  LInv'
  <1> DEFINE c == call[p]
             n == c.new
             g == file[c.dir].leaf
             d == [c EXCEPT !.pc = "leaf"]
  <1>1. /\ c.pc = "next" /\ call' = [call EXCEPT ![p] = d] /\ file' = WithNext(file, n, g)
        /\ UNCHANGED <<browsed, raced, handles>>
    BY DEF BrowseNext, At, Goto, WithNext
  <1>2. c.pc \in InLoop /\ Hangs(c) /\ "leaf" \in Pcs
    BY <1>1 DEF InLoop, Hangs, Pcs
  <1>3. /\ c \in CallRecord /\ OpenIn(file, c) /\ TurnIn(file, raced, c)
        /\ c.dir \in PointersOf(file)
        /\ TreeIn(file) /\ ListsEnd(file) /\ call \in [Procs -> CallRecord]
        /\ Len(file) \in Nat /\ file \in [1..Len(file) -> FileRecord]
    BY <1>2, LoopFacts, TreeTyped
  <1>4. /\ SameWork(d, c) /\ d.pc = "leaf" /\ d.i = c.i /\ d.seen = c.seen
    BY <1>2, <1>3, GoesOnHolds, Zenon
  <1>5. call'[p] = d /\ \A q \in Procs \ {p} : call'[q] = call[q]
    BY <1>1, <1>3
  <1> HIDE DEF d
  <1>6. /\ n \in PointersOf(file) /\ n # NULL
        /\ c.seen \in {NULL} \cup PointersOf(file)
        /\ \A f \in PointersOf(file) : file[f].leaf # n /\ file[f].next # n
        /\ \A x \in PointersOf(file) : \A i \in 1..Len(ListOf(file, x)) : ListOf(file, x)[i] # n
        /\ \A q \in Procs : Hangs(call[q]) => c.seen # call[q].new /\ (call[q].new = n => q = p)
    BY <1>2, HangFacts
  <1>7. g \in {NULL} \cup PointersOf(file) /\ g \in Nat /\ g # n
    <2>1. g \in {NULL} \cup PointersOf(file)
      BY <1>3 DEF TreeIn
    <2> QED
      BY <1>3, <1>6, <2>1 DEF PointersOf, NULL
  <1> HIDE DEF c, n, g
  <1>8. /\ file' \in [1..Len(file) -> FileRecord] /\ file'[n].next = g
        /\ \A h \in PointersOf(file) : h # n => file'[h] = file[h]
        /\ file'[n].inum = file[n].inum /\ file'[n].name = file[n].name
        /\ file'[n].leaf = file[n].leaf /\ file'[n].parent = file[n].parent
    <2>1. n \in 1..Len(file) /\ file' = WithNext(file, n, g)
      BY <1>1, <1>6 DEF PointersOf
    <2>2. /\ file' \in [1..Len(file) -> FileRecord] /\ file'[n].next = g
          /\ \A h \in 1..Len(file) : h # n => file'[h] = file[h]
          /\ file'[n].inum = file[n].inum /\ file'[n].name = file[n].name
          /\ file'[n].leaf = file[n].leaf /\ file'[n].parent = file[n].parent
      BY <1>3, <1>7, <2>1, WithNextHolds
    <2> QED
      BY <2>2 DEF PointersOf
  <1>9. Len(file') = Len(file) /\ PointersOf(file') = PointersOf(file) /\ TreeIn(file')
    <2>1. Len(file') = Len(file)
      BY <1>3, <1>8
    <2> QED
      BY <2>1 DEF PointersOf, IInv
  <1>10. Len(file) <= Len(file')
    BY <1>3, <1>9
  <1>11. ListsEnd(file')
    <2>1. ASSUME NEW f \in {NULL} \cup PointersOf(file), f # n
          PROVE  IsListIn(file', f, ListFrom(file', f))
      <3> DEFINE L == ListFrom(file, f)
      <3>1. IsListIn(file, f, L)
        BY <1>3 DEF ListsEnd
      <3> HIDE DEF L
      <3>2. \A i \in 1..Len(L) : L[i] \in PointersOf(file) /\ L[i] # n
        <4>0. /\ TreeIn(file) /\ n \in PointersOf(file) /\ f # n
              /\ \A h \in PointersOf(file) : file[h].next # n
          BY <1>3, <1>6, <2>1
        <4>1. \A i \in 1..Len(L) : L[i] # n
          BY <3>1, <4>0, NotInList
        <4> QED
          BY <1>3, <3>1, <4>1, ListMeans DEF PointersOf
      <3>3. \A i \in 1..Len(L) : file'[L[i]].next = file[L[i]].next
        BY <1>8, <3>2
      <3> QED
        BY <1>3, <1>9, <1>10, <3>1, <3>3, ListKeeps
    <2>2. IsListIn(file', n, ListFrom(file', n))
      <3> DEFINE L == ListFrom(file, g)
      <3>1. IsListIn(file, g, L)
        BY <1>3, <1>7 DEF ListsEnd
      <3> HIDE DEF L
      <3>2. \A i \in 1..Len(L) : L[i] \in PointersOf(file) /\ L[i] # n
        <4>0. /\ TreeIn(file) /\ n \in PointersOf(file) /\ g # n
              /\ \A h \in PointersOf(file) : file[h].next # n
          BY <1>3, <1>6, <1>7
        <4>1. \A i \in 1..Len(L) : L[i] # n
          BY <3>1, <4>0, NotInList
        <4> QED
          BY <1>3, <3>1, <4>1, ListMeans DEF PointersOf
      <3>3. \A i \in 1..Len(L) : file'[L[i]].next = file[L[i]].next
        BY <1>8, <3>2
      <3>4. IsListIn(file', n, <<n>> \o L)
        BY <1>3, <1>6, <1>8, <1>9, <1>10, <3>1, <3>2, <3>3, ListBefore
      <3> QED
        BY <1>9, <3>4, ListIs
    <2> QED
      BY <1>9, <2>1, <2>2 DEF ListsEnd
  <1>12. \A x \in PointersOf(file) : SameDir(file, file', x)
    <2>1. ASSUME NEW x \in PointersOf(file)
          PROVE  SameDir(file, file', x)
      <3>1. \A i \in 1..Len(ListOf(file, x)) :
               ListOf(file, x)[i] \in PointersOf(file) /\ ListOf(file, x)[i] # n
        BY <1>3, <1>6, ListOfHolds
      <3>2. file'[x].inum = file[x].inum /\ file'[x].leaf = file[x].leaf
        BY <1>8
      <3>3. \A i \in 1..Len(ListOf(file, x)) :
               /\ file'[ListOf(file, x)[i]].name = file[ListOf(file, x)[i]].name
               /\ file'[ListOf(file, x)[i]].next = file[ListOf(file, x)[i]].next
        BY <1>8, <3>1
      <3> QED
        BY <1>3, <1>9, <1>10, <3>2, <3>3, DirStays
    <2> QED
      BY <2>1
  <1>13. d.dir = c.dir /\ d.new = n
    BY <1>4 DEF SameWork, n
  <1>14. \A q \in Procs : Hangs(call[q]) =>
            /\ call[q].seen \in {NULL} \cup PointersOf(file)
            /\ \A f \in PointersOf(file) : /\ file[f].leaf # call[q].new
                                           /\ file[f].next # call[q].new
            /\ call[q].pc = "next" => file[call[q].new].next = NULL
            /\ call[q].new \in PointersOf(file)
    BY LFacts DEF IsApart
  <1>15. \A q \in Procs : Hangs(call[q]) =>
            \A f \in PointersOf(file) : /\ file'[f].leaf # call[q].new
                                        /\ file'[f].next # call[q].new
    <2>1. ASSUME NEW q \in Procs, Hangs(call[q]), NEW f \in PointersOf(file)
          PROVE  file'[f].leaf # call[q].new /\ file'[f].next # call[q].new
      <3>1. /\ file[f].leaf # call[q].new /\ file[f].next # call[q].new /\ g # call[q].new
        BY <1>3, <1>14, <2>1 DEF g
      <3>2. CASE f = n
        BY <1>8, <3>1, <3>2
      <3>3. CASE f # n
        BY <1>8, <3>1, <3>3
      <3> QED
        BY <3>2, <3>3
    <2> QED
      BY <2>1
  <1>16. NewsAreApart'
    <2>1. ASSUME NEW q \in Procs
          PROVE  IsApart(file', call'[q])
      <3>1. CASE q = p
        <4>1. d.pc # "next" /\ Hangs(c)
          BY <1>2, <1>4
        <4> QED
          BY <1>4, <1>5, <1>6, <1>9, <1>13, <1>15, <3>1, <4>1 DEF IsApart, c, n
      <3>2. CASE q # p
        <4>1. call'[q] = call[q]
          BY <1>5, <3>2
        <4>2. SUFFICES ASSUME Hangs(call[q])
                       PROVE  IsApart(file', call[q])
          BY <4>1 DEF IsApart
        <4>3. call[q].new # n /\ call[q].new \in PointersOf(file)
          BY <1>6, <1>14, <3>2, <4>2
        <4>4. call[q].pc = "next" => file'[call[q].new].next = NULL
          BY <1>8, <1>14, <4>2, <4>3
        <4> QED
          BY <1>9, <1>14, <1>15, <4>2, <4>4 DEF IsApart
      <3> QED
        BY <3>1, <3>2
    <2>2. \A q \in Procs : /\ call'[q].seen = call[q].seen /\ call'[q].new = call[q].new
                           /\ Hangs(call'[q]) => Hangs(call[q])
      <3>1. call'[p].seen = call[p].seen /\ call'[p].new = call[p].new /\ Hangs(call[p])
        BY <1>2, <1>4, <1>5, <1>13 DEF c, n
      <3> QED
        BY <1>5, <3>1
    <2>3. \A q, t \in Procs : Hangs(call[q]) /\ Hangs(call[t]) =>
             call[t].seen # call[q].new /\ (call[t].new = call[q].new => t = q)
      BY DEF LInv, NewsAreApart
    <2> QED
      BY <2>1, <2>2, <2>3 DEF NewsAreApart
  <1>17. TurnIn(file', raced', d)
    <2>1. SameDir(file, file', c.dir) /\ raced' = raced
      BY <1>1, <1>3, <1>12
    <2>2. /\ NamesIn(file', c.dir) = NamesIn(file, c.dir)
          /\ file'[c.dir].inum = file[c.dir].inum /\ file'[c.dir].leaf = file[c.dir].leaf
      BY <2>1, SameNames DEF SameDir
    <2>3. file'[n].name = file[n].name /\ file'[n].next = file[c.dir].leaf
      BY <1>8 DEF g
    <2>4. c.dir \notin raced =>
            /\ \A j \in DOMAIN EntriesOf(file[c.dir].inum) : j < c.i =>
                  EntriesOf(file[c.dir].inum)[j].name \in NamesIn(file, c.dir)
            /\ c.i \in DOMAIN EntriesOf(file[c.dir].inum)
            /\ file[n].name = EntriesOf(file[c.dir].inum)[c.i].name
            /\ file[c.dir].leaf = c.seen => file[n].name \notin NamesIn(file, c.dir)
      BY <1>2, <1>3 DEF TurnIn, Turns, Hangs, n
    <2> QED
      BY <1>4, <1>13, <2>1, <2>2, <2>3, <2>4 DEF TurnIn
  <1>18. OpenIn(file, d) /\ Target(d) \in PointersOf(file)
    <2>1. d.pc \in InLoop
      BY <1>4 DEF InLoop
    <2> QED
      <3>1. d.op = c.op /\ d.path = c.path /\ d.rest = c.rest /\ d.start = c.start
        BY <1>4 DEF SameWork
      <3> QED
        BY <1>2, <1>3, <1>13, <2>1, <3>1, LoopGoes
  <1>19. \A f \in PointersOf(file) : /\ file'[f].inum = file[f].inum
                                     /\ file'[f].parent = file[f].parent
                                     /\ file'[f].name = file[f].name
    BY <1>8
  <1>20. /\ browsed' = browsed /\ raced' = raced /\ dirHandleList' = dirHandleList
         /\ \A q \in Procs \ {p} : Hangs(call[q]) =>
               file'[call[q].new].next = file[call[q].new].next
    BY <1>1, <1>6, <1>8, <1>14 DEF handles
  <1>21. \A x \in PointersOf(file') \ PointersOf(file) : file'[x].leaf = NULL
    BY <1>9
  <1> QED
    BY <1>5, <1>10, <1>11, <1>12, <1>16, <1>17, <1>18, <1>19, <1>20, <1>21, SameDirsShow

\* A file in front of the list of d.
LEMMA Prepended ==
    ASSUME NEW F, NEW G, TreeIn(F), TreeIn(G), ListsEnd(F), Len(F) <= Len(G),
           NEW d \in PointersOf(F), NEW n \in PointersOf(G),
           G[d].leaf = n, G[n].next = F[d].leaf,
           \A i \in 1..Len(ListOf(F, d)) :
               /\ ListOf(F, d)[i] # n
               /\ G[ListOf(F, d)[i]].name = F[ListOf(F, d)[i]].name
               /\ G[ListOf(F, d)[i]].next = F[ListOf(F, d)[i]].next,
           G[n].name \notin NamesIn(F, d),
           \A i, j \in 1..Len(ListOf(F, d)) :
               F[ListOf(F, d)[i]].name = F[ListOf(F, d)[j]].name => i = j
    PROVE  /\ NamesIn(F, d) \subseteq NamesIn(G, d) /\ G[n].name \in NamesIn(G, d)
           /\ \A i, j \in 1..Len(ListOf(G, d)) :
                 G[ListOf(G, d)[i]].name = G[ListOf(G, d)[j]].name => i = j
  <1> DEFINE L == ListOf(F, d)
             M == ListOf(G, d)
             m == Len(L)
  <1>1. IsListIn(F, F[d].leaf, L) /\ m \in Nat /\ L \in Seq(PointersOf(F))
    <2>1. IsListIn(F, F[d].leaf, L) /\ m \in Nat
      BY ListOfHolds
    <2> QED
      BY <2>1 DEF IsListIn
  <1>2. M = <<n>> \o L
    <2> DEFINE K == <<n>> \o L
    <2>1. IsListIn(G, n, K)
      BY <1>1, ListBefore
    <2> HIDE DEF L, K
    <2>2. ListFrom(G, n) = K
      BY <2>1, ListIs
    <2> QED
      BY <2>2 DEF ListOf, K
  <1> HIDE DEF L, M
  <1>3. /\ Len(M) = m + 1 /\ M[1] = n
        /\ \A i \in 1..m : M[i + 1] = L[i]
    <2>1. <<n>> \in Seq(Nat) /\ L \in Seq(Nat) /\ Len(<<n>>) = 1 /\ <<n>>[1] = n
      BY <1>1 DEF PointersOf
    <2>2. Len(M) = m + 1 /\ M[1] = n
      BY <1>1, <1>2, <2>1
    <2>3. \A i \in 1..m : M[i + 1] = L[i]
      BY <1>1, <1>2, <2>1
    <2> QED
      BY <2>2, <2>3
  <1>4. /\ \A i \in 1..m : G[L[i]].name = F[L[i]].name
        /\ NamesIn(F, d) = {F[L[i]].name : i \in 1..m}
        /\ NamesIn(G, d) = {G[M[i]].name : i \in 1..Len(M)}
    BY DEF L, M, NamesIn
  <1>5. \A i \in 1..Len(M) : i # 1 =>
           /\ i - 1 \in 1..m /\ M[i] = L[i - 1] /\ G[M[i]].name = F[L[i - 1]].name
    <2>1. ASSUME NEW i \in 1..Len(M), i # 1
          PROVE  /\ i - 1 \in 1..m /\ M[i] = L[i - 1] /\ G[M[i]].name = F[L[i - 1]].name
      <3>1. i - 1 \in 1..m /\ (i - 1) + 1 = i
        BY <1>1, <1>3, <2>1
      <3>2. M[i] = L[i - 1]
        BY <1>3, <3>1
      <3> QED
        BY <1>4, <3>1, <3>2
    <2> QED
      BY <2>1
  <1> HIDE DEF m
  <1>6. NamesIn(F, d) \subseteq NamesIn(G, d)
    <2>1. ASSUME NEW i \in 1..m
          PROVE  F[L[i]].name \in NamesIn(G, d)
      <3>1. i + 1 \in 1..Len(M) /\ M[i + 1] = L[i]
        BY <1>1, <1>3
      <3> QED
        BY <1>4, <3>1
    <2> QED
      BY <1>4, <2>1
  <1>7. G[n].name \in NamesIn(G, d)
    <2>1. 1 \in 1..Len(M)
      BY <1>1, <1>3
    <2> QED
      BY <1>3, <1>4, <2>1
  <1>8. ASSUME NEW i \in 1..Len(M), NEW j \in 1..Len(M), G[M[i]].name = G[M[j]].name
        PROVE  i = j
    <2>1. CASE i = 1 /\ j = 1
      BY <2>1
    <2>2. CASE i = 1 /\ j # 1
      <3>1. G[n].name \in NamesIn(F, d)
        BY <1>3, <1>4, <1>5, <1>8, <2>2
      <3> QED
        BY <3>1
    <2>3. CASE i # 1 /\ j = 1
      <3>1. G[n].name = G[M[i]].name /\ i - 1 \in 1..m /\ G[M[i]].name = F[L[i - 1]].name
        BY <1>3, <1>5, <1>8, <2>3
      <3>2. F[L[i - 1]].name \in NamesIn(F, d)
        BY <1>4, <3>1
      <3> QED
        BY <3>1, <3>2
    <2>4. CASE i # 1 /\ j # 1
      <3>1. /\ i - 1 \in 1..m /\ j - 1 \in 1..m
            /\ F[L[i - 1]].name = F[L[j - 1]].name
        BY <1>5, <1>8, <2>4
      <3>2. i - 1 = j - 1
        BY <3>1 DEF L, m
      <3>3. i \in Int /\ j \in Int
        BY <1>8
      <3> QED
        BY <3>2, <3>3
    <2> QED
      BY <2>1, <2>2, <2>3, <2>4
  <1> QED
    BY <1>6, <1>7, <1>8 DEF M

LEMMA BrowseLeafShows ==
    ASSUME IInv, IInv', LInv, NEW p \in Procs, BrowseLeaf(p)
    PROVE  LInv'
  <1> DEFINE c == call[p]
             dir == c.dir
             n == c.new
             e == [c EXCEPT !.pc = "browse", !.i = @ + 1, !.new = NULL, !.seen = NULL]
  <1>1. /\ c.pc = "leaf" /\ call' = [call EXCEPT ![p] = e] /\ file' = WithLeaf(file, dir, n)
        /\ raced' = IF file[dir].leaf = c.seen THEN raced ELSE raced \cup {dir}
        /\ UNCHANGED <<browsed, handles>>
    BY DEF BrowseLeaf, At, Goto, WithLeaf
  <1>2. c.pc \in InLoop /\ Hangs(c) /\ Turns(c) /\ "browse" \in InLoop
    BY <1>1 DEF InLoop, Hangs, Turns
  <1>3. /\ c \in CallRecord /\ OpenIn(file, c) /\ TurnIn(file, raced, c)
        /\ dir \in PointersOf(file)
        /\ TreeIn(file) /\ ListsEnd(file) /\ call \in [Procs -> CallRecord]
        /\ Len(file) \in Nat /\ file \in [1..Len(file) -> FileRecord]
    BY <1>2, LoopFacts, TreeTyped
  <1>4. /\ e.op = c.op /\ e.path = c.path /\ e.rest = c.rest
        /\ e.start = c.start /\ e.dir = dir /\ e.pc = "browse" /\ e.i = c.i + 1
    BY <1>3, NextEntryHolds, Zenon
  <1>5. call'[p] = e /\ \A q \in Procs \ {p} : call'[q] = call[q]
    BY <1>1, <1>3
  <1> HIDE DEF e
  <1>6. /\ n \in PointersOf(file) /\ n # NULL /\ file[n].parent = dir
        /\ \A x \in PointersOf(file) : \A i \in 1..Len(ListOf(file, x)) : ListOf(file, x)[i] # n
        /\ \A q \in Procs : Hangs(call[q]) => (call[q].new = n => q = p)
    BY <1>2, HangFacts
  <1>7. \A q, t \in Procs : Hangs(call[q]) /\ Hangs(call[t]) =>
           call[t].seen # call[q].new /\ (call[t].new = call[q].new => t = q)
    BY DEF LInv, NewsAreApart
  <1> HIDE DEF n, dir
  <1>8. /\ file' \in [1..Len(file) -> FileRecord] /\ file'[dir].leaf = n
        /\ \A h \in PointersOf(file) : h # dir => file'[h] = file[h]
        /\ file'[dir].inum = file[dir].inum /\ file'[dir].name = file[dir].name
        /\ file'[dir].next = file[dir].next /\ file'[dir].parent = file[dir].parent
    <2>1. dir \in 1..Len(file) /\ n \in Nat /\ file' = WithLeaf(file, dir, n)
      BY <1>1, <1>3, <1>6 DEF PointersOf
    <2>2. /\ file' \in [1..Len(file) -> FileRecord] /\ file'[dir].leaf = n
          /\ \A h \in 1..Len(file) : h # dir => file'[h] = file[h]
          /\ file'[dir].inum = file[dir].inum /\ file'[dir].name = file[dir].name
          /\ file'[dir].next = file[dir].next /\ file'[dir].parent = file[dir].parent
      BY <1>3, <2>1, WithLeafHolds
    <2> QED
      BY <2>2 DEF PointersOf
  <1>9. \A h \in PointersOf(file) : /\ file'[h].inum = file[h].inum
                                    /\ file'[h].name = file[h].name
                                    /\ file'[h].next = file[h].next
                                    /\ file'[h].parent = file[h].parent
                                    /\ file'[h].leaf = IF h = dir THEN n ELSE file[h].leaf
    BY <1>8
  <1>10. /\ Len(file') = Len(file) /\ PointersOf(file') = PointersOf(file) /\ TreeIn(file')
         /\ Len(file) <= Len(file')
    <2>1. Len(file') = Len(file)
      BY <1>3, <1>8
    <2> QED
      BY <1>3, <2>1 DEF PointersOf, IInv
  <1>11. ListsEnd(file')
    <2>1. ASSUME NEW f \in {NULL} \cup PointersOf(file)
          PROVE  IsListIn(file', f, ListFrom(file', f))
      <3> DEFINE L == ListFrom(file, f)
      <3>1. IsListIn(file, f, L)
        BY <1>3 DEF ListsEnd
      <3> HIDE DEF L
      <3>2. \A i \in 1..Len(L) : L[i] \in PointersOf(file)
        BY <1>3, <3>1, ListMeans DEF PointersOf
      <3>3. \A i \in 1..Len(L) : file'[L[i]].next = file[L[i]].next
        BY <1>9, <3>2
      <3> QED
        BY <1>3, <1>10, <3>1, <3>3, ListKeeps
    <2> QED
      BY <1>10, <2>1 DEF ListsEnd
  <1>12. NewsAreApart'
    <2>1. ASSUME NEW q \in Procs, Hangs(call'[q])
          PROVE  q # p /\ call'[q] = call[q] /\ Hangs(call[q])
      <3>1. q # p
        BY <1>4, <1>5, <2>1 DEF Hangs
      <3> QED
        BY <1>5, <2>1, <3>1
    <2>2. ASSUME NEW q \in Procs
          PROVE  IsApart(file', call'[q])
      <3>1. SUFFICES ASSUME Hangs(call'[q])
                     PROVE  IsApart(file', call'[q])
        BY DEF IsApart
      <3>2. /\ q # p /\ call'[q] = call[q] /\ Hangs(call[q]) /\ IsApart(file, call[q])
            /\ call[q].new \in PointersOf(file) /\ call[q].new # n
        BY <1>6, <2>1, <3>1, LFacts
      <3>3. /\ \A f \in PointersOf(file) : /\ file'[f].leaf # call[q].new
                                           /\ file'[f].next # call[q].new
            /\ file'[call[q].new].next = file[call[q].new].next
        BY <1>9, <3>2 DEF IsApart
      <3> QED
        BY <1>10, <3>2, <3>3 DEF IsApart
    <2>3. ASSUME NEW q \in Procs, NEW t \in Procs, Hangs(call'[q]), Hangs(call'[t])
          PROVE  call'[t].seen # call'[q].new /\ (call'[t].new = call'[q].new => t = q)
      <3>1. /\ call'[q] = call[q] /\ Hangs(call[q])
            /\ call'[t] = call[t] /\ Hangs(call[t])
        BY <2>1, <2>3
      <3> QED
        BY <1>7, <3>1
    <2> QED
      BY <2>2, <2>3 DEF NewsAreApart
  <1>13. \A x \in PointersOf(file) : x # dir => SameDir(file, file', x)
    <2>1. ASSUME NEW x \in PointersOf(file), x # dir
          PROVE  SameDir(file, file', x)
      <3>1. \A i \in 1..Len(ListOf(file, x)) : ListOf(file, x)[i] \in PointersOf(file)
        BY <1>3, ListOfHolds
      <3>2. file'[x].inum = file[x].inum /\ file'[x].leaf = file[x].leaf
        BY <1>9, <2>1
      <3>3. \A i \in 1..Len(ListOf(file, x)) :
               /\ file'[ListOf(file, x)[i]].name = file[ListOf(file, x)[i]].name
               /\ file'[ListOf(file, x)[i]].next = file[ListOf(file, x)[i]].next
        BY <1>9, <3>1
      <3> QED
        BY <1>3, <1>10, <3>2, <3>3, DirStays
    <2> QED
      BY <2>1
  \* The list of the directory, when nobody else has changed it.
  <1>14. ASSUME dir \notin raced'
         PROVE  /\ dir \notin raced /\ file[dir].leaf = c.seen
                /\ \A j \in DOMAIN EntriesOf(file[dir].inum) : j < c.i =>
                      EntriesOf(file[dir].inum)[j].name \in NamesIn(file, dir)
                /\ c.i \in DOMAIN EntriesOf(file[dir].inum)
                /\ file[n].name = EntriesOf(file[dir].inum)[c.i].name
                /\ file[n].name \notin NamesIn(file, dir)
                /\ NamesIn(file, dir) \subseteq NamesIn(file', dir)
                /\ file[n].name \in NamesIn(file', dir)
                /\ \A i, j \in 1..Len(ListOf(file', dir)) :
                      file'[ListOf(file', dir)[i]].name = file'[ListOf(file', dir)[j]].name
                         => i = j
                /\ dir \notin browsed
    <2>1. dir \notin raced /\ file[dir].leaf = c.seen
      BY <1>1, <1>14
    <2>2. /\ \A j \in DOMAIN EntriesOf(file[dir].inum) : j < c.i =>
                EntriesOf(file[dir].inum)[j].name \in NamesIn(file, dir)
          /\ c.i \in DOMAIN EntriesOf(file[dir].inum)
          /\ file[n].name = EntriesOf(file[dir].inum)[c.i].name
          /\ file[n].name \notin NamesIn(file, dir)
          /\ file[n].next = file[dir].leaf
      BY <1>1, <1>2, <1>3, <2>1 DEF TurnIn, dir, n
    <2>3. DirIn(file, browsed, raced, dir)
      BY <1>3, LFacts
    <2>4. \A i, j \in 1..Len(ListOf(file, dir)) :
             file[ListOf(file, dir)[i]].name = file[ListOf(file, dir)[j]].name => i = j
      BY <2>1, <2>3 DEF DirIn
    <2>5. \A i \in 1..Len(ListOf(file, dir)) :
             /\ ListOf(file, dir)[i] # n
             /\ file'[ListOf(file, dir)[i]].name = file[ListOf(file, dir)[i]].name
             /\ file'[ListOf(file, dir)[i]].next = file[ListOf(file, dir)[i]].next
      <3>1. \A i \in 1..Len(ListOf(file, dir)) :
               /\ ListOf(file, dir)[i] # n /\ ListOf(file, dir)[i] \in PointersOf(file)
        BY <1>3, <1>6, ListOfHolds
      <3> QED
        BY <1>9, <3>1
    <2>6. /\ file'[n].name = file[n].name /\ file'[n].next = file[dir].leaf
          /\ file'[dir].leaf = n /\ n \in PointersOf(file')
      BY <1>6, <1>8, <1>9, <1>10, <2>2
    <2>7. /\ NamesIn(file, dir) \subseteq NamesIn(file', dir)
          /\ file'[n].name \in NamesIn(file', dir)
          /\ \A i, j \in 1..Len(ListOf(file', dir)) :
                file'[ListOf(file', dir)[i]].name = file'[ListOf(file', dir)[j]].name
                   => i = j
      <3>1. file'[n].name \notin NamesIn(file, dir)
        BY <2>2, <2>6
      <3>2. /\ TreeIn(file) /\ TreeIn(file') /\ ListsEnd(file) /\ Len(file) <= Len(file')
            /\ dir \in PointersOf(file)
        BY <1>3, <1>10
      <3> QED
        BY <2>4, <2>5, <2>6, <3>1, <3>2, Prepended
    <2>8. dir \notin browsed
      <3>1. EntriesOf(file[dir].inum)[c.i] \in DiskEntries(file[dir].inum)
        BY <2>2 DEF DiskEntries
      <3> QED
        BY <2>1, <2>2, <2>3, <3>1 DEF DirIn
    <2> QED
      BY <2>1, <2>2, <2>6, <2>7, <2>8
  <1>15. browsed' = browsed /\ raced \subseteq raced' /\ dirHandleList' = dirHandleList
    BY <1>1 DEF handles
  <1>16. \A x \in PointersOf(file') : DirIn(file', browsed', raced', x)
    <2>1. ASSUME NEW x \in PointersOf(file)
          PROVE  DirIn(file', browsed', raced', x)
      <3>1. CASE x # dir
        BY <1>13, <1>15, <3>1, LFacts, DirInStays
      <3>2. CASE x = dir
        BY <1>14, <1>15, <3>2 DEF DirIn
      <3> QED
        BY <3>1, <3>2
    <2> QED
      BY <1>10, <2>1
  <1>17. \A q \in Procs \ {p} : TurnIn(file', raced', call[q])
    <2>1. ASSUME NEW q \in Procs \ {p}
          PROVE  TurnIn(file', raced', call[q])
      <3>1. /\ TurnIn(file, raced, call[q])
            /\ Turns(call[q]) => call[q].dir \in PointersOf(file)
            /\ Hangs(call[q]) => call[q].new \in PointersOf(file)
        BY LFacts
      <3>2. SUFFICES ASSUME Turns(call[q])
                     PROVE  TurnIn(file', raced', call[q])
        BY DEF TurnIn
      <3>3. Hangs(call[q]) => /\ file'[call[q].new].name = file[call[q].new].name
                              /\ file'[call[q].new].next = file[call[q].new].next
        BY <1>9, <3>1
      <3>4. CASE call[q].dir # dir
        <4>1. SameDir(file, file', call[q].dir)
          BY <1>13, <3>1, <3>2, <3>4
        <4> QED
          BY <1>15, <3>1, <3>3, <4>1, TurnInStays
      <3>5. CASE call[q].dir = dir
        <4>1. Hangs(call[q]) => call[q].seen # n
          BY <1>2, <1>7 DEF n
        <4>2. file'[dir].inum = file[dir].inum /\ file'[dir].leaf = n
          BY <1>8
        <4>3. dir \notin raced' =>
                /\ \A j \in DOMAIN EntriesOf(file[dir].inum) : j < call[q].i =>
                      EntriesOf(file[dir].inum)[j].name \in NamesIn(file', dir)
                /\ Hangs(call[q]) =>
                      /\ call[q].i \in DOMAIN EntriesOf(file[dir].inum)
                      /\ file[call[q].new].name = EntriesOf(file[dir].inum)[call[q].i].name
          BY <1>14, <3>1, <3>2, <3>5 DEF TurnIn
        <4> QED
          BY <3>3, <3>5, <4>1, <4>2, <4>3 DEF TurnIn
      <3> QED
        BY <3>4, <3>5
    <2> QED
      BY <2>1
  <1>18. TurnIn(file', raced', e)
    <2>1. ~Hangs(e) /\ file'[dir].inum = file[dir].inum
      BY <1>4, <1>8 DEF Hangs
    <2>2. ASSUME dir \notin raced', NEW j \in DOMAIN EntriesOf(file[dir].inum), j < e.i
          PROVE  EntriesOf(file[dir].inum)[j].name \in NamesIn(file', dir)
      <3>1. j \in Nat /\ c.i \in Nat
        BY <1>2, <2>2, EntriesTyped, LoopFacts
      <3>2. j < c.i \/ j = c.i
        BY <1>4, <2>2, <3>1
      <3> QED
        BY <1>14, <2>2, <3>2
    <2> QED
      BY <1>4, <2>1, <2>2 DEF TurnIn
  <1>19. OpenIn(file, e) /\ Target(e) \in PointersOf(file)
    <2>1. OpenIn(file, c) /\ c.pc \in InLoop /\ e.pc \in InLoop /\ dir \in PointersOf(file)
      BY <1>2, <1>3, <1>4
    <2>2. e.op = c.op /\ e.path = c.path /\ e.rest = c.rest /\ e.start = c.start
      BY <1>4
    <2>3. e.dir = c.dir /\ c.dir = dir
      BY <1>4 DEF dir
    <2> HIDE DEF c
    <2> QED
      BY <2>1, <2>2, <2>3, LoopGoes
  <1>20. \A q \in Procs : \A i \in DOMAIN dirHandleList[q] :
            ListedIn(file', browsed', raced', dirHandleList[q][i])
    <2>1. ASSUME NEW q \in Procs, NEW i \in DOMAIN dirHandleList[q]
          PROVE  ListedIn(file', browsed', raced', dirHandleList[q][i])
      <3> DEFINE hd == dirHandleList[q][i]
      <3>1. ListedIn(file, browsed, raced, hd) /\ hd.dir \in PointersOf(file)
        BY LFacts
      <3> HIDE DEF hd
      <3>2. CASE hd.dir # dir
        <4>1. SameDir(file, file', hd.dir)
          BY <1>13, <3>1, <3>2
        <4> QED
          BY <1>15, <3>1, <4>1, ListedInStays DEF hd
      <3>3. CASE hd.dir = dir
        <4>1. hd.whole /\ dir \notin raced' => dir \in browsed /\ dir \notin browsed
          BY <1>14, <3>1, <3>3 DEF ListedIn
        <4>2. ListedIn(file', browsed', raced', hd)
          BY <3>3, <4>1 DEF ListedIn
        <4> QED
          BY <4>2 DEF hd
      <3> QED
        BY <3>2, <3>3
    <2> QED
      BY <2>1
  <1>21. \A f \in PointersOf(file) : /\ file'[f].inum = file[f].inum
                                     /\ file'[f].parent = file[f].parent
    BY <1>9
  <1>22. \A q \in Procs \ {p} : call'[q] = call[q] /\ TurnIn(file', raced', call[q])
    BY <1>5, <1>17
  <1>23. TurnIn(file', raced', call'[p]) /\ OpenIn(file, call'[p])
         /\ Target(call'[p]) \in PointersOf(file)
    BY <1>5, <1>18, <1>19
  <1> QED
    BY <1>10, <1>11, <1>12, <1>15, <1>16, <1>20, <1>21, <1>22, <1>23, HungShows

-----------------------------------------------------------------------------
(* Calls begin, and handles are given.                                      *)

LEMMA StartShows ==
    ASSUME IInv, IInv', LInv, NEW p \in Procs, NEW kind, NEW d, Begin(p, kind, d),
           UNCHANGED <<tree, handles>>, ~Turns(d), OpenIn(file, d)
    PROVE  LInv'
  <1>1. GoesOn(p)
    BY DEF Begin, Goto, GoesOn
  <1> QED
    BY <1>1, SameTreeMoves

LEMMA SysOpenDirShows ==
    ASSUME IInv, IInv', LInv, NEW p \in Procs, NEW s \in Strings(p), SysOpenDir(p, s)
    PROVE  LInv'
  <1> DEFINE start == StartOf(p, s.now)
             kind == IF s.now = s.wrote THEN "open" ELSE "again"
             d == [NoCall EXCEPT !.pc = "walk", !.op = "open", !.path = s.now,
                                 !.start = start, !.rest = s.now.comps, !.dir = start]
  <1>1. Begin(p, kind, d) /\ UNCHANGED <<tree, handles>>
    BY DEF SysOpenDir
  <1> HIDE DEF kind
  <1>2. /\ currentDirectory \in [Procs -> Nat] /\ currentDirectory[p] \in PointersOf(file)
        /\ TreeIn(file) /\ string[p] \in StringRecord
    BY CallFacts
  <1>3. s.now \in PathRecord
    <2>1. CASE s = string[p]
      BY <1>2, <2>1, Zenon DEF StringRecord
    <2>2. ASSUME NEW path \in Paths[p], s = [wrote |-> path, now |-> path, refused |-> FALSE]
          PROVE  s.now \in PathRecord
      <3>1. path \in PathRecord /\ s.now = path
        BY <2>2, PathsAssumption DEF PathRecord
      <3> QED
        BY <3>1
    <2> QED
      BY <2>1, <2>2 DEF Strings
  <1>4. s.now.comps \in Seq(STRING) /\ Len(s.now.comps) \in Nat
    <2>1. s.now.comps \in Seq(STRING)
      BY <1>3, Zenon DEF PathRecord
    <2> QED
      BY <2>1
  <1>5. start \in PointersOf(file) /\ start \in Nat /\ (s.now.abs => start = Root)
    <2>1. Root \in PointersOf(file)
      BY <1>2 DEF TreeIn
    <2>2. start \in PointersOf(file) /\ (s.now.abs => start = Root)
      BY <1>2, <2>1 DEF StartOf
    <2> QED
      BY <1>2, <2>2, TreeTyped DEF PointersOf
  <1> HIDE DEF start
  <1>6. /\ d.pc = "walk" /\ d.op = "open" /\ d.path = s.now /\ d.start = start
        /\ d.rest = s.now.comps /\ d.dir = start
    <2>1. "walk" \in Pcs /\ "open" \in Ops
      BY DEF Pcs, Ops
    <2> QED
      BY <1>3, <1>4, <1>5, <2>1, NoCallHolds, Zenon DEF CallRecord
  <1> HIDE DEF d
  <1>7. ~Turns(d) /\ Target(d) = start /\ Steps(d) = 0 /\ Gone(d) = 0
    <2>1. Gone(d) = 0
      BY <1>4, <1>6 DEF Gone
    <2> QED
      BY <1>6, <2>1 DEF Turns, Target, Steps, Working
  <1>8. OpenIn(file, d)
    <2>1. ReachedIn(file, d, 0) = PlaceIn(file, start)
      BY <1>4, <1>6, PlacesBehindHold DEF ReachedIn
    <2>2. \A i \in 1..Len(d.rest) : d.rest[i] = d.path.comps[Gone(d) + i]
      <3>1. \A i \in 1..Len(d.rest) : 0 + i = i
        BY <1>4, <1>6
      <3> QED
        BY <1>6, <1>7, <3>1
    <2> QED
      BY <1>5, <1>6, <1>7, <2>1, <2>2 DEF OpenIn
  <1> QED
    BY <1>1, <1>7, <1>8, StartShows

LEMMA SysGetProcDirShows ==
    ASSUME IInv, IInv', LInv, NEW p \in Procs, SysGetProcDir(p)
    PROVE  LInv'
  <1> DEFINE c == [NoCall EXCEPT !.op = "get"]
             f == currentDirectory[p]
             d == Asks(c, f, "dirhandle")
  <1>1. Begin(p, "get", d) /\ UNCHANGED <<tree, handles>>
    BY DEF SysGetProcDir
  <1>2. c \in CallRecord /\ c.op = "get"
    <2>1. "get" \in Ops
      BY DEF Ops
    <2> QED
      BY <2>1, NoCallHolds, Zenon DEF CallRecord
  <1> HIDE DEF c
  <1>3. f \in Nat /\ "dirhandle" \in Thens
    BY CallFacts DEF Thens
  <1>4. SameWork(d, c) /\ d.pc = "isdir"
    BY <1>2, <1>3, AsksHolds
  <1> HIDE DEF d
  <1>5. ~Turns(d) /\ OpenIn(file, d)
    BY <1>2, <1>4 DEF Turns, OpenIn, SameWork
  <1> QED
    BY <1>1, <1>5, StartShows

LEMMA SysSetProcDirShows ==
    ASSUME IInv, IInv', LInv, NEW p \in Procs, NEW h, SysSetProcDir(p, h)
    PROVE  LInv'
  <1> DEFINE dir == dirHandleList[p][GetDirFromHandle(p, h)].dir
             d == [NoCall EXCEPT !.pc = "cache", !.op = "set", !.dir = dir]
  <1>1. Begin(p, "set", d) /\ UNCHANGED <<tree, handles>>
    BY DEF SysSetProcDir
  <1> HIDE DEF dir
  <1>2. d.pc = "cache" /\ d.op = "set"
    BY NoCallHolds, Zenon DEF CallRecord
  <1> HIDE DEF d
  <1>3. ~Turns(d) /\ OpenIn(file, d)
    BY <1>2 DEF Turns, OpenIn
  <1> QED
    BY <1>1, <1>3, StartShows

LEMMA UnknownHandleShows ==
    ASSUME IInv, IInv', LInv, NEW p \in Procs, NEW h, UnknownHandle(p, h)
    PROVE  LInv'
  <1>1. Begin(p, "read", NoCall) /\ UNCHANGED <<tree, handles>>
    BY DEF UnknownHandle
  <1>2. ~Turns(NoCall) /\ OpenIn(file, NoCall)
    BY NoCallHolds DEF Turns, OpenIn
  <1> QED
    BY <1>1, <1>2, StartShows

\* A handle whose cursor moves.
LEMMA MovedShows ==
    ASSUME IInv, LInv, NEW hd \in HandleRecord, hd.dir \in PointersOf(file),
           hd.cursor \in {NULL} \cup PointersOf(file), ListedIn(file, browsed, raced, hd)
    PROVE  ListedIn(file, browsed, raced, Moved(hd))
  <1> DEFINE f == Cursor(hd)
             m == Moved(hd)
             whole == IF hd.cursor = NULL THEN hd.dir \in browsed ELSE hd.whole
             listed == IF f = NULL THEN (IF hd.cursor = NULL THEN <<>> ELSE hd.listed)
                       ELSE IF hd.cursor = NULL THEN <<file[f].name>>
                       ELSE Append(hd.listed, file[f].name)
             L == ListOf(file, hd.dir)
  <1>1. m = [hd EXCEPT !.cursor = f, !.whole = whole, !.listed = listed]
    BY DEF Moved
  <1>2. /\ TreeIn(file) /\ ListsEnd(file)
        /\ IsListIn(file, file[hd.dir].leaf, L) /\ Len(L) \in Nat
        /\ \A i \in 1..Len(L) : L[i] \in PointersOf(file) /\ L[i] # NULL
    <2>1. TreeIn(file) /\ ListsEnd(file)
      BY LFacts
    <2>2. Len(file) \in Nat
      BY <2>1, TreeTyped
    <2> HIDE DEF f, whole, listed, m
    <2> QED
      BY <2>1, <2>2, ListOfHolds DEF PointersOf, NULL
  <1>3. f = IF hd.cursor = NULL THEN file[hd.dir].leaf ELSE file[hd.cursor].next
    BY DEF Cursor
  <1>4. hd.whole /\ hd.dir \notin raced =>
           /\ hd.dir \in browsed
           /\ \E k \in 0..Len(L) :
                 /\ IF hd.cursor = NULL THEN k = Len(L) ELSE k > 0 /\ hd.cursor = L[k]
                 /\ hd.listed = [i \in 1..k |-> file[L[i]].name]
    BY DEF ListedIn
  <1> HIDE DEF f, L
  <1>5. m.dir = hd.dir /\ m.cursor = f /\ m.whole = whole /\ m.listed = listed
    <2> HIDE DEF whole, listed, m
    <2> QED
      BY <1>1, Zenon DEF HandleRecord
  <1> HIDE DEF m
  <1>6. SUFFICES ASSUME m.whole, m.dir \notin raced
                 PROVE  /\ m.dir \in browsed
                        /\ \E k \in 0..Len(L) :
                              /\ IF m.cursor = NULL THEN k = Len(L) ELSE k > 0 /\ m.cursor = L[k]
                              /\ m.listed = [i \in 1..k |-> file[L[i]].name]
    BY <1>5 DEF ListedIn, m, L
  <1>7. CASE hd.cursor = NULL
    <2>1. m.dir \in browsed /\ f = file[hd.dir].leaf
      BY <1>3, <1>5, <1>6, <1>7
    <2>2. CASE f = NULL
      <3>1. Len(L) = 0 /\ m.listed = <<>>
        BY <1>2, <1>5, <1>7, <2>1, <2>2, ListMeans
      <3>2. [i \in 1..0 |-> file[L[i]].name] = <<>> /\ 0 \in 0..Len(L)
        BY <1>2
      <3> QED
        BY <1>5, <2>1, <2>2, <3>1, <3>2
    <2>3. CASE f # NULL
      <3>1. Len(L) # 0 /\ L[1] = f /\ m.listed = <<file[f].name>>
        <4>1. m.listed = <<file[f].name>>
          BY <1>5, <1>7, <2>3
        <4>2. Len(L) # 0
          BY <1>2, <2>1, <2>3, ListMeans
        <4>3. L[1] = f
          BY <1>2, <2>1, <2>3 DEF IsListIn
        <4> QED
          BY <4>1, <4>2, <4>3
      <3>2. [i \in 1..1 |-> file[L[i]].name] = <<file[f].name>> /\ 1 \in 0..Len(L) /\ 1 > 0
        BY <1>2, <3>1
      <3> QED
        BY <1>5, <2>1, <2>3, <3>1, <3>2
    <2> QED
      BY <2>2, <2>3
  <1>8. CASE hd.cursor # NULL
    <2>1. hd.whole /\ hd.dir \notin raced /\ f = file[hd.cursor].next
      BY <1>3, <1>5, <1>6, <1>8
    <2>2. PICK k \in 0..Len(L) : /\ k > 0 /\ hd.cursor = L[k]
                                 /\ hd.listed = [i \in 1..k |-> file[L[i]].name]
      BY <1>4, <1>8, <2>1
    <2>3. k \in 1..Len(L) /\ k \in Nat /\ m.dir \in browsed
      BY <1>2, <1>4, <1>5, <2>1, <2>2
    <2>4. f = IF k < Len(L) THEN L[k + 1] ELSE NULL
      BY <1>2, <2>1, <2>2, <2>3 DEF IsListIn
    <2> HIDE DEF whole, listed
    <2>5. CASE k < Len(L)
      <3>1. k + 1 \in 1..Len(L) /\ k + 1 \in 0..Len(L) /\ k + 1 > 0
        BY <1>2, <2>3, <2>5
      <3>2. f = L[k + 1] /\ f # NULL
        BY <1>2, <2>4, <2>5, <3>1
      <3>3. m.listed = Append(hd.listed, file[f].name)
        BY <1>5, <1>8, <3>2 DEF listed
      <3>4. m.listed = [i \in 1..(k + 1) |-> file[L[i]].name]
        <4> DEFINE S == [i \in 1..k |-> file[L[i]].name]
        <4>1. \A i \in 1..k : file[L[i]].name \in Names
          BY <1>2, <2>3, TreeTyped DEF PointersOf
        <4>2. S \in Seq(Names) /\ Len(S) = k /\ \A i \in 1..k : S[i] = file[L[i]].name
          BY <2>3, <4>1
        <4>3. file[f].name \in Names
          BY <1>2, <3>1, <3>2, TreeTyped DEF PointersOf
        <4>4. m.listed = Append(S, file[f].name)
          BY <2>2, <3>3
        <4> HIDE DEF S
        <4>5. /\ Append(S, file[f].name) \in Seq(Names)
              /\ Len(Append(S, file[f].name)) = k + 1
              /\ \A i \in 1..k : Append(S, file[f].name)[i] = S[i]
              /\ Append(S, file[f].name)[k + 1] = file[f].name
          BY <4>2, <4>3, AppendProperties
        <4>6. /\ m.listed \in Seq(Names) /\ Len(m.listed) = k + 1
              /\ \A i \in 1..(k + 1) : m.listed[i] = file[L[i]].name
          BY <2>3, <3>2, <4>2, <4>4, <4>5
        <4>7. m.listed = [i \in 1..(k + 1) |-> m.listed[i]]
          BY <4>6
        <4> QED
          BY <4>6, <4>7
      <3> QED
        BY <1>5, <2>3, <3>1, <3>2, <3>4
    <2>6. CASE ~(k < Len(L))
      <3>1. k = Len(L) /\ f = NULL
        BY <1>2, <2>3, <2>4, <2>6
      <3>2. m.listed = hd.listed
        BY <1>5, <1>8, <3>1 DEF listed
      <3> QED
        BY <1>5, <2>2, <2>3, <3>1, <3>2
    <2> QED
      BY <2>5, <2>6
  <1> QED
    BY <1>7, <1>8

LEMMA SysReadDirShows ==
    ASSUME IInv, IInv', LInv, NEW p \in Procs, NEW h, SysReadDir(p, h)
    PROVE  LInv'
  <1> DEFINE i == GetDirFromHandle(p, h)
             L == dirHandleList[p]
             f == Cursor(L[i])
             m == Moved(L[i])
             e == [NoCall EXCEPT !.op = "read"]
             d == IF f = NULL THEN NoCall ELSE Asks(e, f, "entry")
             K == [L EXCEPT ![i] = m]
  <1>1. /\ PlacesOf(p, h) # {} /\ Begin(p, "read", d)
        /\ dirHandleList' = [dirHandleList EXCEPT ![p][i] = m]
        /\ UNCHANGED tree
    BY DEF SysReadDir
  <1>2. i \in DOMAIN L /\ i \in 1..Len(L) /\ L \in Seq(HandleRecord)
    BY <1>1, PlaceHolds
  <1>3. /\ L[i] \in HandleRecord /\ L[i].dir \in PointersOf(file)
        /\ L[i].cursor \in {NULL} \cup PointersOf(file)
        /\ \A j \in DOMAIN L : ListedIn(file, browsed, raced, L[j])
    BY <1>2, LFacts, ElementOfSeq
  <1>4. f \in {NULL} \cup PointersOf(file) /\ ListedIn(file, browsed, raced, m)
    BY <1>2, <1>3, MovedHolds, MovedShows
  <1>5. Len(file) \in Nat /\ call \in [Procs -> CallRecord]
        /\ dirHandleList \in [Procs -> Seq(HandleRecord)]
    BY CallFacts, TreeTyped DEF Typed
  <1> HIDE DEF i, f, m
  <1>6. ~Turns(d) /\ OpenIn(file, d)
    <2>1. CASE f = NULL
      BY <2>1, NoCallHolds DEF Turns, OpenIn
    <2>2. CASE f # NULL
      <3>1. e \in CallRecord /\ e.op = "read"
        <4>1. "read" \in Ops
          BY DEF Ops
        <4> QED
          BY <4>1, NoCallHolds, Zenon DEF CallRecord
      <3> HIDE DEF e
      <3>2. d = Asks(e, f, "entry") /\ "entry" \in Thens /\ f \in Nat
        BY <1>4, <1>5, <2>2 DEF Thens, PointersOf
      <3> HIDE DEF d
      <3>3. SameWork(d, e) /\ d.pc = "isdir"
        BY <3>1, <3>2, AsksHolds
      <3> QED
        BY <3>1, <3>3 DEF Turns, OpenIn, SameWork
    <2> QED
      BY <2>1, <2>2
  <1> HIDE DEF d
  <1>7. call'[p] = d /\ \A q \in Procs \ {p} : call'[q] = call[q]
    BY <1>1, <1>5 DEF Begin, Goto
  <1>8. DOMAIN K = DOMAIN L /\ K[i] = m /\ \A j \in DOMAIN L : j # i => K[j] = L[j]
    <2> HIDE DEF L
    <2> QED
      BY <1>2
  <1>9. /\ dirHandleList'[p] = K
        /\ \A q \in Procs \ {p} : dirHandleList'[q] = dirHandleList[q]
    BY <1>1, <1>5
  <1> HIDE DEF K, L
  <1>10. \A j \in DOMAIN dirHandleList'[p] :
            ListedIn(file, browsed, raced, dirHandleList'[p][j])
    <2>1. ASSUME NEW j \in DOMAIN L
          PROVE  ListedIn(file, browsed, raced, K[j])
      <3>1. CASE j = i
        BY <1>4, <1>8, <3>1
      <3>2. CASE j # i
        BY <1>3, <1>8, <3>2
      <3> QED
        BY <3>1, <3>2
    <2> QED
      BY <1>8, <1>9, <2>1
  <1>11. file' = file /\ browsed' = browsed /\ raced' = raced
    BY <1>1 DEF tree
  <1>12. SameShape(file, file')
    BY <1>11 DEF SameShape
  <1>13. ~Hangs(d) /\ TurnIn(file, raced, d)
    BY <1>6 DEF Hangs, Turns, TurnIn
  <1> QED
    BY <1>6, <1>7, <1>9, <1>10, <1>11, <1>12, <1>13, StillShows

LEMMA LoadCountShows ==
    ASSUME IInv, IInv', LInv, NEW p \in Procs, LoadCount(p)
    PROVE  LInv'
  <1> DEFINE c == call[p]
             d == [c EXCEPT !.pc = "store", !.count = s_HandleCount]
  <1>1. /\ c.pc = "create" /\ Goes(p, d) /\ UNCHANGED <<tree, handles>>
    BY DEF LoadCount, At, Goes
  <1>2. c \in CallRecord /\ s_HandleCount \in Nat /\ OpenIn(file, c)
    BY LFacts DEF IInv, Typed
  <1>3. SameWork(d, c) /\ d.pc = "store"
    BY <1>2, StoresHolds, Zenon
  <1> HIDE DEF d, c
  <1>4. Target(d) = Target(c) /\ Steps(d) = Steps(c) /\ ~Turns(d)
    <2>1. ~Down(d) /\ ~Down(c) /\ d.pc \notin Working /\ c.pc \notin Working
      BY <1>1, <1>3 DEF Down, Working
    <2>2. Target(d) = Target(c)
      BY <1>3, <2>1 DEF Target, SameWork
    <2>3. Steps(d) = Steps(c)
      BY <1>1, <1>3, <2>1 DEF Steps, SameWork
    <2> QED
      BY <1>3, <2>2, <2>3 DEF Turns
  <1>5. OpenIn(file, d)
    BY <1>2, <1>3, <1>4, OpenGoes DEF SameWork
  <1>6. GoesOn(p)
    BY <1>1, <1>4, <1>5, GoesLeads
  <1> QED
    BY <1>1, <1>6, SameTreeMoves

LEMMA StoreCountShows ==
    ASSUME IInv, IInv', LInv, NEW p \in Procs, StoreCount(p)
    PROVE  LInv'
  <1> DEFINE c == call[p]
             L == dirHandleList[p]
             hd == [handle |-> c.count, dir |-> c.dir, cursor |-> NULL,
                    listed |-> <<>>, whole |-> FALSE]
             K == IF c.op = "readfile" THEN L ELSE Append(L, hd)
  <1>1. /\ call' = [call EXCEPT ![p] = NoCall] /\ UNCHANGED tree
        /\ dirHandleList' = IF c.op = "readfile" THEN dirHandleList
                            ELSE [dirHandleList EXCEPT ![p] = Append(L, hd)]
    BY DEF StoreCount, Return, Goto
  <1>2. /\ dirHandleList \in [Procs -> Seq(HandleRecord)] /\ L \in Seq(HandleRecord)
        /\ call \in [Procs -> CallRecord]
        /\ \A j \in DOMAIN L : ListedIn(file, browsed, raced, L[j])
    BY LFacts, CallFacts DEF Typed
  <1>3. hd.whole = FALSE /\ hd \in HandleRecord
    <2>1. c.count \in Nat /\ c.dir \in Nat
      BY CallFacts, Zenon DEF CallRecord
    <2>2. NULL \in Nat /\ <<>> \in Seq(Names)
      BY DEF NULL
    <2> QED
      BY <2>1, <2>2 DEF HandleRecord
  <1> HIDE DEF hd, c
  <1>4. /\ call'[p] = NoCall /\ \A q \in Procs \ {p} : call'[q] = call[q]
        /\ ~Hangs(NoCall) /\ TurnIn(file, raced, NoCall) /\ OpenIn(file, NoCall)
    BY <1>1, <1>2, NoCallHolds DEF Hangs, Turns, TurnIn, OpenIn
  <1>5. /\ dirHandleList'[p] = K
        /\ \A q \in Procs \ {p} : dirHandleList'[q] = dirHandleList[q]
    BY <1>1, <1>2
  <1>6. \A j \in DOMAIN K : (j \in DOMAIN L /\ K[j] = L[j]) \/ K[j] = hd
    <2>1. CASE c.op = "readfile"
      BY <2>1
    <2>2. CASE c.op # "readfile"
      <3>1. K = Append(L, hd)
        BY <2>2
      <3>2. /\ K \in Seq(HandleRecord)
            /\ Len(K) = Len(L) + 1 /\ K[Len(L) + 1] = hd /\ Len(L) \in Nat
            /\ \A j \in 1..Len(L) : K[j] = L[j]
        BY <1>2, <1>3, <3>1, AppendProperties, LenProperties
      <3>3. DOMAIN K = 1..(Len(L) + 1) /\ DOMAIN L = 1..Len(L)
        BY <1>2, <3>2, LenProperties
      <3> QED
        BY <3>2, <3>3
    <2> QED
      BY <2>1, <2>2
  <1> HIDE DEF K
  <1>7. \A j \in DOMAIN dirHandleList'[p] :
           ListedIn(file, browsed, raced, dirHandleList'[p][j])
    <2>1. ListedIn(file, browsed, raced, hd)
      BY <1>3 DEF ListedIn
    <2> QED
      BY <1>2, <1>5, <1>6, <2>1
  <1>8. file' = file /\ browsed' = browsed /\ raced' = raced
    BY <1>1 DEF tree
  <1>9. SameShape(file, file')
    BY <1>8 DEF SameShape
  <1> QED
    BY <1>4, <1>5, <1>7, <1>8, <1>9, StillShows

-----------------------------------------------------------------------------
(* The second invariant.                                                   *)

LEMMA InitShows ==
    ASSUME Init
    PROVE  LInv
  <1> DEFINE E == Entries[RootInode]
             n == Len(E)
             F == file
             L == [k \in 1..n |-> (n + 2) - k]
  <1>1. /\ n \in Nat \ {0} /\ Len(F) = n + 1 /\ EntriesOf(RootInode) = E
        /\ F[1].inum = RootInode /\ F[1].leaf = n + 1 /\ F[1].next = NULL /\ F[1].parent = Root
        /\ \A f \in 2..(n + 1) :
              /\ f - 1 \in 1..n
              /\ F[f].name = E[f - 1].name
              /\ F[f].leaf = NULL
              /\ F[f].next = IF f - 1 = 1 THEN NULL ELSE f - 1
    BY InitFile
  <1>2. /\ dirHandleList = [p \in Procs |-> <<>>]
        /\ call = [p \in Procs |-> NoCall]
        /\ browsed = {Root} /\ raced = {}
    BY DEF Init
  <1>3. TreeIn(F) /\ Pointers = PointersOf(F)
    BY InitHolds DEF IInv, Pointers, PointersOf
  <1>4. /\ \A i, j \in 1..n : E[i].name = E[j].name => i = j
        /\ DiskEntries(RootInode) = {E[i] : i \in 1..n}
    <2>1. DOMAIN E = 1..n
      BY <1>1, EntriesTyped
    <2>2. DiskEntries(RootInode) = {E[i] : i \in 1..n}
      BY <1>1, EntriesTyped
    <2> QED
      BY <2>1, <2>2, EntriesAssumption
  <1>5. PointersOf(F) = 1..(n + 1) /\ Root = 1 /\ NULL = 0 /\ n \in Nat
    BY <1>1 DEF PointersOf, Root, NULL
  <1> HIDE DEF F, n, E
  <1>6. RootIn(F)
    BY <1>1, <1>5 DEF RootIn
  \* The list that begins with f goes down to the second file.
  <1>7. ASSUME NEW f \in 2..(n + 1)
        PROVE  IsListIn(F, f, [k \in 1..(f - 1) |-> (f + 1) - k])
    <2> DEFINE m == f - 1
               M == [k \in 1..m |-> (m + 2) - k]
    <2>1. m \in Nat /\ m \in 1..n /\ f = m + 1
      BY <1>5
    <2> HIDE DEF m
    <2>2. \A k \in 1..m : (m + 2) - k \in 2..(n + 1) /\ (m + 2) - k \in 1..(n + 1)
      BY <1>5, <2>1
    <2>3. M \in Seq(PointersOf(F)) /\ Len(M) = m /\ \A k \in 1..m : M[k] = (m + 2) - k
      BY <1>5, <2>1, <2>2
    <2> HIDE DEF M
    <2>4. M # <<>> /\ M[1] = f /\ f # NULL
      <3>1. 1 \in 1..m /\ (m + 2) - 1 = f
        BY <2>1
      <3> QED
        BY <1>5, <2>1, <2>3, <3>1, EmptySeq
    <2>5. ASSUME NEW k \in 1..m
          PROVE  F[M[k]].next = IF k < m THEN M[k + 1] ELSE NULL
      <3>1. M[k] \in 2..(n + 1) /\ M[k] = (m + 2) - k
        BY <2>2, <2>3
      <3>2. F[M[k]].next = IF M[k] - 1 = 1 THEN NULL ELSE M[k] - 1
        BY <1>1, <3>1
      <3>3. (M[k] - 1 = 1 <=> k = m) /\ M[k] - 1 = (m + 2) - (k + 1)
        BY <2>1, <3>1
      <3>4. k < m => k + 1 \in 1..m
        BY <2>1
      <3>5. k < m => M[k + 1] = (m + 2) - (k + 1)
        BY <2>3, <3>4
      <3>6. k < m \/ k = m
        BY <2>1
      <3> QED
        BY <2>1, <3>2, <3>3, <3>5, <3>6
    <2>6. \A i, j \in 1..m : M[i] = M[j] => i = j
      BY <2>1, <2>3
    <2>7. IsListIn(F, f, M)
      BY <2>3, <2>4, <2>5, <2>6 DEF IsListIn
    <2>8. M = [k \in 1..(f - 1) |-> (f + 1) - k]
      <3>1. f - 1 = m /\ \A k \in 1..m : (f + 1) - k = (m + 2) - k
        BY <2>1
      <3> QED
        BY <3>1 DEF M
    <2> QED
      BY <2>7, <2>8
  <1>8. IsListIn(F, NULL, <<>>)
    BY DEF IsListIn
  <1>9. IsListIn(F, 1, <<1>>)
    <2> DEFINE M == <<1>>
    <2>1. M \in Seq(PointersOf(F)) /\ Len(M) = 1 /\ M[1] = 1 /\ M # <<>>
      BY <1>5
    <2> HIDE DEF M
    <2>2. F[M[1]].next = NULL /\ 1 # NULL
      BY <1>1, <1>5, <2>1
    <2>3. \A i \in 1..Len(M) : i = 1 /\ ~(i < Len(M))
      BY <2>1
    <2>4. IsListIn(F, 1, M)
      BY <2>1, <2>2, <2>3 DEF IsListIn
    <2> QED
      BY <2>4 DEF M
  <1>10. ListsEnd(F)
    <2>1. ASSUME NEW f \in {NULL} \cup PointersOf(F)
          PROVE  \E M : IsListIn(F, f, M)
      <3>1. f = NULL \/ f = 1 \/ f \in 2..(n + 1)
        BY <1>5
      <3> QED
        BY <1>7, <1>8, <1>9, <3>1
    <2>2. \A f \in {NULL} \cup PointersOf(F) : IsListIn(F, f, ListFrom(F, f))
      BY <2>1 DEF ListFrom
    <2> QED
      BY <2>2 DEF ListsEnd
  <1>11. ListOf(F, 1) = L /\ Len(L) = n /\ \A k \in 1..n : L[k] = (n + 2) - k
    <2>1. n + 1 \in 2..(n + 1) /\ (n + 1) - 1 = n
          /\ \A k \in 1..n : ((n + 1) + 1) - k = (n + 2) - k
      BY <1>1
    <2>2. IsListIn(F, n + 1, [k \in 1..((n + 1) - 1) |-> ((n + 1) + 1) - k])
      BY <1>7, <2>1
    <2>3. IsListIn(F, n + 1, L)
      BY <2>1, <2>2
    <2>4. ListFrom(F, n + 1) = L
      <3> HIDE DEF L
      <3> QED
        BY <1>3, <2>3, ListIs
    <2>5. Len(L) = n
      BY <1>5
    <2> QED
      BY <1>1, <2>4, <2>5 DEF ListOf
  <1> HIDE DEF L
  <1>12. \A k \in 1..n : /\ (n + 2) - k \in 2..(n + 1) /\ (n + 1) - k \in 1..n
                         /\ F[L[k]].name = E[(n + 1) - k].name
    <2>1. ASSUME NEW k \in 1..n
          PROVE  /\ (n + 2) - k \in 2..(n + 1) /\ (n + 1) - k \in 1..n
                 /\ ((n + 2) - k) - 1 = (n + 1) - k
      BY <1>5
    <2> QED
      BY <1>1, <1>11, <2>1
  <1>13. ASSUME NEW d \in PointersOf(F)
         PROVE  DirIn(F, browsed, raced, d)
    <2>1. CASE d = 1
      <3>1. \A i, j \in 1..n : F[L[i]].name = F[L[j]].name => i = j
        <4>1. \A i, j \in 1..n : F[L[i]].name = F[L[j]].name => (n + 1) - i = (n + 1) - j
          BY <1>4, <1>12
        <4> QED
          BY <1>5, <4>1
      <3>2. ASSUME NEW e \in DiskEntries(RootInode)
            PROVE  e.name \in NamesIn(F, 1)
        <4>1. PICK j \in 1..n : e = E[j]
          BY <1>4
        <4>2. (n + 1) - j \in 1..n /\ (n + 1) - ((n + 1) - j) = j
          BY <1>5
        <4>3. F[L[(n + 1) - j]].name = e.name
          BY <1>12, <4>1, <4>2
        <4> QED
          BY <1>11, <4>2, <4>3 DEF NamesIn
      <3> QED
        BY <1>1, <1>11, <2>1, <3>1, <3>2 DEF DirIn
    <2>2. CASE d # 1
      <3>1. d \in 2..(n + 1)
        BY <1>5, <2>2
      <3>2. F[d].leaf = NULL /\ d \notin browsed
        BY <1>1, <1>2, <1>5, <2>2, <3>1
      <3>3. ListOf(F, d) = <<>>
        BY <1>3, <1>8, <3>2, ListIs DEF ListOf
      <3> QED
        BY <3>2, <3>3 DEF DirIn
    <2> QED
      BY <2>1, <2>2
  <1>14. ASSUME NEW p \in Procs
         PROVE  /\ TurnIn(F, raced, call[p]) /\ OpenIn(F, call[p]) /\ ~Hangs(call[p])
                /\ \A i \in DOMAIN dirHandleList[p] :
                      ListedIn(F, browsed, raced, dirHandleList[p][i])
    <2>1. call[p] = NoCall /\ dirHandleList[p] = <<>>
      BY <1>2
    <2> QED
      BY <2>1, NoCallHolds DEF TurnIn, OpenIn, Hangs, Turns
  <1>15. NewsAreApart
    BY <1>14 DEF NewsAreApart, IsApart
  <1> QED
    BY <1>3, <1>6, <1>10, <1>13, <1>14, <1>15 DEF LInv, F

LEMMA NextShows ==
    ASSUME IInv, IInv', LInv, [Next]_vars
    PROVE  LInv'
  <1>1. CASE UNCHANGED vars
    BY <1>1 DEF vars, LInv, NewsAreApart, Pointers
  <1>2. CASE Next
    <2>1. PICK p \in Procs : Starts(p) \/ Walks(p) \/ Opening(p) \/ Browses(p) \/ Makes(p)
      BY <1>2 DEF Next
    <2>2. CASE Starts(p)
      BY <2>2, SysOpenDirShows, SysGetProcDirShows, SysReadDirShows, UnknownHandleShows,
         SysSetProcDirShows DEF Starts
    <2>3. CASE Walks(p)
      BY <2>3, WalkEndShows, WalkDotsShows, WalkLastShows, WalkDownShows DEF Walks
    <2>4. CASE Opening(p)
      <3>1. DiskOutcomes \subseteq BOOLEAN
        BY DiskAssumption
      <3> QED
        BY <2>4, <3>1, TestInodeShows, ClearInodeShows, ReadInodeShows, ReadContentShows,
           ReadModeShows DEF Opening
    <2>5. CASE Browses(p)
      BY <2>5, BrowseStartShows, BrowseSizeShows, BrowseCheckShows, BrowseNextShows,
         BrowseLeafShows, BrowseEndShows DEF Browses
    <2>6. CASE Makes(p)
      BY <2>6, LoadCountShows, StoreCountShows DEF Makes
    <2> QED
      BY <2>1, <2>2, <2>3, <2>4, <2>5, <2>6
  <1> QED
    BY <1>1, <1>2

\* The second invariant holds in every state, too.
THEOREM ListsInvariance == Spec => [](IInv /\ LInv)
  <1>1. Init => IInv /\ LInv
    BY InitHolds, InitShows
  <1>2. (IInv /\ LInv) /\ [Next]_vars => (IInv /\ LInv)'
    BY NextKeeps, NextShows
  <1> QED
    BY <1>1, <1>2, PTL DEF Spec

-----------------------------------------------------------------------------
(* What it says of the directories.                                        *)

\* The list of a directory that was browsed, and not by two calls at once,
\* holds what the directory has.
LEMMA WholeList ==
    ASSUME IInv, LInv, NEW d \in PointersOf(file), d \in browsed \ raced
    PROVE  LET entries == EntriesOf(file[d].inum)
           IN  /\ Len(ListOf(file, d)) = Len(entries)
               /\ NamesIn(file, d) = {e.name : e \in DiskEntries(file[d].inum)}
  <1> DEFINE L == ListOf(file, d)
             m == Len(L)
             entries == EntriesOf(file[d].inum)
             n == Len(entries)
             found == [i \in 1..m |-> CHOOSE j \in 1..n : entries[j].name = file[L[i]].name]
             place == [j \in 1..n |-> CHOOSE i \in 1..m : file[L[i]].name = entries[j].name]
  <1>1. /\ TreeIn(file) /\ ListsEnd(file) /\ DirIn(file, browsed, raced, d)
        /\ m \in Nat
        /\ \A i \in 1..m : L[i] \in PointersOf(file) /\ L[i] # Root /\ file[L[i]].parent = d
    BY LFacts, ListOfHolds
  <1>2. /\ n \in Nat
        /\ DiskEntries(file[d].inum) = {entries[j] : j \in 1..n}
    BY EntriesTyped
  <1>3. \A i, j \in 1..m : file[L[i]].name = file[L[j]].name => i = j
    BY <1>1 DEF DirIn
  <1>4. \A i, j \in 1..n : entries[i].name = entries[j].name => i = j
    <2>1. CASE IsDir(file[d].inum)
      <3>1. entries = Entries[file[d].inum] /\ file[d].inum \in DOMAIN Entries
        BY <2>1 DEF EntriesOf, IsDir
      <3>2. DOMAIN entries = 1..n
        BY EntriesTyped
      <3> QED
        BY <3>1, <3>2, EntriesAssumption
    <2>2. CASE ~IsDir(file[d].inum)
      <3>1. n = 0
        BY <2>2 DEF EntriesOf
      <3> QED
        BY <3>1
    <2> QED
      BY <2>1, <2>2
  <1>5. \A j \in 1..n : \E i \in 1..m : file[L[i]].name = entries[j].name
    <2>1. ASSUME NEW j \in 1..n
          PROVE  \E i \in 1..m : file[L[i]].name = entries[j].name
      <3>1. entries[j] \in DiskEntries(file[d].inum)
        BY <1>2
      <3>2. entries[j].name \in NamesIn(file, d)
        BY <1>1, <3>1 DEF DirIn
      <3> QED
        BY <3>2 DEF NamesIn
    <2> QED
      BY <2>1
  <1>6. \A i \in 1..m : \E j \in 1..n : entries[j].name = file[L[i]].name
    <2>1. ASSUME NEW i \in 1..m
          PROVE  \E j \in 1..n : entries[j].name = file[L[i]].name
      <3> DEFINE e == [name |-> file[L[i]].name, inum |-> file[L[i]].inum]
      <3>1. e \in DiskEntries(file[d].inum)
        BY <1>1 DEF TreeIn
      <3>2. e.name = file[L[i]].name
        OBVIOUS
      <3> HIDE DEF e, L, entries
      <3> QED
        BY <1>2, <3>1, <3>2
    <2> QED
      BY <2>1
  <1>7. NamesIn(file, d) = {file[L[i]].name : i \in 1..m}
    BY DEF NamesIn
  <1> HIDE DEF L, m, entries, n
  <1>8. m <= n
    <2>1. \A i \in 1..m : found[i] \in 1..n /\ entries[found[i]].name = file[L[i]].name
      BY <1>6
    <2>2. found \in [1..m -> 1..n]
      BY <2>1
    <2> HIDE DEF found
    <2>3. \A i, j \in 1..m : found[i] = found[j] => i = j
      BY <1>3, <2>1
    <2> QED
      BY <1>1, <1>2, <2>2, <2>3, OneToOne
  <1>9. n <= m
    <2>1. \A j \in 1..n : place[j] \in 1..m /\ file[L[place[j]]].name = entries[j].name
      BY <1>5
    <2>2. place \in [1..n -> 1..m]
      BY <2>1
    <2> HIDE DEF place
    <2>3. \A i, j \in 1..n : place[i] = place[j] => i = j
      BY <1>4, <2>1
    <2> QED
      BY <1>1, <1>2, <2>2, <2>3, OneToOne
  <1>10. NamesIn(file, d) = {e.name : e \in DiskEntries(file[d].inum)}
    <2>1. \A e \in DiskEntries(file[d].inum) : e.name \in NamesIn(file, d)
      BY <1>2, <1>5, <1>7
    <2>2. \A i \in 1..m : \E e \in DiskEntries(file[d].inum) : e.name = file[L[i]].name
      BY <1>2, <1>6
    <2> QED
      BY <1>7, <2>1, <2>2
  <1> QED
    BY <1>1, <1>2, <1>8, <1>9, <1>10 DEF L, m, entries, n

\* A directory that was browsed, and whose list no two calls changed at
\* once, holds every entry of the disk exactly once; and no list is ever tied
\* into a loop (BrowseAndCacheDirectory).
THEOREM BrowsedAreComplete == Spec => []BrowsedIsComplete
  <1>1. IInv /\ LInv => BrowsedIsComplete
    <2> SUFFICES ASSUME IInv, LInv, NEW d \in Pointers
                 PROVE  LET chain == Chain(d)
                        IN  /\ \A i, j \in DOMAIN chain : chain[i] = chain[j] => i = j
                            /\ d \in browsed \ raced =>
                                  /\ Len(chain) = Len(EntriesOf(file[d].inum))
                                  /\ \A e \in DiskEntries(file[d].inum) :
                                        IsCached(d, e.name) # NULL
      BY DEF BrowsedIsComplete
    <2> DEFINE chain == Chain(d)
    <2>1. TreeIn(file) /\ ListsEnd(file) /\ d \in PointersOf(file)
      BY LFacts
    <2>2. chain = ListOf(file, d) /\ IsListIn(file, file[d].leaf, chain)
      BY <2>1, ChainIs
    <2> HIDE DEF chain
    <2>3. DOMAIN chain = 1..Len(chain)
      BY <2>2 DEF IsListIn
    <2>4. \A i, j \in DOMAIN chain : chain[i] = chain[j] => i = j
      BY <2>2, <2>3 DEF IsListIn
    <2>5. ASSUME d \in browsed \ raced
          PROVE  /\ Len(chain) = Len(EntriesOf(file[d].inum))
                 /\ \A e \in DiskEntries(file[d].inum) : IsCached(d, e.name) # NULL
      <3>1. /\ Len(chain) = Len(EntriesOf(file[d].inum))
            /\ NamesIn(file, d) = {e.name : e \in DiskEntries(file[d].inum)}
        BY <2>1, <2>2, <2>5, WholeList
      <3>2. \A name : IsCached(d, name) # NULL <=> name \in NamesIn(file, d)
        BY <2>1, CachedIs
      <3> QED
        BY <3>1, <3>2
    <2> QED
      BY <2>4, <2>5 DEF chain
  <1> QED
    BY <1>1, ListsInvariance, PTL

\* Reading a directory that was browsed first, and that no two calls changed
\* at once, gives no name twice, and has given all of them when SysReadDir
\* says that there are no more.
THEOREM ListingsAreExact == Spec => []ListingIsExact
  <1>1. IInv /\ LInv => ListingIsExact
    <2> SUFFICES ASSUME IInv, LInv, NEW p \in Procs, NEW i \in DOMAIN dirHandleList[p],
                        dirHandleList[p][i].whole, dirHandleList[p][i].dir \notin raced
                 PROVE  LET hd == dirHandleList[p][i]
                            entries == DiskEntries(file[hd.dir].inum)
                        IN  /\ \A j, k \in DOMAIN hd.listed :
                                  hd.listed[j] = hd.listed[k] => j = k
                            /\ hd.cursor = NULL => {hd.listed[j] : j \in DOMAIN hd.listed}
                                                      = {e.name : e \in entries}
      BY DEF ListingIsExact
    <2> DEFINE hd == dirHandleList[p][i]
               L == ListOf(file, hd.dir)
    <2>1. /\ TreeIn(file) /\ ListsEnd(file) /\ hd.dir \in PointersOf(file)
          /\ ListedIn(file, browsed, raced, hd) /\ DirIn(file, browsed, raced, hd.dir)
      BY LFacts
    <2>2. hd.whole /\ hd.dir \notin raced
      OBVIOUS
    <2> HIDE DEF hd
    <2>3. /\ hd.dir \in browsed
          /\ \E k \in 0..Len(L) :
                /\ IF hd.cursor = NULL THEN k = Len(L) ELSE k > 0 /\ hd.cursor = L[k]
                /\ hd.listed = [j \in 1..k |-> file[L[j]].name]
      BY <2>1, <2>2 DEF ListedIn
    <2>4. PICK k \in 0..Len(L) :
                /\ IF hd.cursor = NULL THEN k = Len(L) ELSE k > 0 /\ hd.cursor = L[k]
                /\ hd.listed = [j \in 1..k |-> file[L[j]].name]
      BY <2>3
    <2>5. \A x, y \in 1..Len(L) : file[L[x]].name = file[L[y]].name => x = y
      BY <2>1, <2>2 DEF DirIn
    <2>6. NamesIn(file, hd.dir) = {e.name : e \in DiskEntries(file[hd.dir].inum)}
      BY <2>1, <2>2, <2>3, WholeList
    <2>7. NamesIn(file, hd.dir) = {file[L[j]].name : j \in 1..Len(L)}
      BY DEF NamesIn
    <2>8. Len(L) \in Nat
      BY <2>1, ListOfHolds
    <2> HIDE DEF L
    <2>9. /\ DOMAIN hd.listed = 1..k /\ \A j \in 1..k : hd.listed[j] = file[L[j]].name
          /\ \A j \in 1..k : j \in 1..Len(L)
      BY <2>4, <2>8
    <2>10. \A x, y \in DOMAIN hd.listed : hd.listed[x] = hd.listed[y] => x = y
      BY <2>5, <2>9
    <2>11. ASSUME hd.cursor = NULL
           PROVE  {hd.listed[j] : j \in DOMAIN hd.listed}
                     = {e.name : e \in DiskEntries(file[hd.dir].inum)}
      <3>1. k = Len(L)
        BY <2>4, <2>11
      <3>2. {hd.listed[j] : j \in DOMAIN hd.listed} = {file[L[j]].name : j \in 1..Len(L)}
        BY <2>9, <3>1
      <3> QED
        BY <2>6, <2>7, <3>2
    <2> QED
      BY <2>10, <2>11 DEF hd
  <1> QED
    BY <1>1, ListsInvariance, PTL

\* SysOpenDir opens the directory that its path names on the disk, whatever
\* other processes browse meanwhile; and what it does not find, in a directory
\* that was browsed and not changed by two calls at once, makes a path that
\* the disk does not have either (OpenFileFromName).
THEOREM OpenedAreResolved == Spec => []OpenedIsResolved
  <1>1. IInv /\ LInv => OpenedIsResolved
    <2> SUFFICES ASSUME IInv, LInv, NEW p \in Procs
                 PROVE  LET c == call[p]
                            meant == Resolve(PlaceOf(c.start), c.path.comps)
                        IN  /\ (c.op = "open" /\ c.pc \in {"create", "store"}) =>
                                  PlaceOf(c.dir) = meant
                            /\ (/\ c.pc = "walk" /\ c.rest # <<>>
                                /\ Head(c.rest) \notin {".", ".."}
                                /\ IsCached(c.dir, Head(c.rest)) = NULL
                                /\ c.dir \in browsed \ raced) => meant = Nowhere
      BY DEF OpenedIsResolved
    <2> DEFINE c == call[p]
               meant == Resolve(PlaceOf(c.start), c.path.comps)
    <2>1. \A f : PlaceOf(f) = PlaceIn(file, f)
      BY DEF PlaceOf, PlaceIn
    <2>2. OpenIn(file, c)
      BY LFacts
    <2>3. ASSUME c.op = "open", c.pc \in {"create", "store"}
          PROVE  PlaceOf(c.dir) = meant
      <3>1. Target(c) = c.dir /\ Steps(c) = Len(c.path.comps)
        BY <2>3 DEF Target, Steps, Working, Down
      <3>2. PlaceIn(file, c.dir) = ReachedIn(file, c, Len(c.path.comps))
        BY <2>2, <2>3, <3>1 DEF OpenIn
      <3> QED
        BY <2>1, <3>2 DEF ReachedIn, Resolve
    <2>4. ASSUME c.pc = "walk", c.rest # <<>>, Head(c.rest) \notin {".", ".."},
                 IsCached(c.dir, Head(c.rest)) = NULL, c.dir \in browsed \ raced
          PROVE  meant = Nowhere
      <3> DEFINE name == Head(c.rest)
                 k == Gone(c) + 1
      <3>1. /\ c.dir \in PointersOf(file) /\ c.path.comps \in Seq(STRING)
            /\ k \in 1..Len(c.path.comps)
            /\ ReachedIn(file, c, k) = Behind(PlaceIn(file, c.dir), name)
            /\ Len(c.path.comps) \in Nat
        BY <2>4, WalkFacts
      <3>2. /\ TreeIn(file) /\ RootIn(file) /\ ListsEnd(file) /\ Pointers = PointersOf(file)
            /\ DirIn(file, browsed, raced, c.dir)
        BY <3>1, LFacts
      <3> HIDE DEF k, name
      <3>3. name \notin NamesIn(file, c.dir)
        BY <2>4, <3>1, <3>2, CachedIs DEF name
      <3>4. \A e \in DiskEntries(file[c.dir].inum) : e.name # name
        BY <2>4, <3>2, <3>3 DEF DirIn
      <3>5. Behind(PlaceIn(file, c.dir), name) = Nowhere
        BY <2>4, <3>1, <3>2, <3>4, NothingBelow DEF name
      <3>6. PlacesBehind(PlaceIn(file, c.start), c.path.comps)[k] = Nowhere
        BY <3>1, <3>5 DEF ReachedIn
      <3>7. k \in 0..Len(c.path.comps)
        BY <3>1
      <3> QED
        BY <2>1, <3>1, <3>6, <3>7, NowhereStays
    <2> QED
      BY <2>3, <2>4
  <1> QED
    BY <1>1, ListsInvariance, PTL
=============================================================================
