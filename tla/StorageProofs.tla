--------------------------- MODULE StorageProofs ----------------------------
(***************************************************************************)
(* Proofs about Storage, for every size of sectors, blocks and inodes, all *)
(* files and any number of readers.                                        *)
(***************************************************************************)
EXTENDS Storage, TLAPS, SequenceTheorems

Pcs == {"idle", "command", "answer", "copy", "got", "loop", "failed", "refused", "done"}

\* The blocks of the kernel heap that calls hold.
Held == {"disk", "superBlock", "groupDesc", "inode", "fileContent",
         "block", "singlyBlock", "doublyBlock", "buffer"}

CallRecords ==
    [pc : Pcs, inode : Nat, phase : Phases, i : Nat, j : Nat, left : Nat, wrong : BOOLEAN,
     content : Seq(Nat), single : Seq(Nat), double : Seq(Nat), held : SUBSET Held,
     offset : Nat, size : Nat, k : Nat, buf : Seq(Nat),
     errors : 0..(MaxErrors + 1), streak : 0..(MaxErrors + 1)]

Typed ==
    /\ lba \in Nat
    /\ masked \in Readers \cup {NOBODY}
    /\ \A g \in DOMAIN disk : disk[g] \in Nat
    /\ call \in [Readers -> CallRecords]
    /\ calls \in [Readers -> Nat]

-----------------------------------------------------------------------------
(* What is true of a call by where it is.                                  *)

Commanding == {"command", "answer"}
Masking == {"command", "answer", "copy", "failed"}
Fetching == {"command", "answer", "copy", "got"}

\* AtaRead has collected the sectors of its range up to k, and counted the
\* errors in a row of the next one.
ReadIn(c) ==
    /\ c.pc \in {"command", "answer", "copy"} =>
          c.buf = Bytes((c.offset \div SectorSize) * SectorSize, c.k * SectorSize)
    /\ c.pc \in Commanding => /\ c.k < NbBlocks(c.offset, c.size)
                              /\ c.errors <= MaxErrors /\ c.streak = c.errors
    /\ c.pc = "copy" => c.k = NbBlocks(c.offset, c.size)
    /\ c.pc = "got" => c.buf = Bytes(c.offset, c.size)
    /\ c.pc = "failed" => c.streak = MaxErrors + 1

\* What the boot code asks for and holds.
BootIn(c) ==
    /\ c.pc # "idle" => c.phase \in {"super", "groups"}
    /\ c.pc \notin {"loop", "refused"}
    /\ c.pc = "done" => c.phase = "groups"
    /\ (c.pc \in Fetching /\ c.phase = "groups") =>
          c.offset = GroupTable /\ c.size = Groups * DescSize
    /\ c.pc # "idle" =>
          c.held = {"disk", "superBlock"}
                   \cup (IF c.phase = "groups" THEN {"groupDesc"} ELSE {})
                   \cup (IF c.pc \in Masking THEN {"buffer"} ELSE {})
    /\ c.pc = "idle" => c.held \in {{}, {"buffer"}, {"disk", "superBlock", "groupDesc"}}

\* What the other readers hold.
HeldIn(c) ==
    LET buffer == IF c.pc \in Masking THEN {"buffer"} ELSE {}
    IN  IF c.pc = "idle"
        THEN c.held \in {{}, {"inode", "fileContent"}, {"inode"}, {"buffer"}, {"buffer", "inode"}}
        ELSE IF c.phase = "inode" \/ c.pc = "refused" THEN c.held = {"inode"} \cup buffer
        ELSE /\ {"inode", "fileContent"} \cup buffer \subseteq c.held
             /\ c.held \subseteq {"inode", "fileContent", "block", "singlyBlock", "doublyBlock"}
                                 \cup buffer

\* The block that a phase of Ext2ReadFile reads.
BlockIn(c) ==
    CASE c.phase = "direct" -> Inode[c.inode].direct[c.i + 1]
      [] c.phase = "singleTable" -> Inode[c.inode].single
      [] c.phase = "single" -> Pointer(c.single, c.i)
      [] c.phase = "doubleTable" -> Inode[c.inode].double
      [] c.phase = "innerTable" -> Pointer(c.single, c.i)
      [] c.phase = "inner" -> Pointer(c.double, c.i)

FilePhases == {"direct", "singleTable", "single", "doubleTable", "double", "innerTable", "inner"}
LoopPhases == {"direct", "single", "double", "inner"}

PhaseIn(c) ==
    /\ c.inode \in DOMAIN Inode
    /\ c.phase \in FilePhases \cup {"inode"}
    /\ c.phase = "inode" => c.pc \in Masking \cup Fetching /\ c.content = <<>> /\ c.i = 0
    /\ c.pc = "loop" => c.phase \in LoopPhases
    /\ c.pc = "refused" => c.phase = "direct" /\ Refused(Inode[c.inode].size)
    /\ c.pc = "done" => c.phase = "double" /\ Wanted(c) = 0
    /\ (c.pc \in Fetching /\ c.phase = "inode") =>
          c.offset = InodeOffset(c.inode) /\ c.size = InodeSize
    /\ c.phase # "double" \/ c.pc \notin Fetching
    /\ (c.pc \in Fetching /\ c.phase \in {"direct", "single", "inner"}) => Wanted(c) # 0
    /\ (c.pc \in Fetching /\ c.phase \in FilePhases) =>
          c.offset = BlockIn(c) * BlockSize /\ c.size = BlockSize

\* How many blocks of the file are read, by the place in the loops.
BlocksRead(c) ==
    IF c.phase = "direct" THEN c.i
    ELSE IF c.phase = "singleTable" THEN NB_DIRECT
    ELSE IF c.phase = "single" THEN NB_DIRECT + c.i
    ELSE NB_DIRECT + Len(Table(Inode[c.inode].single))

\* The tables that the loops go through, and that they are at the beginning of
\* the doubly indirect part as long as anything is left.
TablesIn(c) ==
    /\ c.phase = "direct" => c.i <= NB_DIRECT
    /\ c.phase = "single" => /\ c.single = Table(Inode[c.inode].single)
                             /\ c.i <= Len(c.single)
    /\ c.phase \in {"double", "innerTable", "inner"} =>
          c.i = 0 /\ c.single = Table(Inode[c.inode].double)
    /\ c.phase = "inner" => c.j = 0 /\ c.double = Table(Pointer(c.single, 0))

FileByte(inode, k) == BlockOf(inode, (k - 1) \div BlockSize) * BlockSize + ((k - 1) % BlockSize)

\* What has been read is the beginning of the file.
ContentIn(c) ==
    LET inode == Inode[c.inode]
    IN  c.phase # "inode" =>
            /\ ~c.wrong
            /\ Len(c.content) + c.left = inode.size
            /\ HasItsBlocks(inode) =>
                  /\ \A k \in 1..Len(c.content) : c.content[k] = FileByte(inode, k)
                  /\ c.left > 0 => TablesIn(c) /\ Len(c.content) = BlocksRead(c) * BlockSize

FileIn(c) == c.pc # "idle" => PhaseIn(c) /\ ContentIn(c)

-----------------------------------------------------------------------------
\* Who has masked the interrupts is the only one in AtaRead.
OneReads == \A p \in Readers : call[p].pc \in Masking => masked = p

\* The drive was asked for the sector that the reader waits for.
SectorIsAsked ==
    \A p \in Readers : call[p].pc = "answer" => lba = call[p].offset \div SectorSize + call[p].k

\* Nothing is read before the disk's tables, which are then what they should.
DiskIsThere ==
    /\ disk # NONE => /\ call[KERNEL].pc \in {"done", "idle"}
                      /\ "buffer" \notin call[KERNEL].held
                      /\ calls[KERNEL] # 0
                      /\ \A g \in DOMAIN InodeTable \cap 0..(Groups - 1) :
                            g \in DOMAIN disk /\ disk[g] = InodeTable[g]
    /\ disk = NONE => \A p \in Procs : call[p].pc = "idle"
    /\ call[KERNEL].pc # "idle" => calls[KERNEL] # 0

IInv ==
    /\ Typed
    /\ \A p \in Readers : ReadIn(call[p])
    /\ BootIn(call[KERNEL])
    /\ \A p \in Procs : HeldIn(call[p]) /\ FileIn(call[p])
    /\ OneReads
    /\ SectorIsAsked
    /\ DiskIsThere
-----------------------------------------------------------------------------
(* Numbers.                                                                *)

LEMMA MultiplesGrow ==
    ASSUME NEW a \in Nat, NEW b \in Nat, NEW n \in Nat, a <= b
    PROVE  a * n <= b * n /\ a * n \in Nat /\ b * n \in Nat
  <1>1. PICK d \in Nat : b = a + d
    <2>1. b - a \in Nat /\ b = a + (b - a)
      OBVIOUS
    <2> QED
      BY <2>1
  <1>2. b * n = a * n + d * n
    BY <1>1
  <1>3. d * n \in Nat /\ a * n \in Nat
    OBVIOUS
  <1> QED
    BY <1>2, <1>3

LEMMA Division ==
    ASSUME NEW x \in Nat, NEW n \in Nat \ {0}
    PROVE  /\ x \div n \in Nat /\ x % n \in 0..(n - 1)
           /\ x = (x \div n) * n + (x % n)
  <1>1. x = n * (x \div n) + (x % n) /\ x % n \in 0..(n - 1) /\ x \div n \in Int
    OBVIOUS
  <1>2. x \div n >= 0
    OBVIOUS
  <1>3. n * (x \div n) = (x \div n) * n
    BY <1>1
  <1> QED
    BY <1>1, <1>2, <1>3

\* There is one way to divide.
LEMMA DivisionOf ==
    ASSUME NEW q \in Nat, NEW r \in Nat, NEW n \in Nat \ {0}, r < n
    PROVE  (q * n + r) \div n = q /\ (q * n + r) % n = r
  <1> DEFINE x == q * n + r
             d == x \div n
  <1>1. x \in Nat
    OBVIOUS
  <1>2. d \in Nat /\ x % n \in 0..(n - 1) /\ x = d * n + (x % n)
    BY <1>1, Division
  <1> HIDE DEF d
  <1>3. CASE d < q
    <2>1. (d + 1) * n <= q * n
      BY <1>2, <1>3, MultiplesGrow
    <2>2. (d + 1) * n = d * n + n
      BY <1>2
    <2> QED
      BY <1>2, <2>1, <2>2
  <1>4. CASE d > q
    <2>1. (q + 1) * n <= d * n
      BY <1>2, <1>4, MultiplesGrow
    <2>2. (q + 1) * n = q * n + n
      OBVIOUS
    <2> QED
      BY <1>2, <2>1, <2>2
  <1>5. CASE d = q
    BY <1>2, <1>5 DEF d
  <1> QED
    BY <1>2, <1>3, <1>4, <1>5

-----------------------------------------------------------------------------
(* Bytes.                                                                  *)

LEMMA BytesAre ==
    ASSUME NEW a \in Nat, NEW n \in Nat
    PROVE  /\ Bytes(a, n) \in Seq(Nat)
           /\ Len(Bytes(a, n)) = n
           /\ \A i \in 1..n : Bytes(a, n)[i] = a + i - 1
  BY DEF Bytes

LEMMA BytesOnBytes ==
    ASSUME NEW a \in Nat, NEW n \in Nat, NEW m \in Nat
    PROVE  Bytes(a, n) \o Bytes(a + n, m) = Bytes(a, n + m)
  <1> DEFINE u == Bytes(a, n)
             v == Bytes(a + n, m)
             t == Bytes(a, n + m)
  <1>1. /\ u \in Seq(Nat) /\ v \in Seq(Nat) /\ t \in Seq(Nat)
        /\ Len(u) = n /\ Len(v) = m /\ Len(t) = n + m
    BY BytesAre, a + n \in Nat, n + m \in Nat
  <1>2. /\ \A i \in 1..n : u[i] = t[i]
        /\ \A i \in 1..m : v[i] = t[n + i]
    BY DEF Bytes
  <1> HIDE DEF u, v, t
  <1> DEFINE s == u \o v
  <1>3. /\ s \in Seq(Nat) /\ Len(s) = n + m
        /\ \A i \in 1..(n + m) : s[i] = IF i <= n THEN u[i] ELSE v[i - n]
    BY <1>1, ConcatProperties
  <1> HIDE DEF s
  <1>4. ASSUME NEW i \in 1..(n + m)
        PROVE  s[i] = t[i]
    <2>1. CASE i <= n
      <3>1. s[i] = u[i] /\ i \in 1..n
        BY <1>3, <2>1
      <3> QED
        BY <1>2, <3>1
    <2>2. CASE i > n
      <3>1. i - n \in 1..m /\ s[i] = v[i - n] /\ n + (i - n) = i
        BY <1>3, <2>2
      <3> QED
        BY <1>2, <3>1
    <2> QED
      BY <2>1, <2>2
  <1>5. s = t
    BY <1>1, <1>3, <1>4
  <1> QED
    BY <1>5 DEF s, u, v, t

Part(a, n, first, last) == SubSeq(Bytes(a, n), first, last)

LEMMA PartOfBytes ==
    ASSUME NEW a \in Nat, NEW n \in Nat, NEW first \in Nat \ {0}, NEW last \in Nat,
           first <= last + 1, last <= n
    PROVE  Part(a, n, first, last) = Bytes(a + first - 1, last - first + 1)
  <1> DEFINE s == SubSeq(Bytes(a, n), first, last)
             size == last - first + 1
             t == Bytes(a + first - 1, size)
  <1>1. /\ size \in Nat
        /\ s \in Seq(Nat) /\ t \in Seq(Nat) /\ Len(s) = size /\ Len(t) = size
    BY DEF Bytes
  <1>2. ASSUME NEW i \in 1..size
        PROVE  s[i] = t[i]
    BY DEF Bytes
  <1> QED
    BY <1>1, <1>2 DEF Part

-----------------------------------------------------------------------------
(* The sectors of a range.                                                 *)

LEMMA RangeHolds ==
    ASSUME NEW offset \in Nat, NEW size \in Nat
    PROVE  LET q == offset \div SectorSize
               r == offset % SectorSize
           IN  /\ q \in Nat /\ r \in Nat /\ q * SectorSize \in Nat
               /\ offset = q * SectorSize + r
               /\ NbBlocks(offset, size) \in Nat \ {0}
               /\ r + size <= NbBlocks(offset, size) * SectorSize
  <1> DEFINE q == offset \div SectorSize
             r == offset % SectorSize
             e == (offset + size) \div SectorSize
             f == (offset + size) % SectorSize
  <1>0. SectorSize \in Nat \ {0}
    BY SizesAssumption
  <1>1. q \in Nat /\ r \in 0..(SectorSize - 1) /\ offset = q * SectorSize + r
    BY <1>0, Division
  <1>2. e \in Nat /\ f \in 0..(SectorSize - 1) /\ offset + size = e * SectorSize + f
    BY <1>0, Division, offset + size \in Nat
  <1>3. NbBlocks(offset, size) = e - q + 1
    BY DEF NbBlocks
  <1> HIDE DEF q, r, e, f
  <1>4. q <= e
    <2> SUFFICES ASSUME e + 1 <= q PROVE FALSE
      BY <1>1, <1>2
    <2>1. (e + 1) * SectorSize <= q * SectorSize
      BY <1>0, <1>1, <1>2, MultiplesGrow
    <2>2. (e + 1) * SectorSize = e * SectorSize + SectorSize
      BY <1>0, <1>2
    <2>3. e * SectorSize \in Nat /\ q * SectorSize \in Nat
      BY <1>0, <1>1, <1>2
    <2> QED
      BY <1>0, <1>1, <1>2, <2>1, <2>2, <2>3
  <1>5. (e - q + 1) * SectorSize = e * SectorSize - q * SectorSize + SectorSize
    BY <1>0, <1>1, <1>2
  <1>6. e * SectorSize \in Nat /\ q * SectorSize \in Nat
    BY <1>0, <1>1, <1>2
  <1>7. r + size <= (e - q + 1) * SectorSize
    BY <1>0, <1>1, <1>2, <1>5, <1>6
  <1> QED
    BY <1>1, <1>2, <1>3, <1>4, <1>6, <1>7 DEF q, r

LEMMA SectorAdds ==
    ASSUME NEW q \in Nat, NEW k \in Nat
    PROVE  Bytes(q * SectorSize, k * SectorSize) \o Sector(q + k)
              = Bytes(q * SectorSize, (k + 1) * SectorSize)
  <1>1. SectorSize \in Nat
    BY SizesAssumption
  <1>2. /\ q * SectorSize \in Nat /\ k * SectorSize \in Nat
        /\ (q + k) * SectorSize = q * SectorSize + k * SectorSize
        /\ (k + 1) * SectorSize = k * SectorSize + SectorSize
    BY <1>1
  <1>3. Bytes(q * SectorSize, k * SectorSize) \o Bytes(q * SectorSize + k * SectorSize, SectorSize)
          = Bytes(q * SectorSize, k * SectorSize + SectorSize)
    BY <1>1, <1>2, BytesOnBytes
  <1> QED
    BY <1>2, <1>3 DEF Sector

LEMMA RangeIsCut ==
    ASSUME NEW offset \in Nat, NEW size \in Nat
    PROVE  SubSeq(Bytes((offset \div SectorSize) * SectorSize, NbBlocks(offset, size) * SectorSize),
                  (offset % SectorSize) + 1, (offset % SectorSize) + size)
              = Bytes(offset, size)
  <1> DEFINE q == offset \div SectorSize
             r == offset % SectorSize
             n == NbBlocks(offset, size)
  <1>1. /\ q \in Nat /\ r \in Nat /\ q * SectorSize \in Nat /\ n \in Nat
        /\ offset = q * SectorSize + r
        /\ r + size <= n * SectorSize
    BY RangeHolds
  <1> HIDE DEF q, r, n
  <1>2. n * SectorSize \in Nat
    BY <1>1, SizesAssumption
  <1>3. SubSeq(Bytes(q * SectorSize, n * SectorSize), r + 1, r + size)
          = Bytes(q * SectorSize + r, size)
    <2> DEFINE a == q * SectorSize
               m == n * SectorSize
    <2>1. a \in Nat /\ m \in Nat /\ r + size <= m
      BY <1>1, <1>2
    <2> HIDE DEF a, m
    <2>2. Part(a, m, r + 1, r + size) = Bytes(a + (r + 1) - 1, (r + size) - (r + 1) + 1)
      BY <1>1, <2>1, PartOfBytes
    <2>3. a + (r + 1) - 1 = a + r /\ (r + size) - (r + 1) + 1 = size
      BY <1>1, <2>1
    <2> QED
      BY <2>2, <2>3 DEF Part, a, m
  <1> QED
    BY <1>1, <1>3 DEF q, r, n

-----------------------------------------------------------------------------
(* A step of one reader.                                                   *)

LEMMA ReadersAre ==
    /\ KERNEL \in Readers /\ NOBODY \notin Readers /\ KERNEL \notin Procs
    /\ \A p \in Readers : p # KERNEL => p \in Procs
    /\ \A p \in Procs : p \in Readers
  BY ProcsAssumption DEF Readers, KERNEL, NOBODY

LEMMA CallHolds ==
    ASSUME IInv, NEW p \in Readers
    PROVE  /\ call[p] \in CallRecords /\ ReadIn(call[p])
           /\ p = KERNEL => BootIn(call[p])
           /\ p # KERNEL => HeldIn(call[p]) /\ FileIn(call[p])
           /\ (p # KERNEL /\ call[p].pc # "idle") => disk # NONE
           /\ (p = KERNEL /\ call[p].pc \notin {"idle", "done"}) => disk = NONE
  BY ReadersAre DEF IInv, Typed, DiskIsThere

\* What the others know stays true, as there is one drive and one reader in
\* AtaRead; so a step is right if it is for its reader.
LEMMA StepKeeps ==
    ASSUME IInv, NEW p \in Readers, NEW c \in CallRecords,
           masked \in {NOBODY, p},
           Goto(p, c), UNCHANGED disk,
           lba' \in Nat, masked' \in {masked, NOBODY, p},
           calls' \in [Readers -> Nat], calls[KERNEL] # 0 => calls'[KERNEL] # 0,
           ReadIn(c),
           p = KERNEL => BootIn(c),
           (p = KERNEL /\ disk # NONE) => c.pc \in {"done", "idle"} /\ "buffer" \notin c.held,
           p # KERNEL => HeldIn(c) /\ FileIn(c),
           (p # KERNEL /\ c.pc # "idle") => disk # NONE,
           c.pc # "idle" => p # KERNEL \/ call[p].pc # "idle" \/ calls'[KERNEL] # 0,
           c.pc \in Masking => masked' = p,
           c.pc = "answer" => lba' = c.offset \div SectorSize + c.k
    PROVE  IInv'
  <1> USE ReadersAre
  <1>1. call' = [call EXCEPT ![p] = c]
    BY DEF Goto
  <1>2. \A q \in Readers : call'[q] = IF q = p THEN c ELSE call[q]
    BY <1>1 DEF IInv, Typed
  <1>3. Typed'
    BY <1>1 DEF IInv, Typed
  <1>4. \A q \in Readers : ReadIn(call[q])'
    BY <1>2 DEF IInv, ReadIn
  <1>5. BootIn(call[KERNEL])'
    BY <1>2 DEF IInv, BootIn
  <1>6. ASSUME NEW q \in Procs
        PROVE  (HeldIn(call[q]) /\ FileIn(call[q]))'
    <2>1. \A n : InodeOffset(n)' = InodeOffset(n)
      BY DEF InodeOffset
    <2>2. HeldIn(call'[q]) /\ FileIn(call'[q])
      BY <1>2, <1>6 DEF IInv
    <2> QED
      BY <2>1, <2>2 DEF FileIn, PhaseIn, HeldIn, ContentIn, TablesIn, BlocksRead, BlockIn, Wanted
  <1>7. \A q \in Readers \ {p} : call[q].pc \notin Masking
    BY DEF IInv, OneReads
  <1>8. OneReads'
    BY <1>2, <1>7 DEF OneReads
  <1>9. SectorIsAsked'
    BY <1>2, <1>7 DEF SectorIsAsked, Masking
  <1>10. DiskIsThere'
    BY <1>2 DEF IInv, DiskIsThere
  <1> QED
    BY <1>3, <1>4, <1>5, <1>6, <1>8, <1>9, <1>10 DEF IInv

\* What AtaRead begins with, for a reader in state c.
Asking(c, offset, size) ==
    [c EXCEPT !.pc = "command", !.offset = offset, !.size = size,
              !.k = 0, !.buf = <<>>, !.errors = 0, !.streak = 0, !.held = @ \cup {"buffer"}]

LEMMA AskingHolds ==
    ASSUME NEW c \in CallRecords, NEW offset \in Nat, NEW size \in Nat
    PROVE  Asking(c, offset, size) \in CallRecords /\ ReadIn(Asking(c, offset, size))
  <1> DEFINE d == Asking(c, offset, size)
  <1>0. 0 \in 0..(MaxErrors + 1) /\ <<>> \in Seq(Nat) /\ c.held \cup {"buffer"} \in SUBSET Held
    <2>1. 0 \in 0..(MaxErrors + 1)
      BY BoundsAssumption
    <2>2. c.held \cup {"buffer"} \in SUBSET Held
      BY DEF CallRecords, Held
    <2>4. <<>> \in Seq(Nat)
      OBVIOUS
    <2> QED
      BY <2>1, <2>2, <2>4
  <1>1. d \in CallRecords
    BY <1>0 DEF Asking, CallRecords, Pcs
  <1>2. /\ d.pc = "command" /\ d.offset = offset /\ d.size = size
        /\ d.k = 0 /\ d.buf = <<>> /\ d.errors = 0 /\ d.streak = 0
    BY DEF Asking, CallRecords
  <1>3. Bytes((offset \div SectorSize) * SectorSize, 0 * SectorSize) = <<>>
    <2>1. 0 * SectorSize = 0
      BY SizesAssumption
    <2> QED
      BY <2>1 DEF Bytes
  <1>4. ReadIn(d)
    <2>1. NbBlocks(offset, size) > 0 /\ 0 <= MaxErrors
      BY RangeHolds, BoundsAssumption
    <2> HIDE DEF d
    <2> QED
      BY <1>2, <1>3, <2>1 DEF ReadIn, Commanding
  <1> QED
    BY <1>1, <1>4

LEMMA AtaReadKeeps ==
    ASSUME IInv, NEW p \in Readers, NEW c \in CallRecords, NEW offset \in Nat, NEW size \in Nat,
           masked \in {NOBODY, p},
           AtaRead(p, c, offset, size), UNCHANGED disk,
           calls' \in [Readers -> Nat], calls[KERNEL] # 0 => calls'[KERNEL] # 0,
           p = KERNEL => /\ BootIn(Asking(c, offset, size)) /\ disk = NONE
                         /\ calls'[KERNEL] # 0,
           p # KERNEL => /\ HeldIn(Asking(c, offset, size)) /\ FileIn(Asking(c, offset, size))
                         /\ disk # NONE
    PROVE  IInv'
  <1> DEFINE d == Asking(c, offset, size)
  <1>1. d \in CallRecords /\ ReadIn(d)
    BY AskingHolds
  <1>2. d.pc = "command"
    BY DEF Asking, CallRecords
  <1>3. Goto(p, d) /\ masked' = p /\ lba' = lba
    BY DEF AtaRead, Asking, Masker
  <1>4. lba' \in Nat
    BY <1>3 DEF IInv, Typed
  <1> HIDE DEF d
  <1> QED
    BY <1>1, <1>2, <1>3, <1>4, StepKeeps DEF d

\* Within AtaRead only the sectors read change.
SamePlace(c, d) ==
    /\ d.inode = c.inode /\ d.phase = c.phase /\ d.i = c.i /\ d.j = c.j /\ d.left = c.left
    /\ d.wrong = c.wrong /\ d.content = c.content /\ d.single = c.single /\ d.double = c.double

LEMMA GoesOn ==
    ASSUME NEW c, NEW d, SamePlace(c, d), FileIn(c),
           c.pc \in Fetching, d.pc \in Masking \cup Fetching,
           d.offset = c.offset, d.size = c.size
    PROVE  FileIn(d)
  <1>1. Wanted(d) = Wanted(c) /\ BlockIn(d) = BlockIn(c)
    BY DEF SamePlace, Wanted, BlockIn
  <1>2. ContentIn(d)
    BY DEF SamePlace, FileIn, ContentIn, TablesIn, BlocksRead, Fetching
  <1>3. PhaseIn(d)
    BY <1>1 DEF SamePlace, FileIn, PhaseIn, Fetching, Masking
  <1> QED
    BY <1>2, <1>3 DEF FileIn

LEMMA CommandKeeps == ASSUME IInv, NEW p \in Readers, Command(p) PROVE IInv'
  <1> DEFINE c == call[p]
             d == [c EXCEPT !.pc = "answer"]
  <1>1. /\ c \in CallRecords /\ c.pc = "command" /\ masked \in {NOBODY, p}
        /\ call[p].pc # "idle"
    BY CallHolds DEF Command, At
  <1>2. d \in CallRecords /\ d = [c EXCEPT !.pc = "answer"]
    BY <1>1 DEF CallRecords, Pcs
  <1>3. ReadIn(d)
    BY <1>1, CallHolds DEF ReadIn, Commanding, CallRecords
  <1>4. p = KERNEL => BootIn(d) /\ disk = NONE
    BY <1>1, CallHolds DEF BootIn, Fetching, Masking, CallRecords
  <1>5. p # KERNEL => HeldIn(d) /\ FileIn(d) /\ disk # NONE
    <2>1. SamePlace(c, d) /\ d.offset = c.offset /\ d.size = c.size /\ d.held = c.held
      BY <1>1 DEF CallRecords, SamePlace
    <2>2. p # KERNEL => HeldIn(c) /\ FileIn(c) /\ disk # NONE
      BY <1>1, CallHolds
    <2>3. d.pc = "answer"
      BY <1>1 DEF CallRecords
    <2> HIDE DEF c, d
    <2> QED
      BY <1>1, <2>1, <2>2, <2>3, GoesOn DEF HeldIn, SamePlace, Masking, Fetching
  <1>6. masked = p
    BY <1>1 DEF IInv, OneReads, Masking
  <1>7. d.pc = "answer" /\ d.offset = c.offset /\ d.k = c.k
    BY <1>1 DEF CallRecords
  <1>8. lba' = c.offset \div SectorSize + c.k /\ lba' \in Nat
    <2>1. c.offset \in Nat /\ c.k \in Nat
      BY <1>1 DEF CallRecords
    <2>2. c.offset \div SectorSize \in Nat
      BY <2>1, RangeHolds
    <2> QED
      BY <2>1, <2>2 DEF Command
  <1>9. Goto(p, d) /\ UNCHANGED <<masked, disk, calls>> /\ calls \in [Readers -> Nat]
    BY DEF Command, IInv, Typed
  <1> HIDE DEF c, d
  <1> QED
    BY <1>1, <1>2, <1>3, <1>4, <1>5, <1>6, <1>7, <1>8, <1>9, StepKeeps

LEMMA AnswerDataKeeps == ASSUME IInv, NEW p \in Readers, AnswerData(p) PROVE IInv'
  <1> DEFINE c == call[p]
             last == c.k + 1 = NbBlocks(c.offset, c.size)
             d == [c EXCEPT !.buf = @ \o Sector(lba), !.k = @ + 1, !.streak = 0,
                            !.errors = FreshErrors(@),
                            !.pc = IF last THEN "copy" ELSE "command"]
  <1>1. /\ c \in CallRecords /\ c.pc = "answer" /\ masked \in {NOBODY, p}
        /\ call[p].pc # "idle"
    BY CallHolds DEF AnswerData, At
  <1>2. lba = c.offset \div SectorSize + c.k /\ lba \in Nat
    BY <1>1 DEF IInv, SectorIsAsked, Typed
  <1>3. c.offset \in Nat /\ c.size \in Nat /\ c.k \in Nat /\ c.buf \in Seq(Nat)
    BY <1>1 DEF CallRecords
  <1>4. Sector(lba) \in Seq(Nat)
    BY <1>2, SizesAssumption, BytesAre DEF Sector
  <1>5. d \in CallRecords
    <2>1. c.buf \o Sector(lba) \in Seq(Nat) /\ c.k + 1 \in Nat
      BY <1>3, <1>4
    <2>2. 0 \in 0..(MaxErrors + 1)
      BY BoundsAssumption
    <2> QED
      BY <1>1, <2>1, <2>2 DEF CallRecords, Pcs, FreshErrors
  <1>6. /\ SamePlace(c, d) /\ d.offset = c.offset /\ d.size = c.size /\ d.held = c.held
        /\ d.pc = IF last THEN "copy" ELSE "command"
        /\ d.buf = c.buf \o Sector(lba) /\ d.k = c.k + 1 /\ d.streak = 0 /\ d.errors = 0
    BY <1>1 DEF CallRecords, SamePlace, FreshErrors
  <1>7. Goto(p, d) /\ UNCHANGED <<lba, masked, disk, calls>> /\ calls \in [Readers -> Nat]
    BY DEF AnswerData, IInv, Typed
  <1>8. ReadIn(c) /\ (p = KERNEL => BootIn(c) /\ disk = NONE)
        /\ (p # KERNEL => HeldIn(c) /\ FileIn(c) /\ disk # NONE)
    BY <1>1, CallHolds
  <1> HIDE DEF c, d
  <1>9. ReadIn(d)
    <2>1. c.offset \div SectorSize \in Nat /\ NbBlocks(c.offset, c.size) \in Nat
      BY <1>3, RangeHolds
    <2>2. d.buf = Bytes((d.offset \div SectorSize) * SectorSize, d.k * SectorSize)
      BY <1>1, <1>2, <1>3, <1>6, <1>8, <2>1, SectorAdds DEF ReadIn
    <2>3. c.k < NbBlocks(c.offset, c.size) /\ 0 <= MaxErrors
      BY <1>1, <1>8, BoundsAssumption DEF ReadIn, Commanding
    <2>4. d.pc = "command" => d.k < NbBlocks(d.offset, d.size)
      BY <1>3, <1>6, <2>1, <2>3
    <2> QED
      BY <1>6, <2>2, <2>3, <2>4 DEF ReadIn, Commanding
  <1>10. p = KERNEL => BootIn(d) /\ disk = NONE
    BY <1>1, <1>6, <1>8 DEF BootIn, SamePlace, Fetching, Masking
  <1>11. p # KERNEL => HeldIn(d) /\ FileIn(d) /\ disk # NONE
    BY <1>1, <1>6, <1>8, GoesOn DEF HeldIn, SamePlace, Masking, Fetching
  <1>12. masked = p
    BY <1>1 DEF IInv, OneReads, Masking, c
  <1> QED
    BY <1>1, <1>2, <1>5, <1>6, <1>7, <1>9, <1>10, <1>11, <1>12, StepKeeps

LEMMA AnswerErrorKeeps == ASSUME IInv, NEW p \in Readers, AnswerError(p) PROVE IInv'
  <1> DEFINE c == call[p]
             d == [c EXCEPT !.errors = ErrorsAfter(@),
                            !.streak = IF @ > MaxErrors THEN @ ELSE @ + 1,
                            !.pc = IF ErrorsAfter(c.errors) > MaxErrors THEN "failed"
                                   ELSE "command"]
  <1>1. /\ c \in CallRecords /\ c.pc = "answer" /\ masked \in {NOBODY, p}
        /\ call[p].pc # "idle"
    BY CallHolds DEF AnswerError, At
  <1>2. c.errors <= MaxErrors /\ c.streak = c.errors /\ c.errors \in Nat /\ MaxErrors \in Nat
    <2>1. MaxErrors \in Nat
      BY BoundsAssumption
    <2>2. c.errors \in 0..(MaxErrors + 1)
      BY <1>1 DEF CallRecords
    <2>3. c.errors <= MaxErrors /\ c.streak = c.errors
      BY <1>1, CallHolds DEF ReadIn, Commanding
    <2> QED
      BY <2>1, <2>2, <2>3
  <1>3. d = [c EXCEPT !.errors = c.errors + 1, !.streak = c.errors + 1,
                      !.pc = IF c.errors + 1 > MaxErrors THEN "failed" ELSE "command"]
    <2>1. ~(c.streak > MaxErrors)
      BY <1>2
    <2> QED
      BY <1>2, <2>1, Zenon DEF ErrorsAfter
  <1>4. d \in CallRecords
    <2>1. c.errors + 1 \in 0..(MaxErrors + 1)
      BY <1>2
    <2> QED
      BY <1>1, <1>3, <2>1 DEF CallRecords, Pcs
  <1>5. /\ SamePlace(c, d) /\ d.offset = c.offset /\ d.size = c.size /\ d.held = c.held
        /\ d.pc = IF c.errors + 1 > MaxErrors THEN "failed" ELSE "command"
        /\ d.buf = c.buf /\ d.k = c.k /\ d.streak = c.errors + 1 /\ d.errors = c.errors + 1
    <2> DEFINE n == c.errors + 1
               to == IF n > MaxErrors THEN "failed" ELSE "command"
    <2>1. d = [c EXCEPT !.errors = n, !.streak = n, !.pc = to]
      BY <1>3
    <2> HIDE DEF c, d, n, to
    <2>2. /\ SamePlace(c, d) /\ d.offset = c.offset /\ d.size = c.size /\ d.held = c.held
          /\ d.pc = to /\ d.buf = c.buf /\ d.k = c.k /\ d.streak = n /\ d.errors = n
      BY <1>1, <2>1 DEF CallRecords, SamePlace
    <2> QED
      BY <2>2 DEF n, to
  <1>6. Goto(p, d) /\ UNCHANGED <<lba, masked, disk, calls>> /\ calls \in [Readers -> Nat]
        /\ lba \in Nat
    BY DEF AnswerError, IInv, Typed
  <1>7. ReadIn(c) /\ (p = KERNEL => BootIn(c) /\ disk = NONE)
        /\ (p # KERNEL => HeldIn(c) /\ FileIn(c) /\ disk # NONE)
    BY <1>1, CallHolds
  <1>8. masked = p
    BY <1>1 DEF IInv, OneReads, Masking
  <1> HIDE DEF c, d
  <1>9. ReadIn(d)
    BY <1>1, <1>2, <1>5, <1>7 DEF ReadIn, Commanding
  <1>10. p = KERNEL => BootIn(d) /\ disk = NONE
    BY <1>1, <1>5, <1>7 DEF BootIn, SamePlace, Fetching, Masking
  <1>11. p # KERNEL => HeldIn(d) /\ FileIn(d) /\ disk # NONE
    BY <1>1, <1>5, <1>7, GoesOn DEF HeldIn, SamePlace, Masking, Fetching
  <1> QED
    BY <1>1, <1>4, <1>5, <1>6, <1>8, <1>9, <1>10, <1>11, StepKeeps

LEMMA AtaCopyKeeps == ASSUME IInv, NEW p \in Readers, AtaCopy(p) PROVE IInv'
  <1> DEFINE c == call[p]
             from == c.offset % SectorSize
             d == [c EXCEPT !.pc = "got", !.buf = SubSeq(@, from + 1, from + c.size),
                            !.held = @ \ {"buffer"}]
  <1>1. /\ c \in CallRecords /\ c.pc = "copy" /\ masked \in {NOBODY, p}
        /\ call[p].pc # "idle"
    BY CallHolds DEF AtaCopy, At
  <1>2. c.offset \in Nat /\ c.size \in Nat
    BY <1>1 DEF CallRecords
  <1>3. ReadIn(c) /\ (p = KERNEL => BootIn(c) /\ disk = NONE)
        /\ (p # KERNEL => HeldIn(c) /\ FileIn(c) /\ disk # NONE)
    BY <1>1, CallHolds
  <1>4. SubSeq(c.buf, from + 1, from + c.size) = Bytes(c.offset, c.size)
    BY <1>1, <1>2, <1>3, RangeIsCut DEF ReadIn
  <1>5. d \in CallRecords
    <2>1. c.held \ {"buffer"} \in SUBSET Held
      BY <1>1 DEF CallRecords
    <2>2. Bytes(c.offset, c.size) \in Seq(Nat)
      BY <1>2, BytesAre
    <2> QED
      BY <1>1, <1>4, <2>1, <2>2 DEF CallRecords, Pcs
  <1>6. /\ SamePlace(c, d) /\ d.offset = c.offset /\ d.size = c.size
        /\ d.held = c.held \ {"buffer"} /\ d.pc = "got" /\ d.buf = Bytes(c.offset, c.size)
    BY <1>1, <1>4 DEF CallRecords, SamePlace
  <1>7. Goto(p, d) /\ UNCHANGED <<lba, disk, calls>> /\ calls \in [Readers -> Nat] /\ lba \in Nat
        /\ masked' = NOBODY
    BY DEF AtaCopy, IInv, Typed
  <1> HIDE DEF c, d
  <1>8. ReadIn(d)
    BY <1>6 DEF ReadIn, Commanding
  <1>9. p = KERNEL => BootIn(d) /\ disk = NONE
    BY <1>1, <1>3, <1>6 DEF BootIn, SamePlace, Fetching, Masking
  <1>10. p # KERNEL => HeldIn(d) /\ FileIn(d) /\ disk # NONE
    <2>1. p # KERNEL => FileIn(d)
      BY <1>1, <1>3, <1>6, GoesOn DEF Masking, Fetching
    <2>2. p # KERNEL => HeldIn(d)
      BY <1>1, <1>3, <1>6 DEF HeldIn, SamePlace, Masking
    <2> QED
      BY <1>3, <2>1, <2>2
  <1> QED
    BY <1>1, <1>5, <1>6, <1>7, <1>8, <1>9, <1>10, StepKeeps DEF Masking

LEMMA IdleIs == Idle \in CallRecords /\ ReadIn(Idle) /\ BootIn(Idle)
  <1>1. 0 \in 0..(MaxErrors + 1)
    BY BoundsAssumption
  <1>2. Idle \in CallRecords
    BY <1>1 DEF Idle, CallRecords, Pcs, Phases
  <1>3. Idle.pc = "idle" /\ Idle.held = {}
    BY DEF Idle
  <1> QED
    BY <1>2, <1>3 DEF ReadIn, BootIn, Commanding, Fetching

LEMMA ReturnKeeps == ASSUME IInv, NEW p \in Readers, Return(p) PROVE IInv'
  <1> DEFINE c == call[p]
             d == [Idle EXCEPT !.held = c.held \ Cleaned(c)]
  <1>1. /\ c \in CallRecords /\ c.pc \in {"failed", "refused", "done"} /\ masked \in {NOBODY, p}
        /\ call[p].pc # "idle"
    BY CallHolds DEF Return, At
  <1>2. d \in CallRecords
    <2>1. c.held \ Cleaned(c) \in SUBSET Held
      BY <1>1 DEF CallRecords
    <2> HIDE DEF c
    <2> QED
      BY <2>1, IdleIs DEF CallRecords
  <1>3. d.pc = "idle" /\ d.held = c.held \ Cleaned(c)
    BY DEF Idle
  <1>4. Goto(p, d) /\ UNCHANGED <<lba, disk, calls>> /\ calls \in [Readers -> Nat] /\ lba \in Nat
        /\ masked' \in {masked, NOBODY}
    BY DEF Return, IInv, Typed
  <1>5. ReadIn(d)
    BY <1>3 DEF ReadIn, Commanding
  <1>6. /\ p = KERNEL => BootIn(c) /\ (c.pc = "failed" => disk = NONE)
        /\ p # KERNEL => HeldIn(c) /\ FileIn(c)
    BY <1>1, CallHolds
  <1> HIDE DEF c, d
  <1>7. p = KERNEL => BootIn(d)
    <2> SUFFICES ASSUME BootIn(c) PROVE BootIn(d)
      BY <1>6
    <2>1. c.pc = "done" => c.phase = "groups" /\ c.held = {"disk", "superBlock", "groupDesc"}
      BY DEF BootIn, Masking
    <2>2. c.pc = "done" => d.held = {"disk", "superBlock", "groupDesc"}
      BY <1>3, <2>1 DEF Cleaned
    <2>3. c.pc = "failed" => d.held = {"buffer"}
      <3> SUFFICES ASSUME c.pc = "failed" PROVE d.held = {"buffer"}
        OBVIOUS
      <3>1. /\ c.held \subseteq {"disk", "superBlock", "groupDesc", "buffer"}
            /\ "buffer" \in c.held /\ c.phase # "inode"
        BY DEF BootIn, Masking
      <3> QED
        BY <1>3, <3>1 DEF Cleaned
    <2>4. c.pc # "refused"
      BY DEF BootIn
    <2> QED
      BY <1>1, <1>3, <2>2, <2>3, <2>4 DEF BootIn, Fetching
  <1>8. p = KERNEL /\ disk # NONE => "buffer" \notin d.held
    <2> SUFFICES ASSUME p = KERNEL, disk # NONE PROVE "buffer" \notin d.held
      OBVIOUS
    <2>1. c.pc = "done" /\ "buffer" \notin c.held
      BY <1>1, <1>6 DEF BootIn, Masking
    <2> QED
      BY <1>3, <2>1
  <1>9. p # KERNEL => HeldIn(d) /\ FileIn(d)
    <2> SUFFICES ASSUME HeldIn(c), FileIn(c) PROVE HeldIn(d)
      BY <1>3, <1>6 DEF FileIn
    <2>1. CASE c.pc = "done"
      <3>1. c.phase # "inode"
        BY <2>1 DEF FileIn, PhaseIn
      <3>2. /\ {"inode", "fileContent"} \subseteq c.held
            /\ c.held \subseteq {"inode", "fileContent", "block", "singlyBlock", "doublyBlock"}
        BY <2>1, <3>1 DEF HeldIn, Masking
      <3>3. d.held = {"inode", "fileContent"}
        BY <1>3, <2>1, <3>2 DEF Cleaned
      <3> QED
        BY <1>3, <3>3 DEF HeldIn
    <2>2. CASE c.pc = "failed" /\ c.phase = "inode"
      <3>1. c.held = {"inode", "buffer"}
        BY <2>2 DEF HeldIn, Masking
      <3>2. d.held = {"buffer"}
        BY <1>3, <2>2, <3>1 DEF Cleaned
      <3> QED
        BY <1>3, <3>2 DEF HeldIn
    <2>3. CASE c.pc = "failed" /\ c.phase # "inode"
      <3>1. /\ {"inode", "buffer"} \subseteq c.held
            /\ c.held \subseteq {"inode", "fileContent", "block", "singlyBlock", "doublyBlock",
                                  "buffer"}
        BY <2>3 DEF HeldIn, Masking
      <3>2. d.held = {"buffer", "inode"}
        BY <1>3, <2>3, <3>1 DEF Cleaned
      <3> QED
        BY <1>3, <3>2 DEF HeldIn
    <2>4. CASE c.pc = "refused"
      <3>1. c.held = {"inode"} /\ c.phase = "direct"
        BY <2>4 DEF HeldIn, FileIn, PhaseIn, Masking
      <3>2. d.held = {"inode"}
        BY <1>3, <2>4, <3>1 DEF Cleaned
      <3> QED
        BY <1>3, <3>2 DEF HeldIn
    <2> QED
      BY <1>1, <2>1, <2>2, <2>3, <2>4
  <1> QED
    BY <1>1, <1>2, <1>3, <1>4, <1>5, <1>7, <1>8, <1>9, StepKeeps DEF Masking

-----------------------------------------------------------------------------
(* The boot code.                                                          *)

\* The fields of a call that begins to read.
LEMMA AskingIs ==
    ASSUME NEW c \in CallRecords, NEW offset, NEW size
    PROVE  LET d == Asking(c, offset, size)
           IN  /\ SamePlace(c, d) /\ d.pc = "command" /\ d.offset = offset /\ d.size = size
               /\ d.held = c.held \cup {"buffer"}
  BY DEF Asking, SamePlace, CallRecords

LEMMA GroupsAre == Groups \in Nat /\ GroupTable \in Nat
  <1>1. /\ InodesCount \in Nat /\ InodesPerGroup \in Nat \ {0}
        /\ BlocksCount \in Nat /\ BlocksPerGroup \in Nat \ {0}
        /\ MBR_RESERVED_SIZE \in Nat /\ BlockSize \in Nat
    BY SizesAssumption, BoundsAssumption
  <1>2. BlocksCount \div BlocksPerGroup \in Nat /\ InodesCount \div InodesPerGroup \in Nat
    BY <1>1, Division
  <1>3. CeilDiv(BlocksCount, BlocksPerGroup) \in Nat /\ CeilDiv(InodesCount, InodesPerGroup) \in Nat
    BY <1>2 DEF CeilDiv
  <1>4. GroupTable \in Nat
    BY <1>1 DEF GroupTable
  <1> QED
    BY <1>3, <1>4 DEF Groups

LEMMA ReadDiskOnDeviceKeeps == ASSUME IInv, ReadDiskOnDevice PROVE IInv'
  <1> DEFINE c == [Idle EXCEPT !.phase = "super", !.held = {"disk", "superBlock"}]
             d == Asking(c, MBR_RESERVED_SIZE, MBR_RESERVED_SIZE)
  <1>1. /\ masked \in {NOBODY, KERNEL} /\ call[KERNEL].pc = "idle" /\ calls[KERNEL] = 0
        /\ AtaRead(KERNEL, c, MBR_RESERVED_SIZE, MBR_RESERVED_SIZE) /\ UNCHANGED disk
        /\ calls' = [calls EXCEPT ![KERNEL] = 1]
    BY DEF ReadDiskOnDevice, At
  <1>2. disk = NONE
    BY <1>1 DEF IInv, DiskIsThere
  <1>3. calls' \in [Readers -> Nat] /\ calls'[KERNEL] = 1
    BY <1>1, ReadersAre DEF IInv, Typed
  <1>4. c \in CallRecords
    BY IdleIs DEF CallRecords, Held, Phases
  <1>5. c.phase = "super" /\ c.held = {"disk", "superBlock"}
    BY DEF Idle
  <1>6. MBR_RESERVED_SIZE \in Nat
    BY SizesAssumption
  <1> HIDE DEF c
  <1>7. d.pc = "command" /\ d.phase = "super" /\ d.held = {"disk", "superBlock", "buffer"}
    <2>1. d.held = c.held \cup {"buffer"} /\ d.pc = "command" /\ d.phase = c.phase
      BY <1>4, AskingIs DEF SamePlace
    <2> QED
      BY <1>5, <2>1
  <1>8. BootIn(d)
    <2> HIDE DEF d
    <2> QED
      BY <1>7 DEF BootIn, Masking, Fetching
  <1> QED
    BY <1>1, <1>2, <1>3, <1>4, <1>6, <1>8, ReadersAre, AtaReadKeeps

LEMMA ReadGroupDescKeeps == ASSUME IInv, ReadGroupDesc PROVE IInv'
  <1> DEFINE b == call[KERNEL]
             c == [b EXCEPT !.phase = "groups", !.held = @ \cup {"groupDesc"}]
             d == Asking(c, GroupTable, Groups * DescSize)
  <1>1. /\ masked \in {NOBODY, KERNEL} /\ b.pc = "got" /\ b.phase = "super"
        /\ AtaRead(KERNEL, c, GroupTable, Groups * DescSize) /\ UNCHANGED <<disk, calls>>
    BY DEF ReadGroupDesc, At
  <1>2. b \in CallRecords /\ BootIn(b) /\ disk = NONE
    BY <1>1, ReadersAre, CallHolds
  <1>3. c \in CallRecords /\ c.phase = "groups" /\ c.held = b.held \cup {"groupDesc"}
    BY <1>2 DEF CallRecords, Held, Phases
  <1>4. calls \in [Readers -> Nat] /\ calls'[KERNEL] # 0 /\ calls' = calls
    BY <1>1 DEF IInv, Typed, DiskIsThere
  <1>5. GroupTable \in Nat /\ Groups * DescSize \in Nat
    BY GroupsAre, SizesAssumption
  <1> HIDE DEF b, c
  <1>6. BootIn(d)
    <2>1. /\ d.held = c.held \cup {"buffer"} /\ d.pc = "command" /\ d.phase = c.phase
          /\ d.offset = GroupTable /\ d.size = Groups * DescSize
      BY <1>3, AskingIs DEF SamePlace
    <2>2. b.held = {"disk", "superBlock"}
      BY <1>1, <1>2 DEF BootIn, Masking
    <2>3. d.held = {"disk", "superBlock", "groupDesc", "buffer"}
      BY <1>3, <2>1, <2>2
    <2> HIDE DEF d
    <2> QED
      BY <1>3, <2>1, <2>3 DEF BootIn, Masking, Fetching
  <1> QED
    BY <1>1, <1>2, <1>3, <1>4, <1>5, <1>6, ReadersAre, AtaReadKeeps

\* The table of groups that was read is the one of the disk.
LEMMA GroupsAreRead ==
    ASSUME NEW g \in 0..(Groups - 1), g \in DOMAIN InodeTable
    PROVE  LET t == AsGroups(Bytes(GroupTable, Groups * DescSize))
           IN  g \in DOMAIN t /\ t[g] = InodeTable[g]
  <1> DEFINE buf == Bytes(GroupTable, Groups * DescSize)
             start == (MBR_RESERVED_SIZE \div BlockSize + 1) * BlockSize
  <1>1. /\ Groups \in Nat /\ GroupTable \in Nat /\ DescSize \in Nat /\ g \in Nat /\ g + 1 <= Groups
        /\ BlockSize \in Nat \ {0} /\ MBR_RESERVED_SIZE \in Nat /\ BlockSize >= MBR_RESERVED_SIZE
    BY GroupsAre, SizesAssumption, GroupsAssumption
  <1>2. start = GroupTable
    <2>1. CASE BlockSize = MBR_RESERVED_SIZE
      <3>1. (1 * BlockSize + 0) \div BlockSize = 1 /\ 1 * BlockSize + 0 = BlockSize
        BY <1>1, DivisionOf
      <3>2. MBR_RESERVED_SIZE \div BlockSize = 1
        BY <2>1, <3>1
      <3> QED
        BY <1>1, <2>1, <3>2 DEF GroupTable
    <2>2. CASE BlockSize # MBR_RESERVED_SIZE
      <3>1. /\ (0 * BlockSize + MBR_RESERVED_SIZE) \div BlockSize = 0
            /\ 0 * BlockSize + MBR_RESERVED_SIZE = MBR_RESERVED_SIZE
        BY <1>1, <2>2, DivisionOf
      <3>2. MBR_RESERVED_SIZE \div BlockSize = 0
        BY <3>1
      <3> QED
        BY <1>1, <2>2, <3>2 DEF GroupTable
    <2> QED
      BY <2>1, <2>2
  <1>3. /\ g * DescSize \in Nat /\ (g + 1) * DescSize = g * DescSize + DescSize
        /\ g * DescSize + DescSize <= Groups * DescSize /\ Groups * DescSize \in Nat
    <2>1. (g + 1) * DescSize <= Groups * DescSize
      BY <1>1, MultiplesGrow
    <2> QED
      BY <1>1, <2>1
  <1>4. SubSeq(buf, g * DescSize + 1, (g + 1) * DescSize) = Bytes(start + g * DescSize, DescSize)
    <2> DEFINE from == g * DescSize
               n == Groups * DescSize
    <2>0. from \in Nat /\ n \in Nat /\ from + DescSize <= n
      BY <1>3
    <2> HIDE DEF from, n
    <2>1. SubSeq(Bytes(GroupTable, n), from + 1, from + DescSize)
             = Bytes(GroupTable + from, DescSize)
      <3>1. Part(GroupTable, n, from + 1, from + DescSize)
              = Bytes(GroupTable + (from + 1) - 1, (from + DescSize) - (from + 1) + 1)
        <4>1. from + 1 \in Nat \ {0} /\ from + DescSize \in Nat /\ from + 1 <= from + DescSize + 1
          BY <1>1, <2>0
        <4> QED
          BY <1>1, <2>0, <4>1, PartOfBytes
      <3>2. /\ GroupTable + (from + 1) - 1 = GroupTable + from
            /\ (from + DescSize) - (from + 1) + 1 = DescSize
        BY <1>1, <2>0
      <3> QED
        BY <3>1, <3>2 DEF Part
    <2>2. (g + 1) * DescSize = from + DescSize
      BY <1>3 DEF from
    <2> QED
      BY <1>2, <2>1, <2>2 DEF from, n
  <1> HIDE DEF buf, start
  <1>5. AsGroups(buf)[g] = InodeTable[g] /\ g \in DOMAIN AsGroups(buf)
    BY <1>4 DEF AsGroups, start
  <1> QED
    BY <1>5 DEF buf

LEMMA DiskIsReadKeeps == ASSUME IInv, DiskIsRead PROVE IInv'
  <1> USE ReadersAre
  <1> DEFINE c == call[KERNEL]
             d == [c EXCEPT !.pc = "done", !.buf = <<>>]
  <1>1. /\ c.pc = "got" /\ c.phase = "groups" /\ disk' = AsGroups(c.buf)
        /\ call' = [call EXCEPT ![KERNEL] = d] /\ UNCHANGED <<lba, masked, calls>>
    BY DEF DiskIsRead, At, Goto
  <1>2. c \in CallRecords /\ BootIn(c) /\ ReadIn(c) /\ disk = NONE
    BY <1>1, CallHolds
  <1>3. c.buf = Bytes(GroupTable, Groups * DescSize)
    BY <1>1, <1>2 DEF ReadIn, BootIn, Fetching
  <1>4. d \in CallRecords /\ d.pc = "done" /\ d.phase = "groups" /\ d.held = c.held
    <2>1. <<>> \in Seq(Nat)
      OBVIOUS
    <2> HIDE DEF c
    <2> QED
      BY <1>1, <1>2, <2>1 DEF CallRecords, Pcs
  <1>5. \A q \in Readers : call'[q] = IF q = KERNEL THEN d ELSE call[q]
    BY <1>1 DEF IInv, Typed
  <1>6. \A q \in Procs : call'[q] = call[q] /\ call[q].pc = "idle"
    BY <1>2, <1>5 DEF IInv, DiskIsThere
  <1> HIDE DEF d
  <1>7. Typed'
    <2>1. \A g \in DOMAIN disk' : disk'[g] \in Nat
      BY <1>1, GroupsAssumption DEF AsGroups
    <2> QED
      BY <1>1, <1>4, <2>1 DEF IInv, Typed
  <1>8. \A q \in Readers : ReadIn(call[q])'
    <2>1. ReadIn(d)
      BY <1>4 DEF ReadIn, Commanding
    <2> QED
      BY <1>5, <2>1 DEF IInv, ReadIn
  <1>9. d.held = {"disk", "superBlock", "groupDesc"}
    BY <1>1, <1>2, <1>4 DEF BootIn, Masking
  <1>10. BootIn(call[KERNEL])'
    <2>1. BootIn(d)
      BY <1>4, <1>9 DEF BootIn, Masking, Fetching
    <2> QED
      BY <1>5, <2>1 DEF BootIn
  <1>11. \A q \in Procs : (HeldIn(call[q]) /\ FileIn(call[q]))'
    BY <1>6 DEF IInv, HeldIn, FileIn
  <1>12. OneReads'
    BY <1>1, <1>4, <1>5 DEF IInv, OneReads, Masking
  <1>13. SectorIsAsked'
    BY <1>1, <1>4, <1>5 DEF IInv, SectorIsAsked
  <1>14. DiskIsThere'
    <2>1. \A g \in DOMAIN InodeTable \cap 0..(Groups - 1) :
              g \in DOMAIN disk' /\ disk'[g] = InodeTable[g]
      BY <1>1, <1>3, GroupsAreRead
    <2>2. calls'[KERNEL] # 0
      BY <1>1 DEF IInv, DiskIsThere
    <2> QED
      BY <1>4, <1>5, <1>6, <1>9, <2>1, <2>2 DEF DiskIsThere
  <1> QED
    BY <1>7, <1>8, <1>10, <1>11, <1>12, <1>13, <1>14 DEF IInv

-----------------------------------------------------------------------------
(* OpenFile and Ext2ReadFile.                                              *)

LEMMA InodeOffsetIs ==
    ASSUME IInv, NEW n \in DOMAIN Inode
    PROVE  /\ InodeOffset(n) \in Nat
           /\ disk # NONE => InodeBytes(n) = Bytes(InodeOffset(n), InodeSize)
  <1> DEFINE g == (n - 1) \div InodesPerGroup
             r == (n - 1) % InodesPerGroup
  <1>1. /\ n \in 1..InodesCount /\ InodesPerGroup \in Nat \ {0} /\ BlocksPerGroup \in Nat \ {0}
        /\ BlockSize \in Nat /\ InodeSize \in Nat /\ InodesCount \in Nat /\ BlocksCount \in Nat
        /\ g \in DOMAIN InodeTable
    BY GroupsAssumption, SizesAssumption, BoundsAssumption
  <1>2. n - 1 \in Nat /\ g \in Nat /\ r \in Nat /\ n - 1 = g * InodesPerGroup + r
        /\ r < InodesPerGroup
    <2>1. n - 1 \in Nat
      BY <1>1
    <2>2. g \in Nat /\ r \in 0..(InodesPerGroup - 1) /\ n - 1 = g * InodesPerGroup + r
      BY <1>1, <2>1, Division
    <2> HIDE DEF g, r
    <2> QED
      BY <1>1, <2>1, <2>2
  <1>3. g < Groups
    <2> DEFINE i == CeilDiv(BlocksCount, BlocksPerGroup)
               e == InodesCount \div InodesPerGroup
               f == InodesCount % InodesPerGroup
               j == CeilDiv(InodesCount, InodesPerGroup)
    <2>1. e \in Nat /\ f \in 0..(InodesPerGroup - 1) /\ InodesCount = e * InodesPerGroup + f
      BY <1>1, Division
    <2>2. i \in Nat
      <3>1. BlocksCount \div BlocksPerGroup \in Nat
        BY <1>1, Division
      <3> QED
        BY <3>1 DEF CeilDiv
    <2>3. j = IF f = 0 THEN e ELSE e + 1
      BY <2>1 DEF CeilDiv
    <2>4. Groups >= j /\ j \in Nat /\ Groups \in Nat
      <3>1. j \in Nat
        BY <2>1, <2>3
      <3>2. Groups = IF i > j THEN i ELSE j
        BY DEF Groups
      <3> HIDE DEF i, j
      <3> QED
        BY <2>2, <3>1, <3>2
    <2> HIDE DEF i, e, f, j, g, r
    <2>5. SUFFICES ASSUME j <= g PROVE FALSE
      BY <1>2, <2>4
    <2>6. j * InodesPerGroup <= g * InodesPerGroup /\ g * InodesPerGroup \in Nat
      BY <1>1, <1>2, <2>4, <2>5, MultiplesGrow
    <2>7. InodesCount <= j * InodesPerGroup
      <3>1. (e + 1) * InodesPerGroup = e * InodesPerGroup + InodesPerGroup
            /\ e * InodesPerGroup \in Nat
        BY <1>1, <2>1
      <3> QED
        BY <1>1, <2>1, <2>3, <3>1
    <2>8. j * InodesPerGroup \in Nat
      BY <1>1, <2>4
    <2>9. InodesCount <= g * InodesPerGroup
      BY <1>1, <2>6, <2>7, <2>8
    <2> QED
      BY <1>1, <1>2, <2>6, <2>9
  <1>4. InodeOffset(n) = (IF g \in DOMAIN disk THEN disk[g] * BlockSize ELSE 0) + r * InodeSize
    BY DEF InodeOffset
  <1>5. InodeBytes(n) = Bytes(InodeTable[g] * BlockSize + r * InodeSize, InodeSize)
    BY DEF InodeBytes
  <1>6. disk # NONE => g \in DOMAIN disk /\ disk[g] = InodeTable[g]
    <2>1. g \in 0..(Groups - 1)
      <3> HIDE DEF g
      <3> QED
        BY <1>2, <1>3, GroupsAre
    <2> QED
      BY <1>1, <2>1 DEF IInv, DiskIsThere
  <1>7. g \in DOMAIN disk => disk[g] \in Nat
    BY DEF IInv, Typed
  <1> HIDE DEF g, r
  <1>8. InodeOffset(n) \in Nat
    <2>1. r * InodeSize \in Nat
      BY <1>1, <1>2
    <2>2. g \in DOMAIN disk => disk[g] * BlockSize \in Nat
      BY <1>1, <1>7
    <2> QED
      BY <1>4, <2>1, <2>2
  <1> QED
    BY <1>4, <1>5, <1>6, <1>8

LEMMA OpenFileKeeps ==
    ASSUME IInv, NEW p \in Procs, NEW n \in DOMAIN Inode, OpenFile(p, n)
    PROVE  IInv'
  <1> DEFINE c == [Idle EXCEPT !.inode = n, !.held = {"inode"}]
             d == Asking(c, InodeOffset(n), InodeSize)
  <1>1. /\ disk # NONE /\ masked \in {NOBODY, p} /\ call[p].pc = "idle"
        /\ AtaRead(p, c, InodeOffset(n), InodeSize) /\ UNCHANGED disk
        /\ calls' = [calls EXCEPT ![p] = @ + 1]
    BY DEF OpenFile, At
  <1>2. calls' \in [Readers -> Nat] /\ calls'[KERNEL] = calls[KERNEL]
    BY <1>1, ReadersAre DEF IInv, Typed
  <1>3. n \in Nat
    BY GroupsAssumption
  <1>4. c \in CallRecords
    BY <1>3, IdleIs DEF CallRecords, Held
  <1>5. c.phase = "inode" /\ c.held = {"inode"} /\ c.inode = n /\ c.content = <<>> /\ c.i = 0
    BY DEF Idle
  <1>6. InodeOffset(n) \in Nat /\ InodeSize \in Nat
    BY SizesAssumption, InodeOffsetIs
  <1> HIDE DEF c
  <1>7. /\ d.pc = "command" /\ d.phase = "inode" /\ d.held = {"inode", "buffer"} /\ d.inode = n
        /\ d.content = <<>> /\ d.i = 0 /\ d.offset = InodeOffset(n) /\ d.size = InodeSize
    <2>1. d.held = c.held \cup {"buffer"} /\ d.pc = "command" /\ SamePlace(c, d)
          /\ d.offset = InodeOffset(n) /\ d.size = InodeSize
      BY <1>4, AskingIs
    <2> HIDE DEF d
    <2> QED
      BY <1>5, <2>1 DEF SamePlace
  <1>8. HeldIn(d) /\ FileIn(d)
    <2> HIDE DEF d
    <2>1. HeldIn(d)
      BY <1>7 DEF HeldIn, Masking
    <2>2. PhaseIn(d)
      BY <1>7 DEF PhaseIn, Masking, Fetching, FilePhases
    <2>3. ContentIn(d)
      BY <1>7 DEF ContentIn
    <2> QED
      BY <2>1, <2>2, <2>3 DEF FileIn
  <1> QED
    BY <1>1, <1>2, <1>4, <1>6, <1>8, ReadersAre, AtaReadKeeps

LEMMA InodeIs ==
    ASSUME NEW n \in DOMAIN Inode
    PROVE  /\ Inode[n].size \in Nat /\ Inode[n].single \in Nat /\ Inode[n].double \in Nat
           /\ Inode[n].direct \in Seq(Nat) /\ Len(Inode[n].direct) = NB_DIRECT
  BY InodeAssumption

LEMMA TableIs ==
    ASSUME NEW b \in Nat
    PROVE  Table(b) \in Seq(Nat) /\ (b = 0 => Table(b) = <<>>)
  BY PointersAssumption DEF Table

LEMMA PointerIs ==
    ASSUME NEW t \in Seq(Nat), NEW i \in Nat
    PROVE  Pointer(t, i) \in Nat
  BY DEF Pointer

\* A block of pointers that has been read is its table.
LEMMA TableIsRead ==
    ASSUME NEW b \in Nat
    PROVE  AsPointers(Bytes(b * BlockSize, BlockSize)) = Table(b)
  <1>1. BlockSize \in Nat \ {0} /\ b * BlockSize \in Nat
    BY SizesAssumption
  <1> DEFINE buf == Bytes(b * BlockSize, BlockSize)
  <1>2. buf[1] = b * BlockSize
    BY <1>1, BytesAre
  <1>3. b * BlockSize = b * BlockSize + 0 /\ (b * BlockSize + 0) \div BlockSize = b
    BY <1>1, DivisionOf
  <1>4. buf[1] \div BlockSize = b
    BY <1>2, <1>3
  <1>5. buf = Block(b)
    BY DEF Block
  <1> HIDE DEF buf
  <1>6. AsPointers(buf) = IF b \in DOMAIN Pointers THEN Pointers[b] ELSE <<>>
    BY <1>4, <1>5 DEF AsPointers
  <1> QED
    BY <1>6 DEF Table, buf

\* A block of the file that has bytes is somewhere.
LEMMA NeedsBlock ==
    ASSUME NEW inode, inode.size \in Nat, HasItsBlocks(inode), NEW n \in Nat,
           n * BlockSize < inode.size
    PROVE  BlockOf(inode, n) # 0
  <1>1. BlockSize \in Nat \ {0}
    BY SizesAssumption
  <1>2. PICK m \in Nat : BlockSize = m + 1
    <2>1. BlockSize - 1 \in Nat /\ BlockSize = (BlockSize - 1) + 1
      BY <1>1
    <2> QED
      BY <2>1
  <1>3. n * (m + 1) = n * m + n /\ n * m \in Nat
    BY <1>2
  <1>4. n \in 0..inode.size
    BY <1>2, <1>3
  <1> QED
    BY <1>4 DEF HasItsBlocks

\* As long as anything is left, the loops are where the next block is.
LEMMA Continues ==
    ASSUME NEW c \in CallRecords, PhaseIn(c), ContentIn(c), c.phase # "inode",
           HasItsBlocks(Inode[c.inode]), c.left > 0
    PROVE  /\ BlocksRead(c) \in Nat
           /\ TablesIn(c) /\ Len(c.content) = BlocksRead(c) * BlockSize
           /\ BlockOf(Inode[c.inode], BlocksRead(c)) # 0
  <1> DEFINE inode == Inode[c.inode]
             n == BlocksRead(c)
  <1>1. c.i \in Nat /\ c.left \in Nat /\ c.content \in Seq(Nat) /\ c.inode \in DOMAIN Inode
    BY DEF CallRecords, PhaseIn
  <1>2. inode.size \in Nat /\ Table(inode.single) \in Seq(Nat)
    BY <1>1, InodeIs, TableIs
  <1>3. n \in Nat
    BY <1>1, <1>2 DEF BlocksRead, NB_DIRECT
  <1>4. /\ TablesIn(c) /\ Len(c.content) = n * BlockSize
        /\ Len(c.content) + c.left = inode.size
    BY DEF ContentIn
  <1>5. n * BlockSize < inode.size
    <2>1. n * BlockSize \in Nat
      BY <1>3, SizesAssumption
    <2> QED
      BY <1>1, <1>2, <1>4, <2>1
  <1> HIDE DEF n, inode
  <1>6. BlockOf(inode, n) # 0
    BY <1>2, <1>3, <1>5, NeedsBlock DEF inode
  <1> QED
    BY <1>3, <1>4, <1>6 DEF n, inode

\* The inner loop has the first block of the doubly indirect part, or there is none.
LEMMA InnerBlock ==
    ASSUME NEW inode, Table(inode.single) \in Seq(Nat),
           BlockOf(inode, NB_DIRECT + Len(Table(inode.single))) # 0
    PROVE  BlockOf(inode, NB_DIRECT + Len(Table(inode.single)))
              = Pointer(Table(Pointer(Table(inode.double), 0)), 0)
  <1> DEFINE t == Table(inode.single)
             n == NB_DIRECT + Len(t)
  <1>1. Len(t) \in Nat /\ n - NB_DIRECT = Len(t)
    BY DEF NB_DIRECT
  <1>2. Pointer(t, Len(t)) = 0
    BY <1>1 DEF Pointer
  <1> HIDE DEF n
  <1>3. BlockOf(inode, n) = IF t # <<>> THEN Pointer(Table(Pointer(Table(inode.double), 0)), 0)
                            ELSE Pointer(t, Len(t))
    BY <1>1 DEF BlockOf
  <1> QED
    BY <1>2, <1>3 DEF n

\* Past it there is none.
LEMMA NoBlockBeyond ==
    ASSUME NEW inode, Table(inode.single) \in Seq(Nat)
    PROVE  BlockOf(inode, NB_DIRECT + Len(Table(inode.single)) + 1) = 0
  <1> DEFINE t == Table(inode.single)
             n == NB_DIRECT + Len(t) + 1
  <1>1. Len(t) \in Nat /\ n - NB_DIRECT = Len(t) + 1
    BY DEF NB_DIRECT
  <1>2. Pointer(t, Len(t) + 1) = 0
    BY <1>1 DEF Pointer
  <1> HIDE DEF n
  <1>3. BlockOf(inode, n) = Pointer(t, Len(t) + 1)
    BY <1>1 DEF BlockOf
  <1> QED
    BY <1>2, <1>3 DEF n

\* The block that is read is the one that is next.
LEMMA BlockIsNext ==
    ASSUME NEW c \in CallRecords, PhaseIn(c), TablesIn(c),
           c.phase \in {"direct", "single", "inner"},
           Wanted(c) # 0, BlockOf(Inode[c.inode], BlocksRead(c)) # 0
    PROVE  BlockIn(c) = BlockOf(Inode[c.inode], BlocksRead(c))
  <1> DEFINE inode == Inode[c.inode]
  <1>1. c.i \in Nat /\ c.inode \in DOMAIN Inode
    BY DEF CallRecords, PhaseIn
  <1>2. Table(inode.single) \in Seq(Nat)
    BY <1>1, InodeIs, TableIs
  <1>3. CASE c.phase = "direct"
    <2>1. c.i < NB_DIRECT /\ BlocksRead(c) = c.i
      BY <1>3 DEF Wanted, BlocksRead
    <2>2. c.i - NB_DIRECT < 0
      BY <1>1, <2>1 DEF NB_DIRECT
    <2> QED
      BY <1>3, <2>1, <2>2 DEF BlockOf, BlockIn
  <1>4. CASE c.phase = "single"
    <2>1. c.single = Table(inode.single) /\ BlocksRead(c) = NB_DIRECT + c.i
      BY <1>4 DEF TablesIn, BlocksRead
    <2>2. c.i < Len(c.single)
      BY <1>4 DEF Wanted, Pointer
    <2>3. BlocksRead(c) - NB_DIRECT = c.i /\ c.i # Len(c.single) /\ ~(c.i < 0)
      BY <1>1, <1>2, <2>1, <2>2 DEF NB_DIRECT
    <2> QED
      BY <1>4, <2>1, <2>3 DEF BlockOf, BlockIn
  <1>5. CASE c.phase = "inner"
    <2>1. /\ c.i = 0 /\ c.single = Table(inode.double) /\ c.double = Table(Pointer(c.single, 0))
          /\ BlocksRead(c) = NB_DIRECT + Len(Table(inode.single))
      BY <1>5 DEF TablesIn, BlocksRead
    <2>2. BlockOf(inode, BlocksRead(c)) = Pointer(Table(Pointer(Table(inode.double), 0)), 0)
      BY <1>2, <2>1, InnerBlock
    <2> QED
      BY <1>5, <2>1, <2>2 DEF BlockIn
  <1> QED
    BY <1>3, <1>4, <1>5

\* While anything is left a loop ends when it has gone through its table, and
\* the loops over the doubly indirect part do not end.
LEMMA LoopEnds ==
    ASSUME NEW c \in CallRecords, PhaseIn(c), TablesIn(c), c.phase \in LoopPhases,
           Wanted(c) = 0, BlockOf(Inode[c.inode], BlocksRead(c)) # 0
    PROVE  /\ c.phase = "direct" => BlocksRead(c) = NB_DIRECT
           /\ c.phase = "single" => BlocksRead(c) = NB_DIRECT + Len(Table(Inode[c.inode].single))
           /\ c.phase \notin {"double", "inner"}
  <1> DEFINE inode == Inode[c.inode]
  <1>1. c.i \in Nat /\ c.inode \in DOMAIN Inode
    BY DEF CallRecords, PhaseIn
  <1>2. Table(inode.single) \in Seq(Nat)
    BY <1>1, InodeIs, TableIs
  <1>3. ASSUME c.phase = "direct"
        PROVE  c.i = NB_DIRECT /\ BlocksRead(c) = c.i
    <2>1. BlocksRead(c) = c.i /\ c.i <= NB_DIRECT
      BY <1>3 DEF TablesIn, BlocksRead
    <2>2. ASSUME c.i < NB_DIRECT PROVE FALSE
      <3>1. c.i - NB_DIRECT < 0
        BY <1>1, <2>2 DEF NB_DIRECT
      <3>2. BlockOf(inode, c.i) = inode.direct[c.i + 1]
        BY <3>1 DEF BlockOf
      <3> QED
        BY <1>3, <2>1, <2>2, <3>2 DEF Wanted
    <2> QED
      BY <1>1, <2>1, <2>2 DEF NB_DIRECT
  <1>4. ASSUME c.phase = "single"
        PROVE  c.i = Len(Table(inode.single)) /\ BlocksRead(c) = NB_DIRECT + c.i
    <2>1. /\ c.single = Table(inode.single) /\ BlocksRead(c) = NB_DIRECT + c.i
          /\ c.i <= Len(c.single)
      BY <1>4 DEF TablesIn, BlocksRead
    <2>2. ASSUME c.i # Len(c.single) PROVE FALSE
      <3>1. BlocksRead(c) - NB_DIRECT = c.i /\ ~(c.i < 0)
        <4> DEFINE n == BlocksRead(c)
        <4>1. n = NB_DIRECT + c.i
          BY <2>1
        <4> HIDE DEF n
        <4>2. n - NB_DIRECT = c.i /\ ~(c.i < 0)
          BY <1>1, <4>1 DEF NB_DIRECT
        <4> QED
          BY <4>2 DEF n
      <3>2. BlockOf(inode, BlocksRead(c)) = Pointer(c.single, c.i)
        BY <2>1, <2>2, <3>1 DEF BlockOf
      <3> QED
        BY <1>4, <3>2 DEF Wanted
    <2> QED
      BY <2>1, <2>2
  <1>5. c.phase \notin {"double", "inner"}
    <2> SUFFICES ASSUME c.phase \in {"double", "inner"} PROVE FALSE
      OBVIOUS
    <2>1. /\ c.i = 0 /\ c.single = Table(inode.double)
          /\ BlocksRead(c) = NB_DIRECT + Len(Table(inode.single))
      BY DEF TablesIn, BlocksRead
    <2>2. Pointer(Table(Pointer(Table(inode.double), 0)), 0) # 0
      BY <1>2, <2>1, InnerBlock
    <2>3. CASE c.phase = "inner"
      BY <2>1, <2>2, <2>3 DEF TablesIn, Wanted
    <2>4. CASE c.phase = "double"
      <3>1. Pointer(Table(inode.double), 0) = 0
        BY <2>1, <2>4 DEF Wanted
      <3>2. Table(0) = <<>> /\ Pointer(<<>>, 0) = 0
        BY TableIs DEF Pointer
      <3> QED
        BY <2>2, <3>1, <3>2
    <2> QED
      BY <2>3, <2>4
  <1> QED
    BY <1>3, <1>4, <1>5

-----------------------------------------------------------------------------
(* What a block adds to the file.                                          *)

LEMMA FileByteIs ==
    ASSUME NEW inode, NEW n \in Nat, NEW k \in Nat,
           n * BlockSize < k, k <= n * BlockSize + BlockSize
    PROVE  FileByte(inode, k) = BlockOf(inode, n) * BlockSize + (k - n * BlockSize - 1)
  <1> DEFINE m == n * BlockSize
             r == k - m - 1
  <1>1. BlockSize \in Nat \ {0} /\ m \in Nat
    BY SizesAssumption
  <1>2. r \in Nat /\ r < BlockSize /\ k - 1 = m + r
    <2> HIDE DEF m
    <2>1. m < k /\ k <= m + BlockSize
      BY DEF m
    <2> QED
      BY <1>1, <2>1
  <1> HIDE DEF r
  <1>3. (n * BlockSize + r) \div BlockSize = n /\ (n * BlockSize + r) % BlockSize = r
    BY <1>1, <1>2, DivisionOf
  <1>4. FileByte(inode, k) = BlockOf(inode, n) * BlockSize + r
    BY <1>2, <1>3 DEF FileByte
  <1> QED
    BY <1>4 DEF r

\* A file with the first n bytes of block b after it.
WithBlock(content, b, n) == content \o SubSeq(Block(b), 1, n)

\* What is read of block b when left bytes are missing, after content.
Lengthens(content, left, b) ==
    LET n == Copied(left)
        t == WithBlock(content, b, n)
    IN  /\ t \in Seq(Nat) /\ left - n \in Nat /\ Len(t) + (left - n) = Len(content) + left
        /\ n <= BlockSize /\ (left - n > 0 => n = BlockSize) /\ n <= left
        /\ Len(t) = Len(content) + n
        /\ \A k \in 1..Len(t) :
              t[k] = IF k <= Len(content) THEN content[k]
                     ELSE b * BlockSize + (k - Len(content) - 1)

LEMMA KeepIs ==
    ASSUME NEW content \in Seq(Nat), NEW left \in Nat, NEW b \in Nat
    PROVE  Lengthens(content, left, b)
  <1> DEFINE buf == Bytes(b * BlockSize, BlockSize)
             n == Copied(left)
             u == SubSeq(buf, 1, n)
             t == content \o u
  <1>1. BlockSize \in Nat /\ b * BlockSize \in Nat
    BY SizesAssumption
  <1>2. n \in Nat /\ n <= BlockSize /\ (left - n > 0 => n = BlockSize) /\ n <= left
    BY <1>1 DEF Copied
  <1> HIDE DEF n
  <1>3. u \in Seq(Nat) /\ Len(u) = n /\ \A i \in 1..n : u[i] = b * BlockSize + i - 1
    <2> DEFINE a == b * BlockSize
    <2>1. a \in Nat
      BY <1>1
    <2> HIDE DEF a
    <2>2. Part(a, BlockSize, 1, n) = Bytes(a + 1 - 1, n - 1 + 1)
      BY <1>1, <1>2, <2>1, PartOfBytes
    <2>3. a + 1 - 1 = a /\ n - 1 + 1 = n
      BY <1>2, <2>1
    <2>4. u = Bytes(a, n)
      BY <2>2, <2>3 DEF Part, a, u
    <2>5. /\ Bytes(a, n) \in Seq(Nat) /\ Len(Bytes(a, n)) = n
          /\ \A i \in 1..n : Bytes(a, n)[i] = a + i - 1
      BY <1>2, <2>1, BytesAre
    <2> QED
      BY <2>4, <2>5 DEF a
  <1> HIDE DEF u
  <1>4. /\ t \in Seq(Nat) /\ Len(t) = Len(content) + n /\ Len(content) \in Nat
        /\ \A k \in 1..(Len(content) + n) :
              t[k] = IF k <= Len(content) THEN content[k] ELSE u[k - Len(content)]
    <2>1. Len(content) \in Nat
      OBVIOUS
    <2> QED
      BY <1>3, <2>1, ConcatProperties
  <1> HIDE DEF t
  <1>5. ASSUME NEW k \in 1..Len(t), ~(k <= Len(content))
        PROVE  t[k] = b * BlockSize + (k - Len(content) - 1)
    <2>1. k - Len(content) \in 1..n
      BY <1>2, <1>4, <1>5
    <2>2. t[k] = b * BlockSize + (k - Len(content)) - 1
      BY <1>3, <1>4, <1>5, <2>1
    <2> QED
      BY <1>1, <1>4, <2>1, <2>2
  <1>6. \A k \in 1..Len(t) :
            t[k] = IF k <= Len(content) THEN content[k] ELSE b * BlockSize + (k - Len(content) - 1)
    BY <1>4, <1>5
  <1>7. left - n \in Nat /\ Len(t) + (left - n) = Len(content) + left
    BY <1>2, <1>4
  <1> QED
    BY <1>2, <1>4, <1>6, <1>7 DEF t, u, n, WithBlock, Block, Lengthens

\* The block that was read is the next of the file, if anything is left.
LEMMA BlockAdds ==
    ASSUME NEW c \in CallRecords, PhaseIn(c), ContentIn(c),
           c.phase \in {"direct", "single", "inner"},
           c.pc = "got", c.buf = Bytes(c.offset, c.size)
    PROVE  LET inode == Inode[c.inode]
               content == Keep(c).content
               left == Keep(c).left
           IN  /\ content \in Seq(Nat) /\ left \in Nat /\ Len(content) + left = inode.size
               /\ HasItsBlocks(inode) => \A k \in 1..Len(content) : content[k] = FileByte(inode, k)
               /\ (HasItsBlocks(inode) /\ left > 0) =>
                     /\ TablesIn(c) /\ Len(content) = (BlocksRead(c) + 1) * BlockSize
                     /\ BlockOf(inode, BlocksRead(c) + 1) # 0
                     /\ BlocksRead(c) \in Nat
  <1> DEFINE inode == Inode[c.inode]
             b == BlockIn(c)
             n == BlocksRead(c)
             m == Copied(c.left)
             content == WithBlock(c.content, b, m)
             left == c.left - m
  <1>1. c.i \in Nat /\ c.left \in Nat /\ c.content \in Seq(Nat) /\ c.inode \in DOMAIN Inode
        /\ c.single \in Seq(Nat) /\ c.double \in Seq(Nat) /\ Len(c.content) \in Nat
    BY DEF CallRecords, PhaseIn
  <1>2. Wanted(c) # 0 /\ c.offset = b * BlockSize /\ c.size = BlockSize /\ inode.size \in Nat
    BY <1>1, InodeIs DEF PhaseIn, Fetching, FilePhases
  <1>3. Keep(c).content = content /\ Keep(c).left = left
    BY <1>2 DEF Keep, CallRecords, WithBlock, Block
  <1>4. b \in Nat
    <2>1. CASE c.phase = "direct"
      <3>1. c.i < NB_DIRECT
        BY <1>2, <2>1 DEF Wanted
      <3>2. c.i + 1 \in 1..Len(inode.direct) /\ inode.direct \in Seq(Nat)
        <4>1. inode.direct \in Seq(Nat) /\ Len(inode.direct) = NB_DIRECT
          BY <1>1, InodeIs
        <4> QED
          BY <1>1, <3>1, <4>1 DEF NB_DIRECT
      <3>3. inode.direct[c.i + 1] \in Nat
        BY <3>2
      <3> QED
        BY <2>1, <3>3 DEF BlockIn
    <2>2. CASE c.phase = "single"
      BY <1>1, <2>2, PointerIs DEF BlockIn
    <2>3. CASE c.phase = "inner"
      BY <1>1, <2>3, PointerIs DEF BlockIn
    <2> QED
      BY <2>1, <2>2, <2>3
  <1>5. ~(c.left > 0) => c.left = 0
    BY <1>1
  <1>6. (HasItsBlocks(inode) /\ c.left > 0) =>
            /\ n \in Nat /\ TablesIn(c) /\ Len(c.content) = n * BlockSize
            /\ BlockOf(inode, n) # 0 /\ b = BlockOf(inode, n)
    BY Continues, BlockIsNext, <1>2
  <1>7. /\ Len(c.content) + c.left = inode.size
        /\ HasItsBlocks(inode) => \A k \in 1..Len(c.content) : c.content[k] = FileByte(inode, k)
    BY DEF ContentIn
  <1> HIDE DEF b, n, inode
  <1>8. /\ content \in Seq(Nat) /\ left \in Nat /\ Len(content) + left = Len(c.content) + c.left
        /\ m <= BlockSize /\ (left > 0 => m = BlockSize) /\ m <= c.left
        /\ Len(content) = Len(c.content) + m
        /\ \A k \in 1..Len(content) :
              content[k] = IF k <= Len(c.content) THEN c.content[k]
                           ELSE b * BlockSize + (k - Len(c.content) - 1)
    <2> HIDE DEF content, left, m
    <2>1. /\ content = WithBlock(c.content, b, Copied(c.left))
          /\ left = c.left - Copied(c.left) /\ m = Copied(c.left)
      BY DEF content, left, m
    <2> QED
      <3>1. Lengthens(c.content, c.left, b)
        BY <1>1, <1>4, KeepIs
      <3> QED
        BY <2>1, <3>1 DEF Lengthens
  <1>9. m \in Nat
    BY <1>1, SizesAssumption DEF Copied
  <1> HIDE DEF content, left, m
  <1>10. ASSUME HasItsBlocks(inode), NEW k \in 1..Len(content)
         PROVE  content[k] = FileByte(inode, k)
    <2>1. CASE k <= Len(c.content)
      <3>1. k \in 1..Len(c.content)
        BY <1>1, <2>1
      <3>2. content[k] = c.content[k]
        BY <1>8, <2>1
      <3> QED
        BY <1>7, <1>10, <3>1, <3>2
    <2>2. CASE ~(k <= Len(c.content))
      <3>1. c.left > 0 /\ k \in Nat
        BY <1>1, <1>5, <1>8, <1>9, <2>2
      <3>2. n * BlockSize = Len(c.content) /\ n \in Nat /\ b = BlockOf(inode, n)
        BY <1>6, <1>10, <3>1
      <3>3. n * BlockSize < k /\ k <= n * BlockSize + BlockSize
        <4>1. k <= Len(c.content) + BlockSize /\ Len(c.content) < k
          <5>1. k \in Nat /\ k <= Len(c.content) + m /\ BlockSize \in Nat /\ m <= BlockSize
            BY <1>8, SizesAssumption
          <5> QED
            BY <1>1, <1>9, <2>2, <5>1
        <4> QED
          BY <3>2, <4>1
      <3>4. FileByte(inode, k) = BlockOf(inode, n) * BlockSize + (k - n * BlockSize - 1)
        BY <3>1, <3>2, <3>3, FileByteIs
      <3> QED
        BY <1>8, <2>2, <3>2, <3>4
    <2> QED
      BY <2>1, <2>2
  <1>11. ASSUME HasItsBlocks(inode), left > 0
         PROVE  /\ TablesIn(c) /\ Len(content) = (n + 1) * BlockSize
                /\ BlockOf(inode, n + 1) # 0 /\ n \in Nat
    <2>1. c.left > 0 /\ m = BlockSize
      BY <1>1, <1>8, <1>9, <1>11
    <2>2. n \in Nat /\ TablesIn(c) /\ Len(c.content) = n * BlockSize
      BY <1>6, <1>11, <2>1
    <2>3. (n + 1) * BlockSize = n * BlockSize + BlockSize
      BY <2>2, SizesAssumption
    <2>4. Len(content) = (n + 1) * BlockSize
      BY <1>8, <2>1, <2>2, <2>3
    <2>5. Len(content) < inode.size /\ Len(content) \in Nat
      BY <1>2, <1>7, <1>8, <1>11 DEF inode
    <2>6. BlockOf(inode, n + 1) # 0
      BY <1>2, <1>11, <2>2, <2>4, <2>5, NeedsBlock DEF inode
    <2> QED
      BY <2>2, <2>4, <2>6
  <1> QED
    BY <1>3, <1>7, <1>8, <1>10, <1>11 DEF n, inode

-----------------------------------------------------------------------------
(* The loops of Ext2ReadFile.                                              *)

LEMMA ProcHolds ==
    ASSUME IInv, NEW p \in Procs, call[p].pc \in {"got", "loop"}
    PROVE  LET c == call[p]
           IN  /\ c \in CallRecords /\ HeldIn(c) /\ PhaseIn(c) /\ ContentIn(c) /\ disk # NONE
               /\ c.pc = "got" => c.buf = Bytes(c.offset, c.size)
               /\ c.inode \in DOMAIN Inode
  <1>1. p \in Readers /\ p # KERNEL /\ call[p].pc # "idle"
    BY ReadersAre
  <1>2. call[p] \in CallRecords /\ HeldIn(call[p]) /\ FileIn(call[p]) /\ disk # NONE
        /\ ReadIn(call[p])
    BY <1>1, CallHolds
  <1> QED
    BY <1>1, <1>2 DEF FileIn, PhaseIn, ReadIn

\* A step of a process outside AtaRead.
LEMMA LoopKeeps ==
    ASSUME IInv, NEW p \in Procs, NEW d \in CallRecords, call[p].pc \in {"got", "loop"},
           masked \in {NOBODY, p}, Goto(p, d), UNCHANGED <<lba, masked, disk, calls>>,
           d.pc \in {"loop", "refused", "done"}, HeldIn(d), PhaseIn(d), ContentIn(d)
    PROVE  IInv'
  <1>1. p \in Readers /\ p # KERNEL /\ disk # NONE
    BY ReadersAre, ProcHolds
  <1>2. ReadIn(d)
    BY DEF ReadIn, Commanding
  <1>3. FileIn(d)
    BY DEF FileIn
  <1>4. lba' \in Nat /\ calls' \in [Readers -> Nat]
    BY DEF IInv, Typed
  <1>5. d.pc \notin Masking /\ d.pc # "answer"
    BY DEF Masking
  <1> QED
    BY <1>1, <1>2, <1>3, <1>4, <1>5, StepKeeps

\* Ext2ReadInode returns the inode; the file's content has a block, or the call is
\* over.
LEMMA GotInodeKeeps ==
    ASSUME IInv, NEW p \in Procs, Got(p), call[p].phase = "inode"
    PROVE  IInv'
  <1> DEFINE c == call[p]
             inode == Inode[c.inode]
             refused == Refused(inode.size)
             to == IF refused THEN "refused" ELSE "loop"
             holds == IF refused THEN {"inode"} ELSE {"inode", "fileContent", "block"}
             d == Opened(c)
  <1>1. c.pc = "got" /\ masked \in {NOBODY, p} /\ UNCHANGED <<lba, masked, disk, calls>>
    BY DEF Got, At
  <1>2. Goto(p, d)
    BY DEF Got
  <1>3. /\ c \in CallRecords /\ HeldIn(c) /\ PhaseIn(c) /\ disk # NONE
        /\ c.buf = Bytes(c.offset, c.size) /\ c.inode \in DOMAIN Inode
    BY <1>1, ProcHolds
  <1>4. c.buf = InodeBytes(c.inode)
    <2>1. c.offset = InodeOffset(c.inode) /\ c.size = InodeSize
      BY <1>1, <1>3 DEF PhaseIn, Fetching
    <2> QED
      BY <1>3, <2>1, InodeOffsetIs
  <1>5. c.content = <<>> /\ c.i = 0 /\ c.held = {"inode"}
    BY <1>1, <1>3 DEF PhaseIn, HeldIn, Masking
  <1>6. inode.size \in Nat
    BY <1>3, InodeIs
  <1>7. c.phase = "inode"
    OBVIOUS
  <1>8. d = [c EXCEPT !.pc = to, !.buf = <<>>, !.phase = "direct", !.left = inode.size,
                      !.wrong = FALSE, !.held = holds]
    BY <1>4, <1>5 DEF Opened
  <1>9. <<>> \in Seq(Nat) /\ holds \in SUBSET Held /\ to \in Pcs
    BY DEF Held, Pcs
  <1>15. /\ refused => to = "refused" /\ holds = {"inode"}
         /\ ~refused => to = "loop" /\ holds = {"inode", "fileContent", "block"}
    OBVIOUS
  <1> HIDE DEF c, d, inode, to, holds
  <1>10. d \in CallRecords
    BY <1>3, <1>6, <1>8, <1>9 DEF CallRecords, Phases
  <1>11. /\ d.pc = to /\ d.phase = "direct" /\ d.left = inode.size /\ d.wrong = FALSE
         /\ d.held = holds /\ d.inode = c.inode
         /\ d.content = <<>> /\ d.i = 0
    BY <1>3, <1>5, <1>8 DEF CallRecords
  <1>12. HeldIn(d)
    BY <1>11, <1>15 DEF HeldIn, Masking
  <1>13. PhaseIn(d)
    <2>1. d.pc = "refused" => Refused(Inode[d.inode].size)
      BY <1>11, <1>15 DEF inode
    <2> QED
      BY <1>3, <1>11, <1>15, <2>1 DEF PhaseIn, Masking, Fetching, FilePhases, LoopPhases
  <1>14. ContentIn(d)
    <2>1. Len(d.content) = 0 /\ 0 * BlockSize = 0
      BY <1>11, SizesAssumption
    <2>2. TablesIn(d) /\ BlocksRead(d) = 0
      BY <1>11 DEF TablesIn, BlocksRead, NB_DIRECT
    <2> QED
      BY <1>6, <1>11, <2>1, <2>2 DEF ContentIn, inode
  <1> QED
    BY <1>1, <1>2, <1>10, <1>11, <1>12, <1>13, <1>14, <1>15, LoopKeeps DEF c

\* A table of pointers has been read: the loop over it begins.
LEMMA GotTableKeeps ==
    ASSUME IInv, NEW p \in Procs, Got(p),
           call[p].phase \in {"singleTable", "doubleTable", "innerTable"}
    PROVE  IInv'
  <1> DEFINE c == call[p]
             inode == Inode[c.inode]
             t == AsPointers(c.buf)
             d == IF c.phase = "innerTable"
                  THEN [c EXCEPT !.pc = "loop", !.buf = <<>>, !.phase = "inner",
                                 !.double = t, !.j = 0]
                  ELSE [c EXCEPT !.pc = "loop", !.buf = <<>>,
                                 !.phase = IF c.phase = "singleTable" THEN "single" ELSE "double",
                                 !.single = t, !.i = 0]
  <1>1. c.pc = "got" /\ masked \in {NOBODY, p} /\ UNCHANGED <<lba, masked, disk, calls>>
    BY DEF Got, At
  <1>2. Goto(p, d)
    BY DEF Got
  <1>3. /\ c \in CallRecords /\ HeldIn(c) /\ PhaseIn(c) /\ ContentIn(c)
        /\ c.buf = Bytes(c.offset, c.size) /\ c.inode \in DOMAIN Inode
        /\ c.phase \in {"singleTable", "doubleTable", "innerTable"}
    BY <1>1, ProcHolds
  <1>4. BlockIn(c) \in Nat
    <2>1. inode.single \in Nat /\ inode.double \in Nat /\ c.single \in Seq(Nat) /\ c.i \in Nat
      BY <1>3, InodeIs DEF CallRecords
    <2> QED
      BY <1>3, <2>1, PointerIs DEF BlockIn
  <1>5. t = Table(BlockIn(c)) /\ t \in Seq(Nat)
    <2>1. c.buf = Bytes(BlockIn(c) * BlockSize, BlockSize)
      BY <1>1, <1>3 DEF PhaseIn, Fetching, FilePhases
    <2> QED
      BY <1>4, <2>1, TableIsRead, TableIs
  <1>6. <<>> \in Seq(Nat)
    OBVIOUS
  <1> HIDE DEF c, t
  <1>7. d \in CallRecords
    BY <1>3, <1>5, <1>6 DEF CallRecords, Pcs, Phases
  <1>8. /\ d.pc = "loop" /\ d.held = c.held /\ d.inode = c.inode /\ d.left = c.left
        /\ d.wrong = c.wrong /\ d.content = c.content
        /\ c.phase = "singleTable" => d.phase = "single" /\ d.single = t /\ d.i = 0
        /\ c.phase = "doubleTable" => d.phase = "double" /\ d.single = t /\ d.i = 0
        /\ c.phase = "innerTable" => /\ d.phase = "inner" /\ d.double = t /\ d.j = 0
                                     /\ d.i = c.i /\ d.single = c.single
    BY <1>3 DEF CallRecords
  <1> HIDE DEF d
  <1>9. HeldIn(d)
    BY <1>1, <1>3, <1>8 DEF HeldIn, Masking
  <1>10. PhaseIn(d)
    BY <1>3, <1>8 DEF PhaseIn, Masking, Fetching, FilePhases, LoopPhases
  <1>11. ContentIn(d)
    <2>1. /\ ~d.wrong /\ Len(d.content) + d.left = inode.size /\ d.phase # "inode"
          /\ HasItsBlocks(inode) => \A k \in 1..Len(d.content) : d.content[k] = FileByte(inode, k)
      BY <1>3, <1>8 DEF ContentIn
    <2>2. ASSUME HasItsBlocks(inode), d.left > 0
          PROVE  TablesIn(d) /\ Len(d.content) = BlocksRead(d) * BlockSize
      <3>1. TablesIn(c) /\ Len(c.content) = BlocksRead(c) * BlockSize
        BY <1>3, <1>8, <2>2 DEF ContentIn
      <3>2. BlocksRead(d) = BlocksRead(c)
        BY <1>3, <1>8 DEF BlocksRead, NB_DIRECT
      <3>3. TablesIn(d)
        <4>1. CASE c.phase = "singleTable"
          <5>1. t = Table(inode.single) /\ 0 <= Len(t)
            BY <1>5, <4>1 DEF BlockIn
          <5> QED
            BY <1>8, <4>1, <5>1 DEF TablesIn
        <4>2. CASE c.phase = "doubleTable"
          <5>1. t = Table(inode.double)
            BY <1>5, <4>2 DEF BlockIn
          <5> QED
            BY <1>8, <4>2, <5>1 DEF TablesIn
        <4>3. CASE c.phase = "innerTable"
          <5>1. c.i = 0 /\ c.single = Table(inode.double)
            BY <3>1, <4>3 DEF TablesIn
          <5>2. t = Table(Pointer(c.single, 0))
            BY <1>5, <4>3, <5>1 DEF BlockIn
          <5> QED
            BY <1>8, <4>3, <5>1, <5>2 DEF TablesIn
        <4> QED
          BY <1>3, <4>1, <4>2, <4>3
      <3> QED
        BY <1>8, <3>1, <3>2, <3>3
    <2> QED
      BY <1>8, <2>1, <2>2 DEF ContentIn
  <1> QED
    BY <1>1, <1>2, <1>7, <1>8, <1>9, <1>10, <1>11, LoopKeeps DEF c

\* A block of the file has been read.
LEMMA GotBlockKeeps ==
    ASSUME IInv, NEW p \in Procs, Got(p), call[p].phase \in {"direct", "single", "inner"}
    PROVE  IInv'
  <1> DEFINE c == call[p]
             inode == Inode[c.inode]
             e == Keep(c)
             d == IF c.phase = "inner" THEN [e EXCEPT !.pc = "loop", !.buf = <<>>, !.j = @ + 1]
                  ELSE [e EXCEPT !.pc = "loop", !.buf = <<>>, !.i = @ + 1]
  <1>1. c.pc = "got" /\ masked \in {NOBODY, p} /\ UNCHANGED <<lba, masked, disk, calls>>
    BY DEF Got, At
  <1>2. Goto(p, d)
    BY DEF Got
  <1>3. /\ c \in CallRecords /\ HeldIn(c) /\ PhaseIn(c) /\ ContentIn(c)
        /\ c.buf = Bytes(c.offset, c.size) /\ c.inode \in DOMAIN Inode
        /\ c.phase \in {"direct", "single", "inner"}
    BY <1>1, ProcHolds
  <1> HIDE DEF c
  <1>4. /\ e.content \in Seq(Nat) /\ e.left \in Nat /\ Len(e.content) + e.left = inode.size
        /\ HasItsBlocks(inode) => \A k \in 1..Len(e.content) : e.content[k] = FileByte(inode, k)
        /\ (HasItsBlocks(inode) /\ e.left > 0) =>
              /\ TablesIn(c) /\ Len(e.content) = (BlocksRead(c) + 1) * BlockSize
              /\ BlockOf(inode, BlocksRead(c) + 1) # 0
              /\ BlocksRead(c) \in Nat
    BY <1>1, <1>3, BlockAdds
  <1>5. e = [c EXCEPT !.content = e.content, !.left = e.left]
    BY <1>3 DEF Keep, CallRecords
  <1>6. <<>> \in Seq(Nat) /\ c.i + 1 \in Nat /\ c.j + 1 \in Nat
    BY <1>3 DEF CallRecords
  <1> HIDE DEF e, inode
  <1>7. d \in CallRecords
    BY <1>3, <1>4, <1>5, <1>6 DEF CallRecords, Pcs
  <1>8. /\ d.pc = "loop" /\ d.held = c.held /\ d.inode = c.inode /\ d.phase = c.phase
        /\ d.left = e.left /\ d.wrong = c.wrong /\ d.content = e.content
        /\ d.single = c.single /\ d.double = c.double
        /\ c.phase # "inner" => d.i = c.i + 1
    BY <1>3, <1>5 DEF CallRecords
  <1> HIDE DEF d
  <1>9. HeldIn(d)
    BY <1>1, <1>3, <1>8 DEF HeldIn, Masking
  <1>10. PhaseIn(d)
    BY <1>3, <1>8 DEF PhaseIn, Masking, Fetching, FilePhases, LoopPhases
  <1>11. ~d.wrong
    BY <1>3, <1>8 DEF ContentIn
  <1>12. ASSUME HasItsBlocks(inode), d.left > 0
         PROVE  TablesIn(d) /\ Len(d.content) = BlocksRead(d) * BlockSize
    <2>1. /\ TablesIn(c) /\ Len(e.content) = (BlocksRead(c) + 1) * BlockSize
          /\ BlockOf(inode, BlocksRead(c) + 1) # 0
      BY <1>4, <1>8, <1>12
    <2>2. Wanted(c) # 0
      BY <1>1, <1>3 DEF PhaseIn, Fetching
    <2>3. c.i \in Nat /\ Table(inode.single) \in Seq(Nat)
      BY <1>3, InodeIs, TableIs DEF CallRecords, inode
    <2>4. CASE c.phase = "direct"
      <3>1. BlocksRead(c) = c.i /\ BlocksRead(d) = c.i + 1
        BY <1>8, <2>4 DEF BlocksRead
      <3>2. c.i + 1 <= NB_DIRECT
        BY <2>2, <2>3, <2>4 DEF Wanted, NB_DIRECT
      <3> QED
        BY <1>8, <2>1, <2>4, <3>1, <3>2 DEF TablesIn
    <2>5. CASE c.phase = "single"
      <3>1. BlocksRead(c) = NB_DIRECT + c.i /\ BlocksRead(d) = NB_DIRECT + (c.i + 1)
        BY <1>8, <2>5 DEF BlocksRead
      <3>2. BlocksRead(d) = BlocksRead(c) + 1
        BY <2>3, <3>1 DEF NB_DIRECT
      <3>3. c.single = Table(inode.single)
        BY <2>1, <2>5 DEF TablesIn, inode
      <3>4. c.i < Len(c.single)
        BY <2>2, <2>5 DEF Wanted, Pointer
      <3>5. c.i + 1 <= Len(c.single)
        BY <2>3, <3>3, <3>4
      <3> QED
        BY <1>8, <2>1, <2>5, <3>2, <3>3, <3>5 DEF TablesIn, inode
    <2>6. CASE c.phase = "inner"
      <3>1. BlocksRead(c) = NB_DIRECT + Len(Table(inode.single))
        BY <2>6 DEF BlocksRead, inode
      <3> QED
        BY <2>1, <2>3, <3>1, NoBlockBeyond
    <2> QED
      BY <1>3, <2>4, <2>5, <2>6
  <1>13. ContentIn(d)
    BY <1>4, <1>8, <1>11, <1>12 DEF ContentIn, inode
  <1> QED
    BY <1>1, <1>2, <1>7, <1>8, <1>9, <1>10, <1>13, LoopKeeps DEF c

LEMMA GotKeeps == ASSUME IInv, NEW p \in Procs, Got(p) PROVE IInv'
  <1>1. call[p].pc = "got"
    BY DEF Got, At
  <1>2. PhaseIn(call[p])
    BY <1>1, ProcHolds
  <1>3. call[p].phase \in {"inode", "singleTable", "doubleTable", "innerTable",
                           "direct", "single", "inner"}
    BY <1>1, <1>2 DEF PhaseIn, FilePhases, Fetching
  <1> QED
    BY <1>3, GotInodeKeeps, GotTableKeeps, GotBlockKeeps

LEMMA ReadBlockKeeps == ASSUME IInv, NEW p \in Procs, ReadBlock(p) PROVE IInv'
  <1> DEFINE c == call[p]
             inode == Inode[c.inode]
             e == [c EXCEPT !.phase = IF c.phase = "double" THEN "innerTable" ELSE c.phase]
             d == Asking(e, Taken(c) * BlockSize, BlockSize)
  <1>1. /\ c.pc = "loop" /\ masked \in {NOBODY, p} /\ Wanted(c) # 0 /\ UNCHANGED <<disk, calls>>
        /\ AtaRead(p, e, Taken(c) * BlockSize, BlockSize)
    BY DEF ReadBlock, At
  <1>2. /\ c \in CallRecords /\ HeldIn(c) /\ PhaseIn(c) /\ ContentIn(c) /\ disk # NONE
        /\ c.inode \in DOMAIN Inode /\ c.phase \in LoopPhases
    <2>1. c \in CallRecords /\ HeldIn(c) /\ PhaseIn(c) /\ ContentIn(c) /\ disk # NONE
      BY <1>1, ProcHolds
    <2> QED
      BY <1>1, <2>1 DEF PhaseIn
  <1> HIDE DEF c
  <1>3. Taken(c) \in Nat
    <2>1. c.i \in Nat /\ c.j \in Nat /\ c.single \in Seq(Nat) /\ c.double \in Seq(Nat)
      BY <1>2 DEF CallRecords
    <2>2. Pointer(c.single, c.i) \in Nat /\ Pointer(c.double, c.i) \in Nat
      BY <2>1, PointerIs
    <2>3. (c.phase = "direct" /\ c.i < NB_DIRECT) => inode.direct[c.i + 1] \in Nat
      <3>1. inode.direct \in Seq(Nat) /\ Len(inode.direct) = NB_DIRECT
        BY <1>2, InodeIs
      <3> QED
        BY <2>1, <3>1 DEF NB_DIRECT
    <2> QED
      BY <1>2, <2>2, <2>3 DEF Taken, Wanted, LoopPhases
  <1>4. BlockSize \in Nat /\ Taken(c) * BlockSize \in Nat
    BY <1>3, SizesAssumption
  <1>5. /\ e \in CallRecords /\ e.phase = IF c.phase = "double" THEN "innerTable" ELSE c.phase
        /\ e.pc = c.pc /\ e.inode = c.inode /\ e.i = c.i /\ e.j = c.j /\ e.left = c.left
        /\ e.wrong = c.wrong /\ e.content = c.content /\ e.single = c.single
        /\ e.double = c.double /\ e.held = c.held
    BY <1>2 DEF CallRecords, Phases, LoopPhases
  <1> HIDE DEF e
  <1>6. /\ SamePlace(e, d) /\ d.pc = "command" /\ d.held = c.held \cup {"buffer"}
        /\ d.offset = Taken(c) * BlockSize /\ d.size = BlockSize
    BY <1>5, AskingIs
  <1> HIDE DEF d, inode
  <1>7. /\ d.phase = (IF c.phase = "double" THEN "innerTable" ELSE c.phase) /\ d.inode = c.inode
        /\ d.i = c.i /\ d.j = c.j /\ d.left = c.left /\ d.wrong = c.wrong
        /\ d.content = c.content /\ d.single = c.single /\ d.double = c.double
    BY <1>5, <1>6 DEF SamePlace
  <1>8. HeldIn(d)
    BY <1>1, <1>2, <1>6, <1>7 DEF HeldIn, Masking, LoopPhases
  <1>9. BlockIn(d) = Taken(c)
    <2>1. (c.phase = "direct") => c.i < NB_DIRECT
      BY <1>1 DEF Wanted
    <2> QED
      BY <1>2, <1>7, <2>1 DEF BlockIn, Taken, Wanted, LoopPhases
  <1>10. d.phase # "double" /\ d.phase # "inode"
         /\ (d.phase \in {"direct", "single", "inner"} => Wanted(d) # 0)
    BY <1>1, <1>2, <1>7 DEF Wanted, LoopPhases
  <1>11. PhaseIn(d)
    BY <1>2, <1>6, <1>7, <1>9, <1>10 DEF PhaseIn, Masking, Fetching, FilePhases, LoopPhases
  <1>12. ContentIn(d)
    <2>1. BlocksRead(d) = BlocksRead(c)
      BY <1>2, <1>7 DEF BlocksRead, LoopPhases
    <2>2. TablesIn(c) => TablesIn(d)
      BY <1>2, <1>7 DEF TablesIn, LoopPhases
    <2> QED
      BY <1>2, <1>7, <2>1, <2>2 DEF ContentIn, LoopPhases
  <1>13. FileIn(d)
    BY <1>11, <1>12 DEF FileIn
  <1>14. calls' \in [Readers -> Nat] /\ calls' = calls
    BY <1>1 DEF IInv, Typed
  <1> QED
    BY <1>1, <1>2, <1>4, <1>5, <1>8, <1>13, <1>14, ReadersAre, AtaReadKeeps DEF d

\* The loop of phase "direct" or "single" is over.
LEMMA ReadTableKeeps ==
    ASSUME IInv, NEW p \in Procs, NEW from, NEW to, NEW table,
           \/ /\ from = "direct" /\ to = "singleTable"
              /\ table = Inode[call[p].inode].single
           \/ /\ from = "single" /\ to = "doubleTable"
              /\ table = Inode[call[p].inode].double,
           ReadTable(p, from, to, table)
    PROVE  IInv'
  <1> DEFINE c == call[p]
             inode == Inode[c.inode]
             loop == IF to = "singleTable" THEN "single" ELSE "double"
  <1>1. /\ c.pc = "loop" /\ masked \in {NOBODY, p} /\ c.phase = from /\ Wanted(c) = 0
        /\ UNCHANGED <<disk, calls>>
    BY DEF ReadTable, At
  <1>2. /\ c \in CallRecords /\ HeldIn(c) /\ PhaseIn(c) /\ ContentIn(c) /\ disk # NONE
        /\ c.inode \in DOMAIN Inode
    BY <1>1, ProcHolds
  <1>3. inode.single \in Nat /\ inode.double \in Nat /\ table \in Nat
    BY <1>2, InodeIs
  <1>4. \/ from = "direct" /\ to = "singleTable" /\ table = inode.single
        \/ from = "single" /\ to = "doubleTable" /\ table = inode.double
    OBVIOUS
  <1>5. calls' \in [Readers -> Nat] /\ calls' = calls
    BY <1>1 DEF IInv, Typed
  <1>6. /\ table # 0 => AtaRead(p, [c EXCEPT !.phase = to, !.held = @ \cup TablesOf(to)],
                                table * BlockSize, BlockSize)
        /\ table = 0 => /\ Goto(p, [c EXCEPT !.phase = loop, !.single = <<>>, !.i = 0])
                        /\ UNCHANGED <<lba, masked>>
    BY DEF ReadTable
  <1> HIDE DEF c, inode
  <1>7. (HasItsBlocks(inode) /\ c.left > 0) =>
            /\ from = "direct" => BlocksRead(c) = NB_DIRECT
            /\ from = "single" => BlocksRead(c) = NB_DIRECT + Len(Table(inode.single))
            /\ Len(c.content) = BlocksRead(c) * BlockSize
    <2> SUFFICES ASSUME HasItsBlocks(inode), c.left > 0
                 PROVE  /\ from = "direct" => BlocksRead(c) = NB_DIRECT
                        /\ from = "single" => BlocksRead(c) = NB_DIRECT + Len(Table(inode.single))
                        /\ Len(c.content) = BlocksRead(c) * BlockSize
      OBVIOUS
    <2>1. c.phase # "inode" /\ c.phase \in LoopPhases
      BY <1>1, <1>4 DEF LoopPhases
    <2>2. /\ TablesIn(c) /\ Len(c.content) = BlocksRead(c) * BlockSize
          /\ BlockOf(inode, BlocksRead(c)) # 0
      BY <1>2, <2>1, Continues DEF inode
    <2> QED
      BY <1>1, <1>2, <2>1, <2>2, LoopEnds DEF inode
  <1>8. /\ ~c.wrong /\ Len(c.content) + c.left = inode.size
        /\ HasItsBlocks(inode) => \A k \in 1..Len(c.content) : c.content[k] = FileByte(inode, k)
    BY <1>1, <1>2, <1>4 DEF ContentIn, inode
  <1>9. CASE table # 0
    <2> DEFINE e == [c EXCEPT !.phase = to, !.held = @ \cup TablesOf(to)]
               d == Asking(e, table * BlockSize, BlockSize)
    <2>1. BlockSize \in Nat /\ table * BlockSize \in Nat
      BY <1>3, SizesAssumption
    <2>2. TablesOf(to) \subseteq {"singlyBlock", "doublyBlock"}
      BY DEF TablesOf
    <2>3. /\ e \in CallRecords /\ e.phase = to
          /\ e.inode = c.inode /\ e.i = c.i /\ e.j = c.j /\ e.left = c.left
          /\ e.wrong = c.wrong /\ e.content = c.content /\ e.single = c.single
          /\ e.double = c.double /\ e.held = c.held \cup TablesOf(to)
      <3>1. TablesOf(to) \in SUBSET Held
        BY <2>2 DEF Held
      <3> QED
        BY <1>2, <1>4, <3>1 DEF CallRecords, Phases
    <2> HIDE DEF e
    <2>4. /\ SamePlace(e, d) /\ d.pc = "command" /\ d.held = e.held \cup {"buffer"}
          /\ d.offset = table * BlockSize /\ d.size = BlockSize
      BY <2>3, AskingIs
    <2> HIDE DEF d
    <2>5. /\ d.phase = to /\ d.inode = c.inode /\ d.i = c.i /\ d.left = c.left
          /\ d.wrong = c.wrong /\ d.content = c.content
          /\ d.held = c.held \cup TablesOf(to) \cup {"buffer"}
      BY <2>3, <2>4 DEF SamePlace
    <2>6. HeldIn(d)
      BY <1>1, <1>2, <1>4, <2>2, <2>4, <2>5 DEF HeldIn, Masking
    <2>7. BlockIn(d) = table
      BY <1>4, <2>5 DEF BlockIn, inode
    <2>8. PhaseIn(d)
      BY <1>2, <1>4, <2>4, <2>5, <2>7 DEF PhaseIn, Masking, Fetching, FilePhases
    <2>9. ContentIn(d)
      <3>1. TablesIn(d)
        BY <1>4, <2>5 DEF TablesIn
      <3>2. BlocksRead(d) = IF from = "direct" THEN NB_DIRECT
                            ELSE NB_DIRECT + Len(Table(inode.single))
        BY <1>4, <2>5 DEF BlocksRead, inode
      <3> QED
        BY <1>4, <1>7, <1>8, <2>5, <3>1, <3>2 DEF ContentIn, inode
    <2>10. FileIn(d)
      BY <2>8, <2>9 DEF FileIn
    <2> QED
      BY <1>1, <1>2, <1>5, <1>6, <1>9, <2>1, <2>3, <2>6, <2>10, ReadersAre, AtaReadKeeps DEF d, e
  <1>10. CASE table = 0
    <2> DEFINE d == [c EXCEPT !.phase = loop, !.single = <<>>, !.i = 0]
    <2>1. <<>> \in Seq(Nat)
      OBVIOUS
    <2>2. d \in CallRecords
      BY <1>2, <2>1 DEF CallRecords, Phases
    <2>3. /\ d.pc = "loop" /\ d.phase = loop /\ d.inode = c.inode /\ d.i = 0 /\ d.left = c.left
          /\ d.wrong = c.wrong /\ d.content = c.content /\ d.single = <<>> /\ d.held = c.held
      BY <1>1, <1>2 DEF CallRecords
    <2>4. Goto(p, d) /\ UNCHANGED <<lba, masked, disk, calls>>
      BY <1>1, <1>6, <1>10
    <2> HIDE DEF d
    <2>5. HeldIn(d)
      BY <1>1, <1>2, <1>4, <2>3 DEF HeldIn, Masking
    <2>6. PhaseIn(d)
      BY <1>2, <2>3 DEF PhaseIn, Masking, Fetching, FilePhases, LoopPhases
    <2>7. ContentIn(d)
      <3>1. Table(0) = <<>> /\ Len(<<>>) = 0
        BY TableIs
      <3>2. TablesIn(d)
        BY <1>4, <1>10, <2>3, <3>1 DEF TablesIn, inode
      <3>3. BlocksRead(d) = IF from = "direct" THEN NB_DIRECT
                            ELSE NB_DIRECT + Len(Table(inode.single))
        BY <1>4, <2>3 DEF BlocksRead, NB_DIRECT, inode
      <3> QED
        BY <1>4, <1>7, <1>8, <2>3, <3>2, <3>3 DEF ContentIn, inode
    <2> QED
      BY <1>1, <2>2, <2>3, <2>4, <2>5, <2>6, <2>7, LoopKeeps DEF c
  <1> QED
    BY <1>9, <1>10

\* The loops over the doubly indirect part end when nothing is left.
LEMMA InnerEndKeeps == ASSUME IInv, NEW p \in Procs, InnerEnd(p) PROVE IInv'
  <1> DEFINE c == call[p]
             d == [c EXCEPT !.phase = "double", !.i = @ + 1]
  <1>1. /\ c.pc = "loop" /\ masked \in {NOBODY, p} /\ c.phase = "inner" /\ Wanted(c) = 0
        /\ Goto(p, d) /\ UNCHANGED <<lba, masked, disk, calls>>
    BY DEF InnerEnd, At
  <1>2. c \in CallRecords /\ HeldIn(c) /\ PhaseIn(c) /\ ContentIn(c)
    BY <1>1, ProcHolds
  <1>3. c.i + 1 \in Nat
    BY <1>2 DEF CallRecords
  <1> HIDE DEF c
  <1>4. ~(HasItsBlocks(Inode[c.inode]) /\ c.left > 0)
    BY <1>1, <1>2, Continues, LoopEnds DEF LoopPhases
  <1>5. d \in CallRecords
    BY <1>2, <1>3 DEF CallRecords, Phases
  <1>6. /\ d.pc = "loop" /\ d.phase = "double" /\ d.inode = c.inode /\ d.left = c.left
        /\ d.wrong = c.wrong /\ d.content = c.content /\ d.held = c.held
    BY <1>1, <1>2 DEF CallRecords
  <1> HIDE DEF d
  <1>7. HeldIn(d)
    BY <1>1, <1>2, <1>6 DEF HeldIn, Masking
  <1>8. PhaseIn(d)
    BY <1>2, <1>6 DEF PhaseIn, Masking, Fetching, FilePhases, LoopPhases
  <1>9. ContentIn(d)
    BY <1>1, <1>2, <1>4, <1>6 DEF ContentIn
  <1> QED
    BY <1>1, <1>5, <1>6, <1>7, <1>8, <1>9, LoopKeeps DEF c

LEMMA FinishKeeps == ASSUME IInv, NEW p \in Procs, Finish(p) PROVE IInv'
  <1> DEFINE c == call[p]
             d == [c EXCEPT !.pc = "done"]
  <1>1. /\ c.pc = "loop" /\ masked \in {NOBODY, p} /\ c.phase = "double" /\ Wanted(c) = 0
        /\ Goto(p, d) /\ UNCHANGED <<lba, masked, disk, calls>>
    BY DEF Finish, At
  <1>2. c \in CallRecords /\ HeldIn(c) /\ PhaseIn(c) /\ ContentIn(c)
    BY <1>1, ProcHolds
  <1> HIDE DEF c
  <1>3. d \in CallRecords
    BY <1>2 DEF CallRecords, Pcs
  <1>4. /\ d.pc = "done" /\ d.phase = c.phase /\ d.inode = c.inode /\ d.left = c.left
        /\ d.wrong = c.wrong /\ d.content = c.content /\ d.held = c.held /\ d.i = c.i
        /\ d.single = c.single
    BY <1>1, <1>2 DEF CallRecords
  <1> HIDE DEF d
  <1>5. HeldIn(d)
    BY <1>1, <1>2, <1>4 DEF HeldIn, Masking
  <1>6. Wanted(d) = 0
    BY <1>1, <1>4 DEF Wanted
  <1>7. PhaseIn(d)
    BY <1>1, <1>2, <1>4, <1>6 DEF PhaseIn, Masking, Fetching, FilePhases, LoopPhases
  <1>8. ContentIn(d)
    BY <1>1, <1>2, <1>4 DEF ContentIn, TablesIn, BlocksRead
  <1> QED
    BY <1>1, <1>3, <1>4, <1>5, <1>7, <1>8, LoopKeeps DEF c
-----------------------------------------------------------------------------
(* The invariant.                                                          *)

LEMMA InitHolds == Init => IInv
  <1> SUFFICES ASSUME Init PROVE IInv
    OBVIOUS
  <1>1. \A p \in Readers : call[p] = Idle
    BY DEF Init
  <1>2. Idle.pc = "idle" /\ Idle.held = {}
    BY DEF Idle
  <1>3. Typed
    BY IdleIs DEF Init, Typed, NONE
  <1>4. \A p \in Readers : ReadIn(call[p])
    BY <1>1, IdleIs
  <1>5. BootIn(call[KERNEL])
    BY <1>1, IdleIs, ReadersAre
  <1>6. \A p \in Procs : HeldIn(call[p]) /\ FileIn(call[p])
    BY <1>1, <1>2, ReadersAre DEF HeldIn, FileIn
  <1>7. OneReads /\ SectorIsAsked
    BY <1>1, <1>2 DEF OneReads, SectorIsAsked, Masking
  <1>8. DiskIsThere
    BY <1>1, <1>2, ReadersAre DEF Init, DiskIsThere
  <1> QED
    BY <1>3, <1>4, <1>5, <1>6, <1>7, <1>8 DEF IInv

LEMMA StutterHolds == ASSUME IInv, UNCHANGED vars PROVE IInv'
  <1> USE DEF vars
  <1>1. Typed'
    BY DEF IInv, Typed
  <1>2. (\A p \in Readers : ReadIn(call[p]))' /\ BootIn(call[KERNEL])'
    BY DEF IInv, ReadIn, BootIn
  <1>3. ASSUME NEW p \in Procs
        PROVE  (HeldIn(call[p]) /\ FileIn(call[p]))'
    <2>1. \A n : InodeOffset(n)' = InodeOffset(n)
      BY DEF InodeOffset
    <2>2. HeldIn(call'[p]) /\ FileIn(call'[p])
      BY DEF IInv
    <2> QED
      BY <2>1, <2>2 DEF FileIn, PhaseIn, HeldIn, ContentIn, TablesIn, BlocksRead, BlockIn, Wanted
  <1>4. OneReads' /\ SectorIsAsked' /\ DiskIsThere'
    BY DEF IInv, OneReads, SectorIsAsked, DiskIsThere
  <1> QED
    BY <1>1, <1>2, <1>3, <1>4 DEF IInv

LEMMA NextHolds == IInv /\ [Next]_vars => IInv'
  <1> SUFFICES ASSUME IInv, [Next]_vars PROVE IInv'
    OBVIOUS
  <1> USE ReadersAre
  <1>1. CASE ReadDiskOnDevice
    BY <1>1, ReadDiskOnDeviceKeeps
  <1>2. CASE BootSteps
    BY <1>2, CommandKeeps, AnswerDataKeeps, AnswerErrorKeeps, AtaCopyKeeps, ReadGroupDescKeeps,
       DiskIsReadKeeps, ReturnKeeps DEF BootSteps
  <1>3. ASSUME NEW p \in Procs, Reads(p)
        PROVE  IInv'
    <2>1. CASE ReadBlock(p)
      BY <2>1, ReadBlockKeeps
    <2>2. CASE ReadTable(p, "direct", "singleTable", Inode[call[p].inode].single)
      BY <2>2, ReadTableKeeps
    <2>3. CASE ReadTable(p, "single", "doubleTable", Inode[call[p].inode].double)
      BY <2>3, ReadTableKeeps
    <2>4. CASE InnerEnd(p)
      BY <2>4, InnerEndKeeps
    <2>5. CASE Finish(p)
      BY <2>5, FinishKeeps
    <2> QED
      BY <1>3, <2>1, <2>2, <2>3, <2>4, <2>5 DEF Reads
  <1>4. ASSUME NEW p \in Procs, Steps(p)
        PROVE  IInv'
    BY <1>3, <1>4, CommandKeeps, AnswerDataKeeps, AnswerErrorKeeps, AtaCopyKeeps, GotKeeps,
       ReturnKeeps DEF Steps
  <1>5. ASSUME NEW p \in Procs, NEW n \in DOMAIN Inode, OpenFile(p, n)
        PROVE  IInv'
    BY <1>5, OpenFileKeeps
  <1>6. CASE UNCHANGED vars
    BY <1>6, StutterHolds
  <1> QED
    BY <1>1, <1>2, <1>4, <1>5, <1>6 DEF Next

THEOREM Invariance == Spec => []IInv
  BY InitHolds, NextHolds, PTL DEF Spec

-----------------------------------------------------------------------------
(* What the runs check.                                                    *)

\* Ext2ReadFile never writes past the end of the buffer that it allocated for
\* the file, and what is left to read never wraps below zero.
THEOREM TypeCorrect == Spec => []TypeOK
  <1>1. IInv => TypeOK
    <2> SUFFICES ASSUME IInv PROVE TypeOK
      OBVIOUS
    <2>1. ASSUME NEW p \in Readers, p # KERNEL, call[p].pc # "idle"
          PROVE  Len(call[p].content) <= Inode[call[p].inode].size
      <3> DEFINE c == call[p]
                 inode == Inode[c.inode]
      <3>1. c \in CallRecords /\ PhaseIn(c) /\ ContentIn(c)
        BY <2>1, CallHolds DEF FileIn
      <3>2. c.content \in Seq(Nat) /\ c.left \in Nat /\ inode.size \in Nat
        BY <3>1, InodeIs DEF CallRecords, PhaseIn
      <3> HIDE DEF c, inode
      <3>3. CASE c.phase = "inode"
        <4>1. c.content = <<>> /\ Len(<<>>) = 0
          BY <3>1, <3>3 DEF PhaseIn
        <4> QED
          BY <3>2, <4>1 DEF c, inode
      <3>4. CASE c.phase # "inode"
        <4>1. Len(c.content) + c.left = inode.size /\ Len(c.content) \in Nat
          BY <3>1, <3>2, <3>4 DEF ContentIn, inode
        <4>2. Len(c.content) <= inode.size
          BY <3>2, <4>1
        <4> QED
          BY <4>2 DEF c, inode
      <3> QED
        BY <3>3, <3>4
    <2>2. \A p \in Readers : /\ call[p].pc \in Pcs /\ call[p].phase \in Phases
                             /\ call[p].left \in Nat /\ call[p].errors \in 0..(MaxErrors + 1)
      BY DEF IInv, Typed, CallRecords
    <2>3. lba \in Nat /\ masked \in Readers \cup {NOBODY} /\ calls \in [Readers -> Nat]
      BY DEF IInv, Typed
    <2> QED
      BY <2>1, <2>2, <2>3 DEF TypeOK, Pcs
  <1> QED
    BY <1>1, Invariance, PTL

\* Ext2ReadFile gives the bytes of the file, in order and none of another
\* file's, whatever else the drive is asked meanwhile.
THEOREM FilesAreRead == Spec => []FileIsRead
  <1>1. ASSUME IInv, NEW p \in Procs, call[p].pc = "done"
        PROVE  LET inode == Inode[call[p].inode]
               IN  ~call[p].wrong /\ (HasItsBlocks(inode) => call[p].content = Content(inode))
    <2> DEFINE c == call[p]
               inode == Inode[c.inode]
    <2>1. c \in CallRecords /\ PhaseIn(c) /\ ContentIn(c)
      BY <1>1, CallHolds, ReadersAre DEF FileIn
    <2>2. c.phase = "double" /\ Wanted(c) = 0 /\ c.pc = "done"
      BY <1>1, <2>1 DEF PhaseIn
    <2>3. c.content \in Seq(Nat) /\ c.left \in Nat /\ inode.size \in Nat
      BY <2>1, InodeIs DEF CallRecords, PhaseIn
    <2> HIDE DEF c
    <2>4. ASSUME HasItsBlocks(inode)
          PROVE  c.content = Content(inode)
      <3>1. c.left = 0
        <4>1. ~(c.left > 0)
          BY <2>1, <2>2, <2>4, Continues, LoopEnds DEF LoopPhases
        <4> QED
          BY <2>3, <4>1
      <3>2. Len(c.content) = inode.size
        <4>1. Len(c.content) + c.left = inode.size
          BY <2>1, <2>2 DEF ContentIn
        <4> QED
          BY <2>3, <3>1, <4>1
      <3>3. \A k \in 1..Len(c.content) : c.content[k] = FileByte(inode, k)
        BY <2>1, <2>2, <2>4 DEF ContentIn
      <3>4. c.content = [k \in 1..Len(c.content) |-> c.content[k]]
        BY <2>3
      <3> QED
        BY <3>2, <3>3, <3>4 DEF Content, FileByte
    <2>5. ~c.wrong
      BY <2>1, <2>2 DEF ContentIn
    <2> QED
      BY <2>4, <2>5 DEF c
  <1>2. IInv /\ TypeOK => FileIsRead
    BY <1>1 DEF FileIsRead
  <1> QED
    BY <1>2, Invariance, TypeCorrect, PTL

\* A read fails only when one and the same sector has failed MaxErrors + 1
\* times in a row, or when kmalloc refuses the size of its file.
THEOREM FailuresHaveCauses == Spec => []FailureHasCause
  <1>1. ASSUME IInv, NEW p \in Readers, call[p].pc = "failed"
        PROVE  call[p].streak = MaxErrors + 1
    BY <1>1 DEF IInv, ReadIn
  <1>2. ASSUME IInv, NEW p \in Readers, call[p].pc = "refused"
        PROVE  p # KERNEL /\ Refused(Inode[call[p].inode].size)
    BY <1>2, ReadersAre DEF IInv, BootIn, FileIn, PhaseIn
  <1>3. IInv => FailureHasCause
    BY <1>1, <1>2 DEF FailureHasCause
  <1> QED
    BY <1>3, Invariance, PTL

\* What a call that has ended holds: its result, and what the failures of the
\* code leave behind, the refused content of an empty or huge file included.
THEOREM MemoryComesBack == Spec => []MemoryIsReturned
  <1>1. IInv => MemoryIsReturned
    BY DEF IInv, BootIn, HeldIn, DiskIsThere, MemoryIsReturned
  <1> QED
    BY <1>1, Invariance, PTL
=============================================================================
