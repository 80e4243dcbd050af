------------------------------ MODULE Storage -------------------------------
(***************************************************************************)
(* Reading the disk: Ext2ReadDiskOnDevice, which KernelInit calls once,    *)
(* then Ext2ReadInode and Ext2ReadFile (kernel/fs/ext2.c), as OpenFile     *)
(* calls them, over AtaRead and AtaReadSectorPio (kernel/drivers/ata.c).   *)
(*                                                                         *)
(* Several processes read at once and there is one drive: it answers the   *)
(* last command it was given, whoever gave it.  AtaRead masks interrupts   *)
(* so that nobody else runs between its commands and their answers.  The   *)
(* drive always answers (AtaWait has no time limit), with the sector or    *)
(* with an error.  A byte of the disk is represented by its address.  The  *)
(* blocks of the kernel heap that a call holds are represented by their    *)
(* names in the code.  kmalloc refuses the sizes that it refuses in the    *)
(* code, of which only the size of a file can be one; it does not run out  *)
(* of memory.                                                              *)
(***************************************************************************)
EXTENDS Integers, Sequences

CONSTANTS
    Procs,          \* the processes
    SectorSize,     \* ATA_BLOCK_SIZE
    MBR_RESERVED_SIZE,  \* where the superblock is, and its size: 1024
    BlockSize,      \* 1024 << superBlock->logBlockSize
    InodeSize, InodesPerGroup, InodesCount, BlocksPerGroup, BlocksCount,
                    \* what the superblock says
    DescSize,       \* sizeof(Ext2GroupDesc)
    InodeTable,     \* groupDec[].inodeTable: the block of each group's table
    Sectors,        \* how many sectors the drive has
    Inode,          \* inode number -> size and block pointers, 0 for none
    Pointers,       \* block of pointers -> its pointers, 0 for none
    IntMax,         \* the largest int, 2^31 - 1
    MaxErrors,      \* 4: a sector is given up after one error more
    MaxCalls        \* bound on the calls of a process

NB_DIRECT == 2      \* INODE_NB_DIRECT_PTR (12 in the code)
NOBODY == "nobody"
KERNEL == "kernel"  \* the boot code
Readers == Procs \cup {KERNEL}

ASSUME SizesAssumption ==
    {SectorSize, MBR_RESERVED_SIZE, BlockSize, InodeSize, InodesPerGroup, BlocksPerGroup, DescSize}
        \subseteq Nat \ {0}
ASSUME BoundsAssumption ==
    {Sectors, InodesCount, BlocksCount, IntMax, MaxErrors, MaxCalls} \subseteq Nat
ASSUME InodeAssumption ==
    \A n \in DOMAIN Inode :
        /\ Inode[n] \in [size : Nat, direct : Seq(Nat), single : Nat, double : Nat]
        /\ Len(Inode[n].direct) = NB_DIRECT

\* Block 0 is nobody's table of pointers.
ASSUME PointersAssumption ==
    /\ DOMAIN Pointers \subseteq Nat \ {0}
    /\ \A b \in DOMAIN Pointers : Pointers[b] \in Seq(Nat)

\* Inodes are in groups that have a table; a block is as big as the superblock
\* or bigger.
ASSUME GroupsAssumption ==
    /\ \A g \in DOMAIN InodeTable : InodeTable[g] \in Nat
    /\ \A n \in DOMAIN Inode : /\ n \in 1..InodesCount
                               /\ (n - 1) \div InodesPerGroup \in DOMAIN InodeTable
    /\ BlockSize >= MBR_RESERVED_SIZE
ASSUME ProcsAssumption == {NOBODY, KERNEL} \cap Procs = {}

VARIABLES
    lba,        \* the sector that the drive was last asked for
    masked,     \* who runs with interrupts masked, NOBODY when they are not
    disk,       \* gExt2Disk: what was found on the device, NONE before
    call,       \* where each reader is in its call, and its locals
    calls       \* calls made by each reader

vars == <<lba, masked, disk, call, calls>>

-----------------------------------------------------------------------------
(* Bytes, sectors and blocks.                                              *)

Bytes(from, n) == [i \in 1..n |-> from + i - 1]
Sector(s) == Bytes(s * SectorSize, SectorSize)
Block(b) == Bytes(b * BlockSize, BlockSize)

\* What a buffer holds when it is read as an array of pointers.
AsPointers(buf) ==
    LET b == buf[1] \div BlockSize
    IN  IF buf = Block(b) /\ b \in DOMAIN Pointers THEN Pointers[b] ELSE <<>>
Pointer(table, i) == IF i < Len(table) THEN table[i + 1] ELSE 0

\* Where inode n is, as Ext2ReadInode computes it from the table of groups;
\* what it finds in a part of the table that was not read is taken for 0.
InodeOffset(n) ==
    LET group == (n - 1) \div InodesPerGroup
        index == (n - 1) % InodesPerGroup
    IN  (IF group \in DOMAIN disk THEN disk[group] * BlockSize ELSE 0) + index * InodeSize

NONE == [g \in {} |-> 0]

\* The bytes of inode n, where ext2 has them.
InodeBytes(n) ==
    Bytes(InodeTable[(n - 1) \div InodesPerGroup] * BlockSize
            + ((n - 1) % InodesPerGroup) * InodeSize, InodeSize)

\* The sectors of a range, always one more when it ends on a boundary.
NbBlocks(offset, size) == (offset + size) \div SectorSize - offset \div SectorSize + 1

-----------------------------------------------------------------------------
Idle == [pc |-> "idle", inode |-> 0, phase |-> "inode", i |-> 0, j |-> 0, left |-> 0,
         wrong |-> FALSE, content |-> <<>>, single |-> <<>>, double |-> <<>>, held |-> {},
         offset |-> 0, size |-> 0, k |-> 0, buf |-> <<>>, errors |-> 0, streak |-> 0]

Init ==
    /\ lba = 0
    /\ masked = NOBODY
    /\ disk = NONE
    /\ call = [p \in Readers |-> Idle]
    /\ calls = [p \in Readers |-> 0]

At(p, pc) == masked \in {NOBODY, p} /\ call[p].pc = pc
Goto(p, c) == call' = [call EXCEPT ![p] = c]

\* Mutant: AtaRead does not mask interrupts.
MaskerNone(p) == NOBODY

\* DISABLE_IRQ in AtaRead.
Masker(p) == p

\* Reader p, in state c, calls AtaRead.
AtaRead(p, c, offset, size) ==
    /\ Goto(p, [c EXCEPT !.pc = "command", !.offset = offset, !.size = size,
                         !.k = 0, !.buf = <<>>, !.errors = 0, !.streak = 0,
                         !.held = @ \cup {"buffer"}])
    /\ masked' = Masker(p)
    /\ UNCHANGED lba

\* Ext2ReadDiskOnDevice: read the superblock (its arguments of AtaRead are
\* the size and the offset, which are the same number).
ReadDiskOnDevice ==
    /\ At(KERNEL, "idle")
    /\ calls[KERNEL] = 0
    /\ calls' = [calls EXCEPT ![KERNEL] = 1]
    /\ AtaRead(KERNEL, [Idle EXCEPT !.phase = "super", !.held = {"disk", "superBlock"}],
               MBR_RESERVED_SIZE, MBR_RESERVED_SIZE)
    /\ UNCHANGED disk

\* OpenFile of a process, once there is a disk: read the inode, then the file.
OpenFile(p, n) ==
    /\ disk # NONE
    /\ At(p, "idle")
    /\ calls[p] < MaxCalls
    /\ calls' = [calls EXCEPT ![p] = @ + 1]
    /\ AtaRead(p, [Idle EXCEPT !.inode = n, !.held = {"inode"}], InodeOffset(n), InodeSize)
    /\ UNCHANGED disk

-----------------------------------------------------------------------------
(* AtaRead: one turn of AtaReadSectorPio for each sector and each attempt.  *)

Command(p) ==
    /\ At(p, "command")
    /\ lba' = call[p].offset \div SectorSize + call[p].k
    /\ Goto(p, [call[p] EXCEPT !.pc = "answer"])
    /\ UNCHANGED <<masked, disk, calls>>

\* Mutant: the errors of a sector count for the next one.
FreshErrorsKept(errors) == errors

\* The count of AtaReadSectorPio, for the next sector.
FreshErrors(errors) == 0

\* The drive has the sector ready.
AnswerData(p) ==
    LET c == call[p]
        last == c.k + 1 = NbBlocks(c.offset, c.size)
    IN  /\ At(p, "answer")
        /\ lba < Sectors
        /\ Goto(p, [c EXCEPT !.buf = @ \o Sector(lba), !.k = @ + 1, !.streak = 0,
                             !.errors = FreshErrors(@),
                             !.pc = IF last THEN "copy" ELSE "command"])
        /\ UNCHANGED <<lba, masked, disk, calls>>

\* Mutant: errors are not counted.
ErrorsAfterSame(errors) == errors

ErrorsAfter(errors) == errors + 1

\* The drive reports an error, as it always does for a sector it does not
\* have: try again, or give up with -EIO.  (streak counts the errors since
\* the last sector that was read, up to MaxErrors + 1.)
AnswerError(p) ==
    LET c == call[p]
    IN  /\ At(p, "answer")
        /\ Goto(p, [c EXCEPT !.errors = ErrorsAfter(@),
                             !.streak = IF @ > MaxErrors THEN @ ELSE @ + 1,
                             !.pc = IF ErrorsAfter(c.errors) > MaxErrors THEN "failed"
                                    ELSE "command"])
        /\ UNCHANGED <<lba, masked, disk, calls>>

\* The end of AtaRead: MmCopy, then ENABLE_IRQ; the caller uses the bytes.
AtaCopy(p) ==
    LET c == call[p]
        from == c.offset % SectorSize
    IN  /\ At(p, "copy")
        /\ Goto(p, [c EXCEPT !.pc = "got", !.buf = SubSeq(@, from + 1, from + c.size),
                             !.held = @ \ {"buffer"}])
        /\ masked' = NOBODY
        /\ UNCHANGED <<lba, disk, calls>>

\* Mutant: the tables of pointers are not given back.
CleanedBlockOnly(c) == {"block"}

\* What the ends of the functions give back: the blocks that only they used,
\* and after a failure what they would have returned.  (Once it has been
\* read the inode belongs to the file.)
Cleaned(c) ==
    {"block", "singlyBlock", "doublyBlock"}
        \cup (IF c.pc = "done" THEN {}
              ELSE {"disk", "superBlock", "groupDesc", "fileContent"}
                     \cup (IF c.phase = "inode" THEN {"inode"} ELSE {}))

\* The call ends.  After -EIO interrupts are still masked, since AtaRead
\* returned before ENABLE_IRQ and its callers return too: the return to the
\* program restores them.  The boot code has nowhere to return to.
Return(p) ==
    /\ At(p, "failed") \/ At(p, "refused") \/ At(p, "done")
    /\ Goto(p, [Idle EXCEPT !.held = call[p].held \ Cleaned(call[p])])
    /\ masked' = IF p = KERNEL THEN masked ELSE NOBODY
    /\ UNCHANGED <<lba, disk, calls>>

-----------------------------------------------------------------------------
(* The end of Ext2ReadDiskOnDevice: ReadGroupDesc.                         *)

CeilDiv(a, b) == (a \div b) + (IF a % b = 0 THEN 0 ELSE 1)

\* disk->groups.
Groups ==
    LET i == CeilDiv(BlocksCount, BlocksPerGroup)
        j == CeilDiv(InodesCount, InodesPerGroup)
    IN  IF i > j THEN i ELSE j

\* Where the table of groups is read.
GroupTable == IF BlockSize = MBR_RESERVED_SIZE THEN 2 * MBR_RESERVED_SIZE ELSE BlockSize

\* The bytes of the table of groups, read as it: they are where ext2 has the
\* table, in the block after the superblock's.
AsGroups(buf) ==
    LET at(g) == (MBR_RESERVED_SIZE \div BlockSize + 1) * BlockSize + g * DescSize
    IN  [g \in 0..(Groups - 1) |->
            IF SubSeq(buf, g * DescSize + 1, (g + 1) * DescSize) = Bytes(at(g), DescSize)
               /\ g \in DOMAIN InodeTable
            THEN InodeTable[g] ELSE 0]

ReadGroupDesc ==
    /\ At(KERNEL, "got") /\ call[KERNEL].phase = "super"
    /\ AtaRead(KERNEL, [call[KERNEL] EXCEPT !.phase = "groups", !.held = @ \cup {"groupDesc"}],
               GroupTable, Groups * DescSize)
    /\ UNCHANGED <<disk, calls>>

DiskIsRead ==
    /\ At(KERNEL, "got") /\ call[KERNEL].phase = "groups"
    /\ disk' = AsGroups(call[KERNEL].buf)
    /\ Goto(KERNEL, [call[KERNEL] EXCEPT !.pc = "done", !.buf = <<>>])
    /\ UNCHANGED <<lba, masked, calls>>

-----------------------------------------------------------------------------
(* Ext2ReadFile.                                                           *)

Copied(left) == IF left > BlockSize THEN BlockSize ELSE left

\* A block of the file has been read: MmCopy of what is left of it.
Keep(c) ==
    [c EXCEPT !.content = @ \o SubSeq(c.buf, 1, Copied(c.left)), !.left = @ - Copied(c.left)]

\* kmalloc takes its size for an int and gives nothing for one that is not
\* positive: an empty file cannot be read, nor one of 2^31 bytes or more.
Refused(size) == size = 0 \/ size > IntMax

\* The beginning of Ext2ReadFile, when the inode has been read.  (wrong: what was
\* read for it is something else; the model goes on with the inode.)
Opened(c) ==
    LET size == Inode[c.inode].size
    IN  [c EXCEPT !.pc = IF Refused(size) THEN "refused" ELSE "loop",
                  !.held = IF Refused(size) THEN @ ELSE @ \cup {"fileContent", "block"},
                  !.phase = "direct", !.left = size, !.buf = <<>>,
                  !.wrong = c.buf # InodeBytes(c.inode)]

\* What each phase does with the block that it has read.
Got(p) ==
    LET c == call[p]
        loop == [c EXCEPT !.pc = "loop", !.buf = <<>>]
    IN  /\ At(p, "got") /\ p # KERNEL
        /\ Goto(p,
             CASE c.phase = "inode" -> Opened(c)
               [] c.phase = "direct" ->
                    [Keep(c) EXCEPT !.pc = "loop", !.buf = <<>>, !.i = @ + 1]
               [] c.phase = "singleTable" ->
                    [loop EXCEPT !.phase = "single", !.single = AsPointers(c.buf), !.i = 0]
               [] c.phase = "single" ->
                    [Keep(c) EXCEPT !.pc = "loop", !.buf = <<>>, !.i = @ + 1]
               [] c.phase = "doubleTable" ->
                    [loop EXCEPT !.phase = "double", !.single = AsPointers(c.buf), !.i = 0]
               [] c.phase = "innerTable" ->
                    [loop EXCEPT !.phase = "inner", !.double = AsPointers(c.buf), !.j = 0]
               [] c.phase = "inner" ->
                    [Keep(c) EXCEPT !.pc = "loop", !.buf = <<>>, !.j = @ + 1])
        /\ UNCHANGED <<lba, masked, disk, calls>>

\* The next block that the loops of Ext2ReadFile read, 0 when the phase is
\* over.  The inner loop indexes its table with the index of the outer loop.
Wanted(c) ==
    LET inode == Inode[c.inode]
    IN  CASE c.phase = "direct" -> IF c.i < NB_DIRECT THEN inode.direct[c.i + 1] ELSE 0
          [] c.phase = "single" -> Pointer(c.single, c.i)
          [] c.phase = "double" -> Pointer(c.single, c.i)
          [] c.phase = "inner" -> Pointer(c.double, c.j)
Taken(c) == IF c.phase = "inner" THEN Pointer(c.double, c.i) ELSE Wanted(c)

\* A turn of the loop of the phase.
ReadBlock(p) ==
    LET c == call[p]
    IN  /\ At(p, "loop")
        /\ Wanted(c) # 0
        /\ AtaRead(p, [c EXCEPT !.phase = IF @ = "double" THEN "innerTable" ELSE @],
                   Taken(c) * BlockSize, BlockSize)
        /\ UNCHANGED <<disk, calls>>

TablesOf(phase) ==
    IF phase = "singleTable" THEN {"singlyBlock"} ELSE {"singlyBlock", "doublyBlock"}

\* The loop of a phase is over: the next phase reads its table of pointers,
\* when the inode has one.
ReadTable(p, from, to, table) ==
    LET c == call[p]
    IN  /\ At(p, "loop")
        /\ c.phase = from
        /\ Wanted(c) = 0
        /\ IF table # 0
           THEN AtaRead(p, [c EXCEPT !.phase = to, !.held = @ \cup TablesOf(to)],
                        table * BlockSize, BlockSize)
           ELSE /\ Goto(p, [c EXCEPT !.phase = IF to = "singleTable" THEN "single" ELSE "double",
                                    !.single = <<>>, !.i = 0])
                /\ UNCHANGED <<lba, masked>>
        /\ UNCHANGED <<disk, calls>>

\* The inner loop is over.
InnerEnd(p) ==
    /\ At(p, "loop")
    /\ call[p].phase = "inner"
    /\ Wanted(call[p]) = 0
    /\ Goto(p, [call[p] EXCEPT !.phase = "double", !.i = @ + 1])
    /\ UNCHANGED <<lba, masked, disk, calls>>

\* Triply indirect blocks are not read: the file is what has been read.
Finish(p) ==
    /\ At(p, "loop")
    /\ call[p].phase = "double"
    /\ Wanted(call[p]) = 0
    /\ Goto(p, [call[p] EXCEPT !.pc = "done"])
    /\ UNCHANGED <<lba, masked, disk, calls>>

-----------------------------------------------------------------------------
Reads(p) ==
    \/ ReadBlock(p)
    \/ ReadTable(p, "direct", "singleTable", Inode[call[p].inode].single)
    \/ ReadTable(p, "single", "doubleTable", Inode[call[p].inode].double)
    \/ InnerEnd(p)
    \/ Finish(p)

Steps(p) ==
    Command(p) \/ AnswerData(p) \/ AnswerError(p) \/ AtaCopy(p) \/ Got(p) \/ Reads(p) \/ Return(p)

BootSteps ==
    \/ Command(KERNEL) \/ AnswerData(KERNEL) \/ AnswerError(KERNEL) \/ AtaCopy(KERNEL)
    \/ ReadGroupDesc \/ DiskIsRead \/ Return(KERNEL)

Next ==
    \/ ReadDiskOnDevice \/ BootSteps
    \/ \E p \in Procs : Steps(p) \/ \E n \in DOMAIN Inode : OpenFile(p, n)

\* The boot code goes on, and later the clock gives the processor to every
\* process again and again.
Spec == Init /\ [][Next]_vars /\ WF_vars(BootSteps) /\ \A p \in Procs : WF_vars(Steps(p))

-----------------------------------------------------------------------------
(* Properties.                                                             *)

Phases == {"super", "groups", "inode", "direct", "singleTable", "single", "doubleTable", "double",
           "innerTable", "inner"}

\* Ext2ReadFile never writes past the end of the buffer that it allocated for
\* the file, and what is left to read never wraps below zero.
TypeOK ==
    /\ lba \in Nat
    /\ masked \in Readers \cup {NOBODY}
    /\ \A p \in Readers :
          LET c == call[p]
          IN  /\ c.pc \in {"idle", "command", "answer", "copy", "got", "loop", "failed", "refused",
                       "done"}
              /\ c.phase \in Phases
              /\ c.left \in Nat /\ c.errors \in 0..(MaxErrors + 1)
              /\ (p # KERNEL /\ c.pc # "idle") => Len(c.content) <= Inode[c.inode].size
    /\ calls \in [Readers -> Nat]

\* Where the inode has block k of the file, 0 for none: in its own pointers, in
\* the table of the singly indirect block, or first in the first table of the
\* doubly indirect one.
Table(b) == IF b \in DOMAIN Pointers THEN Pointers[b] ELSE <<>>
BlockOf(inode, k) ==
    LET single == Table(inode.single)
        i == k - NB_DIRECT
    IN  IF i < 0 THEN inode.direct[k + 1]
        ELSE IF i = Len(single) /\ single # <<>>
             THEN Pointer(Table(Pointer(Table(inode.double), 0)), 0)
        ELSE Pointer(single, i)

\* The inode has a block for every byte, and no more than one of them in the
\* doubly indirect part.
HasItsBlocks(inode) ==
    \A k \in 0..inode.size : k * BlockSize < inode.size => BlockOf(inode, k) # 0

\* The bytes of the file, in order.
Content(inode) ==
    [k \in 1..inode.size |->
        BlockOf(inode, (k - 1) \div BlockSize) * BlockSize + ((k - 1) % BlockSize)]

\* Ext2ReadFile gives the bytes of the file, in order and none of another
\* file's, whatever else the drive is asked meanwhile; the inodes are found
\* through the table of groups that was read at boot.  (For the files that
\* it reads correctly: those whose size is not refused and without holes, as
\* a zero pointer ends its loops.  Beyond the singly indirect blocks it reads
\* only the first block right, because of doublyBlock[i] at ext2.c:427.)
FileIsRead ==
    TypeOK /\ \A p \in Procs :
        LET inode == Inode[call[p].inode]
        IN  call[p].pc = "done" => /\ ~call[p].wrong
                                   /\ HasItsBlocks(inode) => call[p].content = Content(inode)

\* A read fails only when one and the same sector has failed five times in a
\* row (the retries of AtaReadSectorPio), or when its file is empty or so long
\* that kmalloc refuses the size of the content.
FailureHasCause ==
    \A p \in Readers :
        call[p].pc \in {"failed", "refused"} =>
            \/ call[p].streak = MaxErrors + 1
            \/ p # KERNEL /\ Refused(Inode[call[p].inode].size)

\* A call that has ended holds what it returned and nothing else: the file its
\* inode and its content, the boot code the disk's three structures.  Only the
\* buffer of AtaRead is lost, once for each call that fails (ata.c:126), and
\* the inode of a file whose content could not be read stays with the file,
\* alone when the content was refused.
MemoryIsReturned ==
    /\ \A p \in Procs :
          call[p].pc = "idle" =>
            call[p].held \in {{}, {"inode", "fileContent"}, {"inode"},
                              {"buffer"}, {"buffer", "inode"}}
    /\ call[KERNEL].pc = "idle" =>
            call[KERNEL].held \in {{}, {"buffer"}, {"disk", "superBlock", "groupDesc"}}
    /\ disk # NONE => "buffer" \notin call[KERNEL].held

\* Every call ends, also when the drive never reads the sector: the retries
\* are bounded and nobody waits for interrupts that stay masked.
ReadsEnd == \A p \in Readers : (call[p].pc # "idle") ~> (call[p].pc = "idle")
=============================================================================
