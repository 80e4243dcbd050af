-------------------------------- MODULE Vmm ---------------------------------
(***************************************************************************)
(* Physical pages and page directories (kernel/init/vmm.c), the heap of    *)
(* pages (PageAlloc in kernel/lib/kmalloc.c, PageHeapInit in               *)
(* kernel/init/heap.c) and those who use them: ksbrk, PmCreateProcess,     *)
(* LoadElf (kernel/fs/elf.c) and ThreadPrepare (kernel/user/thread.c).     *)
(*                                                                         *)
(* A page directory and a page table are pages themselves; a process has   *)
(* a table for its code and one for its stack.  The kernel's own tables    *)
(* are made once and are the same in every directory.  A program is what   *)
(* LoadElf reads of its file, the program headers, and its bytes; a byte   *)
(* of the file is its offset.                                              *)
(*                                                                         *)
(* When memory is full GetFreePage returns -1; its callers test for NULL   *)
(* and go on with page -1, where there is no memory.  A program may get    *)
(* it as often as it needs pages; once the kernel has it, for its heap, a  *)
(* directory, a table or a stack, what it stored there is lost and the     *)
(* model stops.  When the heap of pages is full the kernel panics.         *)
(***************************************************************************)
EXTENDS Integers, FiniteSets, Sequences

CONSTANTS
    NProcs,         \* the programs that KernelInit loads
    NFrames,        \* physical pages
    NKernel,        \* those of the kernel, pKernelLimit / PAGE_SIZE
    NSlots,         \* blocks of the heap of pages
    PageSize,       \* bytes of a page, PAGE_SIZE
    UserBase,       \* V_USER_BASE_ADDR
    NCode,          \* pages from there on, those that a code table has
    Programs,       \* sequences of headers [vaddr, memSize, offset]
    MaxHeap         \* bound on the pages of the kernel heap

ASSUME FramesAssumption == {NProcs, NFrames, NKernel, NSlots, MaxHeap} \subseteq Nat
                           /\ 0 < NKernel /\ NKernel < NFrames

\* LoadElf clears a page's length from each address at which it stores.
ASSUME ProgramsAssumption ==
    /\ {PageSize, UserBase, NCode} \subseteq Nat \ {0}
    /\ UserBase % PageSize = 0
    /\ Programs \subseteq Seq([vaddr : Nat, memSize : Nat, offset : Nat])
    /\ \A program \in Programs : \A i \in DOMAIN program :
          program[i].vaddr + program[i].memSize + 2 * PageSize <= UserBase + NCode * PageSize

Procs == 1..NProcs
Frames == 0..(NFrames - 1)
Kernel == 0..(NKernel - 1)
Slots == 1..NSlots
KDIR == 0           \* the page of the kernel's directory
NONE == -1          \* an entry that is not present
NOPAGE == NFrames   \* page -1, beyond the memory
Pages == Frames \cup {NOPAGE}
NOBODY == 0

NULL == 0
ZERO == -1          \* a byte that was cleared
ANY == -2           \* a byte of a page that nobody has written
Bytes == 0..(PageSize - 1)

\* A user page: the table it is in and its place there.
Places == 0..(NCode - 1)
CodePages == {<<"code", i>> : i \in Places}
StackPage == <<"stack", 0>>
Tables == {"code", "stack"}
PageAt(vaddr) == <<"code", (vaddr - UserBase) \div PageSize>>

VARIABLES
    used,       \* memBitmap: the pages that are not free
    slot,       \* gPageHeap: a block's page, NONE when the block is free
    dir,        \* contents of the pages used as directories
    table,      \* contents of the pages used as tables
    data,       \* contents of the pages used for code
    heap,       \* the pages that ksbrk has mapped, one after the other
    program,    \* the program that a process is loaded from
    proc,       \* of each process: directory, kernel stack, user stack, and
                \* the pages taken for its code
    cr3,        \* the current directory
    saved,      \* s_SavedPageDirectoryEntry
    loading,    \* the process that LoadElf is loading, NOBODY outside LoadElf
    at,         \* LoadElf's i and count
    halted,     \* the kernel has stopped in a page fault of its own
    irq,        \* interrupts enabled
    running,    \* gCurrentThread's process, NOBODY for the boot code
    grower,     \* who is in GetFreePage, called by ksbrk: [by, page]
    torn        \* history: ksbrk took a page that was given meanwhile

memory == <<used, slot, dir, table>>
elf == <<loading, at, halted>>
vars == <<used, slot, dir, table, data, heap, program, proc, cr3, saved, loading, at, halted,
          irq, running, grower, torn>>

-----------------------------------------------------------------------------
(* The functions of the memory manager, on m = [used, slot, dir, table].   *)

Having(u, s, d, t) == [used |-> u, slot |-> s, dir |-> d, table |-> t]
Memory == Having(used, slot, dir, table)
BecomesMemory(m) == used' = m.used /\ slot' = m.slot /\ dir' = m.dir /\ table' = m.table

\* Mutant: the last page of the bitmap is not looked at.
FreePageButLast(u) ==
    IF Frames \subseteq u \cup {NFrames - 1} THEN NOPAGE
    ELSE CHOOSE f \in Frames \ u : \A g \in Frames \ u : f <= g

\* GetFreePage takes the first page that is free in the bitmap.
FreePage(u) ==
    IF Frames \subseteq u THEN NOPAGE
    ELSE CHOOSE f \in Frames \ u : \A g \in Frames \ u : f <= g

\* Mutant: the page is not marked.
TakePageUnmarked(m) == m

TakePage(m) == Having(m.used \cup ({FreePage(m.used)} \cap Frames), m.slot, m.dir, m.table)

FreeSlots(m) == {s \in Slots : m.slot[s] = NONE}
CanAlloc(m, slots) == Cardinality(FreeSlots(m)) >= slots

\* PageAlloc: a free page, mapped at the address of the first free block.
FirstSlot(m) == CHOOSE s \in FreeSlots(m) : \A t \in FreeSlots(m) : s <= t
PageAlloc(m) ==
    Having(TakePage(m).used, [m.slot EXCEPT ![FirstSlot(m)] = FreePage(m.used)], m.dir, m.table)

CleanPageTable(old) == [i \in Places |-> NONE]

\* AddPageToPageDirectory: in the directory that cr3 holds, through the last
\* entry of that directory; a table that is not present is allocated.
WithTable(m, cr, r) ==
    LET n == PageAlloc(m)
        t == FreePage(m.used)
    IN  IF m.dir[cr][r] # NONE THEN m
        ELSE Having(n.used, n.slot, [m.dir EXCEPT ![cr] = [@ EXCEPT ![r] = t]],
                    [m.table EXCEPT ![t] = CleanPageTable(@)])

AddPage(m, cr, page, f) ==
    LET n == WithTable(m, cr, page[1])
    IN  Having(n.used, n.slot, n.dir,
               [n.table EXCEPT ![n.dir[cr][page[1]]] = [@ EXCEPT ![page[2]] = f]])

\* CreateProcessPageDirectory, after its PageAlloc: no user table is present.
EmptyDirectory(m, d) ==
    Having(m.used, m.slot, [m.dir EXCEPT ![d] = [r \in Tables |-> NONE]], m.table)

\* GetPhysicalAddress, and the processor: the page behind a user page.
WalkIn(m, d, page) ==
    IF m.dir[d][page[1]] = NONE THEN NONE ELSE m.table[m.dir[d][page[1]]][page[2]]
Walk(d, page) == WalkIn(Memory, d, page)

-----------------------------------------------------------------------------
Process(d, kstack, stack, code, started) ==
    [dir |-> d, kstack |-> kstack, stack |-> stack, code |-> code, started |-> started]
NoProc == Process(NONE, NONE, NONE, {}, FALSE)

\* InitVmm: the kernel's pages are taken; the others hold anything.
Init ==
    /\ used = Kernel
    /\ slot = [s \in Slots |-> NONE]
    /\ dir = [f \in Pages |-> [r \in Tables |-> IF f = KDIR THEN NONE ELSE 0]]
    /\ table = [f \in Pages |-> [i \in Places |-> 0]]
    /\ data = [f \in Pages |-> [b \in Bytes |-> ANY]]
    /\ heap = {}
    /\ program \in [Procs -> Programs]
    /\ proc = [p \in Procs |-> NoProc]
    /\ cr3 = KDIR
    /\ saved = NONE
    /\ loading = NOBODY
    /\ at = [header |-> 1, count |-> 0]
    /\ halted = FALSE
    /\ irq = FALSE
    /\ running = NOBODY
    /\ grower = [by |-> NOBODY, page |-> NONE]
    /\ torn = FALSE

Growing == grower.page # NONE
Boot == ~irq /\ running = NOBODY /\ ~Growing

\* PmCreateProcess, called by LoadElf: a directory, a kernel stack, a user
\* stack.  LoadElf then takes the directory of the new process.
LoadElf(p) ==
    LET m1 == EmptyDirectory(PageAlloc(Memory), FreePage(used))
        m2 == PageAlloc(m1)
        m3 == TakePage(m2)
    IN  /\ Boot
        /\ loading = NOBODY
        /\ proc[p].dir = NONE
        /\ CanAlloc(Memory, 2)
        /\ BecomesMemory(m3)
        /\ proc' = [proc EXCEPT ![p] = Process(FreePage(used), FreePage(m1.used),
                                               FreePage(m2.used), {}, FALSE)]
        /\ saved' = cr3
        /\ cr3' = FreePage(used)
        /\ loading' = p
        /\ at' = [header |-> 1, count |-> 0]
        /\ UNCHANGED <<data, heap, program, halted, irq, running, grower, torn>>

Header == program[loading][at.header]
Pointer == Header.vaddr + at.count          \* vUserCodePtr

\* LoadElf is at a header that it loads, whatever its type; the first one
\* without an address ends the program.
AtHeader == /\ Boot
            /\ loading # NOBODY
            /\ at.header <= Len(program[loading])
            /\ Header.vaddr # NULL
InSegment == AtHeader /\ at.count < Header.memSize

CheckUserVirtualAddressValidity(vaddr) == vaddr # NULL /\ vaddr >= UserBase

\* Mutant: each page is copied from the beginning of the segment.
SourceNotAdvanced == Header.offset

\* Where in the file the page comes from, and how much of it is copied; the
\* header's fileSize is not looked at.
Source == Header.offset + at.count
CopySize == IF Header.memSize - at.count < PageSize THEN Header.memSize - at.count ELSE PageSize

\* MmSet and MmCopy: a page's length of bytes, from Pointer on, in what the
\* current directory maps there; what is stored in page -1 is lost.
Stored(m) ==
    [f \in Pages |-> [b \in Bytes |->
        LET hit == {k \in Bytes : /\ WalkIn(m, cr3, PageAt(Pointer + k)) = f
                                  /\ (Pointer + k) % PageSize = b}
        IN  IF f = NOPAGE \/ hit = {} THEN data[f][b]
            ELSE LET k == CHOOSE k \in hit : TRUE
                 IN  IF k < CopySize THEN Source + k ELSE ZERO]]

\* A turn of LoadElf's inner loop: a free page is mapped at Pointer, in place
\* of what may be there, then cleared and written through Pointer.  Pointer
\* need not be the page's beginning, and then the bytes end in the next page:
\* when that is not mapped the kernel stops in a page fault of its own.
LoadPage ==
    LET m == AddPage(TakePage(Memory), cr3, PageAt(Pointer), FreePage(used))
    IN  /\ InSegment
        /\ CheckUserVirtualAddressValidity(Pointer)
        /\ CanAlloc(Memory, 1)
        /\ BecomesMemory(m)
        /\ data' = Stored(m)
        /\ halted' = (WalkIn(m, cr3, PageAt(Pointer + PageSize - 1)) = NONE)
        /\ at' = [header |-> at.header, count |-> at.count + PageSize]
        /\ proc' = [proc EXCEPT ![loading] =
                        Process(@.dir, @.kstack, @.stack, @.code \cup {FreePage(used)}, @.started)]
        /\ UNCHANGED <<heap, program, cr3, saved, loading, irq, running, grower, torn>>

\* The end of the inner loop: the next header.
NextHeader ==
    /\ AtHeader /\ ~InSegment
    /\ at' = [header |-> at.header + 1, count |-> 0]
    /\ UNCHANGED <<memory, data, heap, program, proc, cr3, saved, loading, halted, irq, running,
                   grower, torn>>

\* RestoreMemoryMapping, when something is saved.
Restored(s) == IF s = NONE THEN cr3 ELSE s

\* The end of LoadElf: all is loaded, or an address of the program is not
\* one of a user page and the rest of it is not.
LoadEnd ==
    /\ Boot
    /\ loading # NOBODY
    /\ AtHeader => InSegment /\ ~CheckUserVirtualAddressValidity(Pointer)
    /\ cr3' = Restored(saved)
    /\ saved' = NONE
    /\ loading' = NOBODY
    /\ UNCHANGED <<memory, data, heap, program, proc, at, halted, irq, running, grower, torn>>

\* ENABLE_IRQ at the end of KernelInit.
EnableIrq ==
    /\ Boot
    /\ loading = NOBODY
    /\ irq' = TRUE
    /\ UNCHANGED <<memory, data, heap, program, proc, cr3, saved, elf, running, grower, torn>>

\* The clock starts a thread: ThreadPrepare saves the directory, maps the
\* user stack in that of the process and restores; then the thread runs in
\* the directory of its process.  Whatever was interrupted stays where it is.
PmStartThread(p) ==
    /\ irq
    /\ proc[p].dir # NONE
    /\ running # p
    /\ CanAlloc(Memory, 1)
    /\ BecomesMemory(AddPage(Memory, proc[p].dir, StackPage, proc[p].stack))
    /\ proc' = [proc EXCEPT ![p] = Process(@.dir, @.kstack, @.stack, @.code, TRUE)]
    /\ saved' = NONE
    /\ cr3' = proc[p].dir
    /\ running' = p
    /\ UNCHANGED <<data, heap, program, elf, irq, grower, torn>>

\* ksbrk, in a system call or in the boot code: GetFreePage finds a page ...
GrowFind ==
    /\ irq => running # NOBODY
    /\ ~Growing
    /\ Cardinality(heap) < MaxHeap
    /\ grower' = [by |-> running, page |-> FreePage(used)]
    /\ UNCHANGED <<memory, data, heap, program, proc, cr3, saved, elf, irq, running, torn>>

\* ... marks it, and ksbrk maps it in the tables of the kernel and clears it,
\* so that what somebody else has in it is gone: an entry of a table too.
GrowTake ==
    /\ Growing
    /\ running = grower.by
    /\ torn' = (torn \/ grower.page \in used)
    /\ used' = used \cup ({grower.page} \cap Frames)
    /\ heap' = heap \cup {grower.page}
    /\ dir' = [dir EXCEPT ![grower.page] = [r \in Tables |-> NONE]]
    /\ table' = [table EXCEPT ![grower.page] = CleanPageTable(@)]
    /\ data' = [data EXCEPT ![grower.page] = [b \in Bytes |-> ZERO]]
    /\ grower' = [by |-> NOBODY, page |-> NONE]
    /\ UNCHANGED <<slot, program, proc, cr3, saved, elf, irq, running>>

\* The kernel has page -1 for itself.
Lost == NOPAGE \in heap \/ \E s \in Slots : slot[s] = NOPAGE

Next ==
    /\ ~Lost /\ ~halted
    /\ \/ \E p \in Procs : LoadElf(p) \/ PmStartThread(p)
       \/ LoadPage
       \/ NextHeader
       \/ LoadEnd
       \/ EnableIrq
       \/ GrowFind
       \/ GrowTake

Spec == Init /\ [][Next]_vars

-----------------------------------------------------------------------------
(* Properties.                                                             *)

PageOrNone == Pages \cup {NONE}

\* Entries, blocks and registers hold pages.
TypeOK ==
    /\ used \subseteq Frames /\ heap \subseteq Pages
    /\ slot \in [Slots -> PageOrNone]
    /\ dir \in [Pages -> [Tables -> PageOrNone]]
    /\ table \in [Pages -> [Places -> PageOrNone]]
    /\ proc \in [Procs -> [dir : PageOrNone, kstack : PageOrNone, stack : PageOrNone,
                           code : SUBSET Pages, started : BOOLEAN]]
    /\ data \in [Pages -> [Bytes -> Nat \cup {ZERO, ANY}]]
    /\ program \in [Procs -> Programs]
    /\ at \in [header : Nat \ {0}, count : Nat] /\ halted \in BOOLEAN
    /\ cr3 \in Pages /\ saved \in PageOrNone
    /\ loading \in Procs \cup {NOBODY} /\ running \in Procs \cup {NOBODY}
    /\ irq \in BOOLEAN /\ torn \in BOOLEAN
    /\ grower \in [by : Procs \cup {NOBODY}, page : PageOrNone]

Created == {p \in Procs : proc[p].dir # NONE}

\* Who uses which page: the heap, the blocks of the heap of pages
\* (directories, tables, kernel stacks) and the pages that programs see.
Uses ==
    {<<"heap", f>> : f \in heap}
    \cup {<<"slot", s>> : s \in {s \in Slots : slot[s] # NONE}}
    \cup {<<"user", p, page>> : p \in Created, page \in CodePages \cup {StackPage}}
PageOf(use) ==
    IF use[1] = "heap" THEN use[2]
    ELSE IF use[1] = "slot" THEN slot[use[2]]
    ELSE Walk(proc[use[2]].dir, use[3])

\* No page of the machine is used twice, none of the kernel's is given away,
\* and the bitmap knows all that are used (GetFreePage, PageAlloc): unless
\* the clock started a thread for the first time while ksbrk was between
\* finding a free page and marking it.  Only page -1 is shared.
FramesHaveOneUse ==
    /\ TypeOK
    /\ torn \/ \A u \in Uses : PageOf(u) \notin {NONE, NOPAGE} =>
                  /\ PageOf(u) \in used \ Kernel
                  /\ \A v \in Uses : PageOf(v) = PageOf(u) => u = v

\* Nobody gets page -1 before every page of the machine is taken, and every
\* page that the bitmap holds as taken is somebody's: the pages above, a user
\* stack that is not mapped yet, or one that LoadElf took for a program and
\* has mapped another one over.
MemoryIsAccountedFor ==
    LET held == {PageOf(u) : u \in Uses} \cup {proc[p].stack : p \in Created}
                \cup UNION {proc[p].code : p \in Created}
    IN  /\ NOPAGE \in held => Frames \subseteq used
        /\ ~Lost => used = Kernel \cup (held \ {NONE, NOPAGE})

\* LoadElf ends at a header without an address or with one that is not a user's;
\* it loads those before.
Ends(h) == h.vaddr = NULL \/ (h.memSize > 0 /\ ~CheckUserVirtualAddressValidity(h.vaddr))
Loads(p) == {i \in DOMAIN program[p] : \A j \in 1..i : ~Ends(program[p][j])}
Segments(p) == {program[p][i] : i \in Loads(p)}

\* The addresses, a page apart, at which it maps pages for a header.
Turns(h) == {h.vaddr + c : c \in {c \in 0..(h.memSize - 1) : c % PageSize = 0}}

\* What the k-th byte of a segment is in memory.
ByteOf(h, k) == IF k < h.memSize THEN h.offset + k ELSE ZERO

\* Each segment begins at the beginning of a page that is its own: what the
\* text of a program linked at UserBase does, and its data need not.
WellMade(p) ==
    \A g, h \in Segments(p) :
        /\ h.memSize > 0 => h.vaddr % PageSize = 0
        /\ g # h => Turns(g) \cap Turns(h) = {}

\* The byte that a process finds at an address.
ByteAt(p, a) == data[Walk(proc[p].dir, PageAt(a))][a % PageSize]

\* When interrupts are enabled the processor is in the directory of the
\* process that runs (the kernel's before the first one) and nothing is left
\* saved.  Each process has behind its addresses the pages that LoadElf and
\* ThreadPrepare mapped for it and nothing else, unless ksbrk has cleared a
\* page that became a table meanwhile.  When its segments begin at pages and
\* share none, the bytes there are those of its file, with zeros up to the
\* end of the page (page -1 excepted, which has none), whatever was loaded,
\* started or grown since; and LoadElf does not stop in a page fault.
ProcessesSeeTheirPages ==
    /\ halted => ~WellMade(loading)
    /\ (irq /\ ~Lost) =>
        /\ saved = NONE
        /\ cr3 = IF running = NOBODY THEN KDIR ELSE proc[running].dir
        /\ torn \/ \A p \in Created :
              /\ Walk(proc[p].dir, StackPage) =
                    IF proc[p].started THEN proc[p].stack ELSE NONE
              /\ {page \in CodePages : Walk(proc[p].dir, page) # NONE} =
                    UNION {{PageAt(a) : a \in Turns(h)} : h \in Segments(p)}
              /\ WellMade(p) => \A h \in Segments(p) : \A a \in Turns(h) : \A b \in Bytes :
                    \/ Walk(proc[p].dir, PageAt(a)) = NOPAGE
                    \/ ByteAt(p, a + b) = ByteOf(h, a - h.vaddr + b)
=============================================================================
