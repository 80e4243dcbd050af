----------------------------- MODULE KernelHeap -----------------------------
(***************************************************************************)
(* The kernel heap of LtKernel: kmalloc, kfree, ksbrk and the functions    *)
(* under them (kernel/lib/kmalloc.c, HeapInit in kernel/init/heap.c).      *)
(*                                                                         *)
(* The heap is a row of blocks from vHeapBase to gHeap.  A block starts    *)
(* with a header, its size and its state; nothing else says where a block  *)
(* is: the code goes from one to the next by adding the size to the        *)
(* address.  One call runs at a time, and each turn of its loops is a step *)
(* (the kernel as it is loads one program; nothing locks the heap against  *)
(* a second thread, which the model leaves out).                           *)
(***************************************************************************)
EXTENDS Integers

CONSTANTS
    HeaderSize,     \* BLOCK_HEADER_SIZE
    MinimalSize,    \* MINIMAL_BLOCK_SIZE
    PageSize,       \* PAGE_SIZE
    Base,           \* gKernelInfo.vHeapBase
    Limit,          \* gKernelInfo.vHeapLimit
    Sizes           \* the sizes that the kernel gives to kmalloc

ASSUME HeaderAssumption == HeaderSize \in Nat \ {0} /\ MinimalSize \in Nat \ {0}
ASSUME PageAssumption == PageSize \in Nat /\ PageSize > HeaderSize + MinimalSize
ASSUME HeapAssumption == Base \in Nat /\ Limit \in Nat /\ Base + PageSize <= Limit
ASSUME SizesAssumption == Sizes \subseteq Nat \ {0}

FREE == "BLOCK_FREE"
USED == "BLOCK_USED"
DefaultBlockSize == PageSize - HeaderSize

VARIABLES
    mem,        \* the headers: address of a block -> its size and state
    gHeap,      \* where the heap ends
    dirty,      \* the addresses of the heap whose byte may not be 0
    pc,         \* which loop the current call is in; "panic": the kernel stopped
    block,      \* the local variable block of _kmalloc or _kdefrag
    size,       \* the parameter size of _kmalloc, header included
    live        \* history: what the callers hold, pointer -> size asked for

vars == <<mem, gHeap, dirty, pc, block, size, live>>

-----------------------------------------------------------------------------
Header(s, st) == [size |-> s, state |-> st]
Data(b, s) == (b + HeaderSize)..(b + s - 1)      \* the bytes after a header
HeaderBytes(b) == b..(b + HeaderSize - 1)

\* Writes a header, of a block that exists or of a new one.
Put(m, b, h) == [a \in DOMAIN m \cup {b} |-> IF a = b THEN h ELSE m[a]]

\* Changes the state of a block, and nothing else.
SetState(b, st) == Put(mem, b, Header(mem[b].size, st))

\* HeapInit, after its ksbrk(1): one free block of a page, set to 0.
Init ==
    /\ mem = [a \in {Base} |-> Header(PageSize, FREE)]
    /\ gHeap = Base + PageSize
    /\ dirty = HeaderBytes(Base)
    /\ pc = "idle"
    /\ block = Base
    /\ size = 0
    /\ live = [p \in {} |-> 0]

-----------------------------------------------------------------------------
(* kmalloc.                                                                *)

\* The search always starts at the base of the heap.
SearchFrom == Base

kmalloc(n) ==
    /\ pc = "idle"
    /\ pc' = "search"
    /\ block' = SearchFrom
    /\ size' = n + HeaderSize
    /\ UNCHANGED <<mem, gHeap, dirty, live>>

\* Mutant: a block that is larger than needed by one byte is not taken.
FitsStrictly(b) == mem[b].state = FREE /\ size < mem[b].size

\* Mutant: the state of the block is not looked at.
FitsAnyState(b) == size <= mem[b].size

\* The test of the first-fit loop.
Fits(b) == mem[b].state = FREE /\ size <= mem[b].size

SkipBlock ==
    /\ pc = "search"
    /\ block < gHeap
    /\ ~Fits(block)
    /\ block' = block + mem[block].size
    /\ UNCHANGED <<mem, gHeap, dirty, pc, size, live>>

\* Mutant: the rest of the block is computed without what was taken from it.
SplitWholeRest(b, s) ==
    Put(Put(mem, b, Header(s, mem[b].state)), b + s, Header(mem[b].size, FREE))

\* _splitBlock
SplitBlock(b, s) ==
    Put(Put(mem, b, Header(s, mem[b].state)), b + s, Header(mem[b].size - s, FREE))

TakeBlock ==
    /\ pc = "search"
    /\ block < gHeap
    /\ Fits(block)
    /\ IF mem[block].size - size >= HeaderSize + MinimalSize
       THEN /\ mem' = SplitBlock(block, size)
            /\ dirty' = dirty \cup HeaderBytes(block + size)
       ELSE UNCHANGED <<mem, dirty>>
    /\ pc' = "mark"
    /\ UNCHANGED <<gHeap, block, size, live>>

\* block->state = BLOCK_USED, and the return to the caller, who may write to
\* every byte of the block from now on.
MarkUsed ==
    /\ pc = "mark"
    /\ mem' = SetState(block, USED)
    /\ dirty' = dirty \cup Data(block, mem[block].size)
    /\ live' = [p \in DOMAIN live \cup {block + HeaderSize} |->
                    IF p = block + HeaderSize THEN size - HeaderSize ELSE live[p]]
    /\ pc' = "idle"
    /\ UNCHANGED <<gHeap, block, size>>

\* _mod subtracts b as long as a > b, never down to 0: 1 for every a > 0.
Mod(a, b) == IF a > 0 THEN 1 ELSE 0

\* Mutant: the whole pages of the request, without one for the remainder.
PagesForWhole(s) == s \div PageSize

\* The number of pages that _kmalloc asks ksbrk for.
PagesFor(s) ==
    IF s > DefaultBlockSize
    THEN (s \div DefaultBlockSize) + Mod(s, DefaultBlockSize)
    ELSE 1

\* ksbrk sets the new block to 0 behind its header.
DirtyAfterGrowth(b, s) == dirty \cup HeaderBytes(b)

\* The heap stays in the addresses reserved for it.
WithinLimit(bytes) == gHeap + bytes <= Limit

\* ksbrk: no block was large enough.  A new free block of whole pages begins
\* where the heap ended, and the search goes on with it.
ksbrk ==
    LET bytes == PagesFor(size) * PageSize IN
    /\ pc = "search"
    /\ block >= gHeap
    /\ IF WithinLimit(bytes)
       THEN /\ mem' = Put(mem, gHeap, Header(bytes, FREE))
            /\ gHeap' = gHeap + bytes
            /\ dirty' = DirtyAfterGrowth(gHeap, bytes)
            /\ block' = gHeap
            /\ UNCHANGED pc
       ELSE /\ pc' = "panic"
            /\ UNCHANGED <<mem, gHeap, dirty, block>>
    /\ UNCHANGED <<size, live>>

-----------------------------------------------------------------------------
(* kfree.                                                                  *)

\* Mutant: the block is not set to 0.
DirtyAfterFreeUnset(b) == dirty

\* MmSet on the data of the freed block.
DirtyAfterFree(b) == dirty \ Data(b, mem[b].size)

\* kfree of a pointer that kmalloc returned, up to _kdefrag.
kfree(p) ==
    LET b == p - HeaderSize IN
    /\ pc = "idle"
    /\ mem[b].state = USED
    /\ mem' = SetState(b, FREE)
    /\ dirty' = DirtyAfterFree(b)
    /\ live' = [q \in DOMAIN live \ {p} |-> live[q]]
    /\ pc' = "defrag"
    /\ block' = Base
    /\ UNCHANGED <<gHeap, size>>

\* The test of _kdefrag.
Mergeable(b, next) == mem[b].state = FREE /\ mem[next].state = FREE

\* The walk adds the size that the block has after the merge.
BehindMerge(b, merged) == b + merged

\* One turn of _kdefrag.  After a merge it goes on behind the merged block:
\* what follows is not looked at together with it in the same pass.
DefragBlock ==
    LET next == block + mem[block].size IN
    /\ pc = "defrag"
    /\ block < gHeap
    /\ IF next < gHeap /\ Mergeable(block, next)
       THEN LET merged == mem[block].size + mem[next].size IN
            /\ mem' = [a \in DOMAIN mem \ {next} |->
                        IF a = block THEN Header(merged, FREE) ELSE mem[a]]
            /\ dirty' = dirty \ Data(block, merged)
            /\ block' = BehindMerge(block, merged)
       ELSE /\ block' = next
            /\ UNCHANGED <<mem, dirty>>
    /\ UNCHANGED <<gHeap, pc, size, live>>

DefragEnd ==
    /\ pc = "defrag"
    /\ block >= gHeap
    /\ pc' = "idle"
    /\ UNCHANGED <<mem, gHeap, dirty, block, size, live>>

-----------------------------------------------------------------------------
\* The steps of a call that is running.
Work == SkipBlock \/ TakeBlock \/ MarkUsed \/ ksbrk \/ DefragBlock \/ DefragEnd

Next ==
    \/ \E n \in Sizes : kmalloc(n)
    \/ \E p \in DOMAIN live : kfree(p)
    \/ Work

\* The processor executes the call that is running.
Spec == Init /\ [][Next]_vars /\ WF_vars(Work)

-----------------------------------------------------------------------------
(* Properties.                                                             *)

Blocks == DOMAIN mem

\* Every variable has a value of its C type.
TypeOK ==
    /\ Blocks \subseteq Base..(Limit - 1)
    /\ mem \in [Blocks -> [size : 1..(Limit - Base), state : {FREE, USED}]]
    /\ gHeap \in Base..Limit
    /\ dirty \subseteq Base..(Limit - 1)
    /\ pc \in {"idle", "search", "mark", "defrag", "panic"}
    /\ block \in Base..Limit
    /\ size \in Nat
    /\ DOMAIN live \subseteq Base..(Limit - 1)
    /\ live \in [DOMAIN live -> Nat]

\* The headers lead from the base of the heap to its end: every block stops
\* where the next one, or nothing more, begins, and no two overlap, whatever
\* was split, merged and added (kmalloc.c:164-190, 31-76).
Tiled ==
    /\ Base \in Blocks
    /\ \A b \in Blocks :
        /\ HeaderSize < mem[b].size
        /\ b + mem[b].size = gHeap \/ b + mem[b].size \in Blocks
    /\ \A b, c \in Blocks : b < c => b + mem[b].size <= c
    /\ \A b \in Blocks : b + mem[b].size <= gHeap

\* The loops of _kmalloc and _kdefrag never leave the row of blocks: they
\* read a header only where there is one (kmalloc.c:130, 178, 188).
WalksOnHeaders == pc \in {"search", "defrag"} => block \in Blocks \/ block = gHeap

\* What callers hold are the used blocks, all of them, each one large enough
\* for what was asked; a free block belongs to nobody (kmalloc.c:109, 159).
UsedIsLive ==
    /\ \A p \in DOMAIN live :
        /\ p - HeaderSize \in Blocks
        /\ mem[p - HeaderSize].state = USED
        /\ live[p] + HeaderSize <= mem[p - HeaderSize].size
    /\ \A b \in Blocks : mem[b].state = USED => b + HeaderSize \in DOMAIN live

\* The structure that exists only as sums of sizes: the headers form a row,
\* the walks stay on it, and what callers hold is what it says is used.
HeadersAreSound == TypeOK /\ Tiled /\ WalksOnHeaders /\ UsedIsLive

\* kmalloc returns memory that is all 0.  Its callers rely on it (CreateFile
\* never sets file->leaf, BrowseAndCacheDirectory never sets opened); it holds
\* because every free block is 0 behind its header (kmalloc.c:72, 110, 185).
FreeIsZero ==
    \A b \in Blocks : mem[b].state = FREE => dirty \cap Data(b, mem[b].size) = {}

\* The heap grows, and the kernel panics, only when no free block is large
\* enough for the request, wherever in the heap it lies (kmalloc.c:126-154).
GrowsOnlyWhenFull ==
    [][gHeap' # gHeap \/ (pc' = "panic" /\ pc # "panic")
        => \A b \in Blocks : mem[b].state = FREE => mem[b].size < size]_vars

\* A call of kmalloc or kfree ends: it returns, or the kernel panics.
CallsEnd == pc # "idle" ~> pc \in {"idle", "panic"}

\* Blocks, headers and merges implement an allocator of disjoint ranges.
Abstract == INSTANCE Allocator WITH Lo <- Base, Hi <- Limit
ImplementsAllocator == Abstract!Spec
=============================================================================
