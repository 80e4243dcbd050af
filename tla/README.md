# LtKernel in TLA+

LtKernel is a small teaching kernel for the x86: paging, a kernel heap, a
preemptive round-robin scheduler, system calls, an ext2 reader over a polled
ATA drive, and a remote debugger on the serial port. This directory models the
parts of it that have state worth checking, checks them with TLC on small
instances, and proves the most important properties for every instance with
TLAPS. Paths below are relative to `src/`.

    tlc -workers 2 -config MCConsole.cfg MCConsole      # a run
    tlapm ConsoleProofs.tla                             # a module of proofs

`PROJECT.json` lists the runs, a mutant of the code for every property that is
checked, the source lines behind every definition, and the hazards the
properties are for.

## 1. The system

### Components, state, operations

| Component | Source | State | Operations |
| --- | --- | --- | --- |
| Process manager and scheduler | `kernel/user/process_manager.c`, `process.c`, `thread.c`, `kernel/scheduler.c`, `kernel/lib/list.c` | lists of processes and threads, counters, states, current thread and process | create, start, schedule, look up, `wait`, `exit` |
| Context switch | `kernel/init/int.asm`, `kernel/scheduler.c`, `process_starter.asm` | registers, `cr3`, TSS, saved contexts | enter and leave interrupts, save, load |
| Console input | `kernel/user/console.c`, `SysScanf`, `kernel/drivers/keyboard.c` | owner, line buffer, index and flag of each thread | take, give up, key, scan |
| Kernel heap | `kernel/lib/kmalloc.c`, `kernel/init/heap.c` | blocks behind each other from `vHeapBase` to `gHeap` | `kmalloc`, `kfree`, split, merge, grow |
| Pages and directories | `kernel/init/vmm.c`, `PageAlloc`, `PageHeapInit` | bitmap, heap of pages, directories and tables, saved directory | `GetFreePage`, map, create a directory, save and restore |
| Loading of programs | `kernel/fs/elf.c`, `kernel/kernel.c` | none of its own | `LoadElf` |
| File tree, handles | `kernel/fs/file.c`, `fs_manager.c`, `kernel/lib/handle.c` | tree of cached files, handles of each process, handle count | open, browse, read and change directories |
| Disk | `kernel/fs/ext2.c`, `kernel/drivers/ata.c` | the drive's last command, the superblock and groups, interrupt mask | read the disk's tables at boot, an inode, a file, sectors with retries |
| Debugger, serial port | `kernel/debug/`, `kernel/drivers/serial.c` | request, response, initialised flag, trap flag | stop, connect, serve requests, resume |
| Screen, logger, `kprint` | `kernel/drivers/screen.c`, `kernel/lib/stdio.c`, `kernel/logger.c` | video memory, cursor, colours, outputs | print, scroll |
| Interrupts, exceptions, boot | `kernel/kernel.c`, `kernel/init/gdt.c`, `idt.c`, `isr.c`, `int.asm`, `pic.asm` | interrupt flag, lines that wait and that are served, tables written at boot | initialise, mask, take, acknowledge, return, stop on a fault |
| User library and shell | `user/` | none in the kernel | system calls |

### How they interact

`KernelInit` builds memory, the process manager and the disk, loads `/main.out`
with interrupts masked (`kernel/kernel.c:142-158`) and unmasks them. From then
on everything happens in three ways:

- **the clock** (`clock_isr`) calls `Schedules`, which saves the interrupted
  context, and `PmStartThread`, which loads the next thread's directory, stack
  and context and never returns;
- **system calls** run in the calling thread with interrupts enabled (a trap
  gate), so that the clock can stop them between any two instructions. They
  share with each other: the process states, the console, the file tree, the
  handle count, the heap, the bitmap, the drive;
- **the keyboard** (`DrvKeyboard`) writes into the line of the console's owner,
  in the middle of whatever runs.

There is no lock in the kernel. What protects a section, where anything does, is
`DISABLE_IRQ` (`AtaRead`, the loading of programs) or the order of the writes.
These sections do not nest: the first `sti` ends them all.

### What is hard, and what makes each part correct

- *Process manager*: `wait` reads a state that `exit` and the clock write; tids
  and pids are places in lists that are walked by a function with an edge case;
  an exited process is started again. Correct: look-ups find the right object,
  states tell what happened, no early return from `wait`, nobody starves.
- *Context switch*: one TSS, one `cr3`, saved and loaded by different code.
  Correct: every thread has its own stacks, its directory and its registers.
- *Console*: test and take in two steps, keys in between any two statements of
  `SysScanf`. Correct: a reader gets its own line up to Enter.
- *Heap*: structure that exists only as sums of sizes. Correct: blocks tile the
  heap, used blocks are disjoint and belong to somebody, free memory is zero.
- *Pages*: find and mark are two steps, one saved directory, page tables that
  start as garbage, segments that need not begin at a page. Correct: one use for
  each page, each process sees its own, with the bytes of its file.
- *File tree*: several processes extend the same lists. Correct: the tree never
  contradicts the disk; what was browsed is complete.
- *Debugger*: one request and one response that live over the turns of a loop,
  with pointers that stay after their blocks were freed. Correct: each answer
  belongs to its request, blocks are given back once, what is lost is bounded.
- *Disk*: one drive, retries, interrupts masked over an error. Correct: the
  bytes of the file, in order; failure only for a cause; memory given back; every
  read ends.
- *Interrupts and boot*: unmasked half-way through the initialisation; every end
  acknowledges, and a switch never comes back to the end of its handler.
  Correct: one handler at a time, none before its tables, nothing in the middle
  of `LoadElf`, and the clock never stops for good.
- *Screen*: the echo of a key in the middle of a character. Correct: the
  cursor stays within the memory, the screen shows what was printed.

## 2. The modules

| Module | Models | Abstract specification | Run module | Proofs |
| --- | --- | --- | --- | --- |
| `ProcessManager` | process manager, scheduler, `wait`, `exit` | `RoundRobin` | `MCProcessManager` | `ProcessManagerProofs` |
| `Console` | console and scan | | `MCConsole` | `ConsoleProofs` |
| `ContextSwitch` | interrupts and switches, registers | | `MCContextSwitch` | `ProcessorProofs` |
| `KernelHeap` | kmalloc, kfree, ksbrk | `Allocator` | `MCKernelHeap` | `KernelHeapProofs` |
| `Vmm` | pages, directories, who maps what | | `MCVmm` | `VmmProofs` |
| `FileTree` | tree, handles, directory calls | the disk itself (`Resolve`) | `MCFileTree` | `FileTreeProofs` |
| `Storage` | ext2 files over the drive | the inode itself (`Content`) | `MCStorage` | `StorageProofs` |
| `Debugger` | remote debugger | | `Debugger` | `DebuggerProofs` |
| `Interrupts` | boot, interrupt flag, controller, handlers, masked sections | | `MCInterrupts` | `ProcessorProofs` |
| `Screen` | screen and formatted output | a terminal (`Terminal`) | `MCScreen` | `ConsoleProofs` |
| `ThreadsList` | the number of threads, which `ContextSwitch` and `Interrupts` share | | | |

Each module keeps the names of the code's variables where it can. Definitions
that start with a comment "Mutant:" are not part of a specification: they are
plausible slips in the definition that follows them, and show that the property
they are paired with in `PROJECT.json` would notice.

**ProcessManager.** Objects are numbered as `kmalloc` returns them; a list is
the sequence of its data; `ListGet` keeps the walk's edge cases, with `WILD` for
what is read through a null pointer. `PmCreateProcess` is the whole chain from
`LoadElf`; `Schedules` the whole handler of the clock up to the new thread.
`SysWait` and `SysExit` are cut where the clock can change what they read: every
turn of the loop of `wait`, and the two writes of `exit`. The guard `stepped`
says that a slice is long enough for at least one step: a kernel that is
interrupted again before its first instruction does no work at all. The kernel
loads one program; the model loads `NPrograms` in the same masked section, as
the lists, the modulus and `wait` are made for several.

**Console.** One action for each statement of `SysScanf` that reads or writes
what the keyboard or another reader can change. `CnslHandleKey` is the interrupt
of the keyboard and may come at any moment; only a pressed key has an effect.
It never compares the index with the size of the buffer, and neither does the
model: the index `BufferSize` stands for every place behind the buffer. The
first of them is the low byte of `bufferIndex` itself, which the build increments
before it stores the key, so that the index stays behind the buffer; the flag is
never hit, since the next places lie behind the thread. What is overwritten there,
and behind the program's buffer by a copy of that length, is not modelled.

**ContextSwitch.** A context is the mode, data segment, stack, `ax` and one
value for all registers that are treated alike. `Saved` is what `Schedules`
stores, `Loaded` what `_start_process` leaves in the processor, including the
`ax` it uses for segments and the stack it does not load in kernel mode. `frame`
is the user's `esp` that the processor pushed onto each kernel stack. A thread
leaves a system call by the frame on the stack that it is on: its own, as long as
no switch came between (`LeaveSyscall`). Once it was switched away in the call
(`displaced`), it runs on the stack of some other interrupt. It comes home
(`LeaveDisplaced`) if the first function that returns does so with `leave`, which
takes `esp` from `ebp`. It need not: a function that returns without one, or
`INT_EPILOG` itself, pops from where `esp` is, and others may have overwritten the
thread's frames meanwhile. Then it goes astray (`GoAstray`): it leaves by the frame of
any stack at all, or stays in the kernel. `MaxAstray` bounds how many threads do.
The model's definitions have `Switch` in their names where `Interrupts` has one of the same
kind, as one module proves both.

**KernelHeap.** Headers are a function from addresses; each turn of the loops of
`_kmalloc` and `_kdefrag` is a step; `dirty` holds the bytes that may not be
zero. One call at a time. The panic at the limit is a state in which the kernel
stays, hence no check of deadlock.

**Vmm.** Directories and tables are pages whose contents are functions; an
unclean page holds entries to page 0. `GetFreePage` is one step where interrupts
are masked, and two steps in `ksbrk`, which a system call runs with interrupts
enabled. The tables of the kernel are the same in all directories and are not
modelled one by one. `PmStartThread` starts any process: the order is
`ProcessManager`'s matter. A program is the list of its headers; the bytes of its
file are their offsets, and `data` says which of them a page holds. `LoadElf` goes
through the headers as the code does: the first one without an address ends them,
one below the user's addresses ends them with an error (the process remains), and
each turn clears and copies a page's length through the address, whatever page
that ends in. Its `halted` is the page fault in the kernel when that page is not
mapped; the handler of the fault does not return. When memory is full `GetFreePage` returns -1, which
nobody tests for; page -1 is `NOPAGE` in the model and can be mapped for a program
any number of times. Once the kernel itself has it, as a directory, a table, a
stack or a part of its heap, what it writes there is lost and the model stops
(`Lost`). The heap of pages never runs out (`CanAlloc`): the kernel would panic.

**FileTree.** `file` holds the `File` structures in order of their creation;
`leaf`, `next` and `parent` are places in it (`prev` is written and never read).
A call is a record of its place and its locals. Browsing an entry is three
steps: the check and the new file, its `next`, the directory's `leaf`.
`s_HandleCount++` is a load and a store, of a pointer to `int`, so it adds four.
`OpenFile`, `IsDirectory` and `Ext2ReadInode` are cut into the test of the shared
file's inode, the write of `NULL`, the write of the inode that was read and its
use, so that two calls can take it from each other. Reading the disk may fail at
every call. A path is the sequence of its components; one that ends with a slash
leaves the file pointer null, and what `IsDirectory` then reads at the bottom of
memory is a choice of both answers. `string` is the memory of the program that
holds the path: the walk cuts it at a slash and puts the slash back, and the
program may give it again. `browsed`, `raced`, `cleared`, `torn`, `listed` and
`whole` are history variables: they name exactly the situations that a property
excludes.

**Storage.** A byte is represented by its address, so that content is a
sequence of addresses and a wrong block, a wrong offset or another reader's
sector shows. `masked` names the reader that runs between `DISABLE_IRQ` and
`ENABLE_IRQ`. The drive answers every command, with data or an error (`AtaWait`
has no time limit and would otherwise spin); sectors beyond its end always fail.
`NB_DIRECT` is 2 instead of 12. A zero pointer ends the loops of `Ext2ReadFile`,
in the code as in the model, so that a file with a hole is not read to its end;
the property is about those without (`HasItsBlocks`). The boot code is a reader
of its own that comes first: it reads the superblock (with size and offset
swapped in the call of `AtaRead`, `kernel/fs/ext2.c:197`, which are the same
number) and the table of groups, through which every inode is found afterwards.
`kmalloc` takes its size for an `int` and refuses one that is not positive, so that
a file that is empty, or of 2^31 bytes and more, cannot be read (`Refused`;
`kernel/fs/ext2.c:305`); `IntMax` is the largest `int`. `held` are the
blocks of the kernel heap that a call has allocated and not given back. When the
boot code cannot read, nobody unmasks the interrupts again.

**Debugger.** The program runs or is stopped; while it is stopped interrupts are
masked and `WaitForPacket` reads a packet, runs its command, sends the answer and
cleans up, one action each. The host is outside the kernel: it may send any
packet at any time, an empty one (which repeats the request before) and one with
a size that `kmalloc` refuses included. A pointer is null, to a block the
debugger holds, or to one that it has freed; `kfree` of the last either reports
a double free or frees whatever lost block has taken the place (a header that
lies in the middle of a larger block by then is left out). What memory and
frames contain is a choice of the commands' outcomes. One outcome is the end: a
`disass` whose block `kmalloc` refuses sets the size, finds no data and writes all
the same (`kernel/debug/ltdbg.c:379-393`, `DisassBreaks`), and the copies of
`disass`, `stack` and `memory` may come to a page that is not mapped. The machine is
then `broken`; the handler of the fault does not return. `filled` and `repeated`
are history variables.

**Interrupts.** The processor is a stack of activations: what was interrupted,
and on top what runs, each with the flag that its `iret` will restore. The
controller has the lines that have risen and those in service; its end of
interrupt, which the code sends at the end of handlers, but also of system calls
and debugger stops and in the start of a thread, is for the highest one in
service, or for none. `Boot` lists the steps of `KernelInit` in order; the steps
that the properties do not tell apart are one action, `Initialises`. Interrupts
are taken before the next step whenever they are unmasked (`Pending`), whatever
else could happen. A thread is the stack it was interrupted with. What the
handlers do to the console and to the threads is in the other modules. `PicInit`
leaves every line unmasked: the word it means as a mask is taken as the third of
the controller's initialisation (`kernel/init/pic.asm:51`), so `Irqs` may be any
lines. A fault prints and stops, with the interrupts masked.

**Screen.** The steps of `ScPrintChar` are its tests and its loads and stores of
`_line` and `_column`; a cell of the video memory is its character. The echo of
a key is an interrupt handler (`MayRun`): it starts anywhere and ends before what it
interrupted goes on. `kprintEx` is a sequence of pieces, a character or a
conversion, and `Digits` the two loops of `printInt`. Once two printers were in
`ScPrintChar` at once (`mixed`) the contents of the screen are forgotten, as what
it then shows is anybody's guess, and only the cursor goes on. Some definitions have `Screen` in their names because
`ConsoleProofs` extends `Console` as well.

## 3. The runs

| Run | Question | Bounds | Result |
| --- | --- | --- | --- |
| `process_manager` | look-ups, states, `wait`, rotation, under every interleaving | 3 programs, waits for pids -1..3, counter modulo 4 | holds |
| `wait_after_exit` | does a wait for an exited process return? | the same | no |
| `console` | do keys and lines find each other, do readers get their lines, is the console given up? | 2 threads, buffer of 3 | holds |
| `kernel_heap` | structure, ownership, zeroed memory, growth, termination | pages of 5 bytes, heap of 3 pages, sizes 1, 2, 6 | holds |
| `context_switch` | stacks, directory and registers over switches | 3 threads, 2 register values, 1 thread astray | holds |
| `switch_context` | does a thread switched away in a system call go on as it was? | 2 threads, 2 register values, 1 thread astray | no |
| `file_tree` | is the tree the disk's, whatever races, are inodes there, is the path put back? | 2 processes, 3 directories, 5 calls and 1, and a retry | holds |
| `storage` | are the bytes right, is memory given back, does every read end? | the boot code, 2 readers, 7 files, 32 sectors | holds |
| `vmm` | one use for each page, own pages and bytes for each process, also when memory runs out | 2 of 5 programs, 17 pages of 2 bytes, heap of 2 | holds |
| `debugger` | do answers belong to requests, what is freed twice, what is lost? | 3 stops, 5 packets | holds |
| `screen` | does the cursor stay in bounds, does the screen show what was printed? | 2 rows of 3 columns, a process and the echo, 2 calls each | holds |
| `interrupts` | one handler at a time, none too early, loading undisturbed, no thread starved | 3 lines, 2 programs, with and without the debugger | holds |

Why the bounds are enough. Three programs are the first number at which "the
next" and "the other" differ, at which the modulus, the walk of the list and a
wait for a third process matter; two readers are enough for every race of two
steps on one owner, and three keys for a line, its Enter and a key behind it; a
fourth runs over the buffer. One thread astray is enough to show whether it takes
others with it.
The sizes of the heap give requests that leave too small a rest, that split,
and that need more than a page, in a heap in which three blocks can be merged
from either side. The disk has a directory, a file and an empty directory with
the name of its parent, so that a path can go down, up and down again, and a
cursor runs over more than one file. Five of the files end within a block, use
direct, singly and doubly indirect blocks, end one byte short, and touch the
last block of the disk; the table of groups crosses a block and the inodes are
in two groups; the other two are empty and longer than `IntMax`. Fifteen pages are not the kernel's, and two programs and
the heap ask for up to eighteen, so that memory runs out at each of the places
where a page is asked for; two bytes are a page's beginning and what is not, and
the programs have text and data that are well made, in one page, over each other's
pages in part, next to a page that is not mapped, and outside the user's addresses. Two numbers scroll the screen, and a process and
an echo that interrupt each other once show every order of two loads and stores.
Three lines are one that switches, one that does not, and one for which the
priorities of the others matter. Five packets are enough for a connect, a command
that leaves data and parameters behind, a second that finds them, and another
stop; the proofs cover sessions of any length.

Where a property has several parts, they are one hazard seen from several sides,
and each is defined on its own: `ObjectsAgree` (`TypeOK`, `IndexIsIdentity`,
`CurrentAgree`), `KeysFindTheirLine` (`TypeOK`, `OwnerIsReading`,
`LineStartsEmpty`), `HeadersAreSound` (`TypeOK`, `Tiled`, `WalksOnHeaders`,
`UsedIsLive`). The type invariant of every other module is the first conjunct of
its first property.

`WaitAfterExitReturns` and `SystemCallResumed` state what a comment and the
kernel's README say and the code does not do; `PROJECT.json` quotes each line.
They came up while the code was translated:

- nothing takes an exited process out of the rotation, and starting its thread
  makes it `RUNNING` again (`kernel/user/process_manager.c:117`);
- a thread preempted in the kernel does not get its `esp` back, and no thread its
  `ax`, which `_start_process` overwrites after it has popped `eax`
  (`kernel/user/process_starter.asm:34`, `78-85`).

What else the translation brought up is part of the models, without a run of its
own: two readers can take the console at once (`kernel/user/syscalls.c:168-181`,
why `ConsoleIsReleased` says "or another takes it over"); `SysReadDir` calls a
directory empty that nobody has browsed (`443-447`); the error exits of
`OpenFileFromName` leave the caller's path cut (`kernel/fs/file.c:196`);
after a failed read at boot the machine loops with the interrupts masked, with
no program (why `interrupts` does not look for deadlocks);
`_line > LINES` lets the cursor sit on a 26th row, and the branch of `ScScrollUp`
that clears is never taken, so that a row keeps what is left of an older one
behind its text (`kernel/drivers/screen.c:46`, `94`). `checkType` leaves out `p`
(`kernel/lib/stdio.c:18`), so that the case for `%p` is dead and
`kernel/init/vmm.c:291` prints it as it stands; `%x` of a number from 2^31 on
has a sign, and the smallest number has no opposite. Two processes that print at
once, instead of a process and the echo, can bring back a column that the other has
set to 0, and the column then grows without bound: with one program this does not
happen, and `screen` does not have it.

Some properties are stated for less than one would wish, because the code does
less. `FileIsRead` leaves out files with two or more doubly indirect blocks:
the inner loop indexes with the outer variable (`kernel/fs/ext2.c:427`).
`MemoryIsReturned` allows for the buffer of `AtaRead` that a failed call loses
(`kernel/drivers/ata.c:126`) and for the inode of a file whose content `kmalloc`
refuses, which `FailureHasCause` names beside the failing sector, and `InodeIsThere` for files whose inode two calls
have read at once. `FramesHaveOneUse` excludes the moment in which the clock starts
a thread for the first time inside `GetFreePage`, and page -1, and so does
`ProcessesSeeTheirPages`, since `ksbrk` then clears a table. The latter promises the
bytes of a file only for segments that begin at pages and share none
(`kernel/fs/elf.c:199`), and up to `memSize` the bytes are the file's: the
zeros that should follow `fileSize` are what the file has there (`202-205`). `BrowsedIsComplete` and `ListingIsExact`
exclude directories that two calls changed at once, and `HandlesAreDistinct` an
increment that was lost. `UserStackIsOwn` excludes the threads that have gone astray
themselves, and only those: it says that all others leave by their own frame,
whatever runs on whose stack. The modules of the system calls (`Console`,
`ProcessManager`, `FileTree`, `Storage`, `Interrupts`) assume that a preempted
call goes on at its place with its locals, that is that none goes astray, which the
code does not guarantee, as `switch_context` shows. `LineIsDelivered` promises
the Enter only of lines that the buffer holds. `AnswersTheRequest` excludes `bp`, which
has no command and sends the response before once more, the data of a `disass` of
nothing, and the three commands that may break the machine instead of answering;
`FreesOwn` names the requests after which a freed pointer is freed again
(`kernel/debug/ltdbg.c:251`, `267`), and `LeakIsBounded` allows for the buffer
that `SendResponse` never frees (`kernel/debug/ltdbgcom.c:172`).

### Fairness

- `RoundRobin`, `ProcessManager`: weak fairness of the steps of the machine. The
  clock ticks and the thread that has the processor runs.
- `Console`: weak fairness of the clock and of the Enter key (somebody who waits
  for a line types it in the end), strong fairness of the steps of a thread in
  scan, since it has the processor again and again but not all the time. The
  loop that waits for the console has none: a reader may find it taken each time.
- `KernelHeap`: weak fairness of the steps of a call; its loops do not wait.
- `Storage`: weak fairness of the steps of the boot code and of each reader. The
  clock gives every process the processor again and again, and while one masks
  interrupts it runs.
- `Interrupts`: weak fairness of the clock's line, which rises again and again, and
  of the processor, which executes whatever handler, call or step of `KernelInit`
  it is in. Strong fairness of the end of a call that does not wait, as the
  clock may interrupt it any number of times but it reads finitely many sectors;
  and of the steps of `KernelInit`, since the debugger may stop it between any two
  but each time lets it execute something. Programs, keys, faults and the
  debugger have none.
- `ContextSwitch`, `FileTree`, `Vmm`, `Debugger`, `Screen` state safety only.

## 4. What is proved

The eight modules of proofs prove, for every value of the constants that the named
assumptions allow, the type invariant and safety properties of the module they
extend. Each has an inductive invariant (`IInv` in most), the three facts
`Init => IInv`, `IInv /\ [Next]_vars => IInv'`, `IInv => ` property, and one lemma
for each action or group of actions.

*ProcessManager.* `IndexIsIdentity` alone is not inductive: it says nothing of
the counters. `ListsAndCounters` says that both lists hold the first k objects
in order of their creation and that the three counters are k; `Numbering` that
object k has number k - 1; `Running` that nobody runs before interrupts are
unmasked. From these the modulus gives the place of the next thread, and each
look-up the object asked for. Theorems: `TypeCorrect`, `LookupIsByPlace`,
`CurrentObjectsAgree`, together `ObjectsAlwaysAgree`, then `StatesTellHistory`, `WaitsAreForOthers` (for two programs
or more: with one, `ListGet` reads through a null pointer and the target is
anything), `WaitsLongEnough`, and `RotatesSafely`, the step simulation of
`RoundRobin` under the refinement mapping of `ImplementsRoundRobin`.

*Console.* Nothing is assumed of the length of a line: `HasLine` says that the keys
up to an index hold an Enter, or ran over the buffer. `LineIsDelivered` needs what lies between the flag and the copy:
`FlagTellsEnter` ties the flag to an Enter in the line, `FlagIsKept` and
`CopyHasLine` carry that over the steps during which keys still arrive, and
`LineIsCopied` over the final zero. `OwnerIsReading` is what keeps keys away
from the resets behind it. Theorems: `TypeCorrect`, `KeysReachReaders`,
`LinesAreSeparate`, together `KeysHaveTheirLine`, then `LinesAreDelivered`.

*Screen* (in `ConsoleProofs`). `StepMoves` says once what each step does to a
printer's locals and to the cursor (`Moves`), and `StepShows` what it does to the
screen; the rest is about these two. Three invariants stand beside each other:
- `Placed`, the types and what a printer's place says of its locals (`PlaceIn`).
  `NumbersAreSpelled` follows from it alone, as it speaks of every call that can be
  made. That `Digits`, `Value` and `Terminal` exist as recursive functions and what
  they return is shown by hand, by a smallest counterexample (`LeastExists`,
  `FoldExists`, `FoldIs`); `DigitsSpell` is the arithmetic of division.
- `Bounds`, for `CursorIsBounded`: a row of room for the process where it has moved
  the line and not yet tested it (`PastRow`), another for the handler, and a column
  behind the row only where the process is about to test it (`Wide`); `HandlerAt`
  says that a handler has what it loaded, as nothing runs before its end, and
  `ProcessAt` what may be stale of what the process loaded. `CursorStays` assumes
  `OneProcess`: at most one of those who print is not a handler. The kernel loads one
  program (`kernel/kernel.c:133`), and for two the property is false (section 3).
- `ScreenShown`, for `TextIsShown`, with any number of processes and handlers: at
  most one printer is in the middle of a character, and `Shown` relates the cursor
  and the screen at each of its places to the terminal before the character, with
  the character written, or after it. `DisplayWritten`, `DisplayAppended` and
  `DisplayScrolled` say what a character, a new row and `ScScrollUp` do to the rows
  on display: the row that scrolls in is still empty, which is why the branch that
  would clear it is not missed.

The assumptions are that the screen has a row and a column, that the video memory
holds one row more than the screen (`SizesAssumption`), and that calls print
characters, strings and ints. Theorems: `ScreenTypeCorrect`, `NumbersSpelled`,
`CursorStays`, `TextShown`.

*ContextSwitch.* `SavedContexts` and `UserSegments` describe the contexts that
can be saved, `RegsAreInterrupted` says that saving forgets nothing, and
`LoadedContext` that loading changes only `ax` and, in kernel mode, stack and
data segment. `OwnUserStack` needs what the kernel stacks hold while others run on
them: `FramesAreOwn` says that the frame on the stack of a thread that is in the kernel
and not astray is that thread's, which only its own entries write, as `gTss` is
always the stack of the thread that runs; `OnOwnStack` that a thread that was not
displaced is on it. Then `LeaveHome` follows for both ways out. Theorems: `SwitchTypeCorrect`, `TssAndCr3`, `ContextKept`,
`OwnUserStack`.

*Debugger.* The three properties look at the loop at one place each; between
them `HoldsNothing` says that no block is held when a packet is waited for,
`ParamIsOwn` and `CommandFinds` what a command starts from, `CommandLeaves` what
it leaves to the answer and the clean-up, `BreaksIn` and `BreaksKeeps` treat the
commands that break the machine, and `LossIsPaid` counts a block for
each packet before it is answered. Theorems: `TypeCorrect`, `AnswersMatch`,
`FreesMatch`, `LossIsBounded`.

*KernelHeap.* The heap exists only as sums of sizes, so `Tiled` states it without
sums: every block stops where another header, or nothing more, begins, and no two
overlap. `WalksOnHeaders` keeps the place of every loop on a header,
`MarksAFit` says that the block `_kmalloc` has found is free and large enough,
`PassedAreTooSmall` that the blocks behind the search are not, which is what
`GrowsOnlyWhenFull` needs, and `DirtyIsInHeap` that what the heap has not grown over
yet holds nothing. The assumptions are that a header has a size, that a page holds
one and the smallest block besides, that the heap can have one page, and that
requests are positive. Theorems: `TypeCorrect`, `HeadersStaySound`,
`FreeMemoryIsZero`, `GrowsWhenFull`, and `HeapImplementsAllocator`: the whole
refinement of `Allocator`, which states no fairness, initial states and steps.

*Interrupts.* What can be on the processor's stack is not arbitrary: `WellStacked`
says which activation can lie on which, with which flag, and hence that at most
one handler of the hardware is among them; `ThreadsAreKept` says the same of each
saved stack, as a switch replaces one by another. `BootUntilStart`, `LoadedByPlace`,
`MaskedSections` and `MaskedCode` tie the flag to the place in `KernelInit` and in
`AtaRead`; `Vectors` ties the tables to the place. Theorems: `TypeCorrect`,
`OneHandlerAtATime`, `TablesAreThere`, `LoadIsAtomic`.

*Storage.* A reader's locals are described by its place (`PhaseIn`): the block it
asks for is one of the file's (`BlocksRead`), the tables of pointers that it holds
are those of the disk (`TablesIn`), and what it has copied is a beginning of the
file's content of the length that the bytes left say (`ContentIn`). `HeldIn` says
which blocks of the heap are held at each place, `OneReads` and `SectorIsAsked` that
the drive works for the one reader that has masked the interrupts, `DiskIsThere`
and `BootIn` what the boot code has read of the superblock and the groups. While
bytes are left and the file has its blocks, no loop can end early: that is what
rules out the short read. `PointersAssumption` says that a block holds pointers
and `GroupsAssumption` that the inode's group has an entry in the table, as every
ext2 disk has. Theorems: `TypeCorrect`, `FilesAreRead`, `FailuresHaveCauses`,
`MemoryComesBack`.

*Vmm.* `FramesHaveOneUse` speaks of all users of pages at once, the invariant of
pairs of them: `HeldAreGiven` (whoever holds a page has it from the bitmap),
`SlotsAreDistinct`, `ProgramsAreApart`, `HeapIsApart`, `DirectoriesAreOwn`,
`EntriesAreOwn`, and `LoadsInOwnDirectory` for the directory that is in force while
one program's pages are written. `GrowerIsFree` covers the two steps of `ksbrk`.
The lemmas that the actions share say what mapping one page does (`AddPageMaps`,
`MappingKeeps`) and when nobody's pages get mixed up by a new one (`OwnersKeep`). The
programs are all those that fit the one table of code a process has.
What processes find behind their addresses is a second invariant on top, `SInv`:
`RegistersFollow` (`cr3` and the saved directory follow from who runs and who is
being loaded), `LoadIsOnItsWay` (where in the headers `LoadElf` is),
`StacksAreMapped`, `PagesAreTurned` and `BytesAreOfFile` (a process that is still
being loaded has the pages of the turns `Turned` that the loop has made, each with
the bytes of its place in the file), and `HaltHasCause`. It needs the owners of
pages for what one program's pages do to another's, the arithmetic of pages and
offsets for what one turn copies (`AtTurn`, `WellMadeTurn`), and `MappingShows` and
`CodeKeeps` for how a walk through the directory changes when a page is mapped.
Theorems: `TypeCorrect`, `FramesOnce`, `MemoryAccounted`, `ProcessesSeeTheirs`.

*FileTree.* A file never moves, and a list only grows at its head. So the
invariant is about one tree (`TreeIn`: every file but the root is an entry of its
directory, `leaf` and `next` point to files of the right directory), about each call's locals (`CallIn`, by its
place), about the string that the program gave (`StringIn`: what is there now is
what was written, cut at the place where the walk is), and about handles
(`HandlesIn`, `OldHandles`: every handle is below the count, unless an increment
was lost). `Grown` says how one tree may follow another, and `CallGrows` and
`HandlesGrow` that whatever other calls know stays true under it; with them each
action is proved for the one call that moves. `IsCached` walks a list with a
recursive function; that this function exists and what it returns is shown by
hand, by a smallest counterexample (`LeastExists`, `UpTo`, `RowsExist`,
`IsCachedHolds`). The proof of `Init` brought up an assumption that the model had
made silently: with an empty root directory the list of the root would begin with
the root itself. `EntriesAssumption` now says that the root directory is not
empty, as `KernelInit` starts `/main.out` (`kernel/kernel.c:133`).

Whole lists and whole paths need a second invariant on top of the first
(`LInv`, proved together with `IInv` in `ListsInvariance`):
- `ListsEnd`: from every file there is one list, without repetitions, that follows
  `next` to `NULL`. It holds however calls race, because a file that is being hung
  is in no list yet and belongs to one call alone (`NewsAreApart`): a `next` or
  a `leaf` that was read too early drops files from a list, and never closes it.
- `DirIn`: the list of a directory that no two calls changed at once has no name
  twice, and all names of the disk once it was browsed. `TurnIn` is what a call
  that browses adds to it: the entries before its own are cached, and as long as
  `leaf` is still what it read (`seen`), the name at work is not.
- `ListedIn`: what a handle has given is the list up to its cursor. Only lists that
  were complete when they were opened are concerned (`whole`), and these do not
  grow any more.
- `OpenIn`: the file at which a call is, and the directory of that file, are the
  place to which the components gone so far lead on the disk (`PlacesBehind`), and
  what is left to walk is the end of the path. A place holds the directory too,
  as `..` goes to `parent` and not to an entry of the disk.

`RowsWalk` connects `IsListIn` with the recursive function in `Chain`, and
`ListKeeps` and `ListIs` say what one write to `next` or `leaf`
makes of every list. For `..` the model states what an ext2 disk without hard links
to directories has (`DirectoriesAssumption`): a directory is an entry of one other
directory, and the root of none; `.` and `..` are skipped by
`BrowseAndCacheDirectory` (`kernel/fs/file.c:319`) and so are not among the
entries. Theorems: `TypeCorrect`, `TreeIsTheDisk`, `InodesAreThere`,
`HandlesDiffer`, `PathsArePutBack`, `BrowsedAreComplete`, `ListingsAreExact`,
`OpenedAreResolved`.

Only model-checked: everything that says "in the end" (`WaiterSeesExit`,
`ConsoleIsReleased`, `CallsEnd`, `ReadsEnd`, `ThreadsKeepRunning`, the fairness of
`RoundRobin`), as liveness under fairness is out of the prover's reach. Every
invariant of the runs is proved.

## 5. What is not modelled

Colours, the hardware cursor, the prefixes of the logger and the output to the
serial port; the bytes of the descriptor tables; the counters of the clock, which
are only displayed; the identification of ELF files and what a program does with
its memory; writing to the disk (no caller);
and the user library and shell (programs may call anything at any time). Failures of
`kmalloc` cannot happen, as it panics first, but for the sizes that it refuses:
those of a packet and of the blocks for `disass` and `memory` in the debugger, and
that of an empty or a huge file in `Ext2ReadFile`, all of which are modelled.
`SysExec` and three directory calls are not implemented by the kernel. Left out on
purpose, and listed as hazards: concurrent calls of the heap (with the one program
that the kernel loads there are none: the handlers of the clock and of the keyboard
do not allocate from it) and what a line longer than the buffer overwrites behind it.
Left out as well: what a thread executes and writes that has gone astray, what the
debugger overwrites when it breaks the machine, two processes that wait for each
other (nothing promises that this ends), the two entries of the identity
mapping that `SetIdentityMapping` overwrites (`kernel/init/vmm.c:110`, fixed at
boot), and the one block too many of `PageHeapInit` (`kernel/init/heap.c:46`,
never used).

## 6. Plan

Done, in this order: the scheduler with `wait` and `exit`, console, heap,
context switch (the core and its proofs), then file tree, disk and pages, the
debugger with its proofs, then `OpenFile` cut into its steps, exhausted memory, the
disk's tables at boot, the bytes of programs, the screen, and interrupts from boot
on; then the proofs of the heap with its refinement, of interrupts, of the file
tree with its lists and paths, of the disk, of pages with what processes see
in them, and of the screen.

1. `KernelHeap` with two callers, once the kernel loads several programs, and the
   composition of `Vmm` with `ProcessManager` (which order of starts, one
   directory saved).
