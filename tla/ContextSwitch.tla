--------------------------- MODULE ContextSwitch ----------------------------
(***************************************************************************)
(* The switch from one thread to the next, at the level of the registers:  *)
(* the entry and exit code of the interrupts (kernel/init/int.asm), the    *)
(* context that Schedules saves (kernel/scheduler.c), and what             *)
(* PmStartThread and _start_process load (kernel/user/process_manager.c,   *)
(* process_starter.asm).                                                   *)
(*                                                                         *)
(* A context is the code segment (user or kernel mode), the data segment,  *)
(* the stack that esp points into, the low half of eax, and one value for  *)
(* all the registers that are saved and loaded alike.  Of what a kernel    *)
(* stack holds only the user's esp matters, which the processor pushes     *)
(* first when it enters the kernel.                                        *)
(***************************************************************************)
EXTENDS Integers, FiniteSets, ThreadsList

CONSTANTS
    Values,         \* what a register can hold
    EoiValue,       \* 0x0020: what acknowledging the interrupt leaves in ax
    MaxAstray       \* bound on the threads that go astray

ASSUME ValuesAssumption == EoiValue \in Values
ASSUME AstrayAssumption == MaxAstray \in Nat

Threads == 1..NThreads
NULL == 0

Modes == {"user", "kernel"}
UserStack(t) == <<"user", t>>
KernelStack(t) == <<"kernel", t>>       \* <<"kernel", 0>>: the stack of KernelInit
Stacks == Modes \X (0..NThreads)
KernelStacks == {"kernel"} \X (0..NThreads)
PageDirectory(t) == t                   \* 0: the kernel's own

Contexts == [cs : Modes, ds : Modes, esp : Stacks, ax : Values, rest : Values]

VARIABLES
    registers,      \* the context in the processor
    cr3,            \* the current page directory
    gTss,           \* gTss.esp0: the stack for interrupts that come in user mode
    gCurrentThread,
    regs,           \* Thread.regs
    kstack,         \* Thread.kstack.esp0
    frame,          \* the user's esp in the interrupt frame on each kernel stack
    displaced,      \* history: who was switched away in the system call it is in
    astray,         \* history: who has then left it by a frame that is not its own
    resumed,        \* the current thread has just been given the processor
    interrupted     \* history: the context in which each thread was interrupted

switchVars == <<registers, cr3, gTss, gCurrentThread, regs, kstack, frame, displaced, astray,
                resumed, interrupted>>
memory == <<cr3, gTss, gCurrentThread, regs, kstack, interrupted>>

\* InitThread: a thread starts in user mode, on its user stack, and has a
\* kernel stack of its own.
FirstContext(t) ==
    [cs |-> "user", ds |-> "user", esp |-> UserStack(t), ax |-> EoiValue, rest |-> EoiValue]

\* KernelInit, after ENABLE_IRQ.
SwitchInit ==
    /\ registers = [cs |-> "kernel", ds |-> "kernel", esp |-> KernelStack(0),
                    ax |-> EoiValue, rest |-> EoiValue]
    /\ cr3 = PageDirectory(0)
    /\ gTss = KernelStack(0)
    /\ gCurrentThread = NULL
    /\ regs = [t \in Threads |-> FirstContext(t)]
    /\ kstack = [t \in Threads |-> KernelStack(t)]
    /\ frame = [s \in KernelStacks |-> s]
    /\ displaced = {}
    /\ astray = {}
    /\ resumed = FALSE
    /\ interrupted = [t \in Threads |-> FirstContext(t)]

-----------------------------------------------------------------------------
(* The thread that runs.                                                   *)

\* It computes, in its program or in a system call.
Compute(ax, rest) ==
    /\ gCurrentThread # NULL
    /\ registers' = [registers EXCEPT !.ax = ax, !.rest = rest]
    /\ resumed' = FALSE
    /\ UNCHANGED <<memory, frame, displaced, astray>>

\* The processor pushes the user's esp where it enters the kernel.
Pushed == [frame EXCEPT ![gTss] = registers.esp]

\* int 0x30: the processor takes the stack of gTss, SAVE_REGS loads ds.
EnterSyscall ==
    /\ gCurrentThread # NULL
    /\ registers.cs = "user"
    /\ registers' = [registers EXCEPT !.cs = "kernel", !.ds = "kernel", !.esp = gTss]
    /\ frame' = Pushed
    /\ resumed' = FALSE
    /\ UNCHANGED <<memory, displaced, astray>>

\* INT_EPILOG and iret, from the frame on a stack.
Leave(stack, ax) ==
    /\ gCurrentThread # NULL
    /\ registers.cs = "kernel"
    /\ registers' = [registers EXCEPT !.cs = "user", !.ds = "user", !.esp = frame[stack], !.ax = ax]
    /\ resumed' = FALSE
    /\ UNCHANGED <<memory, frame, astray>>

\* The end of a system call that was not interrupted by a switch: the thread is on
\* the stack that it entered on.
LeaveSyscall(ax) ==
    /\ gCurrentThread \notin displaced
    /\ Leave(registers.esp, ax)
    /\ UNCHANGED displaced

\* A thread that was switched away in its system call runs on the stack of some
\* interrupt, of another thread mostly.  It comes home when the first function that
\* returns takes esp from its frame pointer (leave), back to the thread's own stack.
LeaveDisplaced(ax) ==
    /\ gCurrentThread \in displaced
    /\ Leave(gTss, ax)
    /\ displaced' = displaced \ {gCurrentThread}

\* It does not when a function, or INT_EPILOG, pops from where esp is, or when
\* others have overwritten its frames: then it leaves by the frame of any stack, or
\* goes on in the kernel at no place of its own.  (What it executes and writes there
\* is not modelled, nor the fault when what it pops is no frame.)
GoAstray(stack) ==
    /\ gCurrentThread \in displaced \cup astray
    /\ registers.cs = "kernel"
    /\ Cardinality(astray \cup {gCurrentThread}) <= MaxAstray
    /\ \/ registers' = [registers EXCEPT !.cs = "user", !.ds = "user", !.esp = frame[stack]]
       \/ registers' = registers
    /\ displaced' = displaced \ {gCurrentThread}
    /\ astray' = astray \cup {gCurrentThread}
    /\ resumed' = FALSE
    /\ UNCHANGED <<memory, frame>>

-----------------------------------------------------------------------------
(* The clock.                                                              *)

\* The stack that the interrupt, and with it Schedules, runs on.
InterruptStack == IF registers.cs = "user" THEN gTss ELSE registers.esp

\* Mutant: the esp of the interrupt is saved whatever the mode was.
SavedKernelEsp == [registers EXCEPT !.esp = InterruptStack]

\* Mutant: a register is missing from the list that Schedules saves.
SavedRestStale == [registers EXCEPT !.rest = regs[gCurrentThread].rest]

\* Schedules takes the registers from the stack: ss and esp of a thread that
\* was in user mode from where the processor pushed them, and of one in
\* kernel mode the place itself.
Saved == registers

\* What _start_process puts into the processor.  In kernel mode iret does not
\* load esp: the thread goes on on the stack of the interrupt.  The data
\* segment and ax are overwritten after the registers were popped.
Loaded(context, stack) ==
    [context EXCEPT !.esp = IF context.cs = "kernel" THEN stack ELSE @,
                    !.ds = "user",
                    !.ax = EoiValue]

\* Mutant: the stack for interrupts stays the one of the first thread.
TssAfterSwitchStale(t) == IF gCurrentThread = NULL THEN kstack[t] ELSE gTss

\* gTss.esp0 = gCurrentThread->kstack.esp0
TssAfterSwitch(t) == kstack[t]

\* mov cr3, with the page directory of the process of the thread.
Cr3AfterSwitch(t) == PageDirectory(t)

PmStartThread(t, savedRegs) ==
    /\ gCurrentThread' = t
    /\ gTss' = TssAfterSwitch(t)
    /\ cr3' = Cr3AfterSwitch(t)
    /\ registers' = Loaded(savedRegs[t], InterruptStack)
    /\ resumed' = TRUE

StartFirst ==
    /\ gCurrentThread = NULL
    /\ PmStartThread(1, regs)
    /\ UNCHANGED <<regs, kstack, frame, displaced, astray, interrupted>>

\* With one thread the interrupt changes nothing: SAVE_REGS, RESTORE_REGS.
Switch ==
    LET t == gCurrentThread IN
    /\ t # NULL
    /\ NThreads > 1
    /\ regs' = [regs EXCEPT ![t] = Saved]
    /\ kstack' = [kstack EXCEPT ![t] = gTss]
    /\ frame' = IF registers.cs = "user" THEN Pushed ELSE frame
    /\ displaced' = IF registers.cs = "kernel" THEN displaced \cup {t} ELSE displaced
    /\ interrupted' = [interrupted EXCEPT ![t] = registers]
    /\ UNCHANGED astray
    /\ PmStartThread((t % NThreads) + 1, regs')

SwitchNext ==
    \/ \E ax \in Values, rest \in Values : Compute(ax, rest)
    \/ EnterSyscall
    \/ \E ax \in Values : LeaveSyscall(ax) \/ LeaveDisplaced(ax)
    \/ \E stack \in KernelStacks : GoAstray(stack)
    \/ StartFirst
    \/ Switch

SwitchSpec == SwitchInit /\ [][SwitchNext]_switchVars

-----------------------------------------------------------------------------
(* Properties.                                                             *)

\* Every variable has a value of its C type; stacks are stacks of threads, and the
\* kernel runs on kernel stacks.
SwitchTypeOK ==
    /\ registers \in Contexts
    /\ registers.cs = "kernel" => registers.esp \in KernelStacks
    /\ cr3 \in 0..NThreads
    /\ gTss \in KernelStacks
    /\ gCurrentThread \in Threads \cup {NULL}
    /\ regs \in [Threads -> Contexts]
    /\ kstack \in [Threads -> KernelStacks]
    /\ frame \in [KernelStacks -> Stacks]
    /\ displaced \subseteq Threads /\ astray \subseteq Threads
    /\ resumed \in BOOLEAN
    /\ interrupted \in [Threads -> Contexts]

\* An interrupt in user mode always lands on the kernel stack of the thread
\* that runs, although Schedules overwrites the thread's record of it with
\* gTss at every switch (scheduler.c:74, process_manager.c:127).
TssFollowsThread ==
    /\ gCurrentThread # NULL => gTss = KernelStack(gCurrentThread)
    /\ \A t \in Threads : kstack[t] = KernelStack(t)

\* The page directory is that of the process that runs.
Cr3FollowsThread == gCurrentThread # NULL => cr3 = PageDirectory(gCurrentThread)

\* A thread that was interrupted in its program gets back its stack, its
\* segments and its registers, except ax.
UserContextKept ==
    (resumed /\ interrupted[gCurrentThread].cs = "user") =>
        registers = [interrupted[gCurrentThread] EXCEPT !.ax = EoiValue]

\* A thread that was interrupted in a system call goes on in kernel mode with
\* the registers it had, except ax, ds and esp.
KernelRegistersKept ==
    (resumed /\ interrupted[gCurrentThread].cs = "kernel") =>
        /\ registers.cs = "kernel"
        /\ registers.rest = interrupted[gCurrentThread].rest

\* A program never runs on a kernel stack or on the stack of another thread, in
\* whatever order threads are switched and call: the frame that each leaves by is
\* still its own, though others have run on its kernel stack.  Except a thread that
\* has gone astray: process_starter.asm:34 gives back a thread that was switched
\* away in a system call without its esp.
UserStackIsOwn ==
    (gCurrentThread # NULL /\ gCurrentThread \notin astray /\ registers.cs = "user") =>
        registers.esp = UserStack(gCurrentThread)

\* The interrupt stack and the page directory belong to the thread that runs.
ProcessorFollowsThread == SwitchTypeOK /\ TssFollowsThread /\ Cr3FollowsThread

\* What a resumed thread has kept of the context it was interrupted in: in its
\* program all of it but ax, in a system call its mode and its registers.
InterruptedContextKept == UserContextKept /\ KernelRegistersKept

\* "On sauvegarde son contexte et on permute sur la tache suivante", also in
\* system calls, which are "preemptibles" (README.md:46-52): a thread that is
\* switched away and back in a system call goes on where and as it was.  The
\* code never loads the esp it saved, and overwrites ax: see the run
\* switch_context.  (That it loads the user's data segment is meant so.)
SystemCallResumed ==
    (resumed /\ interrupted[gCurrentThread].cs = "kernel") =>
        registers = [interrupted[gCurrentThread] EXCEPT !.ds = "user"]
=============================================================================
