----------------------------- MODULE Interrupts -----------------------------
(***************************************************************************)
(* When the kernel can be interrupted, and by what: the interrupt flag,    *)
(* the interrupt controller and the descriptor table through KernelInit    *)
(* (kernel/kernel.c), the entry and exit code of interrupts, exceptions    *)
(* and system calls (kernel/init/int.asm, isr.c, idt.c, pic.asm), the      *)
(* start of a thread (kernel/user/process_starter.asm), and the parts that *)
(* mask the interrupts themselves: LoadElf's caller, AtaRead and DbgInit.  *)
(*                                                                         *)
(* cpu is what the processor is doing: a stack of activations, the last    *)
(* one runs.  What the handlers do to the threads and the console is in    *)
(* ProcessManager, ContextSwitch and Console; here it matters that they    *)
(* end, and what they leave behind in the controller and in the flag.      *)
(***************************************************************************)
EXTENDS Integers, Sequences, FiniteSets, SequencesExt, ThreadsList

CONSTANT Irqs           \* interrupt lines: 0 is the clock, 1 the keyboard

ASSUME IrqsAssumption == Irqs \subseteq 0..7 /\ 0 \in Irqs

\* Mutant: the interrupts are unmasked before the process manager is there.
BootUnmasksEarly ==
    <<"gdt", "screen", "pic", "idt", "serial", "multiboot", "info", "vmm", "sti", "pm",
      "gates", "cli", "reload", "reloaded", "sti", "bplist", "breakpoint",
      "ata", "fs", "callbacks", "open",
      "cli", "load", "loaded", "sti", "loop">>

\* Mutant: KernelInit does not mask the interrupts to load.
BootLoadsUnmasked ==
    <<"gdt", "screen", "pic", "idt", "serial", "multiboot", "info", "vmm", "pm", "sti",
      "gates", "cli", "reload", "reloaded", "sti", "bplist", "breakpoint",
      "ata", "fs", "callbacks", "open",
      "load", "loaded", "sti", "loop">>

\* KernelInit, from kmain's cli to its loop.
Boot == <<"gdt", "screen", "pic", "idt", "serial", "multiboot", "info", "vmm", "pm", "sti",
          "gates", "cli", "reload", "reloaded", "sti", "bplist", "breakpoint",
          "ata", "fs", "callbacks", "open",
          "cli", "load", "loaded", "sti", "loop">>

PlaceOf(step) == CHOOSE k \in DOMAIN Boot : Boot[k] = step /\ \A j \in 1..(k - 1) : Boot[j] # step
FirstStep == 1
Ata == PlaceOf("ata")
Open == PlaceOf("open")
Load == PlaceOf("load")

VARIABLES
    flag,       \* IF: maskable interrupts are taken
    irr,        \* the controller: lines that have risen and wait,
    inService,  \* lines that were taken and not acknowledged
    base,       \* and the vector of line 0
    debug,      \* gKernelInfo.debug
    boot,       \* place in Boot
    cpu,        \* what runs
    threads,    \* threads in gThreadsList
    current,    \* the current one, 0 for none
    saved       \* of each thread: what it was doing

pic == <<irr, inService, base>>
vars == <<flag, pic, debug, boot, cpu, threads, current, saved>>

-----------------------------------------------------------------------------
(* Activations: code is what runs, at is where, iflag is the flag that iret *)
(* will restore, and vector is the entry of the table that was taken.       *)

Activation(code, at, iflag, vector) ==
    [code |-> code, at |-> at, iflag |-> iflag, vector |-> vector]

Top == cpu[Len(cpu)]
Runs(code) == Top.code = code
At(at) == Top.at = at
GoTo(at) ==
    cpu' = [cpu EXCEPT ![Len(cpu)] = Activation(Top.code, at, Top.iflag, Top.vector)]
Push(a) == cpu' = Append(cpu, a)

\* A fresh thread: eflags 0x200, in its program.
NewThread == <<Activation("user", "run", TRUE, 0)>>

Init ==
    /\ flag = FALSE
    /\ irr = {} /\ inService = {}
    /\ base = 8
    /\ debug \in BOOLEAN
    /\ boot = FirstStep
    /\ cpu = <<Activation("boot", "run", FALSE, 0)>>
    /\ threads = 0
    /\ current = 0
    /\ saved = [t \in 1..NThreads |-> NewThread]

Highest(irqs) == CHOOSE i \in irqs : \A j \in irqs : i <= j

\* An interrupt is taken before the next instruction.
Pending == flag /\ irr # {} /\ \A j \in inService : Highest(irr) < j

-----------------------------------------------------------------------------
(* The devices and the processor.                                          *)

\* A line rises; while it already waits nothing is added.
Raise(i) ==
    /\ i \notin irr
    /\ irr' = irr \cup {i}
    /\ UNCHANGED <<flag, inService, base, debug, boot, cpu, threads, current, saved>>

\* Mutant: the gates of the hardware interrupts are trap gates.
FlagInHandlerKept == flag

\* The flag in an interrupt handler: its gate is a CPU_GATE.
FlagInHandler == FALSE

Deliver ==
    LET i == Highest(irr)
    IN  /\ Pending
        /\ irr' = irr \ {i}
        /\ inService' = inService \cup {i}
        /\ Push(Activation("irq", "run", flag, base + i))
        /\ flag' = FlagInHandler
        /\ UNCHANGED <<base, debug, boot, threads, current, saved>>

-----------------------------------------------------------------------------
(* The end of handlers: INT_EPILOG.                                        *)

\* The controller takes an end of interrupt for the highest line in service.
Ended(lines) == IF lines = {} THEN {} ELSE lines \ {Highest(lines)}

Eoi ==
    /\ At("eoi")
    /\ inService' = Ended(inService)
    /\ GoTo("iret")
    /\ UNCHANGED <<flag, irr, base, debug, boot, threads, current, saved>>

Iret ==
    /\ At("iret")
    /\ flag' = Top.iflag
    /\ cpu' = Front(cpu)
    /\ UNCHANGED <<pic, debug, boot, threads, current, saved>>

-----------------------------------------------------------------------------
(* Interrupts, exceptions and system calls.                                *)

Clock == 32

\* Schedules starts a thread when there is none or when there are others.
Switches == threads > 0 /\ (current = 0 \/ threads > 1)

\* keyboard_isr, com1_isr, default_isr, and clock_isr when Schedules returns.
HandlerReturns ==
    /\ Runs("irq") /\ At("run")
    /\ Top.vector # Clock \/ ~Switches
    /\ GoTo("eoi")
    /\ UNCHANGED <<flag, pic, debug, boot, threads, current, saved>>

GetNextThreadTid == IF current = 0 THEN 1 ELSE (current % threads) + 1

\* clock_isr when Schedules starts a thread: it does not return to its caller,
\* and what was interrupted, if a thread, is kept without the handler.
Schedules ==
    /\ Runs("irq") /\ At("run") /\ Top.vector = Clock
    /\ Switches
    /\ saved' = IF current = 0 THEN saved ELSE [saved EXCEPT ![current] = Front(cpu)]
    /\ current' = GetNextThreadTid
    /\ GoTo("start")
    /\ UNCHANGED <<flag, pic, debug, boot, threads>>

\* Mutant: the start of a thread does not acknowledge the interrupt.
AfterStartNone(lines) == lines

AfterStart(lines) == Ended(lines)

StartProcess ==
    /\ At("start")
    /\ inService' = AfterStart(inService)
    /\ GoTo("resume")
    /\ UNCHANGED <<flag, irr, base, debug, boot, threads, current, saved>>

\* The iret of _start_process, with the flags the thread was interrupted
\* with, or was made with: both times the interrupts were unmasked.
Resume ==
    /\ At("resume")
    /\ cpu' = saved[current]
    /\ flag' = TRUE
    /\ UNCHANGED <<pic, debug, boot, threads, current, saved>>

\* int 0x30 goes through a trap gate.  The calls that may wait for another
\* process or for a key ("wait") do not read the disk, and the others
\* ("call") go to their end.
SystemCall(code) ==
    /\ Runs("user") /\ ~Pending
    /\ Push(Activation(code, "run", flag, 48))
    /\ UNCHANGED <<flag, pic, debug, boot, threads, current, saved>>

CallReturns(code) ==
    /\ Runs(code) /\ At("run") /\ ~Pending
    /\ GoTo("eoi")
    /\ UNCHANGED <<flag, pic, debug, boot, threads, current, saved>>

\* A fault of a program or of a call made with a bad pointer: the handler
\* prints it and stops, in hlt or in Pause, with the interrupts masked.
Fault ==
    /\ Top.code \in {"user", "call", "wait"} /\ At("run") /\ ~Pending
    /\ Push(Activation("fault", "run", flag, 14))
    /\ flag' = FALSE
    /\ UNCHANGED <<pic, debug, boot, threads, current, saved>>

-----------------------------------------------------------------------------
(* AtaRead, of the boot code and of a system call, between its cli and sti. *)

Reader == Runs("call") \/ (Runs("boot") /\ boot \in {PlaceOf("fs"), Open})

ReadBegins ==
    /\ Reader /\ At("run") /\ ~Pending
    /\ flag' = FALSE
    /\ GoTo("reading")
    /\ UNCHANGED <<pic, debug, boot, threads, current, saved>>

ReadEnds ==
    /\ At("reading")
    /\ flag' = TRUE
    /\ GoTo("run")
    /\ UNCHANGED <<pic, debug, boot, threads, current, saved>>

\* A sector could not be read: the return leaves the interrupts masked.
ReadFails ==
    /\ At("reading")
    /\ GoTo("run")
    /\ UNCHANGED <<flag, pic, debug, boot, threads, current, saved>>

-----------------------------------------------------------------------------
(* KernelInit.                                                             *)

Step == Boot[boot]
Booting == Runs("boot") /\ At("run") /\ ~Pending

\* The debugger's steps are left out of a kernel without it; KernelInit goes
\* on after a failure of the driver or the file system.
NextPlace == IF boot + 1 = PlaceOf("gates") /\ ~debug THEN Ata ELSE boot + 1

\* Steps that change nothing here but which handlers may rely on.
Initialises ==
    /\ Booting
    /\ Step \notin {"pic", "sti", "cli", "breakpoint", "load", "loaded", "loop"}
    /\ boot' = NextPlace
    /\ UNCHANGED <<flag, pic, debug, cpu, threads, current, saved>>

\* PicInit gives line 0 the vector 0x20, and masks nothing: what it writes as
\* a mask is the third word of the initialisation, or nothing to the master.
PicInit ==
    /\ Booting /\ Step = "pic"
    /\ irr' = {} /\ inService' = {}
    /\ base' = 32
    /\ boot' = NextPlace
    /\ UNCHANGED <<flag, debug, cpu, threads, current, saved>>

Masks ==
    /\ Booting /\ Step \in {"cli", "sti"}
    /\ flag' = (Step = "sti")
    /\ boot' = NextPlace
    /\ UNCHANGED <<pic, debug, cpu, threads, current, saved>>

\* __debugbreak, and from then on the steps the debugger asks for.
Breakpoint ==
    /\ Booting /\ debug
    /\ Step = "breakpoint" \/ boot >= Ata
    /\ boot' = IF Step = "breakpoint" THEN NextPlace ELSE boot
    /\ Push(Activation("debug", "eoi", flag, IF Step = "breakpoint" THEN 3 ELSE 1))
    /\ flag' = FALSE
    /\ UNCHANGED <<pic, debug, threads, current, saved>>

\* The file cannot be opened, or LoadElf refuses it.
NoProgram ==
    /\ Booting
    /\ \/ Step = "open" /\ boot' = Len(Boot)
       \/ Step = "load" /\ threads = 0 /\ boot' = Len(Boot) - 1
    /\ UNCHANGED <<flag, pic, debug, cpu, threads, current, saved>>

\* LoadElf: its first and its last effect on what the clock looks at.
LoadBegins ==
    /\ Booting /\ Step = "load"
    /\ threads' = threads + 1
    /\ boot' = NextPlace
    /\ UNCHANGED <<flag, pic, debug, cpu, current, saved>>

LoadEnds ==
    /\ Booting /\ Step = "loaded"
    /\ boot' = IF threads < NThreads THEN Load ELSE NextPlace
    /\ UNCHANGED <<flag, pic, debug, cpu, threads, current, saved>>

-----------------------------------------------------------------------------
(* What goes on by itself, and what a program or a failure may do.         *)
BootGoesOn == Initialises \/ PicInit \/ Masks \/ LoadBegins \/ LoadEnds

Kernel ==
    \/ Deliver \/ Eoi \/ Iret \/ HandlerReturns \/ Schedules \/ StartProcess \/ Resume
    \/ CallReturns("call") \/ ReadEnds \/ ReadFails
    \/ BootGoesOn

Next ==
    \/ \E i \in Irqs : Raise(i)
    \/ Kernel
    \/ \E code \in {"call", "wait"} : SystemCall(code)
    \/ CallReturns("wait") \/ Fault
    \/ ReadBegins
    \/ Breakpoint \/ NoProgram

Spec == Init /\ [][Next]_vars

\* The clock goes on ticking; the processor goes on, in handlers, in calls
\* that do not wait and in KernelInit.  Such a call reads finitely many
\* sectors, then returns, and each step that the debugger asks for executes an
\* instruction of KernelInit.  A program need not do anything.
Fairness ==
    /\ WF_vars(Raise(0)) /\ WF_vars(Kernel)
    /\ SF_vars(CallReturns("call")) /\ SF_vars(BootGoesOn)

FairSpec == Spec /\ Fairness

-----------------------------------------------------------------------------
(* Properties.                                                             *)

Codes == {"boot", "user", "call", "wait", "irq", "debug", "fault"}
Places == {"run", "reading", "eoi", "iret", "start", "resume"}
Activations == [code : Codes, at : Places, iflag : BOOLEAN, vector : 0..255]

TypeOK ==
    /\ {flag, debug} \subseteq BOOLEAN
    /\ irr \subseteq Irqs /\ inService \subseteq Irqs /\ base \in {8, 32}
    /\ boot \in DOMAIN Boot
    /\ cpu # <<>> /\ cpu \in Seq(Activations)
    /\ threads \in 0..NThreads /\ current \in 0..threads
    /\ \A t \in 1..NThreads : saved[t] # <<>> /\ saved[t] \in Seq(Activations)

\* Handlers of hardware interrupts do not interrupt each other, and the
\* controller and the processor agree: a line is in service exactly while its
\* handler runs and has not acknowledged it.  In particular no handler's
\* acknowledgement, those at the end of system calls and of debugger stops
\* included, is taken for another's, and none is left behind when a thread is
\* started in the middle of a handler (int.asm:121-138,
\* process_starter.asm:83-87).
HandlersDoNotNest ==
    /\ TypeOK
    /\ inService = IF Runs("irq") /\ Top.at \in {"run", "eoi", "start"} THEN {Top.vector - base}
                   ELSE {}
    /\ \A k \in 1..(Len(cpu) - 1) : cpu[k].code \notin {"irq", "debug", "fault"}
    /\ Top.code \in {"irq", "debug", "fault"} => ~flag
    /\ \A t \in 1..threads : \A k \in DOMAIN saved[t] :
          saved[t][k].code \in {"user", "call", "wait"}

\* Whatever interrupts the processor finds what it needs: the controller's own
\* vectors and not those of exceptions, the descriptor table, the memory, and
\* the lists that Schedules and the console look into (kernel.c:69-92); the
\* table is not being copied (ltdbg.c:59-61), and the debugger's entries are in
\* it when it is called.
HandlersFindTheirTables ==
    LET Done(step) == boot > PlaceOf(step)
    IN  /\ Len(cpu) > 1 => /\ \A step \in {"gdt", "pic", "idt", "vmm", "pm"} : Done(step)
                           /\ Step # "reloaded"
        /\ Runs("irq") => Top.vector \in 32..39
        /\ Runs("debug") => Done("reloaded")

\* Nothing comes between the first and the last step of LoadElf, so that the
\* clock never starts half a process: the file was read before, and what
\* LoadElf calls does not read the disk, whose driver would unmask the
\* interrupts in the middle (kernel.c:142-158, ata.c:136).
LoadingIsAtomic ==
    Step = "loaded" => /\ Runs("boot") \/ Runs("debug")
                       /\ ~flag

\* Unless a fault has stopped the machine, every thread that was loaded gets
\* the processor again and again, whatever was masked on the way: by reads
\* that succeed or fail, by handlers and by the debugger.
ThreadsKeepRunning ==
    \A t \in 1..NThreads :
        threads >= t ~> (Runs("fault") \/ (current = t /\ ~Runs("irq")))
=============================================================================
