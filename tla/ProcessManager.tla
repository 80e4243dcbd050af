--------------------------- MODULE ProcessManager ---------------------------
(***************************************************************************)
(* The process manager of LtKernel together with the scheduler that drives *)
(* it: kernel/user/process_manager.c, process.c, thread.c,                 *)
(* kernel/scheduler.c, and the two system calls that read and write        *)
(* process states, SysWait and SysExit (kernel/user/syscalls.c).           *)
(*                                                                         *)
(* KernelInit loads the programs with the interrupts masked (one LoadElf   *)
(* in the kernel as it is; NPrograms of them here), then unmasks them.     *)
(* From then on every step is either an interrupt of the clock, which runs *)
(* Schedules, or a step of the thread that has the processor.  System      *)
(* calls are entered through a trap gate, hence the clock can interrupt    *)
(* them between any two of their steps.                                    *)
(***************************************************************************)
EXTENDS Integers, Sequences

CONSTANTS
    NPrograms,      \* programs loaded by KernelInit before it unmasks the IRQs
    Pids,           \* the pids the programs give to the system call wait
    UIntModulus     \* 2^32: gNbProcess is an unsigned int

ASSUME NProgramsAssumption == NPrograms \in Nat \ {0}
ASSUME PidsAssumption == Pids \subseteq Int
ASSUME UIntAssumption == UIntModulus \in Nat /\ UIntModulus > NPrograms

NULL == 0           \* the null pointer
WILD == -1          \* what is read through a null pointer: any value
Objects == 1..NPrograms   \* the k-th Process (or Thread) that kmalloc returned

ProcessStates == {"NONE", "INIT", "RUNNING", "DEAD"}   \* NONE: not created yet
ThreadStates == {"NONE", "INIT", "RUNNING"}

VARIABLES
    gProcessList,       \* the list of processes, as the sequence of its data
    gThreadsList,       \* the list of threads
    s_CurrentProcessId, \* next pid
    gThreadId,          \* next tid
    gNbThreads,
    gNbProcess,
    process,            \* the Process objects: pid, state, mainThread
    thread,             \* the Thread objects: tid, state, process
    gCurrentThread,
    gCurrentProcess,
    irq,                \* the interrupts are unmasked (ENABLE_IRQ)
    pc,                 \* where each thread is: its program, or in a system call
    waitTarget,         \* the local variable "process" of SysWait
    stepped,            \* the current thread has run since the last switch
    started,            \* history: processes that have had the processor
    exited              \* history: processes that have called exit

lists == <<gProcessList, gThreadsList, s_CurrentProcessId, gThreadId, gNbThreads>>
current == <<gCurrentThread, gCurrentProcess>>
history == <<started, exited>>
vars == <<lists, gNbProcess, process, thread, current, irq, pc, waitTarget, stepped, history>>

-----------------------------------------------------------------------------
(* Operators of kernel/lib/list.c.                                         *)

\* ListGet follows the links one by one.  In a list of one element (or none)
\* an index above 0 makes it read list->next through a null pointer; in a
\* longer list it stops at the last element and returns NULL.
ListGet(list, index) ==
    IF index = 0 THEN IF list = <<>> THEN NULL ELSE list[1]
    ELSE IF Len(list) < 2 THEN WILD
    ELSE IF index < Len(list) THEN list[index + 1]
    ELSE NULL

ListTop(list) == IF list = <<>> THEN NULL ELSE list[1]

GetProcessFromPid(pid) == IF pid < 0 THEN NULL ELSE ListGet(gProcessList, pid)

Created == {o \in Objects : process[o].state # "NONE"}

-----------------------------------------------------------------------------
(* PmInit, and the zero values of the globals.                             *)
Init ==
    /\ gProcessList = <<>>
    /\ gThreadsList = <<>>
    /\ s_CurrentProcessId = 0
    /\ gThreadId = 0
    /\ gNbThreads = 0
    /\ gNbProcess = 0
    /\ process = [o \in Objects |-> [pid |-> 0, state |-> "NONE", mainThread |-> NULL]]
    /\ thread = [o \in Objects |-> [tid |-> 0, state |-> "NONE", process |-> NULL]]
    /\ gCurrentThread = NULL
    /\ gCurrentProcess = NULL
    /\ irq = FALSE
    /\ pc = [o \in Objects |-> "user"]
    /\ waitTarget = [o \in Objects |-> NULL]
    /\ stepped = FALSE
    /\ started = {}
    /\ exited = {}

\* Mutant: the tid is taken after the increment.
NewThreadPreIncrement(p) == [tid |-> gThreadId + 1, state |-> "INIT", process |-> p]

\* The fields that CreateMainThread gives to the main thread of process p.
NewThread(p) == [tid |-> gThreadId, state |-> "INIT", process |-> p]

\* LoadElf -> PmCreateProcess -> CreateProcess -> CreateMainThread, for a
\* program whose entry point is not 0.  The IRQs are masked: one step.
\* kmalloc never returns NULL (it panics) and GetFreePage never does either,
\* so that no other path of these functions can be taken.
PmCreateProcess ==
    LET new == Len(gProcessList) + 1 IN
    /\ ~irq
    /\ new \in Objects
    /\ thread' = [thread EXCEPT ![new] = NewThread(new)]
    /\ gThreadId' = gThreadId + 1
    /\ gNbThreads' = gNbThreads + 1
    /\ gThreadsList' = Append(gThreadsList, new)
    /\ process' = [process EXCEPT ![new] =
                    [pid |-> s_CurrentProcessId, state |-> "INIT", mainThread |-> new]]
    /\ s_CurrentProcessId' = s_CurrentProcessId + 1
    /\ gProcessList' = Append(gProcessList, new)
    /\ gNbProcess' = (gNbProcess + 1) % UIntModulus
    /\ UNCHANGED <<current, irq, pc, waitTarget, stepped, history>>

\* The ENABLE_IRQ of KernelInit after the last LoadElf, then while (1).
EnableIrq ==
    /\ ~irq
    /\ Len(gProcessList) = NPrograms
    /\ irq' = TRUE
    /\ UNCHANGED <<lists, gNbProcess, process, thread, current, pc, waitTarget, stepped, history>>

-----------------------------------------------------------------------------
(* The clock: DrvClock, then Schedules.                                    *)

\* gCurrentThread->process, as PmStartThread reads it.
ProcessOfThread(t) == thread[t].process

\* Mutant: the process keeps the state it had.
StateOfStartedUnchanged(p) == process[p].state

\* The state that PmStartThread gives to the process it starts.
StateOfStarted(p) == "RUNNING"

\* PmStartThread finds the thread by its place in gThreadsList and marks it,
\* and its process, as running, whatever their states were.
PmStartThread(tid) ==
    LET t == ListGet(gThreadsList, tid)
        p == ProcessOfThread(t)
    IN  /\ gCurrentThread' = t
        /\ IF t = NULL
           THEN UNCHANGED <<thread, process, gCurrentProcess, started>>
           ELSE /\ thread' = [thread EXCEPT ![t].state = "RUNNING"]
                /\ gCurrentProcess' = p
                /\ process' = [process EXCEPT ![p].state = StateOfStarted(p)]
                /\ started' = started \cup {p}

\* Mutant: the next tid does not wrap around.
GetNextThreadTidNoWrap == thread[gCurrentThread].tid + 1

GetNextThreadTid == (thread[gCurrentThread].tid + 1) % gNbThreads

\* No thread has run yet and the list is not empty: start the first one.
ScheduleFirst ==
    /\ irq
    /\ gCurrentThread = NULL
    /\ ListTop(gThreadsList) # NULL
    /\ PmStartThread(thread[ListTop(gThreadsList)].tid)
    /\ stepped' = FALSE
    /\ UNCHANGED <<lists, gNbProcess, irq, pc, waitTarget, exited>>

\* A thread runs: save its context and start the next one.  The clock leaves
\* every thread the time of one step at least.
ScheduleNext ==
    /\ irq
    /\ gCurrentThread # NULL
    /\ gNbThreads > 1 \/ thread[gCurrentThread].state # "RUNNING"
    /\ stepped
    /\ PmStartThread(GetNextThreadTid)
    /\ stepped' = FALSE
    /\ UNCHANGED <<lists, gNbProcess, irq, pc, waitTarget, exited>>

Schedules == ScheduleFirst \/ ScheduleNext

-----------------------------------------------------------------------------
(* Steps of the thread that has the processor.                             *)

Runs(t) == irq /\ gCurrentThread = t /\ t # NULL

\* The program computes, or makes a system call modelled elsewhere.
UserStep(t) ==
    /\ Runs(t)
    /\ pc[t] = "user"
    /\ ~stepped
    /\ stepped' = TRUE
    /\ UNCHANGED <<lists, gNbProcess, process, thread, current, irq, pc, waitTarget, history>>

\* The two pids that SysWait refuses to wait for.
WaitRefused(pid) == pid = 0 \/ process[gCurrentProcess].pid = pid

\* SysWait up to its loop: it returns at once with an error status (which
\* SyscallHandler does not pass on), or it has found the process to wait for.
SysWait(t, pid) ==
    LET target == GetProcessFromPid(pid) IN
    /\ Runs(t)
    /\ pc[t] = "user"
    /\ stepped' = TRUE
    /\ IF WaitRefused(pid) \/ target = NULL
       THEN UNCHANGED <<pc, waitTarget>>
       ELSE /\ pc' = [pc EXCEPT ![t] = "wait"]
            /\ waitTarget' = [waitTarget EXCEPT ![t] = target]
    /\ UNCHANGED <<lists, gNbProcess, process, thread, current, irq, history>>

\* Mutant: the loop ends on the state RUNNING instead of lasting as long.
SeenRunningInverted(target) ==
    IF target = WILD THEN BOOLEAN ELSE {process[target].state # "RUNNING"}

\* Mutant: the loop waits for a process that is not RUNNING to be started.
SeenRunningNotInit(target) ==
    IF target = WILD THEN BOOLEAN ELSE {process[target].state # "INIT"}

\* What "process->state == PROCESS_STATE_RUNNING" can be: anything at all
\* when process was read through a null pointer.
SeenRunning(target) ==
    IF target = WILD THEN BOOLEAN ELSE {process[target].state = "RUNNING"}

\* while (process->state == PROCESS_STATE_RUNNING);
SysWaitSpin(t) ==
    /\ Runs(t)
    /\ pc[t] = "wait"
    /\ TRUE \in SeenRunning(waitTarget[t])
    /\ stepped' = TRUE
    /\ UNCHANGED <<lists, gNbProcess, process, thread, current, irq, pc, waitTarget, history>>

SysWaitReturn(t) ==
    /\ Runs(t)
    /\ pc[t] = "wait"
    /\ FALSE \in SeenRunning(waitTarget[t])
    /\ stepped' = TRUE
    /\ pc' = [pc EXCEPT ![t] = "user"]
    /\ waitTarget' = [waitTarget EXCEPT ![t] = NULL]
    /\ UNCHANGED <<lists, gNbProcess, process, thread, current, irq, history>>

\* SysExit marks the process, then counts it out, and returns to its caller:
\* nothing stops the thread.
SysExit(t) ==
    /\ Runs(t)
    /\ pc[t] = "user"
    /\ stepped' = TRUE
    /\ process' = [process EXCEPT ![gCurrentProcess].state = "DEAD"]
    /\ exited' = exited \cup {gCurrentProcess}
    /\ pc' = [pc EXCEPT ![t] = "exit"]
    /\ UNCHANGED <<lists, gNbProcess, thread, current, irq, waitTarget, started>>

\* gNbProcess--, on an unsigned int.
CountedOut == (gNbProcess - 1) % UIntModulus

SysExitCount(t) ==
    /\ Runs(t)
    /\ pc[t] = "exit"
    /\ stepped' = TRUE
    /\ gNbProcess' = CountedOut
    /\ pc' = [pc EXCEPT ![t] = "user"]
    /\ UNCHANGED <<lists, process, thread, current, irq, waitTarget, history>>

\* What a thread does without being asked: the processor never stands still.
Step(t) == UserStep(t) \/ SysWaitSpin(t) \/ SysWaitReturn(t) \/ SysExitCount(t)

SysCall(t) == (\E pid \in Pids : SysWait(t, pid)) \/ SysExit(t)

Next ==
    \/ PmCreateProcess
    \/ EnableIrq
    \/ Schedules
    \/ \E t \in Objects : Step(t) \/ SysCall(t)

\* The boot goes on, the clock keeps ticking, and the processor executes the
\* thread it was given.  No program has to make a system call.
Fairness ==
    /\ WF_vars(PmCreateProcess \/ EnableIrq)
    /\ WF_vars(Schedules)
    /\ WF_vars(\E t \in Objects : Step(t))

Spec == Init /\ [][Next]_vars /\ Fairness

-----------------------------------------------------------------------------
(* Properties.                                                             *)

\* Every variable of the process manager has a value of its C type, and the
\* pointers point to objects (or hold what ListGet returned).
TypeOK ==
    /\ gProcessList \in Seq(Objects)
    /\ gThreadsList \in Seq(Objects)
    /\ s_CurrentProcessId \in 0..NPrograms
    /\ gThreadId \in 0..NPrograms
    /\ gNbThreads \in 0..NPrograms
    /\ gNbProcess \in 0..(UIntModulus - 1)
    /\ process \in [Objects -> [pid : 0..NPrograms, state : ProcessStates,
                                mainThread : Objects \cup {NULL}]]
    /\ thread \in [Objects -> [tid : 0..NPrograms, state : ThreadStates,
                               process : Objects \cup {NULL}]]
    /\ gCurrentThread \in Objects \cup {NULL}
    /\ gCurrentProcess \in Objects \cup {NULL}
    /\ irq \in BOOLEAN
    /\ pc \in [Objects -> {"user", "wait", "exit"}]
    /\ waitTarget \in [Objects -> Objects \cup {NULL, WILD}]
    /\ stepped \in BOOLEAN
    /\ started \subseteq Objects
    /\ exited \subseteq Objects

\* The kernel looks processes and threads up by their number, but what it
\* does is to walk to that place of a list.  The two agree: the walk to
\* place tid (pid) ends on the object whose tid (pid) that is, and every
\* remainder modulo gNbThreads is the tid of a thread (scheduler.c:17,
\* process_manager.c:102, process.c:24).
IndexIsIdentity ==
    /\ \A o \in Created :
        /\ ListGet(gThreadsList, thread[o].tid) = o
        /\ ListGet(gProcessList, process[o].pid) = o
    /\ \A tid \in 0..(gNbThreads - 1) :
        \E o \in Created : thread[o].tid = tid

\* The thread that runs and the process that its system calls act upon
\* belong together, from whatever point of a system call the thread was
\* resumed (process_manager.c:102-117; SysWait and SysExit read
\* gCurrentProcess).
CurrentAgree ==
    gCurrentThread # NULL =>
        /\ gCurrentProcess = thread[gCurrentThread].process
        /\ process[gCurrentProcess].mainThread = gCurrentThread
        /\ thread[gCurrentThread].state = "RUNNING"

\* The lists, the counters and the two current pointers agree: whatever order
\* the objects were made in and wherever the clock struck, a number leads to
\* its object and the thread that runs to its process.
ObjectsAgree == TypeOK /\ IndexIsIdentity /\ CurrentAgree

\* What a state says of a process: INIT that it never had the processor,
\* DEAD that it called exit, RUNNING that it had the processor (and nothing
\* about exit: process_manager.c:117 writes RUNNING over DEAD).
StateTellsHistory ==
    \A p \in Created :
        /\ process[p].state = "INIT" <=> p \notin started
        /\ process[p].state = "DEAD" => p \in exited

\* A thread in the loop of SysWait waits for a process that exists, that is
\* not its own and that is not process 0 (syscalls.c:257-286).
WaitsForAnother ==
    \A t \in Objects : pc[t] = "wait" =>
        /\ waitTarget[t] \in Created
        /\ waitTarget[t] # thread[t].process
        /\ process[waitTarget[t]].pid # 0

\* SysWait never returns while the process it waits for has started and has
\* not called exit (syscalls.c:288).
NoEarlyReturn ==
    [][\A t \in Objects :
        (pc[t] = "wait" /\ pc'[t] = "user") =>
            waitTarget[t] \notin started \/ waitTarget[t] \in exited]_vars

\* A thread that is already waiting when the process exits does return: it
\* gets the processor before the exited process gets it again and turns
\* its state back to RUNNING (scheduler.c:17, process_manager.c:117).  (One
\* that starts to wait later may not, even if it starts while the process is
\* still marked DEAD: see WaitAfterExitReturns.)
WaiterSeesExit ==
    \A t, p \in Objects :
        (/\ pc[t] = "wait" /\ waitTarget[t] = p
         /\ gCurrentProcess = p /\ process[p].state = "DEAD") ~> pc[t] = "user"

\* The lists, the counters and the modulus implement the plain rotation of
\* the processor over all the threads.
Abstract == INSTANCE RoundRobin WITH N <- NPrograms, turn <- gCurrentThread
ImplementsRoundRobin == Abstract!Spec

\* "while (newProcess->state != PROCESS_STATE_DEAD);" (syscalls.c:238): a
\* wait for a process that has exited returns.  The code does not do that:
\* see the run wait_after_exit.
WaitAfterExitReturns ==
    \A t, p \in Objects :
        (pc[t] = "wait" /\ waitTarget[t] = p /\ p \in exited) ~> pc[t] = "user"
=============================================================================
