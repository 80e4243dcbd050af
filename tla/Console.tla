------------------------------ MODULE Console -------------------------------
(***************************************************************************)
(* The console of LtKernel: the owner thread and the line buffers of       *)
(* kernel/user/console.c, the keyboard interrupt that fills them           *)
(* (kernel/drivers/keyboard.c), and the system call scan that hands a line *)
(* to a program (SysScanf, kernel/user/syscalls.c).                        *)
(*                                                                         *)
(* SysScanf runs with the interrupts enabled: a key can arrive between any *)
(* two of its statements, and so can the clock, which gives the processor  *)
(* to the next thread.                                                     *)
(***************************************************************************)
EXTENDS Integers

CONSTANTS
    NThreads,       \* threads that read the console
    BufferSize,     \* THREAD_CONSOLE_BUFFER_SIZE
    Letters,        \* the keys other than Enter (a key without a character gives '\0')
    NEWLINE,        \* Enter
    ZERO            \* the character '\0'

ASSUME NThreadsAssumption == NThreads \in Nat \ {0}
ASSUME BufferSizeAssumption == BufferSize \in Nat /\ BufferSize > 2
ASSUME KeysAssumption ==
    /\ NEWLINE \notin Letters
    /\ NEWLINE # ZERO

Threads == 1..NThreads
NULL == 0
Keys == Letters \cup {NEWLINE}
Chars == Keys \cup {ZERO}
Positions == 0..(BufferSize - 1)

\* The values of an index: BufferSize stands for each that lies behind the buffer.
Indices == 0..BufferSize

VARIABLES
    ownerThread,        \* gConsole.ownerThread
    consoleBuffer,      \* per thread: Thread.console.consoleBuffer
    bufferIndex,        \* per thread: Thread.console.bufferIndex
    readyToBeFlushed,   \* per thread: Thread.console.readyToBeFlushed
    buffer,             \* per thread: the buffer that the program gave to scan
    copyIndex,          \* per thread: bufferIndex, as the call of MmCopy read it
    pc,                 \* per thread: the next statement of SysScanf
    running             \* the thread that has the processor

console == <<consoleBuffer, bufferIndex, readyToBeFlushed>>
vars == <<ownerThread, console, buffer, copyIndex, pc, running>>

CnslIsAvailable == ownerThread = NULL
Blank == [i \in Positions |-> ZERO]

Init ==
    /\ ownerThread = NULL
    /\ consoleBuffer = [t \in Threads |-> Blank]
    /\ bufferIndex = [t \in Threads |-> 0]
    /\ readyToBeFlushed = [t \in Threads |-> FALSE]
    /\ buffer = [t \in Threads |-> Blank]
    /\ copyIndex = [t \in Threads |-> 0]
    /\ pc = [t \in Threads |-> "user"]
    /\ running = 1

-----------------------------------------------------------------------------
(* Interrupts.                                                             *)

\* b[i] = c.  A place behind the buffer is none of the places of b.
Stored(b, i, c) == [j \in Positions |-> IF j = i THEN c ELSE b[j]]

\* Mutant: the line is ready at the character that ends a string.
ReadyAfterZero(t, key) == readyToBeFlushed[t] \/ key = ZERO

\* if (key == '\n') readyToBeFlushed = TRUE
ReadyAfter(t, key) == readyToBeFlushed[t] \/ key = NEWLINE

\* bufferIndex++, which looks at no size.  The first place behind the buffer is
\* the low byte of bufferIndex itself, incremented before the key is stored: the
\* index becomes 512 + key, which is behind the buffer too, and stays there.
IndexAfter(t) == IF bufferIndex[t] = BufferSize THEN BufferSize ELSE bufferIndex[t] + 1

\* DrvKeyboard -> CnslHandleKey, for a key that is not a shift key.  Without
\* an owner the key is lost.
CnslHandleKey(key) ==
    LET t == ownerThread IN
    /\ t # NULL
    /\ consoleBuffer' = [consoleBuffer EXCEPT ![t] = Stored(@, bufferIndex[t], key)]
    /\ bufferIndex' = [bufferIndex EXCEPT ![t] = IndexAfter(t)]
    /\ readyToBeFlushed' = [readyToBeFlushed EXCEPT ![t] = ReadyAfter(t, key)]
    /\ UNCHANGED <<ownerThread, buffer, copyIndex, pc, running>>

\* Schedules, as ProcessManager has it: the next thread in creation order.
Schedules ==
    /\ running' = (running % NThreads) + 1
    /\ UNCHANGED <<ownerThread, console, buffer, copyIndex, pc>>

-----------------------------------------------------------------------------
(* SysScanf, statement by statement.                                       *)

At(t, label) == running = t /\ pc[t] = label
Goto(t, label) == pc' = [pc EXCEPT ![t] = label]

\* The call, up to the first test of CnslIsAvailable.  The owner cannot be
\* the caller itself, and if it is another thread the loop tests again.
SysScanf(t) ==
    /\ At(t, "user")
    /\ Goto(t, IF CnslIsAvailable THEN "setOwner" ELSE "waitAvailable")
    /\ UNCHANGED <<ownerThread, console, buffer, copyIndex, running>>

\* while (!CnslIsAvailable());
WaitAvailable(t) ==
    /\ At(t, "waitAvailable")
    /\ CnslIsAvailable
    /\ Goto(t, "setOwner")
    /\ UNCHANGED <<ownerThread, console, buffer, copyIndex, running>>

CnslSetOwnerThread(t) ==
    /\ At(t, "setOwner")
    /\ ownerThread' = t
    /\ Goto(t, "waitLine")
    /\ UNCHANGED <<console, buffer, copyIndex, running>>

\* while (!currentThread->console.readyToBeFlushed);
WaitLine(t) ==
    /\ At(t, "waitLine")
    /\ readyToBeFlushed[t]
    /\ Goto(t, "readIndex")
    /\ UNCHANGED <<ownerThread, console, buffer, copyIndex, running>>

\* The arguments of MmCopy are evaluated: bufferIndex + 1 bytes.
ReadIndex(t) ==
    /\ At(t, "readIndex")
    /\ copyIndex' = [copyIndex EXCEPT ![t] = bufferIndex[t]]
    /\ Goto(t, "copy")
    /\ UNCHANGED <<ownerThread, console, buffer, running>>

\* Mutant: the copy stops one byte early.
CopiedOneLess(t, i) == i < copyIndex[t] - 1

\* The bytes that MmCopy copies; the last of them may have been written by
\* a key that came after the call.
Copied(t, i) == i <= copyIndex[t]

Copy(t) ==
    /\ At(t, "copy")
    /\ buffer' = [buffer EXCEPT ![t] =
                    [i \in Positions |-> IF Copied(t, i) THEN consoleBuffer[t][i]
                                         ELSE buffer[t][i]]]
    /\ Goto(t, "terminate")
    /\ UNCHANGED <<ownerThread, console, copyIndex, running>>

\* buffer[currentThread->console.bufferIndex] = '\0', with the index as it is now.
Terminate(t) ==
    /\ At(t, "terminate")
    /\ buffer' = [buffer EXCEPT ![t] = Stored(@, bufferIndex[t], ZERO)]
    /\ Goto(t, "freeOwner")
    /\ UNCHANGED <<ownerThread, console, copyIndex, running>>

\* Mutant: the console is kept.
OwnerAfterFreeKept == ownerThread

\* CnslFreeOwnerThread gives the console up whoever its owner is.
OwnerAfterFree == NULL

CnslFreeOwnerThread(t) ==
    /\ At(t, "freeOwner")
    /\ ownerThread' = OwnerAfterFree
    /\ Goto(t, "resetIndex")
    /\ UNCHANGED <<console, buffer, copyIndex, running>>

\* bufferIndex = 0
IndexAfterFlush(t) == 0

ResetIndex(t) ==
    /\ At(t, "resetIndex")
    /\ bufferIndex' = [bufferIndex EXCEPT ![t] = IndexAfterFlush(t)]
    /\ Goto(t, "resetReady")
    /\ UNCHANGED <<ownerThread, consoleBuffer, readyToBeFlushed, buffer, copyIndex, running>>

\* readyToBeFlushed = FALSE, and the call returns: the program has its line,
\* the local variables of the call are gone, and the next call will bring a
\* buffer of its own.
ReadyAfterFlush(t) == FALSE

ResetReady(t) ==
    /\ At(t, "resetReady")
    /\ readyToBeFlushed' = [readyToBeFlushed EXCEPT ![t] = ReadyAfterFlush(t)]
    /\ Goto(t, "user")
    /\ buffer' = [buffer EXCEPT ![t] = Blank]
    /\ copyIndex' = [copyIndex EXCEPT ![t] = 0]
    /\ UNCHANGED <<ownerThread, consoleBuffer, bufferIndex, running>>

\* The rest of a call that has found the console available.
ScanStep(t) ==
    \/ CnslSetOwnerThread(t) \/ WaitLine(t)
    \/ ReadIndex(t) \/ Copy(t) \/ Terminate(t)
    \/ CnslFreeOwnerThread(t) \/ ResetIndex(t) \/ ResetReady(t)

Next ==
    \/ \E key \in Keys : CnslHandleKey(key)
    \/ Schedules
    \/ \E t \in Threads : SysScanf(t) \/ WaitAvailable(t) \/ ScanStep(t)

\* The user presses Enter again and again, the clock ticks, and a thread
\* that gets the processor time after time executes the statements behind
\* the two loops.  Nothing says that a thread that waits for the console
\* looks at it while it is available.
Fairness ==
    /\ WF_vars(CnslHandleKey(NEWLINE))
    /\ WF_vars(Schedules)
    /\ \A t \in Threads : SF_vars(ScanStep(t))

Spec == Init /\ [][Next]_vars /\ Fairness

-----------------------------------------------------------------------------
(* Properties.                                                             *)

Labels == {"user", "waitAvailable", "setOwner", "waitLine", "readIndex", "copy",
           "terminate", "freeOwner", "resetIndex", "resetReady"}

\* Between its CnslSetOwnerThread and its CnslFreeOwnerThread.
Reading(t) == pc[t] \in {"waitLine", "readIndex", "copy", "terminate", "freeOwner"}

\* Every variable has a value of its C type.  An index may be that of a place behind
\* the buffer: CnslHandleKey does not compare it with the size (console.c:26).
TypeOK ==
    /\ ownerThread \in Threads \cup {NULL}
    /\ consoleBuffer \in [Threads -> [Positions -> Chars]]
    /\ bufferIndex \in [Threads -> Indices]
    /\ readyToBeFlushed \in [Threads -> BOOLEAN]
    /\ buffer \in [Threads -> [Positions -> Chars]]
    /\ copyIndex \in [Threads -> Indices]
    /\ pc \in [Threads -> Labels]
    /\ running \in Threads

\* Keys go to a thread only while it is inside scan, between the two calls
\* that take and give up the console, however many threads race for it
\* (syscalls.c:168-192).
OwnerIsReading == ownerThread # NULL => Reading(ownerThread)

\* Every call of scan starts on an empty line: a thread that has not taken
\* the console yet has no key and no flag left over from its previous line.
\* It holds because index and flag are reset after the console was given up,
\* when no key can reach the thread any more (syscalls.c:192-195).
LineStartsEmpty ==
    \A t \in Threads : pc[t] \in {"user", "waitAvailable", "setOwner"} =>
        bufferIndex[t] = 0 /\ ~readyToBeFlushed[t]

\* The console and the lines agree: a key always has a reader that waits for
\* it, and one line leaves nothing to the next, however many threads race for
\* the console and wherever they are interrupted between giving it up and
\* resetting the line.
KeysFindTheirLine == TypeOK /\ OwnerIsReading /\ LineStartsEmpty

\* The places of the line that were typed and end with the first Enter.
FirstLine(t) == {i \in Positions : \A j \in 0..(i - 1) : consoleBuffer[t][j] # NEWLINE}

\* What the program gets begins with the line up to and including Enter,
\* even though keys typed after Enter move the index under the copy
\* (syscalls.c:189-190, console.c:26).  Only a line that ran over the buffer
\* before it was copied may have its Enter behind it: of such a line the program
\* gets all that the buffer has.
LineIsDelivered ==
    \A t \in Threads : pc[t] = "freeOwner" =>
        /\ \/ copyIndex[t] = BufferSize
           \/ \E i \in FirstLine(t) : i < copyIndex[t] /\ consoleBuffer[t][i] = NEWLINE
        /\ \A i \in FirstLine(t) : buffer[t][i] = consoleBuffer[t][i]

\* The console never stays with one thread: its owner gets a line and gives
\* it up, or another thread takes it over.
ConsoleIsReleased == \A t \in Threads : ownerThread = t ~> ownerThread # t
=============================================================================
