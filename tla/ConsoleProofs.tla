--------------------------- MODULE ConsoleProofs ----------------------------
(***************************************************************************)
(* Proofs about Console, for every number of threads, every size of the    *)
(* buffer and every set of keys; and, from "Recursive functions" on, about *)
(* Screen, for every size of the screen, every set of calls and any number *)
(* of printers, but for CursorStays, which is about one process and the    *)
(* handlers that interrupt it.                                             *)
(***************************************************************************)
EXTENDS Console, Screen, TLAPS, WellFoundedInduction, SequenceTheorems

\* The first n keys of the line hold an Enter, and the line ends there; or they
\* ran over the buffer.
HasLine(t, n) ==
    \/ n = BufferSize
    \/ \E i \in FirstLine(t) : i < n /\ consoleBuffer[t][i] = NEWLINE

\* The flag tells whether Enter is among the keys of the line.
FlagTellsEnter ==
    \A t \in Threads : Reading(t) =>
        /\ readyToBeFlushed[t] => HasLine(t, bufferIndex[t])
        /\ ~readyToBeFlushed[t] =>
            \A j \in Positions : j < bufferIndex[t] => consoleBuffer[t][j] # NEWLINE

\* SysScanf gets behind its second loop only with the flag, and nothing
\* resets it until the call does.
FlagIsKept ==
    \A t \in Threads : pc[t] \in {"readIndex", "copy", "terminate", "freeOwner"} =>
        readyToBeFlushed[t]

\* The index that the copy works with lies behind the Enter, and keys that
\* come after it only move the index of the console away from it.
CopyHasLine ==
    \A t \in Threads : pc[t] \in {"copy", "terminate", "freeOwner"} =>
        copyIndex[t] <= bufferIndex[t] /\ HasLine(t, copyIndex[t])

\* After the copy, and after the final '\0', the program has its line.
LineIsCopied ==
    \A t \in Threads : pc[t] \in {"terminate", "freeOwner"} =>
        \A i \in FirstLine(t) : buffer[t][i] = consoleBuffer[t][i]

\* The index is reset before the flag.
IndexIsReset == \A t \in Threads : pc[t] = "resetReady" => bufferIndex[t] = 0

\* The inductive invariant.
IInv ==
    /\ TypeOK
    /\ OwnerIsReading
    /\ LineStartsEmpty
    /\ FlagTellsEnter
    /\ FlagIsKept
    /\ CopyHasLine
    /\ LineIsCopied
    /\ IndexIsReset

-----------------------------------------------------------------------------
LEMMA NullIsNoThread == NULL \notin Threads
  BY DEF NULL, Threads

LEMMA PositionsAreNat ==
    /\ Positions \subseteq Nat /\ 0 \in Positions
    /\ Indices \subseteq Nat /\ 0 \in Indices
    /\ BufferSize \in Nat /\ Indices = Positions \cup {BufferSize}
    /\ \A i \in Positions : i < BufferSize
  BY BufferSizeAssumption DEF Positions, Indices

LEMMA NextThread ==
    ASSUME NEW t \in Threads
    PROVE  (t % NThreads) + 1 \in Threads
  BY NThreadsAssumption DEF Threads

\* An Enter at place i is where the line ends: no place of the line lies
\* behind it.
LEMMA LineEndsAtEnter ==
    ASSUME NEW t \in Threads, NEW i \in Positions, consoleBuffer[t][i] = NEWLINE,
           NEW k \in FirstLine(t)
    PROVE  k <= i
  <1>1. k \in Nat /\ i \in Nat
    BY PositionsAreNat DEF FirstLine
  <1>2. SUFFICES ASSUME i < k PROVE FALSE
    BY <1>1
  <1>3. i \in 0..(k - 1)
    BY <1>1, <1>2
  <1> QED
    BY <1>3 DEF FirstLine

LEMMA InitIInv == Init => IInv
  <1> SUFFICES ASSUME Init PROVE IInv
    OBVIOUS
  <1>1. TypeOK
    BY PositionsAreNat, NThreadsAssumption
    DEF Init, TypeOK, Blank, Chars, Labels, Threads
  <1>2. OwnerIsReading /\ LineStartsEmpty
    BY DEF Init, OwnerIsReading, LineStartsEmpty
  <1>3. FlagTellsEnter /\ FlagIsKept /\ CopyHasLine /\ LineIsCopied /\ IndexIsReset
    BY DEF Init, FlagTellsEnter, FlagIsKept, CopyHasLine, LineIsCopied, IndexIsReset, Reading
  <1> QED
    BY <1>1, <1>2, <1>3 DEF IInv

-----------------------------------------------------------------------------
\* Every step keeps the types.
LEMMA TypeStep == TypeOK /\ [Next]_vars => TypeOK'
  <1> SUFFICES ASSUME TypeOK, [Next]_vars PROVE TypeOK'
    OBVIOUS
  <1> USE DEF TypeOK
  <1>1. ASSUME NEW key \in Keys, CnslHandleKey(key) PROVE TypeOK'
    <2>1. ownerThread \in Threads
      BY <1>1 DEF CnslHandleKey
    <2>2. IndexAfter(ownerThread) \in Indices
      <3>1. PICK n \in Indices : n = bufferIndex[ownerThread]
        BY <2>1
      <3>2. n \in Indices /\ (n # BufferSize => n + 1 \in Indices)
        BY BufferSizeAssumption DEF Indices
      <3>3. IndexAfter(ownerThread) = IF n = BufferSize THEN n ELSE n + 1
        BY <3>1 DEF IndexAfter
      <3> QED
        BY <3>2, <3>3
    <2>3. consoleBuffer' \in [Threads -> [Positions -> Chars]]
      BY <1>1, <2>1 DEF CnslHandleKey, Stored, Chars
    <2>4. readyToBeFlushed' \in [Threads -> BOOLEAN]
      BY <1>1, <2>1 DEF CnslHandleKey, ReadyAfter
    <2> QED
      BY <1>1, <2>1, <2>2, <2>3, <2>4 DEF CnslHandleKey
  <1>2. CASE Schedules
    BY <1>2, NextThread DEF Schedules, console
  <1>3. ASSUME NEW t \in Threads, SysScanf(t) PROVE TypeOK'
    BY <1>3 DEF SysScanf, Goto, Labels, console
  <1>4. ASSUME NEW t \in Threads, WaitAvailable(t) PROVE TypeOK'
    BY <1>4 DEF WaitAvailable, Goto, Labels, console
  <1>5. ASSUME NEW t \in Threads, CnslSetOwnerThread(t) PROVE TypeOK'
    BY <1>5 DEF CnslSetOwnerThread, Goto, Labels, console
  <1>6. ASSUME NEW t \in Threads, WaitLine(t) PROVE TypeOK'
    BY <1>6 DEF WaitLine, Goto, Labels, console
  <1>7. ASSUME NEW t \in Threads, ReadIndex(t) PROVE TypeOK'
    BY <1>7 DEF ReadIndex, Goto, Labels, console
  <1>8. ASSUME NEW t \in Threads, Copy(t) PROVE TypeOK'
    BY <1>8 DEF Copy, Goto, Labels, console
  <1>9. ASSUME NEW t \in Threads, Terminate(t) PROVE TypeOK'
    BY <1>9 DEF Terminate, Stored, Goto, Labels, console, Chars
  <1>10. ASSUME NEW t \in Threads, CnslFreeOwnerThread(t) PROVE TypeOK'
    BY <1>10 DEF CnslFreeOwnerThread, OwnerAfterFree, Goto, Labels, console
  <1>11. ASSUME NEW t \in Threads, ResetIndex(t) PROVE TypeOK'
    BY <1>11, PositionsAreNat DEF ResetIndex, IndexAfterFlush, Goto, Labels
  <1>12. ASSUME NEW t \in Threads, ResetReady(t) PROVE TypeOK'
    BY <1>12, PositionsAreNat DEF ResetReady, ReadyAfterFlush, Goto, Labels, Blank, Chars
  <1>13. CASE UNCHANGED vars
    BY <1>13 DEF vars, console
  <1> QED
    BY <1>1, <1>2, <1>3, <1>4, <1>5, <1>6, <1>7, <1>8, <1>9, <1>10, <1>11, <1>12, <1>13
    DEF Next, ScanStep

\* A key that the buffer has no place for changes nothing but the flag.
LEMMA KeyBehind ==
    ASSUME IInv, TypeOK', NEW key \in Keys, CnslHandleKey(key),
           bufferIndex[ownerThread] = BufferSize
    PROVE  IInv'
  <1> USE DEF IInv
  <1>1. PICK o \in Threads : o = ownerThread /\ Reading(o)
    BY DEF CnslHandleKey, TypeOK, OwnerIsReading
  <1>2. Stored(consoleBuffer[o], BufferSize, key) = consoleBuffer[o]
    BY <1>1, PositionsAreNat DEF Stored, TypeOK
  <1>3. /\ UNCHANGED <<ownerThread, consoleBuffer, bufferIndex, buffer, copyIndex, pc>>
        /\ readyToBeFlushed'[o] = (readyToBeFlushed[o] \/ key = NEWLINE)
        /\ \A t \in Threads : t # o => readyToBeFlushed'[t] = readyToBeFlushed[t]
    BY <1>1, <1>2 DEF CnslHandleKey, IndexAfter, ReadyAfter, TypeOK
  <1>4. OwnerIsReading' /\ LineStartsEmpty' /\ IndexIsReset' /\ FlagIsKept'
    BY <1>1, <1>3
    DEF OwnerIsReading, LineStartsEmpty, IndexIsReset, FlagIsKept, Reading, TypeOK
  <1>5. FlagTellsEnter'
    <2>1. \A t \in Threads : t # o =>
            (HasLine(t, bufferIndex[t])' <=> HasLine(t, bufferIndex[t]))
      BY <1>3 DEF HasLine, FirstLine
    <2>2. HasLine(o, bufferIndex[o])'
      BY <1>1, <1>3 DEF HasLine
    <2> QED
      BY <1>1, <1>3, <2>1, <2>2 DEF FlagTellsEnter, Reading
  <1>6. CopyHasLine' /\ LineIsCopied'
    BY <1>3 DEF CopyHasLine, LineIsCopied, HasLine, FirstLine
  <1> QED
    BY <1>4, <1>5, <1>6

\* A key goes behind the keys of the line: it neither moves the end of a
\* line that has its Enter, nor what the program was given of it.
LEMMA KeyStep ==
    ASSUME IInv, TypeOK', NEW key \in Keys, CnslHandleKey(key),
           bufferIndex[ownerThread] # BufferSize
    PROVE  IInv'
  <1> USE DEF IInv
  <1>o. PICK o \in Threads : o = ownerThread /\ Reading(o)
    BY DEF CnslHandleKey, TypeOK, OwnerIsReading
  <1>n. PICK n \in Positions : n = bufferIndex[o]
    BY <1>o, PositionsAreNat DEF TypeOK
  <1>1. o \in Threads /\ o = ownerThread /\ Reading(o) /\ n = bufferIndex[o]
        /\ n \in Positions /\ n \in Nat /\ n # BufferSize
    BY <1>o, <1>n, PositionsAreNat
  <1>2. /\ pc' = pc /\ buffer' = buffer /\ copyIndex' = copyIndex
        /\ ownerThread' = ownerThread
        /\ bufferIndex'[o] = n + 1
        /\ readyToBeFlushed'[o] = (readyToBeFlushed[o] \/ key = NEWLINE)
        /\ consoleBuffer'[o][n] = key
        /\ \A i \in Positions : i # n => consoleBuffer'[o][i] = consoleBuffer[o][i]
        /\ \A t \in Threads : t # o =>
            /\ bufferIndex'[t] = bufferIndex[t]
            /\ readyToBeFlushed'[t] = readyToBeFlushed[t]
            /\ consoleBuffer'[t] = consoleBuffer[t]
    BY <1>1 DEF CnslHandleKey, IndexAfter, Stored, ReadyAfter, TypeOK
  <1>3. \A t \in Threads : t # o => FirstLine(t)' = FirstLine(t)
    BY <1>2 DEF FirstLine
  <1>4. ASSUME NEW m \in Nat, m <= n, HasLine(o, m)
        PROVE  FirstLine(o)' = FirstLine(o) /\ HasLine(o, m)'
    <2>1. PICK i \in FirstLine(o) : i < m /\ consoleBuffer[o][i] = NEWLINE
      BY <1>1, <1>4, PositionsAreNat DEF HasLine
    <2>2. i \in Positions /\ i \in Nat /\ i < n
      BY <1>1, <1>4, <2>1, PositionsAreNat DEF FirstLine
    <2>3. consoleBuffer'[o][i] = NEWLINE
      BY <1>2, <2>1, <2>2
    <2>4. ASSUME NEW k \in FirstLine(o) PROVE k \in FirstLine(o)'
      <3>1. k \in Positions /\ k \in Nat /\ k <= i
        BY <1>1, <2>1, <2>2, <2>4, LineEndsAtEnter, PositionsAreNat DEF FirstLine
      <3>2. ASSUME NEW j \in 0..(k - 1) PROVE consoleBuffer'[o][j] # NEWLINE
        <4>1. j \in Positions /\ j # n
          BY <2>2, <3>1, <3>2, BufferSizeAssumption DEF Positions
        <4> QED
          BY <1>2, <2>4, <4>1 DEF FirstLine
      <3> QED
        BY <3>1, <3>2 DEF FirstLine
    <2>5. ASSUME NEW k \in FirstLine(o)' PROVE k \in FirstLine(o)
      <3>1. k \in Positions /\ k \in Nat
        BY <2>5, PositionsAreNat DEF FirstLine
      <3>2. k <= i
        <4>1. SUFFICES ASSUME i < k PROVE FALSE
          BY <3>1, <2>2
        <4>2. i \in 0..(k - 1)
          BY <4>1, <3>1, <2>2
        <4> QED
          BY <2>3, <2>5, <4>2 DEF FirstLine
      <3>3. ASSUME NEW j \in 0..(k - 1) PROVE consoleBuffer[o][j] # NEWLINE
        <4>1. j \in Positions /\ j # n
          BY <2>2, <3>1, <3>2, <3>3, BufferSizeAssumption DEF Positions
        <4> QED
          BY <1>2, <2>5, <4>1 DEF FirstLine
      <3> QED
        BY <3>1, <3>3 DEF FirstLine
    <2>6. FirstLine(o)' = FirstLine(o)
      BY <2>4, <2>5
    <2> QED
      BY <2>1, <2>3, <2>6 DEF HasLine
  <1>5. OwnerIsReading' /\ LineStartsEmpty' /\ IndexIsReset'
    BY <1>1, <1>2 DEF OwnerIsReading, LineStartsEmpty, IndexIsReset, Reading
  <1>6. FlagIsKept'
    BY <1>2 DEF FlagIsKept, TypeOK
  <1>7. FlagTellsEnter'
    <2> SUFFICES ASSUME NEW t \in Threads, Reading(t)
                 PROVE  /\ readyToBeFlushed'[t] => HasLine(t, bufferIndex[t])'
                        /\ ~readyToBeFlushed'[t] =>
                            \A j \in Positions : j < bufferIndex'[t] =>
                                consoleBuffer'[t][j] # NEWLINE
      BY <1>2 DEF FlagTellsEnter, Reading
    <2>1. CASE t # o
      BY <1>2, <1>3, <2>1 DEF FlagTellsEnter, HasLine
    <2>2. CASE t = o /\ readyToBeFlushed[o]
      <3>1. HasLine(o, n)'
        BY <1>1, <1>4, <2>2 DEF FlagTellsEnter
      <3>2. PICK i \in FirstLine(o)' : i < n /\ consoleBuffer'[o][i] = NEWLINE
        BY <3>1, <1>1, <1>2 DEF HasLine
      <3>3. i < n + 1
        <4>1. i \in Nat
          BY <3>2, PositionsAreNat DEF FirstLine
        <4>2. n \in Nat
          BY <1>1, PositionsAreNat
        <4> QED
          BY <3>2, <4>1, <4>2
      <3> QED
        BY <1>2, <2>2, <3>2, <3>3 DEF HasLine
    <2>3. CASE t = o /\ ~readyToBeFlushed[o] /\ key = NEWLINE
      <3>1. \A j \in 0..(n - 1) : consoleBuffer'[o][j] # NEWLINE
        <4> SUFFICES ASSUME NEW j \in 0..(n - 1) PROVE consoleBuffer'[o][j] # NEWLINE
          OBVIOUS
        <4>1. j \in Positions /\ j < n /\ j # n
          BY <1>1, BufferSizeAssumption DEF Positions
        <4> QED
          BY <1>1, <1>2, <2>3, <4>1 DEF FlagTellsEnter
      <3>2. n \in FirstLine(o)' /\ n < n + 1 /\ consoleBuffer'[o][n] = NEWLINE
        BY <1>1, <1>2, <2>3, <3>1 DEF FirstLine
      <3> QED
        BY <1>2, <2>3, <3>2 DEF HasLine
    <2>4. CASE t = o /\ ~readyToBeFlushed[o] /\ key # NEWLINE
      <3> SUFFICES ASSUME NEW j \in Positions, j < n + 1
                   PROVE  consoleBuffer'[o][j] # NEWLINE
        BY <1>2, <2>4
      <3>1. CASE j = n
        BY <1>2, <2>4, <3>1
      <3>2. CASE j # n
        <4>1. j < n
          BY <3>2, <1>1, PositionsAreNat
        <4> QED
          BY <1>1, <1>2, <2>4, <3>2, <4>1 DEF FlagTellsEnter
      <3> QED
        BY <3>1, <3>2
    <2> QED
      BY <2>1, <2>2, <2>3, <2>4
  <1>8. CopyHasLine'
    <2> SUFFICES ASSUME NEW t \in Threads, pc[t] \in {"copy", "terminate", "freeOwner"}
                 PROVE  copyIndex[t] <= bufferIndex'[t] /\ HasLine(t, copyIndex[t])'
      BY <1>2 DEF CopyHasLine
    <2>1. copyIndex[t] \in Nat /\ copyIndex[t] <= bufferIndex[t] /\ HasLine(t, copyIndex[t])
      BY PositionsAreNat DEF CopyHasLine, TypeOK
    <2>2. CASE t # o
      BY <1>2, <1>3, <2>1, <2>2 DEF HasLine
    <2>3. CASE t = o
      BY <1>1, <1>2, <1>4, <2>1, <2>3 DEF HasLine
    <2> QED
      BY <2>2, <2>3
  <1>9. LineIsCopied'
    <2> SUFFICES ASSUME NEW t \in Threads, pc[t] \in {"terminate", "freeOwner"},
                        NEW i \in FirstLine(t)'
                 PROVE  buffer[t][i] = consoleBuffer'[t][i]
      BY <1>2 DEF LineIsCopied
    <2>1. CASE t # o
      BY <1>2, <1>3, <2>1 DEF LineIsCopied
    <2>2. CASE t = o
      <3>1. HasLine(o, n)
        BY <1>1, <2>2 DEF FlagTellsEnter, FlagIsKept
      <3>2. i \in FirstLine(o)
        BY <1>1, <1>4, <2>2, <3>1
      <3>3. PICK k \in FirstLine(o) : k < n /\ consoleBuffer[o][k] = NEWLINE
        BY <1>1, <3>1 DEF HasLine
      <3>4. i \in Positions /\ i # n
        BY <1>1, <3>2, <3>3, LineEndsAtEnter, PositionsAreNat DEF FirstLine
      <3> QED
        BY <1>2, <2>2, <3>2, <3>4 DEF LineIsCopied
    <2> QED
      BY <2>1, <2>2
  <1> QED
    BY <1>5, <1>6, <1>7, <1>8, <1>9

\* The statements of SysScanf.
LEMMA ScanStepIInv ==
    ASSUME IInv, TypeOK', NEW u \in Threads, SysScanf(u) \/ WaitAvailable(u) \/ ScanStep(u)
    PROVE  IInv'
  <1> USE DEF IInv
  <1>1. ASSUME consoleBuffer' = consoleBuffer
        PROVE  \A t \in Threads : /\ FirstLine(t)' = FirstLine(t)
                                  /\ \A n \in Nat : HasLine(t, n)' = HasLine(t, n)
    BY <1>1 DEF FirstLine, HasLine
  <1>2. ASSUME UNCHANGED <<console, buffer, copyIndex>>,
               pc' = [pc EXCEPT ![u] = pc'[u]],
               pc[u] \in {"user", "waitAvailable"},
               pc'[u] \in {"waitAvailable", "setOwner"},
               ownerThread' = ownerThread
        PROVE  IInv'
    <2>1. consoleBuffer' = consoleBuffer /\ bufferIndex' = bufferIndex
          /\ readyToBeFlushed' = readyToBeFlushed /\ buffer' = buffer /\ copyIndex' = copyIndex
      BY <1>2 DEF console
    <2>2. \A t \in Threads : t # u => pc'[t] = pc[t]
      BY <1>2 DEF TypeOK
    <2>3. OwnerIsReading' /\ LineStartsEmpty' /\ IndexIsReset'
      BY <1>2, <2>1, <2>2, NullIsNoThread
      DEF OwnerIsReading, LineStartsEmpty, IndexIsReset, Reading, TypeOK
    <2>4. FlagTellsEnter' /\ FlagIsKept' /\ CopyHasLine' /\ LineIsCopied'
      BY <1>2, <2>1, <2>2
      DEF FlagTellsEnter, FlagIsKept, CopyHasLine, LineIsCopied, Reading, HasLine, FirstLine
    <2> QED
      BY <2>3, <2>4
  <1>3. CASE SysScanf(u)
    BY <1>2, <1>3 DEF SysScanf, At, Goto, TypeOK
  <1>4. CASE WaitAvailable(u)
    BY <1>2, <1>4 DEF WaitAvailable, At, Goto, TypeOK
  <1>5. CASE CnslSetOwnerThread(u)
    <2>1. /\ pc[u] = "setOwner" /\ pc'[u] = "waitLine" /\ ownerThread' = u
          /\ \A t \in Threads : t # u => pc'[t] = pc[t]
          /\ UNCHANGED <<consoleBuffer, bufferIndex, readyToBeFlushed, buffer, copyIndex>>
      BY <1>5 DEF CnslSetOwnerThread, At, Goto, TypeOK, console
    <2>2. bufferIndex[u] = 0 /\ ~readyToBeFlushed[u]
      BY <2>1 DEF LineStartsEmpty
    <2>3. OwnerIsReading' /\ LineStartsEmpty' /\ IndexIsReset'
      BY <2>1 DEF OwnerIsReading, LineStartsEmpty, IndexIsReset, Reading
    <2>4. FlagTellsEnter'
      <3>1. \A j \in Positions : ~(j < 0)
        BY PositionsAreNat
      <3> QED
        BY <1>1, <2>1, <2>2, <3>1 DEF FlagTellsEnter, Reading, HasLine
    <2>5. FlagIsKept' /\ CopyHasLine' /\ LineIsCopied'
      BY <1>1, <2>1 DEF FlagIsKept, CopyHasLine, LineIsCopied, HasLine
    <2> QED
      BY <2>3, <2>4, <2>5
  <1>6. CASE WaitLine(u)
    <2>1. /\ pc[u] = "waitLine" /\ pc'[u] = "readIndex" /\ readyToBeFlushed[u]
          /\ \A t \in Threads : t # u => pc'[t] = pc[t]
          /\ UNCHANGED <<ownerThread, consoleBuffer, bufferIndex, readyToBeFlushed, buffer,
                         copyIndex>>
      BY <1>6 DEF WaitLine, At, Goto, TypeOK, console
    <2>2. OwnerIsReading' /\ LineStartsEmpty' /\ IndexIsReset' /\ FlagIsKept'
      BY <2>1 DEF OwnerIsReading, LineStartsEmpty, IndexIsReset, FlagIsKept, Reading, TypeOK
    <2>3. FlagTellsEnter' /\ CopyHasLine' /\ LineIsCopied'
      BY <1>1, <2>1 DEF FlagTellsEnter, CopyHasLine, LineIsCopied, HasLine, Reading
    <2> QED
      BY <2>2, <2>3
  <1>7. CASE ReadIndex(u)
    <2>1. /\ pc[u] = "readIndex" /\ pc'[u] = "copy" /\ copyIndex'[u] = bufferIndex[u]
          /\ \A t \in Threads : t # u => pc'[t] = pc[t] /\ copyIndex'[t] = copyIndex[t]
          /\ UNCHANGED <<ownerThread, consoleBuffer, bufferIndex, readyToBeFlushed, buffer>>
      BY <1>7 DEF ReadIndex, At, Goto, TypeOK, console
    <2>2. OwnerIsReading' /\ LineStartsEmpty' /\ IndexIsReset' /\ FlagIsKept'
      BY <2>1 DEF OwnerIsReading, LineStartsEmpty, IndexIsReset, FlagIsKept, Reading, TypeOK
    <2>3. FlagTellsEnter' /\ LineIsCopied'
      BY <1>1, <2>1 DEF FlagTellsEnter, LineIsCopied, HasLine, Reading
    <2>4. CopyHasLine'
      <3>1. bufferIndex[u] \in Nat /\ HasLine(u, bufferIndex[u])
        BY <2>1, PositionsAreNat DEF FlagTellsEnter, FlagIsKept, Reading, TypeOK
      <3> QED
        BY <1>1, <2>1, <3>1 DEF CopyHasLine, HasLine
    <2> QED
      BY <2>2, <2>3, <2>4
  <1>8. CASE Copy(u)
    <2>1. /\ pc[u] = "copy" /\ pc'[u] = "terminate"
          /\ \A i \in Positions : i <= copyIndex[u] => buffer'[u][i] = consoleBuffer[u][i]
          /\ \A t \in Threads : t # u => pc'[t] = pc[t] /\ buffer'[t] = buffer[t]
          /\ UNCHANGED <<ownerThread, consoleBuffer, bufferIndex, readyToBeFlushed, copyIndex>>
      BY <1>8 DEF Copy, Copied, At, Goto, TypeOK, console
    <2>2. OwnerIsReading' /\ LineStartsEmpty' /\ IndexIsReset' /\ FlagIsKept'
      BY <2>1 DEF OwnerIsReading, LineStartsEmpty, IndexIsReset, FlagIsKept, Reading, TypeOK
    <2>3. FlagTellsEnter' /\ CopyHasLine'
      BY <1>1, <2>1 DEF FlagTellsEnter, CopyHasLine, HasLine, Reading
    <2>4. ASSUME NEW i \in FirstLine(u) PROVE buffer'[u][i] = consoleBuffer[u][i]
      <3>1. i \in Positions /\ i \in Nat /\ copyIndex[u] \in Nat
        BY PositionsAreNat DEF FirstLine, TypeOK
      <3>2. CASE copyIndex[u] = BufferSize
        BY <2>1, <3>1, <3>2, PositionsAreNat
      <3>3. CASE copyIndex[u] # BufferSize
        <4>1. PICK k \in FirstLine(u) : k < copyIndex[u] /\ consoleBuffer[u][k] = NEWLINE
          BY <2>1, <3>3 DEF CopyHasLine, HasLine
        <4>2. i <= k /\ k \in Nat
          BY <4>1, LineEndsAtEnter, PositionsAreNat DEF FirstLine
        <4> QED
          BY <2>1, <3>1, <4>1, <4>2
      <3> QED
        BY <3>2, <3>3
    <2>5. LineIsCopied'
      BY <1>1, <2>1, <2>4 DEF LineIsCopied
    <2> QED
      BY <2>2, <2>3, <2>5
  <1>9. CASE Terminate(u)
    <2>1. /\ pc[u] = "terminate" /\ pc'[u] = "freeOwner"
          /\ \A i \in Positions : i # bufferIndex[u] => buffer'[u][i] = buffer[u][i]
          /\ \A t \in Threads : t # u => pc'[t] = pc[t] /\ buffer'[t] = buffer[t]
          /\ UNCHANGED <<ownerThread, consoleBuffer, bufferIndex, readyToBeFlushed, copyIndex>>
      BY <1>9 DEF Terminate, Stored, At, Goto, TypeOK, console
    <2>2. OwnerIsReading' /\ LineStartsEmpty' /\ IndexIsReset' /\ FlagIsKept'
      BY <2>1 DEF OwnerIsReading, LineStartsEmpty, IndexIsReset, FlagIsKept, Reading, TypeOK
    <2>3. FlagTellsEnter' /\ CopyHasLine'
      BY <1>1, <2>1 DEF FlagTellsEnter, CopyHasLine, HasLine, Reading
    <2>4. ASSUME NEW i \in FirstLine(u) PROVE buffer'[u][i] = consoleBuffer[u][i]
      <3>1. /\ i \in Positions /\ i \in Nat /\ i < BufferSize
            /\ copyIndex[u] \in Nat /\ bufferIndex[u] \in Nat /\ copyIndex[u] <= bufferIndex[u]
        BY <2>1, PositionsAreNat DEF FirstLine, TypeOK, CopyHasLine
      <3>2. i # bufferIndex[u]
        <4>1. CASE copyIndex[u] = BufferSize
          BY <3>1, <4>1
        <4>2. CASE copyIndex[u] # BufferSize
          <5>1. PICK k \in FirstLine(u) : k < copyIndex[u] /\ consoleBuffer[u][k] = NEWLINE
            BY <2>1, <4>2 DEF CopyHasLine, HasLine
          <5>2. i <= k /\ k \in Nat
            BY <5>1, LineEndsAtEnter, PositionsAreNat DEF FirstLine
          <5> QED
            BY <3>1, <5>1, <5>2
        <4> QED
          BY <4>1, <4>2
      <3> QED
        BY <2>1, <3>1, <3>2 DEF LineIsCopied
    <2>5. LineIsCopied'
      BY <1>1, <2>1, <2>4 DEF LineIsCopied
    <2> QED
      BY <2>2, <2>3, <2>5
  <1>10. CASE CnslFreeOwnerThread(u)
    <2>1. /\ pc[u] = "freeOwner" /\ pc'[u] = "resetIndex" /\ ownerThread' = NULL
          /\ \A t \in Threads : t # u => pc'[t] = pc[t]
          /\ UNCHANGED <<consoleBuffer, bufferIndex, readyToBeFlushed, buffer, copyIndex>>
      BY <1>10 DEF CnslFreeOwnerThread, OwnerAfterFree, At, Goto, TypeOK, console
    <2>2. OwnerIsReading' /\ LineStartsEmpty' /\ IndexIsReset' /\ FlagIsKept'
      BY <2>1 DEF OwnerIsReading, LineStartsEmpty, IndexIsReset, FlagIsKept
    <2>3. FlagTellsEnter' /\ CopyHasLine' /\ LineIsCopied'
      BY <1>1, <2>1 DEF FlagTellsEnter, CopyHasLine, LineIsCopied, HasLine, Reading
    <2> QED
      BY <2>2, <2>3
  <1>11. CASE ResetIndex(u)
    <2>1. /\ pc[u] = "resetIndex" /\ pc'[u] = "resetReady" /\ bufferIndex'[u] = 0
          /\ \A t \in Threads : t # u => pc'[t] = pc[t] /\ bufferIndex'[t] = bufferIndex[t]
          /\ UNCHANGED <<ownerThread, consoleBuffer, readyToBeFlushed, buffer, copyIndex>>
      BY <1>11 DEF ResetIndex, IndexAfterFlush, At, Goto, TypeOK
    <2>2. OwnerIsReading' /\ LineStartsEmpty' /\ IndexIsReset' /\ FlagIsKept'
      BY <2>1 DEF OwnerIsReading, LineStartsEmpty, IndexIsReset, FlagIsKept, Reading, TypeOK
    <2>3. FlagTellsEnter' /\ CopyHasLine' /\ LineIsCopied'
      BY <1>1, <2>1 DEF FlagTellsEnter, CopyHasLine, LineIsCopied, HasLine, Reading
    <2> QED
      BY <2>2, <2>3
  <1>12. CASE ResetReady(u)
    <2>1. /\ pc[u] = "resetReady" /\ pc'[u] = "user" /\ readyToBeFlushed'[u] = FALSE
          /\ \A t \in Threads : t # u =>
                /\ pc'[t] = pc[t] /\ readyToBeFlushed'[t] = readyToBeFlushed[t]
                /\ buffer'[t] = buffer[t] /\ copyIndex'[t] = copyIndex[t]
          /\ UNCHANGED <<ownerThread, consoleBuffer, bufferIndex>>
      BY <1>12 DEF ResetReady, ReadyAfterFlush, At, Goto, TypeOK
    <2>2. OwnerIsReading' /\ LineStartsEmpty' /\ IndexIsReset' /\ FlagIsKept'
      BY <2>1 DEF OwnerIsReading, LineStartsEmpty, IndexIsReset, FlagIsKept, Reading, TypeOK
    <2>3. FlagTellsEnter' /\ CopyHasLine' /\ LineIsCopied'
      BY <1>1, <2>1 DEF FlagTellsEnter, CopyHasLine, LineIsCopied, HasLine, Reading
    <2> QED
      BY <2>2, <2>3
  <1> QED
    BY <1>3, <1>4, <1>5, <1>6, <1>7, <1>8, <1>9, <1>10, <1>11, <1>12 DEF ScanStep

-----------------------------------------------------------------------------
LEMMA NextIInv == IInv /\ [Next]_vars => IInv'
  <1> SUFFICES ASSUME IInv, [Next]_vars PROVE IInv'
    OBVIOUS
  <1>1. TypeOK'
    BY TypeStep DEF IInv
  <1>2. ASSUME NEW key \in Keys, CnslHandleKey(key) PROVE IInv'
    BY <1>1, <1>2, KeyStep, KeyBehind
  <1>3. ASSUME NEW t \in Threads, SysScanf(t) \/ WaitAvailable(t) \/ ScanStep(t) PROVE IInv'
    BY <1>1, <1>3, ScanStepIInv
  <1>4. CASE UNCHANGED <<ownerThread, console, buffer, copyIndex, pc>>
    BY <1>1, <1>4
    DEF IInv, OwnerIsReading, LineStartsEmpty, FlagTellsEnter, FlagIsKept, CopyHasLine,
        LineIsCopied, IndexIsReset, Reading, HasLine, FirstLine, console
  <1> QED
    BY <1>2, <1>3, <1>4 DEF Next, Schedules, vars

LEMMA Invariance == Spec => []IInv
  BY InitIInv, NextIInv, PTL DEF Spec

-----------------------------------------------------------------------------
\* Every variable has a value of its type, for every number of threads, every buffer
\* size and lines of any length: the index of one that runs over the buffer, which
\* CnslHandleKey does not prevent, is that of a place behind it (console.c:26).
THEOREM TypeCorrect == Spec => []TypeOK
  <1>1. IInv => TypeOK
    BY DEF IInv
  <1> QED
    BY <1>1, Invariance, PTL

\* Keys only go to a thread inside scan, however many threads race for the
\* console (syscalls.c:168-192).
THEOREM KeysReachReaders == Spec => []OwnerIsReading
  <1>1. IInv => OwnerIsReading
    BY DEF IInv
  <1> QED
    BY <1>1, Invariance, PTL

\* No key and no flag of one line is left over for the next one
\* (syscalls.c:192-195).
THEOREM LinesAreSeparate == Spec => []LineStartsEmpty
  <1>1. IInv => LineStartsEmpty
    BY DEF IInv
  <1> QED
    BY <1>1, Invariance, PTL

\* A key always has a reader that waits for it, and one line leaves nothing to
\* the next (syscalls.c:168-195).
THEOREM KeysHaveTheirLine == Spec => []KeysFindTheirLine
  <1>1. IInv => KeysFindTheirLine
    BY DEF IInv, KeysFindTheirLine
  <1> QED
    BY <1>1, Invariance, PTL

\* The program gets the line up to and including Enter, whatever is typed
\* while SysScanf copies it; and all that the buffer has of a line that ran over
\* it (syscalls.c:189-190).
THEOREM LinesAreDelivered == Spec => []LineIsDelivered
  <1>1. IInv => LineIsDelivered
    BY DEF IInv, LineIsDelivered, CopyHasLine, LineIsCopied, HasLine
  <1> QED
    BY <1>1, Invariance, PTL

-----------------------------------------------------------------------------
(* Recursive functions on 0..N, of which each value depends on the last.    *)

LEMMA LeastExists ==
    ASSUME NEW S \in SUBSET Nat, S # {}
    PROVE  \E f \in S : \A g \in S : f <= g
  <1> DEFINE R == OpToRel(<, Nat)
  <1>1. IsWellFoundedOn(R, Nat)
    BY NatLessThanWellFounded
  <1>2. \A x, y \in Nat : x < y => <<x, y>> \in R
    BY DEF OpToRel
  <1> HIDE DEF R
  <1>3. PICK f \in S : \A g \in S : ~(<<g, f>> \in R)
    BY <1>1, WFMin
  <1>4. \A g \in S : g \in Nat /\ f \in Nat
    OBVIOUS
  <1>5. \A g \in S : ~(g < f)
    BY <1>2, <1>3, <1>4
  <1> QED
    BY <1>4, <1>5

\* A set of numbers that has each number below which it has all.
LEMMA AllNumbers ==
    ASSUME NEW T \in SUBSET Nat,
           \A n \in Nat : (\A k \in Nat : k < n => k \in T) => n \in T
    PROVE  T = Nat
  <1> DEFINE S == Nat \ T
  <1>1. SUFFICES ASSUME S # {} PROVE FALSE
    OBVIOUS
  <1>2. PICK n \in S : \A k \in S : n <= k
    BY <1>1, LeastExists
  <1>3. \A k \in Nat : k < n => k \in T
    BY <1>2
  <1> QED
    BY <1>2, <1>3

IsFold(g, N, V, base, step) ==
    /\ g[0] = base
    /\ \A k \in 1..N : g[k - 1] \in V => g[k] = step[<<g[k - 1], k>>]

\* There is such a function, and only one.
LEMMA FoldExists ==
    ASSUME NEW N \in Nat, NEW V, NEW base \in V, NEW step \in [V \X (1..N) -> V]
    PROVE  \E g \in [0..N -> V] : IsFold(g, N, V, base, step)
  <1> DEFINE HasFold(n) == n <= N => \E g \in [0..n -> V] : IsFold(g, n, V, base, step)
             T == {n \in Nat : HasFold(n)}
  <1>1. ASSUME NEW n \in Nat, \A k \in Nat : k < n => k \in T PROVE n \in T
    <2>1. CASE n = 0
      <3> DEFINE g == [k \in 0..0 |-> base]
      <3>1. g \in [0..0 -> V] /\ IsFold(g, 0, V, base, step)
        BY DEF IsFold
      <3> QED
        BY <2>1, <3>1
    <2>2. CASE n # 0 /\ n <= N
      <3>1. n - 1 \in Nat /\ n - 1 < n /\ n - 1 <= N /\ n \in 1..N
        BY <2>2
      <3>2. PICK g \in [0..(n - 1) -> V] : IsFold(g, n - 1, V, base, step)
        BY <1>1, <3>1
      <3> DEFINE h == [k \in 0..n |-> IF k = n THEN step[<<g[n - 1], n>>] ELSE g[k]]
      <3>3. g[n - 1] \in V /\ step[<<g[n - 1], n>>] \in V
        BY <3>1
      <3>4. h \in [0..n -> V] /\ h[n] = step[<<g[n - 1], n>>]
            /\ \A k \in 0..n : k # n => h[k] = g[k]
        BY <3>3
      <3> HIDE DEF h
      <3>5. IsFold(h, n, V, base, step)
        <4>1. h[0] = base
          BY <2>2, <3>2, <3>4 DEF IsFold
        <4>2. ASSUME NEW k \in 1..n PROVE h[k] = step[<<h[k - 1], k>>]
          <5>1. CASE k = n
            <6>1. n - 1 \in 0..n /\ n - 1 # n /\ n \in 0..n
              BY <3>1
            <6> QED
              BY <5>1, <6>1, <3>4
          <5>2. CASE k # n
            <6>1. k \in 1..(n - 1) /\ k - 1 \in 0..(n - 1) /\ k - 1 # n /\ k - 1 \in 0..n
                  /\ k \in 0..n
              BY <5>2, <3>1
            <6>3. h[k] = g[k] /\ h[k - 1] = g[k - 1]
              BY <5>2, <6>1, <3>4
            <6>2. g[k] = step[<<g[k - 1], k>>]
              BY <3>2, <6>1 DEF IsFold
            <6> QED
              BY <6>2, <6>3
          <5> QED
            BY <5>1, <5>2
        <4> QED
          BY <4>1, <4>2 DEF IsFold
      <3> QED
        BY <3>4, <3>5
    <2>3. CASE ~(n <= N)
      BY <2>3
    <2> QED
      BY <2>1, <2>2, <2>3
  <1>2. T = Nat
    <2> HIDE DEF HasFold
    <2> QED
      BY <1>1, AllNumbers
  <1>3. HasFold(N)
    BY <1>2
  <1> QED
    BY <1>3

LEMMA FoldIs ==
    ASSUME NEW N \in Nat, NEW V, NEW base \in V, NEW step \in [V \X (1..N) -> V]
    PROVE  \A g, h : IsFold(g, N, V, base, step) /\ IsFold(h, N, V, base, step) =>
                        \A k \in 0..N : g[k] = h[k] /\ g[k] \in V
  <1> SUFFICES ASSUME NEW g, IsFold(g, N, V, base, step), NEW h, IsFold(h, N, V, base, step)
               PROVE  \A k \in 0..N : g[k] = h[k] /\ g[k] \in V
    OBVIOUS
  <1> DEFINE Agrees(k) == k <= N => g[k] \in V /\ g[k] = h[k]
             T == {k \in Nat : Agrees(k)}
  <1>1. ASSUME NEW n \in Nat, \A k \in Nat : k < n => k \in T PROVE n \in T
    <2>1. CASE n = 0
      BY <2>1 DEF IsFold
    <2>2. CASE n # 0 /\ n <= N
      <3>1. n - 1 \in Nat /\ n - 1 < n /\ n - 1 <= N /\ n \in 1..N
        BY <2>2
      <3>2. g[n - 1] \in V /\ g[n - 1] = h[n - 1]
        BY <1>1, <3>1
      <3>3. g[n] = step[<<g[n - 1], n>>] /\ h[n] = step[<<g[n - 1], n>>]
        BY <3>1, <3>2 DEF IsFold
      <3>4. step[<<g[n - 1], n>>] \in V
        BY <3>1, <3>2
      <3> QED
        BY <3>3, <3>4
    <2>3. CASE ~(n <= N)
      BY <2>3
    <2> QED
      BY <2>1, <2>2, <2>3
  <1>2. T = Nat
    <2> HIDE DEF Agrees
    <2> QED
      BY <1>1, AllNumbers
  <1>3. \A k \in 0..N : Agrees(k)
    BY <1>2
  <1> QED
    BY <1>3

-----------------------------------------------------------------------------
(* What is printed.                                                        *)

LEMMA FlattenTyped ==
    ASSUME NEW S, NEW seqs \in Seq(Seq(S))
    PROVE  FlattenSeq(seqs) \in Seq(S)
  <1> DEFINE N == Len(seqs)
             V == Seq(S)
             flat(g) == [i \in 1..N |-> IF i = 1 THEN seqs[i] ELSE g[i - 1] \o seqs[i]]
             flatten == CHOOSE g : g = flat(g)
             step == [x \in V \X (1..N) |-> x[1] \o seqs[x[2]]]
  <1>1. CASE N = 0
    <2>1. seqs = <<>>
      BY <1>1, EmptySeq
    <2> QED
      BY <1>1, <2>1 DEF FlattenSeq
  <1>2. CASE N # 0
    <2>1. FlattenSeq(seqs) = flatten[N]
      BY <1>2 DEF FlattenSeq
    <2>2. step \in [V \X (1..N) -> V] /\ <<>> \in V /\ N \in Nat
      OBVIOUS
    <2>3. \A v \in V, k \in 1..N : step[<<v, k>>] = v \o seqs[k]
      OBVIOUS
    <2>4. \A k \in 1..N : seqs[k] \in V /\ <<>> \o seqs[k] = seqs[k]
      BY ConcatProperties
    <2> HIDE DEF V, step, N
    <2>5. PICK g \in [0..N -> V] : IsFold(g, N, V, <<>>, step)
      BY <2>2, FoldExists
    <2>6. \A k \in 1..N : g[k] = IF k = 1 THEN seqs[k] ELSE g[k - 1] \o seqs[k]
      <3>1. ASSUME NEW k \in 1..N PROVE g[k] = g[k - 1] \o seqs[k] /\ (k = 1 => g[k - 1] = <<>>)
        <4>1. k - 1 \in 0..N /\ (k = 1 => k - 1 = 0)
          BY <2>2
        <4>2. g[k - 1] \in V
          BY <4>1
        <4>3. g[k] = step[<<g[k - 1], k>>] /\ g[0] = <<>>
          BY <2>5, <4>2 DEF IsFold
        <4> QED
          BY <2>3, <4>1, <4>2, <4>3
      <3> QED
        BY <2>4, <3>1
    <2>7. [k \in 1..N |-> g[k]] = flat([k \in 1..N |-> g[k]])
      <3>1. \A k \in 1..N : k # 1 => k - 1 \in 1..N
        BY <2>2
      <3> QED
        BY <2>6, <3>1
    <2>8. flatten = flat(flatten)
      <3> HIDE DEF flat
      <3> QED
        BY <2>7
    <2> HIDE DEF flatten
    <2>9. \A k \in 1..N : flatten[k] = IF k = 1 THEN seqs[k] ELSE flatten[k - 1] \o seqs[k]
      BY <2>8
    <2> DEFINE h == [k \in 0..N |-> IF k = 0 THEN <<>> ELSE flatten[k]]
    <2>10. h[0] = <<>> /\ \A k \in 1..N : h[k] = flatten[k]
      BY <2>2
    <2> HIDE DEF h
    <2>11. IsFold(h, N, V, <<>>, step)
      <3>1. ASSUME NEW k \in 1..N, h[k - 1] \in V PROVE h[k] = step[<<h[k - 1], k>>]
        <4>1. CASE k = 1
          <5>1. k - 1 = 0 /\ h[k - 1] = <<>> /\ h[k] = seqs[k]
            BY <4>1, <2>9, <2>10
          <5> QED
            BY <5>1, <2>2, <2>3, <2>4
        <4>2. CASE k # 1
          <5>1. k - 1 \in 1..N
            BY <2>2, <4>2
            <5>2. h[k] = flatten[k - 1] \o seqs[k] /\ h[k - 1] = flatten[k - 1]
              BY <4>2, <5>1, <2>9, <2>10
            <5> QED
              BY <3>1, <5>2, <2>3
        <4> QED
          BY <4>1, <4>2
      <3> QED
        BY <2>10, <3>1 DEF IsFold
    <2>12. h[N] \in V
      <3>1. N \in 0..N
        BY <2>2
      <3>2. \A k \in 0..N : h[k] \in V
        BY <2>2, <2>11, FoldIs
      <3> QED
        BY <3>1, <3>2
    <2>13. N \in 1..N
      BY <1>2, <2>2 DEF N
    <2>14. flatten[N] \in V
      BY <2>10, <2>12, <2>13
    <2> QED
      BY <2>1, <2>14 DEF V
  <1> QED
    BY <1>1, <1>2

\* What a terminal can be.
IsTerminal(t) ==
    /\ t.rows # <<>> /\ t.col < COLUMNS /\ t.col <= Len(t.rows[Len(t.rows)])
    /\ \A r \in 1..Len(t.rows) : Len(t.rows[r]) <= COLUMNS
Terminals == {t \in [rows : Seq(Seq(Symbols)), col : Nat] : IsTerminal(t)}
Start == [rows |-> << <<>> >>, col |-> 0]

\* The rows after a character has been written.
Rewritten(t, c) == [t.rows EXCEPT ![Len(t.rows)] = Written(@, t.col, c)]

LEMMA WrittenIs ==
    ASSUME NEW row \in Seq(Symbols), NEW col \in Nat, col <= Len(row), NEW c \in Symbols
    PROVE  /\ Written(row, col, c) \in Seq(Symbols)
           /\ Len(Written(row, col, c)) \in {Len(row), col + 1}
           /\ col + 1 <= Len(Written(row, col, c))
           /\ \A i \in 1..Len(Written(row, col, c)) :
                 Written(row, col, c)[i] = IF i = col + 1 THEN c ELSE row[i]
  <1>1. CASE col < Len(row)
    <2>1. Written(row, col, c) = [row EXCEPT ![col + 1] = c] /\ col + 1 \in 1..Len(row)
      BY <1>1 DEF Written
    <2> DEFINE new == [row EXCEPT ![col + 1] = c]
    <2>2. /\ new \in Seq(Symbols) /\ Len(new) = Len(row)
          /\ \A i \in 1..Len(row) : new[i] = IF i = col + 1 THEN c ELSE row[i]
      BY <2>1, ExceptSeq
    <2> HIDE DEF new
    <2> QED
      BY <1>1, <2>1, <2>2 DEF new
  <1>2. CASE ~(col < Len(row))
    <2>1. Len(row) \in Nat
      OBVIOUS
    <2>2. col = Len(row) /\ Written(row, col, c) = Append(row, c)
      BY <1>2, <2>1 DEF Written
    <2> DEFINE new == Append(row, c)
    <2>3. /\ new \in Seq(Symbols) /\ Len(new) = Len(row) + 1 /\ new[Len(row) + 1] = c
          /\ \A i \in 1..Len(row) : new[i] = row[i]
      BY AppendProperties
    <2> HIDE DEF new
    <2> QED
      BY <2>1, <2>2, <2>3 DEF new
  <1> QED
    BY <1>1, <1>2

LEMMA RewrittenIs ==
    ASSUME NEW t \in Terminals, NEW c \in Symbols
    PROVE  LET n == Len(t.rows)
               w == Rewritten(t, c)
           IN  /\ w \in Seq(Seq(Symbols)) /\ Len(w) = n /\ n \in Nat \ {0} /\ n \in 1..n
               /\ \A r \in 1..n : r # n => w[r] = t.rows[r]
               /\ w[n] = Written(t.rows[n], t.col, c) /\ t.col + 1 <= Len(w[n])
               /\ \A r \in 1..n : Len(w[r]) <= COLUMNS
  <1> DEFINE n == Len(t.rows)
             row == t.rows[n]
  <1>1. /\ t.rows \in Seq(Seq(Symbols)) /\ t.rows # <<>> /\ t.col \in Nat /\ t.col <= Len(row)
        /\ \A r \in 1..n : Len(t.rows[r]) <= COLUMNS /\ t.col < COLUMNS
    BY DEF Terminals, IsTerminal
  <1>2. n \in Nat \ {0} /\ n \in 1..n /\ row \in Seq(Symbols)
    BY <1>1, EmptySeq
  <1>3. COLUMNS \in Nat
    BY SizesAssumption
  <1> DEFINE new == Written(row, t.col, c)
  <1>4. /\ new \in Seq(Symbols) /\ Len(new) \in {Len(row), t.col + 1}
        /\ t.col + 1 <= Len(new)
    <2>1. t.col \in Nat /\ t.col <= Len(row)
      BY <1>1
    <2> HIDE DEF row
    <2> QED
      BY <1>2, <2>1, WrittenIs
  <1>5. Rewritten(t, c) = [t.rows EXCEPT ![n] = new]
    BY DEF Rewritten
  <1> HIDE DEF new
  <1>6. Len(new) <= COLUMNS /\ t.col + 1 <= Len(new)
    BY <1>1, <1>2, <1>3, <1>4
  <1>7. /\ Rewritten(t, c) \in Seq(Seq(Symbols)) /\ Len(Rewritten(t, c)) = n
        /\ Rewritten(t, c)[n] = new
        /\ \A r \in 1..n : r # n => Rewritten(t, c)[r] = t.rows[r]
    BY <1>1, <1>2, <1>4, <1>5
  <1> QED
    BY <1>1, <1>2, <1>6, <1>7 DEF new

LEMMA ToldIs ==
    ASSUME NEW t \in Terminals, NEW c \in Symbols
    PROVE  /\ Told(t, c) \in Terminals
           /\ c = LF => Told(t, c).rows = Append(t.rows, <<>>) /\ Told(t, c).col = 0
           /\ c # LF /\ c = CR => Told(t, c).rows = t.rows /\ Told(t, c).col = 0
           /\ c \notin {LF, CR} =>
                IF t.col + 1 < COLUMNS
                THEN Told(t, c).rows = Rewritten(t, c) /\ Told(t, c).col = t.col + 1
                ELSE Told(t, c).rows = Append(Rewritten(t, c), <<>>) /\ Told(t, c).col = 0
  <1>1. /\ t.rows \in Seq(Seq(Symbols)) /\ t.rows # <<>> /\ t.col \in Nat
        /\ COLUMNS \in Nat \ {0}
        /\ \A r \in 1..Len(t.rows) : Len(t.rows[r]) <= COLUMNS
    BY SizesAssumption DEF Terminals, IsTerminal
  <1>2. ASSUME NEW rows \in Seq(Seq(Symbols)), rows # <<>>,
               \A r \in 1..Len(rows) : Len(rows[r]) <= COLUMNS
        PROVE  /\ [rows |-> Append(rows, <<>>), col |-> 0] \in Terminals
               /\ [rows |-> rows, col |-> 0] \in Terminals
    <2>1. <<>> \in Seq(Symbols) /\ Len(<<>>) = 0
      OBVIOUS
    <2>2. /\ Append(rows, <<>>) \in Seq(Seq(Symbols)) /\ Len(Append(rows, <<>>)) = Len(rows) + 1
          /\ Append(rows, <<>>)[Len(rows) + 1] = <<>>
          /\ \A r \in 1..Len(rows) : Append(rows, <<>>)[r] = rows[r]
      BY <2>1, AppendProperties
    <2>3. Len(rows) \in Nat \ {0} /\ \A r \in 1..Len(rows) : rows[r] \in Seq(Symbols)
      BY <1>2, EmptySeq
    <2> DEFINE more == Append(rows, <<>>)
    <2> HIDE DEF more
    <2>8. /\ more \in Seq(Seq(Symbols)) /\ Len(more) = Len(rows) + 1 /\ more[Len(rows) + 1] = <<>>
          /\ \A r \in 1..Len(rows) : more[r] = rows[r]
      BY <2>2 DEF more
    <2>4. more # <<>> /\ Len(more[Len(more)]) = 0
          /\ \A r \in 1..Len(more) : Len(more[r]) <= COLUMNS
      <3>1. Len(more) # 0
        BY <2>3, <2>8
      <3>2. ASSUME NEW r \in 1..Len(more) PROVE Len(more[r]) <= COLUMNS
        <4>1. CASE r = Len(rows) + 1
          BY <4>1, <1>1, <2>1, <2>8
        <4>2. CASE r # Len(rows) + 1
          <5>1. r \in 1..Len(rows)
            BY <4>2, <2>3, <2>8
          <5> QED
            BY <5>1, <1>2, <2>8
        <4> QED
          BY <4>1, <4>2
      <3> QED
        BY <2>1, <2>8, <3>1, <3>2, EmptySeq
    <2>5. [rows |-> more, col |-> 0] \in Terminals
      <3> DEFINE term == [rows |-> more, col |-> 0]
      <3>1. term.rows = more /\ term.col = 0 /\ term \in [rows : Seq(Seq(Symbols)), col : Nat]
        BY <2>8
      <3> HIDE DEF term
      <3>2. IsTerminal(term)
        BY <1>1, <2>4, <3>1 DEF IsTerminal
      <3> QED
        BY <3>1, <3>2 DEF Terminals, term
    <2>6. 0 <= Len(rows[Len(rows)])
      BY <2>3
    <2>7. [rows |-> rows, col |-> 0] \in Terminals
      BY <1>1, <1>2, <2>6 DEF Terminals, IsTerminal
    <2> QED
      BY <2>5, <2>7 DEF more
  <1>3. CASE c = LF
    BY <1>1, <1>2, <1>3 DEF Told, LF, CR
  <1>4. CASE c # LF /\ c = CR
    BY <1>1, <1>2, <1>4 DEF Told
  <1>5. CASE c \notin {LF, CR}
    <2> DEFINE w == Rewritten(t, c)
    <2>1. /\ w \in Seq(Seq(Symbols)) /\ Len(w) \in Nat \ {0} /\ w # <<>>
          /\ t.col + 1 <= Len(w[Len(w)]) /\ \A r \in 1..Len(w) : Len(w[r]) <= COLUMNS
      BY RewrittenIs, EmptySeq
    <2>2. Told(t, c) = IF t.col + 1 < COLUMNS THEN [rows |-> w, col |-> t.col + 1]
                       ELSE [rows |-> Append(w, <<>>), col |-> 0]
      BY <1>5 DEF Told, Rewritten
    <2> HIDE DEF w
    <2>3. t.col + 1 < COLUMNS => [rows |-> w, col |-> t.col + 1] \in Terminals
      BY <1>1, <2>1 DEF Terminals, IsTerminal
    <2>4. [rows |-> Append(w, <<>>), col |-> 0] \in Terminals
      BY <1>2, <2>1
    <2> QED
      BY <1>5, <2>2, <2>3, <2>4 DEF w
  <1> QED
    BY <1>3, <1>4, <1>5

\* The functions of Terminal.
TerminalFold(chars, g) ==
    /\ g[0] = Start
    /\ \A k \in 1..Len(chars) : g[k] = Told(g[k - 1], chars[k])

LEMMA TerminalIs ==
    ASSUME NEW chars \in Seq(Symbols)
    PROVE  /\ \E g : TerminalFold(chars, g)
           /\ \A g : TerminalFold(chars, g) =>
                 /\ Terminal(chars) = g[Len(chars)]
                 /\ \A k \in 0..Len(chars) : g[k] \in Terminals
  <1> DEFINE N == Len(chars)
             V == Terminals
             after(g) == [k \in 0..N |-> IF k = 0 THEN [rows |-> << <<>> >>, col |-> 0]
                                         ELSE Told(g[k - 1], chars[k])]
             chosen == CHOOSE g : g = after(g)
             step == [x \in V \X (1..N) |-> Told(x[1], chars[x[2]])]
  <1>1. Terminal(chars) = chosen[N]
    BY DEF Terminal
  <1>2. N \in Nat /\ \A k \in 1..N : chars[k] \in Symbols
    OBVIOUS
  <1>3. Start \in V
    <2>1. << <<>> >> \in Seq(Seq(Symbols)) /\ Len(<< <<>> >>) = 1 /\ << <<>> >>[1] = <<>>
      OBVIOUS
    <2> QED
      <3>1. COLUMNS \in Nat \ {0}
        BY SizesAssumption
      <3> DEFINE rows == << <<>> >>
      <3>2. rows # <<>> /\ Len(rows[Len(rows)]) = 0 /\ rows \in Seq(Seq(Symbols))
            /\ \A r \in 1..Len(rows) : Len(rows[r]) <= COLUMNS
        BY <2>1, <3>1
      <3> HIDE DEF rows
      <3>3. Start = [rows |-> rows, col |-> 0]
        BY DEF Start, rows
      <3>4. Start \in [rows : Seq(Seq(Symbols)), col : Nat] /\ Start.rows = rows /\ Start.col = 0
        BY <3>2, <3>3
      <3>5. IsTerminal(Start)
        BY <3>1, <3>2, <3>4 DEF IsTerminal
      <3> QED
        BY <3>4, <3>5 DEF Terminals
  <1>4. step \in [V \X (1..N) -> V] /\ \A v \in V, k \in 1..N : step[<<v, k>>] = Told(v, chars[k])
    BY <1>2, ToldIs
  <1> HIDE DEF V, step, N
  <1>5. \A g : TerminalFold(chars, g) => IsFold(g, N, V, Start, step)
    BY <1>4 DEF TerminalFold, IsFold, N
  <1>6. ASSUME NEW g, g = after(g) PROVE TerminalFold(chars, g)
    <2>1. \A k \in 0..N : g[k] = after(g)[k]
      BY <1>6
    <2>2. \A k \in 0..N : g[k] = IF k = 0 THEN Start ELSE Told(g[k - 1], chars[k])
      BY <2>1 DEF Start
    <2> HIDE DEF after
    <2>3. 0 \in 0..N /\ \A k \in 1..N : k \in 0..N /\ k # 0
      BY <1>2
    <2> QED
      BY <2>2, <2>3 DEF TerminalFold, N
  <1>7. PICK h \in [0..N -> V] : IsFold(h, N, V, Start, step)
    BY <1>2, <1>3, <1>4, FoldExists
  <1>8. TerminalFold(chars, h)
    <2>1. \A k \in 1..N : h[k - 1] \in V
      BY <1>2, <1>7
    <2> QED
      BY <1>4, <1>7, <2>1 DEF TerminalFold, IsFold, N
  <1>9. TerminalFold(chars, chosen)
    <2>1. h = [k \in 0..N |-> h[k]]
      BY <1>7
    <2>2. \A k \in 0..N : h[k] = IF k = 0 THEN Start ELSE Told(h[k - 1], chars[k])
      BY <1>2, <1>8 DEF TerminalFold, N
    <2>3. h = after(h)
      BY <2>1, <2>2 DEF Start
    <2>4. chosen = after(chosen)
      <3> HIDE DEF after
      <3> QED
        BY <2>3
    <2> HIDE DEF chosen, after
    <2> QED
      BY <1>6, <2>4
  <1> HIDE DEF chosen
  <1>10. ASSUME NEW g, TerminalFold(chars, g)
         PROVE  g[N] = chosen[N] /\ \A k \in 0..N : g[k] \in V
    <2>1. PICK f : f = chosen
      OBVIOUS
    <2>2. IsFold(g, N, V, Start, step) /\ IsFold(f, N, V, Start, step)
      BY <1>5, <1>9, <1>10, <2>1
    <2>3. \A k \in 0..N : g[k] = f[k] /\ g[k] \in V
      BY <1>2, <1>3, <1>4, <2>2, FoldIs
    <2> QED
      BY <1>2, <2>1, <2>3
  <1> QED
    BY <1>1, <1>8, <1>10 DEF N, V

LEMMA TerminalHolds ==
    /\ Terminal(<<>>) = Start
    /\ \A chars \in Seq(Symbols) : Terminal(chars) \in Terminals
    /\ \A chars \in Seq(Symbols), c \in Symbols :
          Terminal(Append(chars, c)) = Told(Terminal(chars), c)
  <1>1. Terminal(<<>>) = Start
    <2>1. <<>> \in Seq(Symbols) /\ Len(<<>>) = 0
      OBVIOUS
    <2>2. PICK g : TerminalFold(<<>>, g)
      BY <2>1, TerminalIs
    <2> QED
      BY <2>1, <2>2, TerminalIs DEF TerminalFold
  <1>2. ASSUME NEW chars \in Seq(Symbols) PROVE Terminal(chars) \in Terminals
    <2>1. Len(chars) \in 0..Len(chars)
      OBVIOUS
    <2> QED
      BY <2>1, TerminalIs
  <1>3. ASSUME NEW chars \in Seq(Symbols), NEW c \in Symbols
        PROVE  Terminal(Append(chars, c)) = Told(Terminal(chars), c)
    <2> DEFINE more == Append(chars, c)
               n == Len(chars)
    <2>1. /\ more \in Seq(Symbols) /\ Len(more) = n + 1 /\ more[n + 1] = c /\ n \in Nat
          /\ \A k \in 1..n : more[k] = chars[k]
      <3>1. more \in Seq(Symbols) /\ Len(more) = n + 1 /\ more[n + 1] = c
        BY AppendProperties
      <3>2. \A k \in 1..n : more[k] = chars[k]
        BY AppendProperties
      <3> QED
        BY <3>1, <3>2, LenProperties
    <2> HIDE DEF more
    <2>2. PICK g : TerminalFold(more, g)
      BY <2>1, TerminalIs
    <2>3. Terminal(more) = g[n + 1] /\ g[n + 1] = Told(g[n], c)
      <3>1. n + 1 \in 1..Len(more) /\ (n + 1) - 1 = n
        BY <2>1
      <3> QED
        BY <2>1, <2>2, <3>1, TerminalIs DEF TerminalFold
    <2> DEFINE h == [k \in 0..n |-> g[k]]
    <2>4. TerminalFold(chars, h)
      <3>1. \A k \in 1..n : k \in 1..Len(more) /\ k \in 0..n /\ k - 1 \in 0..n
        BY <2>1
      <3> QED
        BY <2>1, <2>2, <3>1 DEF TerminalFold
    <2>5. h[n] = g[n] /\ Terminal(chars) = h[n]
      <3>1. n \in 0..n
        BY <2>1
      <3> QED
        BY <2>4, <3>1, TerminalIs
    <2> QED
      BY <2>3, <2>5 DEF more
  <1> QED
    BY <1>1, <1>2, <1>3

-----------------------------------------------------------------------------
(* Numbers.                                                                *)

LEMMA Division ==
    ASSUME NEW n \in Nat, NEW base \in {10, 16}
    PROVE  /\ n \div base \in Nat /\ n % base \in 0..(base - 1)
           /\ n = (n \div base) * base + (n % base)
           /\ n # 0 => n \div base < n
  <1>1. CASE base = 10
    BY <1>1
  <1>2. CASE base = 16
    BY <1>2
  <1> QED
    BY <1>1, <1>2

Digit(v) == HEX[v + 1]

LEMMA DigitIs ==
    ASSUME NEW v \in 0..15
    PROVE  /\ Digit(v) \in Symbols /\ Digit(v) # "-" /\ (Digit(v) = "0" => v = 0)
           /\ ValueOf(Digit(v)) = v
  <1>0. /\ Digit(0) = "0" /\ Digit(1) = "1" /\ Digit(2) = "2" /\ Digit(3) = "3"
        /\ Digit(4) = "4" /\ Digit(5) = "5" /\ Digit(6) = "6" /\ Digit(7) = "7"
        /\ Digit(8) = "8" /\ Digit(9) = "9" /\ Digit(10) = "A" /\ Digit(11) = "B"
        /\ Digit(12) = "C" /\ Digit(13) = "D" /\ Digit(14) = "E" /\ Digit(15) = "F"
    BY DEF Digit, HEX
  <1>4. \A w \in 0..15 : w \in {0, 1, 2, 3, 4, 5, 6, 7, 8, 9, 10, 11, 12, 13, 14, 15}
    OBVIOUS
  <1>5. \A w \in 0..15 : Digit(w) \in Symbols /\ Digit(w) # "-" /\ (Digit(w) = "0" => w = 0)
    <2>1. \A w \in 0..15 : Digit(w) \in {"0", "1", "2", "3", "4", "5", "6", "7", "8", "9",
                                          "A", "B", "C", "D", "E", "F"}
      BY <1>0, <1>4
    <2>2. \A w \in 0..15 : Digit(w) = "0" => w = 0
      BY <1>0, <1>4
    <2>3. \A w \in 0..15 : Digit(w) # "-"
      BY <2>1
    <2> QED
      BY <2>2, <2>3, SymbolsAssumption DEF Digit
  <1>1. ASSUME NEW w \in 0..15, Digit(w) = Digit(v) PROVE w = v
    BY <1>0, <1>1, <1>4
  <1>2. \E w \in 0..15 : HEX[w + 1] = Digit(v)
    BY DEF Digit
  <1>3. ValueOf(Digit(v)) \in 0..15 /\ Digit(ValueOf(Digit(v))) = Digit(v)
    BY <1>2 DEF ValueOf, Digit
  <1> QED
    BY <1>1, <1>3, <1>5

ValueFold(digits, base, g) ==
    /\ g[0] = 0
    /\ \A k \in 1..Len(digits) : g[k] = g[k - 1] * base + ValueOf(digits[k])
DigitChars == {Digit(v) : v \in 0..15}

LEMMA ValueIs ==
    ASSUME NEW digits \in Seq(DigitChars), NEW b \in {10, 16}
    PROVE  /\ \E g : ValueFold(digits, b, g)
           /\ \A g : ValueFold(digits, b, g) =>
                 /\ Value(digits, b) = g[Len(digits)]
                 /\ \A k \in 0..Len(digits) : g[k] \in Nat
  <1> DEFINE N == Len(digits)
             V == Nat
             zero == 0
             value(g) == [k \in 0..N |-> IF k = 0 THEN 0
                                         ELSE g[k - 1] * b + ValueOf(digits[k])]
             chosen == CHOOSE g : g = value(g)
             step == [x \in V \X (1..N) |-> x[1] * b + ValueOf(digits[x[2]])]
  <1>1. Value(digits, b) = chosen[N]
    BY DEF Value
  <1>2. N \in Nat /\ b \in Nat /\ \A k \in 1..N : ValueOf(digits[k]) \in Nat
    <2>1. \A k \in 1..N : digits[k] \in DigitChars
      OBVIOUS
    <2>2. \A c \in DigitChars : ValueOf(c) \in Nat
      BY DigitIs DEF DigitChars
    <2> QED
      BY <2>1, <2>2
  <1>3. \A v \in Nat, k \in 1..N : v * b + ValueOf(digits[k]) \in Nat
    BY <1>2
  <1>4. \A v \in V, k \in 1..N : step[<<v, k>>] = v * b + ValueOf(digits[k])
    OBVIOUS
  <1>11. step \in [V \X (1..N) -> V]
    BY <1>3
  <1>12. zero \in V
    OBVIOUS
  <1>13. N \in Nat
    BY <1>2
  <1> HIDE DEF step, N, V, zero
  <1>5. \A g : ValueFold(digits, b, g) => IsFold(g, N, V, zero, step)
    BY <1>4 DEF ValueFold, IsFold, N, zero
  <1>6. ASSUME NEW g, g = value(g) PROVE ValueFold(digits, b, g)
    <2>1. \A k \in 0..N : g[k] = value(g)[k]
      BY <1>6
    <2>2. \A k \in 0..N : g[k] = IF k = 0 THEN 0 ELSE g[k - 1] * b + ValueOf(digits[k])
      BY <2>1
    <2> HIDE DEF value
    <2>3. 0 \in 0..N /\ \A k \in 1..N : k \in 0..N /\ k # 0
      BY <1>2
    <2> QED
      BY <2>2, <2>3 DEF ValueFold, N
  <1>7. PICK h \in [0..N -> V] : IsFold(h, N, V, zero, step)
    BY <1>2, <1>11, <1>12, FoldExists
  <1>8. ValueFold(digits, b, h)
    <2>1. \A k \in 1..N : h[k - 1] \in V
      BY <1>2, <1>7
    <2> QED
      BY <1>4, <1>7, <2>1 DEF ValueFold, IsFold, N, zero
  <1>9. ValueFold(digits, b, chosen)
    <2>1. h = [k \in 0..N |-> h[k]]
      BY <1>7
    <2>2. \A k \in 0..N : h[k] = IF k = 0 THEN 0 ELSE h[k - 1] * b + ValueOf(digits[k])
      BY <1>2, <1>8 DEF ValueFold, N
    <2>3. h = value(h)
      BY <2>1, <2>2
    <2>4. chosen = value(chosen)
      <3> HIDE DEF value
      <3> QED
        BY <2>3
    <2> HIDE DEF chosen, value
    <2> QED
      BY <1>6, <2>4
  <1> HIDE DEF chosen
  <1>10. ASSUME NEW g, ValueFold(digits, b, g)
         PROVE  g[N] = chosen[N] /\ \A k \in 0..N : g[k] \in Nat
    <2>1. PICK f : f = chosen
      OBVIOUS
    <2>2. IsFold(g, N, V, zero, step) /\ IsFold(f, N, V, zero, step)
      BY <1>5, <1>9, <1>10, <2>1
    <2>3. \A a, c : IsFold(a, N, V, zero, step) /\ IsFold(c, N, V, zero, step) =>
                        \A k \in 0..N : a[k] = c[k] /\ a[k] \in V
      BY <1>11, <1>12, <1>13, FoldIs
    <2>4. \A k \in 0..N : g[k] = f[k] /\ g[k] \in V
      BY <2>2, <2>3
    <2> QED
      BY <1>2, <2>1, <2>4 DEF V
  <1> QED
    BY <1>1, <1>8, <1>10 DEF N

LEMMA ValueHolds ==
    ASSUME NEW base \in {10, 16}
    PROVE  /\ Value(<<>>, base) = 0
           /\ \A digits \in Seq(DigitChars) : Value(digits, base) \in Nat
           /\ \A digits \in Seq(DigitChars), c \in DigitChars :
                 Value(Append(digits, c), base) = Value(digits, base) * base + ValueOf(c)
  <1>1. Value(<<>>, base) = 0
    <2>1. <<>> \in Seq(DigitChars) /\ Len(<<>>) = 0
      OBVIOUS
    <2>2. PICK g : ValueFold(<<>>, base, g)
      BY <2>1, ValueIs
    <2> QED
      BY <2>1, <2>2, ValueIs DEF ValueFold
  <1>2. ASSUME NEW digits \in Seq(DigitChars) PROVE Value(digits, base) \in Nat
    <2>1. Len(digits) \in 0..Len(digits)
      OBVIOUS
    <2> QED
      BY <2>1, ValueIs
  <1>3. ASSUME NEW digits \in Seq(DigitChars), NEW c \in DigitChars
        PROVE  Value(Append(digits, c), base) = Value(digits, base) * base + ValueOf(c)
    <2> DEFINE more == Append(digits, c)
               n == Len(digits)
    <2>1. /\ more \in Seq(DigitChars) /\ Len(more) = n + 1 /\ more[n + 1] = c /\ n \in Nat
          /\ \A k \in 1..n : more[k] = digits[k]
      <3>1. more \in Seq(DigitChars) /\ Len(more) = n + 1 /\ more[n + 1] = c
        BY AppendProperties
      <3>2. \A k \in 1..n : more[k] = digits[k]
        BY AppendProperties
      <3> QED
        BY <3>1, <3>2, LenProperties
    <2> HIDE DEF more
    <2>2. PICK g : ValueFold(more, base, g)
      BY <2>1, ValueIs
    <2>3. Value(more, base) = g[n + 1] /\ g[n + 1] = g[n] * base + ValueOf(c)
      <3>1. n + 1 \in 1..Len(more) /\ (n + 1) - 1 = n
        BY <2>1
      <3>2. Value(more, base) = g[n + 1]
        BY <2>1, <2>2, ValueIs
      <3>3. g[n + 1] = g[(n + 1) - 1] * base + ValueOf(more[n + 1])
        BY <2>2, <3>1 DEF ValueFold
      <3> QED
        BY <2>1, <3>1, <3>2, <3>3
    <2> DEFINE h == [k \in 0..n |-> g[k]]
    <2>4. ValueFold(digits, base, h)
      <3>1. \A k \in 1..n : k \in 1..Len(more) /\ k \in 0..n /\ k - 1 \in 0..n
        BY <2>1
      <3> QED
        BY <2>1, <2>2, <3>1 DEF ValueFold
    <2>5. h[n] = g[n] /\ Value(digits, base) = h[n]
      <3>1. n \in 0..n
        BY <2>1
      <3> QED
        BY <2>4, <3>1, ValueIs
    <2> QED
      BY <2>3, <2>5 DEF more
  <1> QED
    BY <1>1, <1>2, <1>3

DigitsFold(x, base, g) ==
    /\ g[0] = <<>>
    /\ \A n \in 1..x : g[n] = Append(g[n \div base], Digit(n % base))

LEMMA DigitsExist ==
    ASSUME NEW x \in Nat, NEW base \in {10, 16}
    PROVE  \E g : DigitsFold(x, base, g)
  <1> DEFINE T == {n \in Nat : \E g : DigitsFold(n, base, g)}
  <1>1. ASSUME NEW n \in Nat, \A k \in Nat : k < n => k \in T PROVE n \in T
    <2>1. CASE n = 0
      <3> DEFINE g == [k \in 0..0 |-> <<>>]
      <3>1. DigitsFold(0, base, g)
        BY DEF DigitsFold
      <3> QED
        BY <2>1, <3>1
    <2>2. CASE n # 0
      <3>1. n - 1 \in Nat /\ n - 1 < n
        BY <2>2
      <3>2. PICK g : DigitsFold(n - 1, base, g)
        BY <1>1, <3>1
      <3> DEFINE h == [k \in 0..n |-> IF k = n THEN Append(g[n \div base], Digit(n % base))
                                      ELSE g[k]]
      <3>3. /\ h[n] = Append(g[n \div base], Digit(n % base))
            /\ \A k \in 0..n : k # n => h[k] = g[k]
        OBVIOUS
      <3> HIDE DEF h
      <3>4. ASSUME NEW k \in 1..n PROVE h[k] = Append(h[k \div base], Digit(k % base))
        <4>1. k \div base \in 0..n /\ k \div base # n
          <5>1. k \in Nat /\ k # 0 /\ k <= n
            OBVIOUS
          <5>2. k \div base \in Nat /\ k \div base < k
            BY <5>1, Division
          <5> QED
            BY <5>1, <5>2
        <4>2. h[k \div base] = g[k \div base]
          BY <3>3, <4>1
        <4>3. CASE k = n
          BY <4>2, <4>3, <3>3
        <4>4. CASE k # n
          <5>1. k \in 1..(n - 1) /\ k \in 0..n
            BY <4>4
          <5>2. g[k] = Append(g[k \div base], Digit(k % base))
            BY <3>2, <5>1 DEF DigitsFold
          <5> QED
            BY <4>2, <4>4, <5>1, <5>2, <3>3
        <4> QED
          BY <4>3, <4>4
      <3>5. h[0] = <<>>
        BY <2>2, <3>2, <3>3 DEF DigitsFold
      <3>6. DigitsFold(n, base, h)
        BY <3>3, <3>4, <3>5 DEF DigitsFold
      <3> QED
        BY <3>6
    <2> QED
      BY <2>1, <2>2
  <1>2. T = Nat
    <2> HIDE DEF T
    <2>1. T \in SUBSET Nat
      BY DEF T
    <2> QED
      BY <1>1, <2>1, AllNumbers
  <1> QED
    BY <1>2

\* The digits of x spell x, without leading zeros.
LEMMA DigitsSpell ==
    ASSUME NEW x \in Nat, NEW base \in {10, 16}
    PROVE  /\ Digits(x, base) \in Seq(DigitChars)
           /\ Value(Digits(x, base), base) = x
           /\ x = 0 => Digits(x, base) = <<>>
           /\ x # 0 => Digits(x, base) # <<>> /\ Digits(x, base)[1] # "0"
  <1> DEFINE digits(g) == [n \in 0..x |-> IF n = 0 THEN <<>>
                                          ELSE Append(g[n \div base], HEX[(n % base) + 1])]
             chosen == CHOOSE g : g = digits(g)
  <1>1. Digits(x, base) = chosen[x]
    BY DEF Digits
  <1>2. PICK g : DigitsFold(x, base, g)
    BY DigitsExist
  <1> DEFINE h == [n \in 0..x |-> g[n]]
  <1>3. h = digits(h)
    <2>1. \A n \in 0..x : n \div base \in 0..x
      BY Division
    <2>2. \A n \in 0..x : h[n] = IF n = 0 THEN <<>>
                                 ELSE Append(h[n \div base], HEX[(n % base) + 1])
      <3>1. \A n \in 0..x : h[n] = g[n]
        OBVIOUS
      <3> HIDE DEF h
      <3>2. ASSUME NEW n \in 0..x, n # 0
            PROVE  h[n] = Append(h[n \div base], HEX[(n % base) + 1])
        <4>1. n \in 1..x
          BY <3>2
        <4> QED
          BY <1>2, <2>1, <3>1, <4>1 DEF DigitsFold, Digit
      <3>3. h[0] = <<>>
        BY <1>2, <3>1 DEF DigitsFold
      <3> QED
        BY <3>2, <3>3
    <2>3. h = [n \in 0..x |-> h[n]]
      OBVIOUS
    <2> HIDE DEF h
    <2> QED
      BY <2>2, <2>3
  <1>4. chosen = digits(chosen)
    <2> HIDE DEF digits, h
    <2> QED
      BY <1>3
  <1> HIDE DEF chosen
  <1>5. /\ chosen[0] = <<>>
        /\ \A n \in 1..x : chosen[n] = Append(chosen[n \div base], Digit(n % base))
    <2>1. \A n \in 0..x : chosen[n] = IF n = 0 THEN <<>>
                                      ELSE Append(chosen[n \div base], HEX[(n % base) + 1])
      BY <1>4
    <2>2. 0 \in 0..x /\ \A n \in 1..x : n \in 0..x /\ n # 0
      OBVIOUS
    <2> HIDE DEF digits
    <2> QED
      BY <2>1, <2>2 DEF Digit
  <1> DEFINE Spells(n) == n <= x =>
                 /\ chosen[n] \in Seq(DigitChars) /\ Value(chosen[n], base) = n
                 /\ n # 0 => chosen[n] # <<>> /\ chosen[n][1] # "0"
             T == {n \in Nat : Spells(n)}
  <1>6. ASSUME NEW n \in Nat, \A k \in Nat : k < n => k \in T PROVE n \in T
    <2>1. CASE n = 0
      <3>1. chosen[0] = <<>> /\ Value(<<>>, base) = 0 /\ <<>> \in Seq(DigitChars)
        BY <1>5, ValueHolds
      <3> HIDE DEF digits
      <3> QED
        BY <2>1, <3>1
    <2>2. CASE n # 0 /\ n <= x
      <3> DEFINE q == n \div base
                 r == n % base
                 s == chosen[q]
                 c == Digit(r)
      <3>1. q \in Nat /\ q < n /\ r \in 0..(base - 1) /\ n = q * base + r /\ base \in Nat
        BY <2>2, Division
      <3>2. r \in 0..15 /\ q <= x
        BY <2>2, <3>1
      <3>3. c \in DigitChars /\ (c = "0" => r = 0) /\ ValueOf(c) = r
        BY <3>2, DigitIs DEF DigitChars
      <3> HIDE DEF q, r
      <3>4. /\ s \in Seq(DigitChars) /\ Value(s, base) = q
            /\ q # 0 => s # <<>> /\ s[1] # "0"
        BY <1>6, <3>1, <3>2
      <3>5. chosen[n] = Append(s, c)
        BY <1>5, <2>2 DEF q, r
      <3> HIDE DEF s, c, Spells
      <3>6. Value(chosen[n], base) = n /\ chosen[n] \in Seq(DigitChars) /\ chosen[n] # <<>>
        <4>1. Value(chosen[n], base) = q * base + r
          BY <3>3, <3>4, <3>5, ValueHolds
        <4>2. chosen[n] \in Seq(DigitChars) /\ chosen[n] # <<>>
          BY <3>3, <3>4, <3>5, AppendProperties
        <4> QED
          BY <3>1, <4>1, <4>2
      <3>7. chosen[n][1] # "0"
        <4>1. CASE q = 0
          <5>1. r # 0 /\ s = <<>>
            BY <2>2, <3>1, <4>1, <1>5 DEF s
          <5>2. chosen[n][1] = c
            BY <3>3, <3>5, <5>1
          <5> QED
            BY <3>3, <5>1, <5>2
        <4>2. CASE q # 0
          <5>1. 1 \in 1..Len(s)
            BY <3>4, <4>2, EmptySeq
          <5>2. chosen[n][1] = s[1]
            BY <3>3, <3>4, <3>5, <5>1, AppendProperties
          <5> QED
            BY <3>4, <4>2, <5>2
        <4> QED
          BY <4>1, <4>2
      <3> QED
        BY <3>6, <3>7 DEF Spells
    <2>3. CASE ~(n <= x)
      BY <2>3
    <2> QED
      BY <2>1, <2>2, <2>3
  <1>7. T = Nat
    <2> HIDE DEF Spells
    <2> QED
      BY <1>6, AllNumbers
  <1>8. Spells(x)
    BY <1>7
  <1> QED
    BY <1>1, <1>5, <1>8

LEMMA DigitsAreChars ==
    ASSUME NEW s \in Seq(DigitChars)
    PROVE  /\ s \in Seq(Symbols)
           /\ \A k \in 1..Len(s) : s[k] \in Symbols /\ s[k] # "-"
  <1>1. \A c \in DigitChars : c \in Symbols /\ c # "-"
    BY DigitIs DEF DigitChars
  <1>2. \A k \in 1..Len(s) : s[k] \in DigitChars
    OBVIOUS
  <1>3. \A k \in 1..Len(s) : s[k] \in Symbols /\ s[k] # "-"
    BY <1>1, <1>2
  <1>4. s \in [1..Len(s) -> Symbols] /\ Len(s) \in Nat
    BY <1>3
  <1> QED
    BY <1>3, <1>4

LEMMA PrintIntSpells ==
    ASSUME NEW x \in Int, NEW base \in {10, 16}
    PROVE  LET s == PrintInt(x, base)
           IN  /\ s \in Seq(Symbols) /\ s # <<>> /\ Spelled(s, base) = x
               /\ Head(s) = "0" => Len(s) = 1
  <1>1. CASE x > 0
    <2> DEFINE s == Digits(x, base)
    <2>1. x \in Nat /\ x # 0 /\ ~(x < 0)
      BY <1>1
    <2>2. s \in Seq(DigitChars) /\ Value(s, base) = x /\ s # <<>> /\ s[1] # "0"
      BY <2>1, DigitsSpell
    <2>3. PrintInt(x, base) = <<>> \o s
      BY <2>1 DEF PrintInt
    <2> HIDE DEF s
    <2>4. s \in Seq(Symbols) /\ Head(s) = s[1] /\ 1 \in 1..Len(s)
      BY <2>2, DigitsAreChars, EmptySeq
    <2>5. PrintInt(x, base) = s
      BY <2>3, <2>4, ConcatProperties
    <2>6. Head(s) # "-" /\ Head(s) # "0"
      BY <2>2, <2>4, DigitsAreChars
    <2> QED
      BY <2>2, <2>4, <2>5, <2>6 DEF Spelled
  <1>2. CASE x = 0
    <2>1. Digits(x, base) = <<>>
      BY <1>2, DigitsSpell
    <2>2. PrintInt(x, base) = <<"0">> \o <<>>
      <3>1. x = 0 /\ ~(x < 0)
        BY <1>2
      <3> QED
        BY <2>1, <3>1, Zenon DEF PrintInt
    <2>3. PrintInt(x, base) = <<"0">>
      BY <2>2
    <2>4. "0" \in DigitChars /\ ValueOf("0") = 0 /\ "0" \in Symbols
      <3>1. Digit(0) = "0"
        BY DEF Digit, HEX
      <3> QED
        BY <3>1, DigitIs DEF DigitChars
    <2>5. Value(<<"0">>, base) = 0
      <3>1. <<>> \in Seq(DigitChars) /\ Append(<<>>, "0") = <<"0">>
        OBVIOUS
      <3>2. Value(<<>>, base) = 0
        BY ValueHolds
      <3>3. Value(Append(<<>>, "0"), base) = Value(<<>>, base) * base + ValueOf("0")
        BY <2>4, <3>1, ValueHolds
      <3> QED
        BY <2>4, <3>1, <3>2, <3>3
    <2>6. Head(<<"0">>) = "0" /\ Len(<<"0">>) = 1 /\ <<"0">> # <<>> /\ <<"0">> \in Seq(Symbols)
      BY <2>4
    <2> QED
      BY <1>2, <2>3, <2>5, <2>6 DEF Spelled
  <1>3. CASE x < 0
    <2> DEFINE s == Digits(-x, base)
    <2>1. -x \in Nat /\ x # 0
      BY <1>3
    <2>2. s \in Seq(DigitChars) /\ Value(s, base) = -x
      BY <2>1, DigitsSpell
    <2>3. PrintInt(x, base) = <<>> \o (<<"-">> \o s)
      BY <1>3, <2>1 DEF PrintInt
    <2> HIDE DEF s
    <2>4. s \in Seq(Symbols) /\ "-" \in Symbols
      BY <2>2, DigitsAreChars, SymbolsAssumption
    <2> DEFINE t == <<"-">> \o s
    <2>5. /\ t \in Seq(Symbols) /\ Len(t) = Len(s) + 1 /\ t[1] = "-"
          /\ \A k \in 1..Len(s) : t[k + 1] = s[k]
      BY <2>4
    <2> HIDE DEF t
    <2>6. PrintInt(x, base) = t
      BY <2>3, <2>5, ConcatProperties DEF t
    <2>7. Len(s) \in Nat /\ t # <<>> /\ Head(t) = "-"
      BY <2>4, <2>5, LenProperties, EmptySeq
    <2>8. Tail(t) = s
      <3>1. Tail(t) \in Seq(Symbols) /\ Len(Tail(t)) = Len(s)
            /\ \A k \in 1..Len(s) : Tail(t)[k] = s[k]
        BY <2>5, <2>7, HeadTailProperties
      <3> QED
        BY <2>4, <3>1, SeqEqual
    <2>9. Spelled(t, base) = -(-x)
      BY <2>2, <2>7, <2>8 DEF Spelled
    <2> QED
      BY <2>5, <2>6, <2>7, <2>9
  <1> QED
    BY <1>1, <1>2, <1>3

\* What is printed of a piece is text; and of a number, as NumbersAreSpelled
\* says.
LEMMA PieceIs ==
    ASSUME NEW piece \in Pieces
    PROVE  /\ Converted(piece) \in Seq(Symbols)
           /\ piece.kind = "d" =>
                 /\ Converted(piece) # <<>> /\ Spelled(Converted(piece), 10) = piece.arg
                 /\ Head(Converted(piece)) = "0" => Len(Converted(piece)) = 1
           /\ piece.kind = "x" =>
                 LET s == Tail(Tail(Converted(piece)))
                 IN  /\ s # <<>> /\ Spelled(s, 16) = piece.arg
                     /\ Head(s) = "0" => Len(s) = 1
  <1>0. \A x \in (-INT_MAX)..INT_MAX : x \in Int
    OBVIOUS
  <1>1. CASE piece.kind = "char"
    <2>1. piece.arg \in Symbols /\ Converted(piece) = <<piece.arg>>
      BY <1>1 DEF Pieces, Converted
    <2> QED
      BY <1>1, <2>1
  <1>2. CASE piece.kind = "s"
    <2>1. piece.arg \in Seq(Symbols) /\ Converted(piece) = piece.arg
      BY <1>2 DEF Pieces, Converted
    <2> QED
      BY <1>2, <2>1
  <1>3. CASE piece.kind = "d"
    <2>1. piece.arg \in Int /\ Converted(piece) = PrintInt(piece.arg, 10)
      BY <1>0, <1>3 DEF Pieces, Converted
    <2> QED
      BY <1>3, <2>1, PrintIntSpells
  <1>4. CASE piece.kind = "x"
    <2> DEFINE s == PrintInt(piece.arg, 16)
    <2>1. piece.arg \in Int /\ Converted(piece) = <<"0", "x">> \o s
      BY <1>0, <1>4 DEF Pieces, Converted
    <2>2. /\ s \in Seq(Symbols) /\ s # <<>> /\ Spelled(s, 16) = piece.arg
          /\ Head(s) = "0" => Len(s) = 1
      BY <2>1, PrintIntSpells
    <2> HIDE DEF s
    <2>3. "0" \in Symbols /\ "x" \in Symbols
      <3>1. Digit(0) = "0"
        BY DEF Digit, HEX
      <3>2. Digit(0) \in Symbols
        BY DigitIs
      <3> QED
        BY <3>1, <3>2, SymbolsAssumption
    <2> DEFINE t == <<"0", "x">> \o s
    <2>4. /\ t \in Seq(Symbols) /\ Len(t) = Len(s) + 2 /\ Len(s) \in Nat
          /\ \A k \in 1..Len(s) : t[k + 2] = s[k]
      BY <2>2, <2>3
    <2> HIDE DEF t
    <2>5. Tail(Tail(t)) = s
      <3>1. t # <<>>
        BY <2>4, EmptySeq
      <3>2. /\ Tail(t) \in Seq(Symbols) /\ Len(Tail(t)) = Len(s) + 1
            /\ \A k \in 1..(Len(s) + 1) : Tail(t)[k] = t[k + 1]
        BY <2>4, <3>1, HeadTailProperties
      <3> DEFINE u == Tail(t)
      <3> HIDE DEF u
      <3>3. u # <<>> /\ u \in Seq(Symbols) /\ Len(u) = Len(s) + 1
        <4>1. u \in Seq(Symbols) /\ Len(u) = Len(s) + 1
          BY <3>2 DEF u
        <4> QED
          BY <2>4, <4>1, EmptySeq
      <3>4. /\ Tail(u) \in Seq(Symbols) /\ Len(Tail(u)) = Len(s)
            /\ \A k \in 1..Len(s) : Tail(u)[k] = u[k + 1]
        BY <2>4, <3>3, HeadTailProperties
      <3>5. \A k \in 1..Len(s) : Tail(u)[k] = s[k]
        <4>1. ASSUME NEW k \in 1..Len(s) PROVE Tail(u)[k] = s[k]
          <5>1. k + 1 \in 1..(Len(s) + 1) /\ (k + 1) + 1 = k + 2
            BY <2>4
          <5>2. u[k + 1] = t[(k + 1) + 1]
            BY <3>2, <5>1 DEF u
          <5> QED
            BY <2>4, <3>4, <5>1, <5>2
        <4> QED
          BY <4>1
      <3> QED
        BY <2>2, <3>4, <3>5, SeqEqual DEF u
    <2> QED
      BY <1>4, <2>1, <2>2, <2>4, <2>5 DEF t
  <1> QED
    BY <1>1, <1>2, <1>3, <1>4 DEF Pieces

LEMMA TextTyped ==
    ASSUME NEW call \in Seq(Pieces)
    PROVE  TextOf(call) \in Seq(Symbols)
  <1> DEFINE texts == [k \in DOMAIN call |-> Converted(call[k])]
  <1>1. \A k \in 1..Len(call) : Converted(call[k]) \in Seq(Symbols)
    BY PieceIs
  <1>2. DOMAIN call = 1..Len(call) /\ Len(call) \in Nat
    BY LenProperties
  <1>3. texts \in [1..Len(call) -> Seq(Symbols)]
    BY <1>1, <1>2
  <1>4. texts \in Seq(Seq(Symbols))
    BY <1>2, <1>3
  <1> QED
    BY <1>4, FlattenTyped DEF TextOf

-----------------------------------------------------------------------------
(* Steps.                                                                  *)

PrinterRecord == [pc : Pcs, half : 0..2, text : Seq(Symbols), tmp : Int, asked : Seq(Pieces)]

ScreenTyped ==
    /\ screen \in [Cells -> Symbols]
    /\ _line \in Int /\ _column \in Int
    /\ printer \in [Printers -> PrinterRecord]
    /\ calls \in [Printers -> Nat] /\ \A p \in Printers : calls[p] <= MaxCalls[p]
    /\ said \in Seq(Symbols) /\ mixed \in BOOLEAN

First(c) == Head(c.text)
IsPrinted(c) == First(c) \notin {LF, CR}

\* What is known of a printer by its place.
PlaceIn(c) ==
    /\ c.pc # "idle" => c.text # <<>>
    /\ c.pc \in {"line", "storeline"} /\ c.half = 0 => First(c) = LF
    /\ c.pc = "return" => ~IsPrinted(c) /\ c.half = 0
    /\ c.pc \in {"put", "column", "storecolumn"} => c.half = 1
    /\ c.pc \in {"wrap", "zero", "test", "up", "storeup"} => c.half \in {1, 2}
    /\ c.half = 1 => IsPrinted(c)

\* A step takes a printer from c to d, the line from l to m, the column from
\* k to n.
Moves(c, d, l, m, k, n) ==
    LET stays == d.half = c.half /\ d.text = c.text
        rests == m = l /\ n = k
    IN  \/ /\ c.pc = "char" /\ d.text = c.text /\ c.text # <<>> /\ rests
           /\ \/ First(c) = LF /\ d.pc = "line" /\ d.half = 0
              \/ First(c) = CR /\ d.pc = "return" /\ d.half = 0
              \/ IsPrinted(c) /\ d.pc = "wrap" /\ d.half = 1
        \/ c.pc = "line" /\ d.pc = "storeline" /\ d.tmp = l /\ stays /\ rests
        \/ /\ c.pc = "storeline" /\ d.pc = (IF c.half = 0 THEN "return" ELSE "test")
           /\ stays /\ m = c.tmp + 1 /\ n = k
        \/ /\ c.pc = "return" /\ d.pc = "wrap" /\ d.half = 2 /\ d.text = c.text
           /\ m = l /\ n = 0
        \/ /\ c.pc = "wrap" /\ d.pc = (IF k > COLUMNS - 1 THEN "zero" ELSE "test")
           /\ stays /\ rests
        \/ c.pc = "zero" /\ d.pc = "line" /\ stays /\ m = l /\ n = 0
        \/ /\ c.pc = "test" /\ stays /\ rests
           /\ d.pc = (IF l > LINES THEN "up" ELSE IF c.half = 1 THEN "put" ELSE "end")
        \/ c.pc = "up" /\ d.pc = "storeup" /\ d.tmp = l /\ stays /\ rests
        \/ /\ c.pc = "storeup" /\ d.pc = (IF c.half = 1 THEN "put" ELSE "end")
           /\ stays /\ m = c.tmp - 1 /\ n = k
        \/ c.pc = "put" /\ d.pc = "column" /\ stays /\ rests
        \/ c.pc = "column" /\ d.pc = "storecolumn" /\ d.tmp = k /\ stays /\ rests
        \/ /\ c.pc = "storecolumn" /\ d.pc = "wrap" /\ d.half = 2 /\ d.text = c.text
           /\ m = l /\ n = c.tmp + 1
        \/ /\ c.pc = "end" /\ rests
           /\ \/ d.pc = "idle" /\ d.half = 0
              \/ d.pc = "char" /\ d.half = 0 /\ d.text # <<>>

LEMMA PcsAre ==
    /\ "idle" \in Pcs /\ "char" \in Pcs /\ "line" \in Pcs /\ "storeline" \in Pcs
    /\ "return" \in Pcs /\ "wrap" \in Pcs /\ "zero" \in Pcs /\ "test" \in Pcs
    /\ "up" \in Pcs /\ "storeup" \in Pcs /\ "put" \in Pcs /\ "column" \in Pcs
    /\ "storecolumn" \in Pcs /\ "end" \in Pcs
  BY DEF Pcs

\* A step of which these are the new record and the move.
LEMMA MovesTo ==
    ASSUME printer \in [Printers -> PrinterRecord], NEW p \in Printers, NEW d,
           printer' = [printer EXCEPT ![p] = d], d \in PrinterRecord,
           Moves(printer[p], d, _line, _line', _column, _column'), calls' = calls
    PROVE  /\ printer'[p] \in PrinterRecord
           /\ printer' = [printer EXCEPT ![p] = printer'[p]]
           /\ Moves(printer[p], printer'[p], _line, _line', _column, _column')
           /\ calls' = calls
  <1>1. printer'[p] = d
    OBVIOUS
  <1> QED
    BY <1>1

LEMMA StepMoves ==
    ASSUME ScreenTyped, NEW p \in Printers, PlaceIn(printer[p]), Step(p)
    PROVE  /\ printer'[p] \in PrinterRecord
           /\ printer' = [printer EXCEPT ![p] = printer'[p]]
           /\ Moves(printer[p], printer'[p], _line, _line', _column, _column')
           /\ calls' = calls
  <1> DEFINE c == printer[p]
  <1>1. /\ c \in PrinterRecord /\ printer \in [Printers -> PrinterRecord]
        /\ _line \in Int /\ _column \in Int
    BY DEF ScreenTyped
  <1>2. /\ c.pc \in Pcs /\ c.half \in 0..2 /\ c.text \in Seq(Symbols) /\ c.tmp \in Int
        /\ c.asked \in Seq(Pieces)
    BY <1>1 DEF PrinterRecord
  <1> DEFINE Done == /\ printer'[p] \in PrinterRecord
                     /\ printer' = [printer EXCEPT ![p] = printer'[p]]
                     /\ Moves(c, printer'[p], _line, _line', _column, _column')
                     /\ calls' = calls
  <1>4. \A d \in PrinterRecord :
            (/\ printer' = [printer EXCEPT ![p] = d]
             /\ Moves(c, d, _line, _line', _column, _column') /\ calls' = calls) => Done
    BY <1>1, MovesTo
  <1>p. PlaceIn(c)
    OBVIOUS
  <1> SUFFICES Done
    BY DEF Done, c
  <1> HIDE DEF c, Done
  <1>a. \A at \in Pcs, half \in 0..2 :
            LET d == [c EXCEPT !.pc = at, !.half = half]
            IN  /\ d \in PrinterRecord /\ d.pc = at /\ d.half = half /\ d.text = c.text
    BY <1>1 DEF PrinterRecord
  <1>6. \A at \in Pcs :
            LET d == [c EXCEPT !.pc = at]
            IN  /\ d \in PrinterRecord /\ d.pc = at /\ d.half = c.half
                /\ d.text = c.text /\ d.tmp = c.tmp
    BY <1>1 DEF PrinterRecord
  <1>7. \A at \in Pcs, x \in Int :
            LET d == [c EXCEPT !.pc = at, !.tmp = x]
            IN  /\ d \in PrinterRecord /\ d.pc = at /\ d.half = c.half
                /\ d.text = c.text /\ d.tmp = x
    BY <1>1 DEF PrinterRecord
  <1>n. 0 \in 0..2 /\ 1 \in 0..2 /\ 2 \in 0..2 /\ 0 \in Int
    OBVIOUS
  <1>5. CASE Enter(p)
    <2> DEFINE d(at, half) == [c EXCEPT !.pc = at, !.half = half]
    <2>1. \A at \in Pcs, half \in 0..2 :
             /\ d(at, half) \in PrinterRecord /\ d(at, half).pc = at
             /\ d(at, half).half = half /\ d(at, half).text = c.text
      BY <1>a
    <2>2. /\ c.pc = "char" /\ c.text # <<>> /\ _line' = _line /\ _column' = _column
          /\ calls' = calls
          /\ \/ First(c) = LF /\ printer' = [printer EXCEPT ![p] = d("line", 0)]
             \/ First(c) = CR /\ printer' = [printer EXCEPT ![p] = d("return", 0)]
             \/ IsPrinted(c) /\ printer' = [printer EXCEPT ![p] = d("wrap", 1)]
      BY <1>5 DEF Enter, IsAt, GoesToHalf, First, IsPrinted, c, cursor
    <2> HIDE DEF d
    <2>4. CASE First(c) = LF /\ printer' = [printer EXCEPT ![p] = d("line", 0)]
      <3>1. /\ d("line", 0) \in PrinterRecord /\ d("line", 0).pc = "line"
            /\ d("line", 0).half = 0 /\ d("line", 0).text = c.text
        BY <2>1, <1>n, PcsAre
      <3>2. Moves(c, d("line", 0), _line, _line', _column, _column')
        BY <2>2, <2>4, <3>1 DEF Moves
      <3> QED
        BY <1>4, <2>2, <2>4, <3>1, <3>2
    <2>5. CASE First(c) = CR /\ printer' = [printer EXCEPT ![p] = d("return", 0)]
      <3>1. /\ d("return", 0) \in PrinterRecord /\ d("return", 0).pc = "return"
            /\ d("return", 0).half = 0 /\ d("return", 0).text = c.text
        BY <2>1, <1>n, PcsAre
      <3>2. Moves(c, d("return", 0), _line, _line', _column, _column')
        BY <2>2, <2>5, <3>1 DEF Moves
      <3> QED
        BY <1>4, <2>2, <2>5, <3>1, <3>2
    <2>6. CASE IsPrinted(c) /\ printer' = [printer EXCEPT ![p] = d("wrap", 1)]
      <3>1. /\ d("wrap", 1) \in PrinterRecord /\ d("wrap", 1).pc = "wrap"
            /\ d("wrap", 1).half = 1 /\ d("wrap", 1).text = c.text
        BY <2>1, <1>n, PcsAre
      <3>2. Moves(c, d("wrap", 1), _line, _line', _column, _column')
        BY <2>2, <2>6, <3>1 DEF Moves
      <3> QED
        BY <1>4, <2>2, <2>6, <3>1, <3>2
    <2> QED
      BY <2>2, <2>4, <2>5, <2>6
  <1>8. CASE LoadLine(p)
    <2> DEFINE at == "storeline"
               d == [c EXCEPT !.pc = at, !.tmp = _line]
    <2>0. at \in Pcs
      BY PcsAre
    <2> HIDE DEF at
    <2>1. /\ d \in PrinterRecord /\ d.pc = at /\ d.half = c.half /\ d.text = c.text
          /\ d.tmp = _line
      BY <1>1, <1>7, <2>0
    <2>2. /\ c.pc = "line" /\ printer' = [printer EXCEPT ![p] = d]
          /\ _line' = _line /\ _column' = _column /\ calls' = calls
      BY <1>8 DEF LoadLine, IsAt, Load, at, c, cursor
    <2> HIDE DEF d
    <2>3. Moves(c, d, _line, _line', _column, _column')
      BY <2>1, <2>2 DEF Moves, at
    <2> QED
      BY <1>4, <2>1, <2>2, <2>3
  <1>9. CASE StoreLine(p)
    <2> DEFINE at == IF c.half = 0 THEN "return" ELSE "test"
               d == [c EXCEPT !.pc = at, !.tmp = 0]
    <2>0. at \in Pcs
      BY PcsAre
    <2> HIDE DEF at
    <2>1. d \in PrinterRecord /\ d.pc = at /\ d.half = c.half /\ d.text = c.text
      BY <1>7, <1>n, <2>0
    <2>2. /\ c.pc = "storeline" /\ printer' = [printer EXCEPT ![p] = d]
          /\ _line' = c.tmp + 1 /\ _column' = _column /\ calls' = calls
      BY <1>9 DEF StoreLine, IsAt, Load, at, c
    <2> HIDE DEF d
    <2>3. Moves(c, d, _line, _line', _column, _column')
      BY <2>1, <2>2 DEF Moves, at
    <2> QED
      BY <1>4, <2>1, <2>2, <2>3
  <1>10. CASE Return(p)
    <2> DEFINE at == "wrap"
               d == [c EXCEPT !.pc = at, !.half = 2]
    <2>0. at \in Pcs
      BY PcsAre
    <2> HIDE DEF at
    <2>1. d \in PrinterRecord /\ d.pc = at /\ d.half = 2 /\ d.text = c.text
      BY <1>a, <1>n, <2>0
    <2>2. /\ c.pc = "return" /\ printer' = [printer EXCEPT ![p] = d]
          /\ _line' = _line /\ _column' = 0 /\ calls' = calls
      BY <1>10 DEF Return, IsAt, GoesToHalf, at, c
    <2> HIDE DEF d
    <2>3. Moves(c, d, _line, _line', _column, _column')
      BY <2>1, <2>2 DEF Moves, at
    <2> QED
      BY <1>4, <2>1, <2>2, <2>3
  <1>11. CASE Wrap(p)
    <2> DEFINE at == IF _column > COLUMNS - 1 THEN "zero" ELSE "test"
               d == [c EXCEPT !.pc = at]
    <2>0. at \in Pcs
      BY PcsAre
    <2> HIDE DEF at
    <2>1. d \in PrinterRecord /\ d.pc = at /\ d.half = c.half /\ d.text = c.text
      BY <1>6, <2>0
    <2>2. /\ c.pc = "wrap" /\ printer' = [printer EXCEPT ![p] = d]
          /\ _line' = _line /\ _column' = _column /\ calls' = calls
      BY <1>11 DEF Wrap, IsAt, GoesTo, IsPast, at, c, cursor
    <2> HIDE DEF d
    <2>3. Moves(c, d, _line, _line', _column, _column')
      BY <2>1, <2>2 DEF Moves, at
    <2> QED
      BY <1>4, <2>1, <2>2, <2>3
  <1>12. CASE Zero(p)
    <2> DEFINE at == "line"
               d == [c EXCEPT !.pc = at]
    <2>0. at \in Pcs
      BY PcsAre
    <2> HIDE DEF at
    <2>1. d \in PrinterRecord /\ d.pc = at /\ d.half = c.half /\ d.text = c.text
      BY <1>6, <2>0
    <2>2. /\ c.pc = "zero" /\ printer' = [printer EXCEPT ![p] = d]
          /\ _line' = _line /\ _column' = 0 /\ calls' = calls
      BY <1>12 DEF Zero, IsAt, GoesTo, at, c, cursor
    <2> HIDE DEF d
    <2>3. Moves(c, d, _line, _line', _column, _column')
      BY <2>1, <2>2 DEF Moves, at
    <2> QED
      BY <1>4, <2>1, <2>2, <2>3
  <1>13. CASE Test(p)
    <2> DEFINE at == IF _line > LINES THEN "up" ELSE IF c.half = 1 THEN "put" ELSE "end"
               d == [c EXCEPT !.pc = at]
    <2>0. at \in Pcs
      BY PcsAre
    <2> HIDE DEF at
    <2>1. d \in PrinterRecord /\ d.pc = at /\ d.half = c.half /\ d.text = c.text
      BY <1>6, <2>0
    <2>2. /\ c.pc = "test" /\ printer' = [printer EXCEPT ![p] = d]
          /\ _line' = _line /\ _column' = _column /\ calls' = calls
      BY <1>13 DEF Test, IsAt, GoesTo, Tested, at, c, cursor
    <2> HIDE DEF d
    <2>3. Moves(c, d, _line, _line', _column, _column')
      BY <2>1, <2>2 DEF Moves, at
    <2> QED
      BY <1>4, <2>1, <2>2, <2>3
  <1>14. CASE LoadUp(p)
    <2> DEFINE at == "storeup"
               d == [c EXCEPT !.pc = at, !.tmp = _line]
    <2>0. at \in Pcs
      BY PcsAre
    <2> HIDE DEF at
    <2>1. /\ d \in PrinterRecord /\ d.pc = at /\ d.half = c.half /\ d.text = c.text
          /\ d.tmp = _line
      BY <1>1, <1>7, <2>0
    <2>2. /\ c.pc = "up" /\ printer' = [printer EXCEPT ![p] = d]
          /\ _line' = _line /\ _column' = _column /\ calls' = calls
      BY <1>14 DEF LoadUp, IsAt, Load, at, c, cursor
    <2> HIDE DEF d
    <2>3. Moves(c, d, _line, _line', _column, _column')
      BY <2>1, <2>2 DEF Moves, at
    <2> QED
      BY <1>4, <2>1, <2>2, <2>3
  <1>15. CASE StoreUp(p)
    <2> DEFINE at == IF c.half = 1 THEN "put" ELSE "end"
               d == [c EXCEPT !.pc = at, !.tmp = 0]
    <2>0. at \in Pcs
      BY PcsAre
    <2> HIDE DEF at
    <2>1. d \in PrinterRecord /\ d.pc = at /\ d.half = c.half /\ d.text = c.text
      BY <1>7, <1>n, <2>0
    <2>2. /\ c.pc = "storeup" /\ printer' = [printer EXCEPT ![p] = d]
          /\ _line' = c.tmp - 1 /\ _column' = _column /\ calls' = calls
      BY <1>15 DEF StoreUp, IsAt, Load, Tested, at, c
    <2> HIDE DEF d
    <2>3. Moves(c, d, _line, _line', _column, _column')
      BY <2>1, <2>2 DEF Moves, at
    <2> QED
      BY <1>4, <2>1, <2>2, <2>3
  <1>16. CASE Put(p)
    <2> DEFINE at == "column"
               d == [c EXCEPT !.pc = at]
    <2>0. at \in Pcs
      BY PcsAre
    <2> HIDE DEF at
    <2>1. d \in PrinterRecord /\ d.pc = at /\ d.half = c.half /\ d.text = c.text
      BY <1>6, <2>0
    <2>2. /\ c.pc = "put" /\ printer' = [printer EXCEPT ![p] = d]
          /\ _line' = _line /\ _column' = _column /\ calls' = calls
      BY <1>16 DEF Put, IsAt, GoesTo, at, c, cursor
    <2> HIDE DEF d
    <2>3. Moves(c, d, _line, _line', _column, _column')
      BY <2>1, <2>2 DEF Moves, at
    <2> QED
      BY <1>4, <2>1, <2>2, <2>3
  <1>17. CASE LoadColumn(p)
    <2> DEFINE at == "storecolumn"
               d == [c EXCEPT !.pc = at, !.tmp = _column]
    <2>0. at \in Pcs
      BY PcsAre
    <2> HIDE DEF at
    <2>1. /\ d \in PrinterRecord /\ d.pc = at /\ d.half = c.half /\ d.text = c.text
          /\ d.tmp = _column
      BY <1>1, <1>7, <2>0
    <2>2. /\ c.pc = "column" /\ printer' = [printer EXCEPT ![p] = d]
          /\ _line' = _line /\ _column' = _column /\ calls' = calls
      BY <1>17 DEF LoadColumn, IsAt, Load, at, c, cursor
    <2> HIDE DEF d
    <2>3. Moves(c, d, _line, _line', _column, _column')
      BY <2>1, <2>2 DEF Moves, at
    <2> QED
      BY <1>4, <2>1, <2>2, <2>3
  <1>18. CASE StoreColumn(p)
    <2> DEFINE d == [c EXCEPT !.pc = "wrap", !.half = 2, !.tmp = 0]
    <2>1. d \in PrinterRecord /\ d.pc = "wrap" /\ d.half = 2 /\ d.text = c.text
      BY <1>1, <1>n, PcsAre DEF PrinterRecord
    <2>2. /\ c.pc = "storecolumn" /\ printer' = [printer EXCEPT ![p] = d]
          /\ _line' = _line /\ _column' = c.tmp + 1 /\ calls' = calls
      BY <1>18 DEF StoreColumn, IsAt, c
    <2> HIDE DEF d
    <2>3. Moves(c, d, _line, _line', _column, _column')
      BY <2>1, <2>2 DEF Moves
    <2> QED
      BY <1>4, <2>1, <2>2, <2>3
  <1>19. CASE Leave(p)
    <2> DEFINE rest == Tail(c.text)
               e == [c EXCEPT !.pc = "char", !.half = 0, !.text = rest]
               d == IF rest = <<>> THEN Idle ELSE e
    <2>1. /\ c.pc = "end" /\ printer' = [printer EXCEPT ![p] = d]
          /\ _line' = _line /\ _column' = _column /\ calls' = calls
      BY <1>19 DEF Leave, IsAt, c, cursor
    <2>2. c.text # <<>>
      BY <1>p, <2>1 DEF PlaceIn
    <2>3. rest \in Seq(Symbols)
      BY <1>2, <2>2, HeadTailProperties
    <2> HIDE DEF rest
    <2>4. Idle \in PrinterRecord /\ Idle.pc = "idle" /\ Idle.half = 0
      BY <1>n, PcsAre DEF Idle, PrinterRecord
    <2>5. e \in PrinterRecord /\ e.pc = "char" /\ e.half = 0 /\ e.text = rest
      BY <1>1, <1>n, <2>3, PcsAre DEF PrinterRecord
    <2> HIDE DEF e
    <2>6. /\ d \in PrinterRecord /\ d.half = 0
          /\ d.pc = "idle" \/ (d.pc = "char" /\ d.text # <<>>)
      BY <2>4, <2>5
    <2> HIDE DEF d
    <2>7. Moves(c, d, _line, _line', _column, _column')
      BY <2>1, <2>6 DEF Moves
    <2> QED
      BY <1>4, <2>1, <2>6, <2>7
  <1> QED
    BY <1>5, <1>8, <1>9, <1>10, <1>11, <1>12, <1>13, <1>14, <1>15, <1>16, <1>17, <1>18, <1>19
       DEF Step, Done, c

\* A call: the printer has its text, or is idle still if there is none.
LEMMA CallMoves ==
    ASSUME ScreenTyped, NEW p \in Printers, NEW call \in Calls[p], KPrint(p, call)
    PROVE  /\ printer[p].pc = "idle"
           /\ printer'[p] \in PrinterRecord
           /\ printer' = [printer EXCEPT ![p] = printer'[p]]
           /\ printer'[p].pc = "idle" \/ (printer'[p].pc = "char" /\ printer'[p].text # <<>>)
           /\ printer'[p].half = 0
           /\ calls' \in [Printers -> Nat] /\ \A q \in Printers : calls'[q] <= MaxCalls[q]
           /\ UNCHANGED <<screen, _line, _column, said, mixed>>
  <1> DEFINE text == TextOf(call)
             at == IF text = <<>> THEN "idle" ELSE "char"
             d == [Idle EXCEPT !.pc = at, !.asked = call, !.text = text]
  <1>1. call \in Seq(Pieces) /\ text \in Seq(Symbols)
    BY CallsAssumption, TextTyped
  <1>2. /\ printer[p].pc = "idle" /\ calls[p] < MaxCalls[p]
        /\ calls' = [calls EXCEPT ![p] = @ + 1] /\ printer' = [printer EXCEPT ![p] = d]
        /\ UNCHANGED <<screen, _line, _column, said, mixed>>
    BY DEF KPrint, IsAt, cursor
  <1> HIDE DEF text
  <1>3. at \in Pcs /\ (at = "idle" \/ (at = "char" /\ text # <<>>))
    BY PcsAre
  <1> HIDE DEF at
  <1>n. 0 \in 0..2 /\ 0 \in Int
    OBVIOUS
  <1>4. d \in PrinterRecord /\ d.pc = at /\ d.text = text /\ d.half = 0
    BY <1>1, <1>3, <1>n DEF PrinterRecord, Idle
  <1> HIDE DEF d
  <1>5. printer'[p] = d /\ printer' = [printer EXCEPT ![p] = printer'[p]]
    BY <1>2 DEF ScreenTyped
  <1>6. /\ calls \in [Printers -> Nat] /\ MaxCalls \in [Printers -> Nat]
        /\ \A q \in Printers : calls[q] <= MaxCalls[q]
    BY MaxCallsAssumption DEF ScreenTyped
  <1>7. calls' \in [Printers -> Nat] /\ \A q \in Printers : calls'[q] <= MaxCalls[q]
    BY <1>2, <1>6
  <1> QED
    BY <1>2, <1>3, <1>4, <1>5, <1>7

LEMMA PlaceKept ==
    ASSUME NEW c \in PrinterRecord, NEW d \in PrinterRecord, PlaceIn(c),
           NEW l \in Int, NEW m \in Int, NEW k \in Int, NEW n \in Int, Moves(c, d, l, m, k, n)
    PROVE  PlaceIn(d)
  <1>0. /\ c.half \in 0..2 /\ d.half \in 0..2
        /\ LF # CR
        /\ d.text = c.text => (First(d) = First(c) /\ (IsPrinted(d) <=> IsPrinted(c)))
    BY DEF PrinterRecord, First, IsPrinted, LF, CR
  <1>1. IsPrinted(c) <=> First(c) # LF /\ First(c) # CR
    BY DEF IsPrinted
  <1> QED
    BY <1>0, <1>1 DEF PlaceIn, Moves

\* What a step does to the screen, as long as the printers have not met.
LEMMA StepShows ==
    ASSUME ScreenTyped, NEW p \in Printers, PlaceIn(printer[p]), Step(p)
    PROVE  /\ screen' \in [Cells -> Symbols] /\ said' \in Seq(Symbols) /\ mixed' \in BOOLEAN
           /\ mixed => mixed'
           /\ ~mixed' =>
                /\ printer[p].pc = "char" =>
                      /\ \A q \in Printers \ {p} : ~Inside(q)
                      /\ said' = Append(said, First(printer[p]))
                /\ printer[p].pc # "char" => said' = said
                /\ printer[p].pc = "test" /\ _line > LINES => screen' = Scrolled
                /\ printer[p].pc = "put" =>
                      screen' = [k \in Cells |-> IF k = Place THEN First(printer[p])
                                                 ELSE screen[k]]
                /\ printer[p].pc # "put" /\ ~(printer[p].pc = "test" /\ _line > LINES) =>
                      screen' = screen
  <1> DEFINE c == printer[p]
  <1>1. /\ screen \in [Cells -> Symbols] /\ said \in Seq(Symbols) /\ mixed \in BOOLEAN
        /\ c \in PrinterRecord /\ PlaceIn(c)
    BY DEF ScreenTyped
  <1>2. " " \in Symbols
    BY SymbolsAssumption
  <1>3. \A S \in [Cells -> Symbols], m \in BOOLEAN :
            Shows(S, m) => screen' \in [Cells -> Symbols] /\ (~m => screen' = S)
    BY <1>2 DEF Shows
  <1>4. c.pc # "idle" => First(c) \in Symbols
    <2>1. c.text \in Seq(Symbols) /\ (c.pc # "idle" => c.text # <<>>)
      BY <1>1 DEF PrinterRecord, PlaceIn
    <2> QED
      BY <2>1, HeadTailProperties DEF First
  <1>5. CASE Enter(p)
    <2> DEFINE others == \E q \in Printers \ {p} : Inside(q)
               a == First(c)
    <2>1. /\ c.pc = "char" /\ mixed' = (mixed \/ others)
          /\ said' = (IF mixed' THEN <<>> ELSE Append(said, a)) /\ Shows(screen, mixed')
      BY <1>5 DEF Enter, IsAt, First
    <2>2. mixed' \in BOOLEAN /\ (mixed => mixed')
          /\ (~mixed' => \A q \in Printers \ {p} : ~Inside(q))
      BY <1>1, <2>1
    <2>3. a \in Symbols
      BY <1>4, <2>1
    <2> HIDE DEF a, others
    <2>4. <<>> \in Seq(Symbols) /\ Append(said, a) \in Seq(Symbols)
      BY <1>1, <2>3
    <2>5. said' \in Seq(Symbols) /\ (~mixed' => said' = Append(said, a))
      BY <2>1, <2>4
    <2>6. screen' \in [Cells -> Symbols] /\ (~mixed' => screen' = screen)
      BY <1>1, <1>3, <2>1, <2>2
    <2> QED
      BY <2>1, <2>2, <2>5, <2>6 DEF a
  <1>6. CASE Test(p)
    <2>1. /\ c.pc = "test" /\ said' = said /\ mixed' = mixed
          /\ _line > LINES => Shows(Scrolled, mixed)
          /\ ~(_line > LINES) => screen' = screen
      BY <1>6 DEF Test, IsAt
    <2>2. Scrolled \in [Cells -> Symbols]
      BY <1>1 DEF Scrolled
    <2> HIDE DEF c
    <2> QED
      BY <1>1, <1>3, <2>1, <2>2 DEF c
  <1>7. CASE Put(p)
    <2> DEFINE S == [k \in Cells |-> IF k = Place THEN First(c) ELSE screen[k]]
    <2>1. /\ c.pc = "put" /\ said' = said /\ mixed' = mixed /\ Shows(S, mixed)
      BY <1>7 DEF Put, IsAt, First
    <2>2. S \in [Cells -> Symbols]
      BY <1>1, <1>4, <2>1
    <2>3. screen' \in [Cells -> Symbols] /\ (~mixed => screen' = S)
      BY <1>1, <1>3, <2>1, <2>2
    <2> QED
      BY <1>1, <2>1, <2>3
  <1>8. CASE ~Enter(p) /\ ~Test(p) /\ ~Put(p)
    <2>1. /\ c.pc \notin {"char", "test", "put"}
          /\ screen' = screen /\ said' = said /\ mixed' = mixed
      BY <1>8 DEF Step, LoadLine, StoreLine, Return, Wrap, Zero, LoadUp, StoreUp, LoadColumn,
                  StoreColumn, Leave, IsAt
    <2> QED
      BY <1>1, <2>1
  <1> QED
    BY <1>5, <1>6, <1>7, <1>8

-----------------------------------------------------------------------------
(* The types, and the numbers that are printed.                            *)

Placed == ScreenTyped /\ \A p \in Printers : PlaceIn(printer[p])

LEMMA PlacedInit == ScreenInit => Placed
  <1> SUFFICES ASSUME ScreenInit PROVE Placed
    OBVIOUS
  <1>1. Idle \in PrinterRecord /\ PlaceIn(Idle)
    BY PcsAre DEF Idle, PrinterRecord, PlaceIn
  <1>2. " " \in Symbols
    BY SymbolsAssumption
  <1>3. \A p \in Printers : MaxCalls[p] \in Nat
    BY MaxCallsAssumption
  <1>4. <<>> \in Seq(Symbols)
    OBVIOUS
  <1>5. screen \in [Cells -> Symbols] /\ said \in Seq(Symbols) /\ mixed \in BOOLEAN
    BY <1>2, <1>4 DEF ScreenInit
  <1>6. printer \in [Printers -> PrinterRecord] /\ \A p \in Printers : PlaceIn(printer[p])
    BY <1>1 DEF ScreenInit
  <1>7. calls \in [Printers -> Nat] /\ \A p \in Printers : calls[p] <= MaxCalls[p]
    <2>1. calls = [p \in Printers |-> 0]
      BY DEF ScreenInit
    <2> QED
      BY <1>3, <2>1
  <1>8. _line \in Int /\ _column \in Int
    <2>1. _line = 0 /\ _column = 0
      BY DEF ScreenInit
    <2> QED
      BY <2>1
  <1> QED
    BY <1>5, <1>6, <1>7, <1>8 DEF Placed, ScreenTyped

LEMMA PlacedNext == Placed /\ [ScreenNext]_screenVars => Placed'
  <1> SUFFICES ASSUME Placed, [ScreenNext]_screenVars PROVE Placed'
    OBVIOUS
  <1>1. CASE UNCHANGED screenVars
    BY <1>1 DEF Placed, ScreenTyped, screenVars, PlaceIn, First, IsPrinted
  <1>2. ASSUME NEW p \in Printers, Step(p) PROVE Placed'
    <2>1. ScreenTyped /\ PlaceIn(printer[p])
      BY DEF Placed
    <2>2. /\ printer'[p] \in PrinterRecord /\ printer' = [printer EXCEPT ![p] = printer'[p]]
          /\ Moves(printer[p], printer'[p], _line, _line', _column, _column')
          /\ calls' = calls
      BY <1>2, <2>1, StepMoves
    <2>3. screen' \in [Cells -> Symbols] /\ said' \in Seq(Symbols) /\ mixed' \in BOOLEAN
      BY <1>2, <2>1, StepShows
    <2>4. /\ printer \in [Printers -> PrinterRecord] /\ _line \in Int /\ _column \in Int
          /\ calls \in [Printers -> Nat] /\ \A q \in Printers : calls[q] <= MaxCalls[q]
      BY DEF Placed, ScreenTyped
    <2>5. printer[p] \in PrinterRecord /\ printer[p].tmp \in Int
      BY <2>4 DEF PrinterRecord
    <2>6. _line' \in Int /\ _column' \in Int
      BY <2>2, <2>4, <2>5 DEF Moves
    <2>7. PlaceIn(printer'[p])
      BY <2>1, <2>2, <2>4, <2>5, <2>6, PlaceKept
    <2>8. printer' \in [Printers -> PrinterRecord]
      BY <2>2, <2>4
    <2>9. \A q \in Printers : PlaceIn(printer'[q])
      <3>1. ASSUME NEW q \in Printers, q # p PROVE PlaceIn(printer'[q])
        BY <2>2, <2>4, <3>1 DEF Placed
      <3> QED
        BY <2>7, <3>1
    <2>a. \A q \in Printers : PlaceIn(printer[q])'
      BY <2>9 DEF PlaceIn, First, IsPrinted
    <2> QED
      BY <2>2, <2>3, <2>4, <2>6, <2>8, <2>a DEF Placed, ScreenTyped
  <1>3. ASSUME NEW p \in Printers, NEW call \in Calls[p], KPrint(p, call) PROVE Placed'
    <2>1. ScreenTyped
      BY DEF Placed
    <2>2. /\ printer'[p] \in PrinterRecord /\ printer' = [printer EXCEPT ![p] = printer'[p]]
          /\ printer'[p].pc = "idle" \/ (printer'[p].pc = "char" /\ printer'[p].text # <<>>)
          /\ printer'[p].half = 0
          /\ calls' \in [Printers -> Nat] /\ \A q \in Printers : calls'[q] <= MaxCalls[q]
          /\ UNCHANGED <<screen, _line, _column, said, mixed>>
      BY <1>3, <2>1, CallMoves
    <2>3. PlaceIn(printer'[p])
      BY <2>2 DEF PlaceIn
    <2>4. printer \in [Printers -> PrinterRecord]
      BY <2>1 DEF ScreenTyped
    <2>5. printer' \in [Printers -> PrinterRecord]
      BY <2>2, <2>4
    <2>6. \A q \in Printers : PlaceIn(printer'[q])
      <3>1. ASSUME NEW q \in Printers, q # p PROVE PlaceIn(printer'[q])
        BY <2>2, <2>4, <3>1 DEF Placed
      <3> QED
        BY <2>3, <3>1
    <2>7. \A q \in Printers : PlaceIn(printer[q])'
      BY <2>6 DEF PlaceIn, First, IsPrinted
    <2> QED
      BY <2>1, <2>2, <2>5, <2>7 DEF Placed, ScreenTyped
  <1> QED
    BY <1>1, <1>2, <1>3 DEF ScreenNext

LEMMA PlacedIsTyped == Placed => ScreenTypeOK
  <1>1. ASSUME Placed PROVE ScreenTypeOK
    <2>1. \A p \in Printers : MaxCalls[p] \in Nat
      BY MaxCallsAssumption
    <2>2. \A p \in Printers : calls[p] \in 0..MaxCalls[p]
      BY <1>1, <2>1 DEF Placed, ScreenTyped
    <2>3. \A p \in Printers : printer[p] \in PrinterRecord
      BY <1>1 DEF Placed, ScreenTyped
    <2> QED
      BY <1>1, <2>2, <2>3 DEF Placed, ScreenTyped, ScreenTypeOK, PrinterRecord
  <1> QED
    BY <1>1

LEMMA PlacedSpells == Placed => NumbersAreSpelled
  <1> SUFFICES ASSUME Placed, NEW p \in Printers, NEW k \in DOMAIN printer[p].asked,
                      printer[p].asked[k].kind \in {"d", "x"}
               PROVE  LET piece == printer[p].asked[k]
                          base == IF piece.kind = "d" THEN 10 ELSE 16
                          digits == IF piece.kind = "d" THEN Converted(piece)
                                    ELSE Tail(Tail(Converted(piece)))
                      IN  /\ digits # <<>> /\ Spelled(digits, base) = piece.arg
                          /\ Head(digits) = "0" => Len(digits) = 1
    BY DEF NumbersAreSpelled
  <1> DEFINE piece == printer[p].asked[k]
  <1>1. printer[p].asked \in Seq(Pieces)
    BY DEF Placed, ScreenTyped, PrinterRecord
  <1>2. piece \in Pieces
    BY <1>1
  <1> HIDE DEF piece
  <1>3. /\ piece.kind = "d" =>
              /\ Converted(piece) # <<>> /\ Spelled(Converted(piece), 10) = piece.arg
              /\ Head(Converted(piece)) = "0" => Len(Converted(piece)) = 1
        /\ piece.kind = "x" =>
              LET s == Tail(Tail(Converted(piece)))
              IN  /\ s # <<>> /\ Spelled(s, 16) = piece.arg
                  /\ Head(s) = "0" => Len(s) = 1
    BY <1>2, PieceIs
  <1>4. piece.kind = "d" \/ piece.kind = "x"
    BY DEF piece
  <1>5. CASE piece.kind = "d"
    BY <1>3, <1>5 DEF piece
  <1>6. CASE piece.kind = "x"
    <2>1. piece.kind # "d"
      BY <1>6
    <2> QED
      BY <1>3, <1>6, <2>1 DEF piece
  <1> QED
    BY <1>4, <1>5, <1>6

LEMMA PlacedAlways == ScreenSpec => []Placed
  BY PlacedInit, PlacedNext, PTL DEF ScreenSpec

\* Type correctness of the screen, the cursor and those who print.
THEOREM ScreenTypeCorrect == ScreenSpec => []ScreenTypeOK
  BY PlacedAlways, PlacedIsTyped, PTL

\* For all calls, NumbersAreSpelled (printInt, kernel/lib/stdio.c): every int
\* that is printed, but for the smallest one, can be read.
THEOREM NumbersSpelled == ScreenSpec => []NumbersAreSpelled
  BY PlacedAlways, PlacedSpells, PTL

-----------------------------------------------------------------------------
(* The bounds of the cursor, for one process and the echo of keys.          *)

Processes == Printers \ Handlers
OneProcess == \A p, q \in Processes : p = q

\* Where the line may be a row further down than it stays.
PastRow(c) == \/ c.pc \in {"test", "up", "storeup"}
              \/ c.pc \in {"return", "wrap"} /\ First(c) = LF
\* Where the column may be behind the row.
Wide(c) == c.pc = "zero" \/ (c.pc = "wrap" /\ IsPrinted(c))
More(b) == IF b THEN 1 ELSE 0

\* What holds at the places of a process, also while a handler runs.
ProcessAt(c, l) ==
    /\ c.pc = "storeline" => c.tmp \in 0..LINES
    /\ c.pc = "up" => l >= LINES
    /\ c.pc = "storeup" => c.tmp \in LINES..(LINES + 1)
    /\ c.pc = "storecolumn" => c.tmp \in 0..(COLUMNS - 1)

\* What holds of a handler that runs.
HandlerAt(c, l, k, past, wide) ==
    /\ l <= LINES + More(past) + More(PastRow(c))
    /\ c.pc = "storeline" => c.tmp = l
    /\ c.pc = "up" => l > LINES
    /\ c.pc = "storeup" => c.tmp = l /\ l > LINES
    /\ c.pc = "storecolumn" => c.tmp = k
    /\ \/ c.pc \in {"test", "up", "storeup", "put", "column", "storecolumn", "end"}
       \/ c.pc \in {"line", "storeline"} /\ c.half # 0
       \/ c.pc = "wrap" /\ ~IsPrinted(c)
       => k < COLUMNS
    /\ c.half = 1 /\ c.pc \in {"zero", "line", "storeline"} => wide
    /\ c.half = 1 /\ c.pc = "wrap" /\ k = COLUMNS => wide
    /\ c.half = 1 /\ c.pc \in {"test", "up", "storeup"} => l <= LINES + 1
    /\ c.pc = "put" => l <= LINES
    /\ c.pc = "char" /\ k = COLUMNS => wide

AnyPast == \E p \in Processes : PastRow(printer[p])
AnyWide == \E p \in Processes : Wide(printer[p])

Bounds ==
    /\ _line >= 0 /\ _column \in 0..COLUMNS
    /\ \A p \in Handlers : ~IsAt(p, "idle") => MayRun(p)
    /\ \A p \in Processes : ProcessAt(printer[p], _line)
    /\ (\A p \in Handlers : IsAt(p, "idle")) =>
          _line <= LINES + More(AnyPast) /\ (_column = COLUMNS => AnyWide)
    /\ \A p \in Handlers :
          ~IsAt(p, "idle") => HandlerAt(printer[p], _line, _column, AnyPast, AnyWide)

LEMMA SizesAre == /\ LINES \in Nat /\ COLUMNS \in Nat /\ NCells \in Nat
                  /\ LINES >= 1 /\ COLUMNS >= 1
                  /\ NCells >= (LINES + 1) * COLUMNS
  BY SizesAssumption

\* A step of the process, while no handler runs.
LEMMA ProcessMoves ==
    ASSUME NEW c \in PrinterRecord, NEW d \in PrinterRecord, PlaceIn(c),
           NEW l \in Int, NEW m \in Int, NEW k \in Int, NEW n \in Int, Moves(c, d, l, m, k, n),
           ProcessAt(c, l), l >= 0, k \in 0..COLUMNS,
           l <= LINES + More(PastRow(c)), k = COLUMNS => Wide(c)
    PROVE  /\ ProcessAt(d, m) /\ m >= 0 /\ n \in 0..COLUMNS
           /\ m <= LINES + More(PastRow(d))
           /\ n = COLUMNS => Wide(d)
  <1>1. /\ c.half \in 0..2 /\ d.half \in 0..2 /\ c.tmp \in Int /\ d.tmp \in Int /\ LF # CR
        /\ LINES \in Nat /\ COLUMNS \in Nat /\ LINES >= 1 /\ COLUMNS >= 1
    BY SizesAre DEF PrinterRecord, LF, CR
  <1>2. d.text = c.text => (First(d) = First(c) /\ (IsPrinted(d) <=> IsPrinted(c)))
    BY DEF First, IsPrinted
  <1>3. /\ IsPrinted(c) <=> First(c) # LF /\ First(c) # CR
        /\ IsPrinted(d) <=> First(d) # LF /\ First(d) # CR
    BY DEF IsPrinted
  <1> QED
    BY <1>1, <1>2, <1>3 DEF Moves, ProcessAt, PlaceIn, PastRow, Wide, More

\* A step of a handler.
LEMMA HandlerMoves ==
    ASSUME NEW c \in PrinterRecord, NEW d \in PrinterRecord, PlaceIn(c),
           NEW l \in Int, NEW m \in Int, NEW k \in Int, NEW n \in Int, Moves(c, d, l, m, k, n),
           NEW past \in BOOLEAN, NEW wide \in BOOLEAN, ~(past /\ wide),
           HandlerAt(c, l, k, past, wide), l >= 0, k \in 0..COLUMNS
    PROVE  /\ m >= 0 /\ n \in 0..COLUMNS
           /\ d.pc # "idle" => HandlerAt(d, m, n, past, wide)
           /\ d.pc = "idle" => m <= LINES + More(past)
           /\ d.pc = "idle" => n # COLUMNS
           /\ l >= LINES => m >= LINES
  <1>1. /\ c.half \in 0..2 /\ d.half \in 0..2 /\ c.tmp \in Int /\ d.tmp \in Int /\ LF # CR
        /\ LINES \in Nat /\ COLUMNS \in Nat /\ LINES >= 1 /\ COLUMNS >= 1
    BY SizesAre DEF PrinterRecord, LF, CR
  <1>2. d.text = c.text => (First(d) = First(c) /\ (IsPrinted(d) <=> IsPrinted(c)))
    BY DEF First, IsPrinted
  <1>3. /\ IsPrinted(c) <=> First(c) # LF /\ First(c) # CR
        /\ IsPrinted(d) <=> First(d) # LF /\ First(d) # CR
    BY DEF IsPrinted
  <1>4. More(past) \in 0..1 /\ (past => More(past) = 1) /\ (wide => More(past) = 0)
    BY DEF More
  <1> DEFINE more == More(past)
             pastc == PastRow(c)
             pastd == PastRow(d)
  <1>5. /\ More(pastc) = (IF pastc THEN 1 ELSE 0) /\ More(pastd) = (IF pastd THEN 1 ELSE 0)
        /\ pastc <=> \/ c.pc \in {"test", "up", "storeup"}
                     \/ c.pc \in {"return", "wrap"} /\ First(c) = LF
        /\ pastd <=> \/ d.pc \in {"test", "up", "storeup"}
                     \/ d.pc \in {"return", "wrap"} /\ First(d) = LF
    BY DEF More, PastRow
  <1> HIDE DEF more, pastc, pastd
  <1> QED
    BY <1>1, <1>2, <1>3, <1>4, <1>5 DEF Moves, HandlerAt, PlaceIn, more, pastc, pastd

\* The bounds of the next state, with its variables named.
LEMMA BoundsNamed ==
    ASSUME NEW past \in BOOLEAN, NEW wide \in BOOLEAN,
           past <=> \E p \in Processes : PastRow(printer'[p]),
           wide <=> \E p \in Processes : Wide(printer'[p]),
           _line' >= 0, _column' \in 0..COLUMNS,
           \A p \in Handlers : printer'[p].pc # "idle" =>
               \A q \in Handlers \ {p} : printer'[q].pc = "idle",
           \A p \in Processes : ProcessAt(printer'[p], _line'),
           (\A p \in Handlers : printer'[p].pc = "idle") =>
               _line' <= LINES + More(past) /\ (_column' = COLUMNS => wide),
           \A p \in Handlers : printer'[p].pc # "idle" =>
               HandlerAt(printer'[p], _line', _column', past, wide)
    PROVE  Bounds'
  <1>1. AnyPast' <=> past
    BY DEF AnyPast, PastRow, First
  <1>2. AnyWide' <=> wide
    BY DEF AnyWide, Wide, IsPrinted, First
  <1>3. AnyPast' \in BOOLEAN /\ AnyWide' \in BOOLEAN
    BY DEF AnyPast, AnyWide
  <1>4. AnyPast' = past /\ AnyWide' = wide
    BY <1>1, <1>2, <1>3
  <1>5. \A p \in Processes : ProcessAt(printer[p], _line)'
    BY DEF ProcessAt
  <1>6. \A p \in Handlers : (~IsAt(p, "idle") => MayRun(p))'
    BY DEF IsAt, MayRun
  <1>7. (\A p \in Handlers : IsAt(p, "idle"))' =>
            _line' <= LINES + More(past) /\ (_column' = COLUMNS => wide)
    BY DEF IsAt
  <1>8. ASSUME NEW p \in Handlers, ~IsAt(p, "idle")'
        PROVE  HandlerAt(printer[p], _line, _column, AnyPast, AnyWide)'
    <2>1. HandlerAt(printer'[p], _line', _column', past, wide)
      BY <1>8 DEF IsAt
    <2>2. HandlerAt(printer'[p], _line', _column', AnyPast', AnyWide')
      BY <1>4, <2>1
    <2> QED
      BY <2>2 DEF HandlerAt, PastRow, IsPrinted, First, More
  <1>9. /\ _line' >= 0 /\ _column' \in 0..COLUMNS
    OBVIOUS
  <1>a. ((\A p \in Handlers : IsAt(p, "idle")) =>
            _line <= LINES + More(AnyPast) /\ (_column = COLUMNS => AnyWide))'
    BY <1>4, <1>7 DEF More
  <1>b. (\A p \in Handlers :
            ~IsAt(p, "idle") => HandlerAt(printer[p], _line, _column, AnyPast, AnyWide))'
    BY <1>8
  <1> QED
    BY <1>5, <1>6, <1>9, <1>a, <1>b DEF Bounds

LEMMA BoundsInit == ScreenInit => Bounds
  <1> SUFFICES ASSUME ScreenInit PROVE Bounds
    OBVIOUS
  <1>1. _line = 0 /\ _column = 0 /\ \A p \in Printers : printer[p] = Idle
    BY DEF ScreenInit
  <1>2. \A p \in Handlers : p \in Printers
    BY HandlersAssumption
  <1>3. Idle.pc = "idle"
    BY DEF Idle
  <1>4. \A p \in Handlers : IsAt(p, "idle")
    BY <1>1, <1>2, <1>3 DEF IsAt
  <1>5. \A p \in Processes : ProcessAt(printer[p], _line)
    BY <1>1, <1>3 DEF Processes, ProcessAt
  <1>6. More(AnyPast) >= 0 /\ More(AnyPast) \in Int
    BY DEF More
  <1> QED
    BY <1>1, <1>4, <1>5, <1>6, SizesAre DEF Bounds

\* A process is not where the line may be too far and where the column may.
LEMMA PastOrWide ==
    ASSUME OneProcess
    PROVE  AnyPast \in BOOLEAN /\ AnyWide \in BOOLEAN /\ ~(AnyPast /\ AnyWide)
  <1>1. \A p \in Processes : ~(PastRow(printer[p]) /\ Wide(printer[p]))
    BY DEF PastRow, Wide, IsPrinted
  <1>2. ~(AnyPast /\ AnyWide)
    BY <1>1 DEF AnyPast, AnyWide, OneProcess
  <1>3. AnyPast \in BOOLEAN /\ AnyWide \in BOOLEAN
    BY DEF AnyPast, AnyWide
  <1> QED
    BY <1>2, <1>3

LEMMA BoundsProcess ==
    ASSUME OneProcess, Placed, Bounds, NEW p \in Processes, MayRun(p),
           \/ Step(p)
           \/ \E call \in Calls[p] : KPrint(p, call)
    PROVE  Bounds'
  <1> DEFINE c == printer[p]
             d == printer'[p]
  <1>1. /\ p \in Printers /\ p \notin Handlers /\ \A q \in Processes : q = p
        /\ \A h \in Handlers : h # p /\ h \in Printers /\ IsAt(h, "idle")
    BY HandlersAssumption DEF Processes, OneProcess, MayRun
  <1>2. /\ ScreenTyped /\ PlaceIn(c) /\ c \in PrinterRecord /\ _line \in Int /\ _column \in Int
        /\ printer \in [Printers -> PrinterRecord]
    BY <1>1 DEF Placed, ScreenTyped
  <1>3. AnyPast = PastRow(c) /\ AnyWide = Wide(c)
    <2>1. PastRow(c) \in BOOLEAN /\ Wide(c) \in BOOLEAN
      BY DEF PastRow, Wide
    <2>2. (AnyPast <=> PastRow(c)) /\ (AnyWide <=> Wide(c))
      BY <1>1 DEF AnyPast, AnyWide
    <2>3. AnyPast \in BOOLEAN /\ AnyWide \in BOOLEAN
      BY DEF AnyPast, AnyWide
    <2> QED
      BY <2>1, <2>2, <2>3
  <1>4. /\ _line >= 0 /\ _column \in 0..COLUMNS /\ ProcessAt(c, _line)
        /\ _line <= LINES + More(PastRow(c)) /\ (_column = COLUMNS => Wide(c))
    BY <1>1, <1>3 DEF Bounds
  <1>5. /\ d \in PrinterRecord /\ printer' = [printer EXCEPT ![p] = d]
        /\ _line' \in Int /\ _column' \in Int
        /\ ProcessAt(d, _line') /\ _line' >= 0 /\ _column' \in 0..COLUMNS
        /\ _line' <= LINES + More(PastRow(d))
        /\ _column' = COLUMNS => Wide(d)
    <2>1. CASE Step(p)
      <3>1. /\ d \in PrinterRecord /\ printer' = [printer EXCEPT ![p] = d]
            /\ Moves(c, d, _line, _line', _column, _column')
        BY <1>1, <1>2, <2>1, StepMoves
      <3>2. _line' \in Int /\ _column' \in Int
        <4>1. c.tmp \in Int
          BY <1>2 DEF PrinterRecord
        <4> QED
          BY <1>2, <3>1, <4>1 DEF Moves
      <3> HIDE DEF c, d
      <3> QED
        BY <1>2, <1>4, <3>1, <3>2, ProcessMoves
    <2>2. CASE \E call \in Calls[p] : KPrint(p, call)
      <3>1. PICK call \in Calls[p] : KPrint(p, call)
        BY <2>2
      <3>2. /\ c.pc = "idle" /\ d \in PrinterRecord /\ printer' = [printer EXCEPT ![p] = d]
            /\ d.pc = "idle" \/ d.pc = "char"
            /\ _line' = _line /\ _column' = _column
        BY <1>1, <1>2, <3>1, CallMoves
      <3>3. ~PastRow(c) /\ ~PastRow(d) /\ ~Wide(c) /\ ProcessAt(d, _line)
        BY <3>2 DEF PastRow, Wide, ProcessAt
      <3>4. More(PastRow(c)) = 0 /\ More(PastRow(d)) = 0
        BY <3>3 DEF More
      <3> QED
        BY <1>2, <1>4, <3>2, <3>3, <3>4
    <2> QED
      BY <2>1, <2>2
  <1>6. \A h \in Handlers : printer'[h].pc = "idle"
    BY <1>1, <1>2, <1>5 DEF IsAt
  <1>7. PastRow(d) \in BOOLEAN /\ Wide(d) \in BOOLEAN
    BY DEF PastRow, Wide
  <1>8. /\ PastRow(d) <=> \E q \in Processes : PastRow(printer'[q])
        /\ Wide(d) <=> \E q \in Processes : Wide(printer'[q])
        /\ \A q \in Processes : ProcessAt(printer'[q], _line')
    BY <1>1, <1>5
  <1> HIDE DEF d
  <1> QED
    BY <1>5, <1>6, <1>7, <1>8, BoundsNamed

LEMMA BoundsHandler ==
    ASSUME OneProcess, Placed, Bounds, NEW p \in Handlers, MayRun(p),
           \/ Step(p)
           \/ \E call \in Calls[p] : KPrint(p, call)
    PROVE  Bounds'
  <1> DEFINE c == printer[p]
             d == printer'[p]
  <1>1. /\ p \in Printers
        /\ \A q \in Processes : q # p /\ q \in Printers
        /\ \A h \in Handlers \ {p} : h \in Printers /\ IsAt(h, "idle")
    BY HandlersAssumption DEF Processes, MayRun
  <1>2. /\ ScreenTyped /\ PlaceIn(c) /\ c \in PrinterRecord /\ _line \in Int /\ _column \in Int
        /\ printer \in [Printers -> PrinterRecord]
    BY <1>1 DEF Placed, ScreenTyped
  <1>3. AnyPast \in BOOLEAN /\ AnyWide \in BOOLEAN /\ ~(AnyPast /\ AnyWide)
    BY PastOrWide
  <1>4. /\ _line >= 0 /\ _column \in 0..COLUMNS
        /\ \A q \in Processes : ProcessAt(printer[q], _line)
    BY DEF Bounds
  <1>5. /\ d \in PrinterRecord /\ printer' = [printer EXCEPT ![p] = d]
        /\ _line' \in Int /\ _column' \in Int
        /\ _line' >= 0 /\ _column' \in 0..COLUMNS
        /\ d.pc # "idle" => HandlerAt(d, _line', _column', AnyPast, AnyWide)
        /\ d.pc = "idle" =>
              _line' <= LINES + More(AnyPast) /\ (_column' = COLUMNS => AnyWide)
        /\ _line >= LINES => _line' >= LINES
    <2>1. CASE Step(p)
      <3>1. /\ d \in PrinterRecord /\ printer' = [printer EXCEPT ![p] = d]
            /\ Moves(c, d, _line, _line', _column, _column')
        BY <1>1, <1>2, <2>1, StepMoves
      <3>2. _line' \in Int /\ _column' \in Int
        <4>1. c.tmp \in Int
          BY <1>2 DEF PrinterRecord
        <4> QED
          BY <1>2, <3>1, <4>1 DEF Moves
      <3>3. c.pc # "idle"
        BY <3>1 DEF Moves
      <3>4. HandlerAt(c, _line, _column, AnyPast, AnyWide)
        BY <3>3 DEF Bounds, IsAt
      <3> HIDE DEF c, d
      <3>5. /\ _line' >= 0 /\ _column' \in 0..COLUMNS
            /\ d.pc # "idle" => HandlerAt(d, _line', _column', AnyPast, AnyWide)
            /\ d.pc = "idle" => _line' <= LINES + More(AnyPast)
            /\ d.pc = "idle" => _column' # COLUMNS
            /\ _line >= LINES => _line' >= LINES
        BY <1>2, <1>3, <1>4, <3>1, <3>2, <3>4, HandlerMoves
      <3> QED
        BY <3>1, <3>2, <3>5
    <2>2. CASE \E call \in Calls[p] : KPrint(p, call)
      <3>1. PICK call \in Calls[p] : KPrint(p, call)
        BY <2>2
      <3>2. /\ c.pc = "idle" /\ d \in PrinterRecord /\ printer' = [printer EXCEPT ![p] = d]
            /\ d.pc = "idle" \/ d.pc = "char"
            /\ d.half = 0 /\ _line' = _line /\ _column' = _column
        BY <1>1, <1>2, <3>1, CallMoves
      <3>3. \A h \in Handlers : IsAt(h, "idle")
        BY <1>1, <3>2 DEF IsAt
      <3>4. _line <= LINES + More(AnyPast) /\ (_column = COLUMNS => AnyWide)
        BY <3>3 DEF Bounds
      <3>5. ~PastRow(d)
        BY <3>2 DEF PastRow
      <3>6. More(PastRow(d)) = 0
        BY <3>5 DEF More
      <3>7. More(AnyPast) \in Int
        BY DEF More
      <3> HIDE DEF d
      <3>8. d.pc # "idle" => HandlerAt(d, _line, _column, AnyPast, AnyWide)
        BY <1>2, <1>3, <1>4, <3>2, <3>4, <3>6, <3>7, SizesAre DEF HandlerAt
      <3> QED
        BY <1>2, <1>4, <3>2, <3>4, <3>8
    <2> QED
      BY <2>1, <2>2
  <1>6. \A q \in Printers \ {p} : printer'[q] = printer[q]
    BY <1>1, <1>2, <1>5
  <1>7. \A h \in Handlers \ {p} : printer'[h].pc = "idle"
    BY <1>1, <1>6 DEF IsAt
  <1>8. \A q \in Processes : printer'[q] = printer[q]
    BY <1>1, <1>6
  <1>9. \A q \in Processes : ProcessAt(printer'[q], _line')
    BY <1>4, <1>5, <1>8 DEF ProcessAt
  <1>10. /\ AnyPast <=> \E q \in Processes : PastRow(printer'[q])
         /\ AnyWide <=> \E q \in Processes : Wide(printer'[q])
    BY <1>8 DEF AnyPast, AnyWide
  <1> DEFINE past == AnyPast
             wide == AnyWide
  <1>11. /\ \A h \in Handlers : printer'[h].pc # "idle" =>
               \A q \in Handlers \ {h} : printer'[q].pc = "idle"
         /\ (\A h \in Handlers : printer'[h].pc = "idle") =>
               _line' <= LINES + More(AnyPast) /\ (_column' = COLUMNS => AnyWide)
         /\ \A h \in Handlers : printer'[h].pc # "idle" =>
               HandlerAt(printer'[h], _line', _column', AnyPast, AnyWide)
    BY <1>5, <1>7
  <1> QED
    BY <1>3, <1>5, <1>9, <1>10, <1>11, BoundsNamed

LEMMA BoundsNext ==
    OneProcess /\ Placed /\ Bounds /\ [ScreenNext]_screenVars => Bounds'
  <1> SUFFICES ASSUME OneProcess, Placed, Bounds, [ScreenNext]_screenVars PROVE Bounds'
    OBVIOUS
  <1>1. CASE UNCHANGED screenVars
    BY <1>1 DEF screenVars, Bounds, IsAt, MayRun, AnyPast, AnyWide, ProcessAt, HandlerAt,
                PastRow, Wide, IsPrinted, First, More
  <1>2. ASSUME NEW p \in Printers, MayRun(p),
               Step(p) \/ \E call \in Calls[p] : KPrint(p, call)
        PROVE  Bounds'
    <2>1. p \in Processes \/ p \in Handlers
      BY DEF Processes
    <2> QED
      BY <1>2, <2>1, BoundsProcess, BoundsHandler
  <1> QED
    BY <1>1, <1>2 DEF ScreenNext

\* The places of a row end before those of the next one.
LEMMA RowsApart ==
    ASSUME NEW r \in Nat, NEW s \in Nat, r < s
    PROVE  /\ r * COLUMNS \in Nat /\ s * COLUMNS \in Nat
           /\ r * COLUMNS + COLUMNS <= s * COLUMNS
  <1>1. COLUMNS \in Nat
    BY SizesAre
  <1> DEFINE x == s - (r + 1)
  <1>2. x \in Nat /\ s = (r + 1) + x
    OBVIOUS
  <1> HIDE DEF x
  <1>3. r * COLUMNS \in Nat /\ s * COLUMNS \in Nat /\ x * COLUMNS \in Nat
    BY <1>1, <1>2
  <1>4. ((r + 1) + x) * COLUMNS = r * COLUMNS + COLUMNS + x * COLUMNS
    BY <1>1, <1>2
  <1>5. s * COLUMNS = r * COLUMNS + COLUMNS + x * COLUMNS
    BY <1>2, <1>4
  <1> QED
    BY <1>1, <1>3, <1>5

LEMMA PlaceIsCell ==
    ASSUME NEW r \in 0..LINES, NEW i \in 0..(COLUMNS - 1)
    PROVE  r * COLUMNS \in Nat /\ i + r * COLUMNS \in Cells
  <1>1. r \in Nat /\ LINES + 1 \in Nat /\ r < LINES + 1
    BY SizesAre
  <1>2. /\ r * COLUMNS \in Nat /\ (LINES + 1) * COLUMNS \in Nat
        /\ r * COLUMNS + COLUMNS <= (LINES + 1) * COLUMNS
    BY <1>1, RowsApart
  <1> DEFINE a == r * COLUMNS
             b == (LINES + 1) * COLUMNS
  <1>3. a \in Nat /\ b \in Nat /\ a + COLUMNS <= b /\ NCells >= b
    BY <1>2, SizesAre
  <1> HIDE DEF a, b
  <1>4. a \in Nat /\ i + a \in 0..(NCells - 1)
    BY <1>3, SizesAre
  <1> QED
    BY <1>4 DEF Cells, a

LEMMA BoundsSuffice ==
    ASSUME OneProcess, Placed, Bounds
    PROVE  CursorIsBounded
  <1>1. ScreenTypeOK
    BY PlacedIsTyped
  <1>2. _line \in Int /\ _column \in Int /\ _line >= 0 /\ _column \in 0..COLUMNS
    BY DEF Placed, ScreenTyped, Bounds
  <1>3. AnyPast \in BOOLEAN /\ AnyWide \in BOOLEAN /\ ~(AnyPast /\ AnyWide)
    BY PastOrWide
  <1>4. /\ More(AnyPast) \in 0..1 /\ (~AnyPast => More(AnyPast) = 0)
        /\ \A c : More(PastRow(c)) \in 0..1 /\ (~PastRow(c) => More(PastRow(c)) = 0)
    BY DEF More
  <1>5. (\A p \in Handlers : IsAt(p, "idle")) =>
            _line <= LINES + More(AnyPast) /\ (_column = COLUMNS => AnyWide)
    BY DEF Bounds
  <1>6. \A p \in Handlers : ~IsAt(p, "idle") =>
            /\ _line <= LINES + More(AnyPast) + More(PastRow(printer[p]))
            /\ IsAt(p, "put") => _line <= LINES /\ _column < COLUMNS
            /\ IsAt(p, "char") => (_column = COLUMNS => AnyWide)
    BY DEF Bounds, HandlerAt, IsAt
  <1>7. _line \in 0..(LINES + 2)
    <2>1. CASE \A p \in Handlers : IsAt(p, "idle")
      BY <1>2, <1>4, <1>5, <2>1, SizesAre
    <2>2. CASE \E p \in Handlers : ~IsAt(p, "idle")
      <3>1. PICK p \in Handlers : ~IsAt(p, "idle")
        BY <2>2
      <3>2. _line <= LINES + More(AnyPast) + More(PastRow(printer[p]))
        BY <1>6, <3>1
      <3> QED
        BY <1>2, <1>4, <3>2, SizesAre
    <2> QED
      BY <2>1, <2>2
  <1>8. (\A p \in Handlers : IsAt(p, "idle")) => _line <= LINES + 1
    BY <1>2, <1>4, <1>5, SizesAre
  <1>9. ASSUME \A p \in Printers : ~Inside(p)
        PROVE  _line <= LINES /\ _column < COLUMNS
    <2>1. \A p \in Printers : IsAt(p, "idle") \/ IsAt(p, "char")
      BY <1>9 DEF Inside, IsAt
    <2>2. \A p \in Printers : ~PastRow(printer[p]) /\ ~Wide(printer[p])
      BY <2>1 DEF PastRow, Wide, IsAt
    <2>3. ~AnyPast /\ ~AnyWide
      BY <2>2 DEF AnyPast, AnyWide, Processes
    <2>4. CASE \A p \in Handlers : IsAt(p, "idle")
      BY <1>2, <1>4, <1>5, <2>3, <2>4, SizesAre
    <2>5. CASE \E p \in Handlers : ~IsAt(p, "idle")
      <3>1. PICK p \in Handlers : ~IsAt(p, "idle")
        BY <2>5
      <3>2. p \in Printers
        BY HandlersAssumption
      <3>3. /\ _line <= LINES + More(AnyPast) + More(PastRow(printer[p]))
            /\ _column = COLUMNS => AnyWide
        BY <1>6, <2>1, <3>1, <3>2
      <3>4. More(AnyPast) = 0 /\ More(PastRow(printer[p])) = 0
        BY <1>4, <2>2, <2>3, <3>2
      <3> QED
        BY <1>2, <2>3, <3>3, <3>4, SizesAre
    <2> QED
      BY <2>4, <2>5
  <1>10. ASSUME NEW p \in Printers, IsAt(p, "put"), MayRun(p)
         PROVE  Place \in Cells /\ _column < COLUMNS
    <2>1. _line <= LINES /\ _column < COLUMNS
      <3>1. CASE p \in Handlers
        BY <1>6, <1>10, <3>1 DEF IsAt
      <3>2. CASE p \notin Handlers
        <4>1. \A q \in Handlers : IsAt(q, "idle")
          BY <1>10, <3>2 DEF MayRun
        <4>2. \A q \in Processes : ~PastRow(printer[q]) /\ ~Wide(printer[q])
          BY <1>10, <3>2 DEF OneProcess, Processes, PastRow, Wide, IsAt
        <4>3. ~AnyPast /\ ~AnyWide
          BY <4>2 DEF AnyPast, AnyWide
        <4> QED
          BY <1>2, <1>4, <1>5, <4>1, <4>3, SizesAre
      <3> QED
        BY <3>1, <3>2
    <2>2. _line \in 0..LINES /\ _column \in 0..(COLUMNS - 1)
      BY <1>2, <2>1, SizesAre
    <2> QED
      BY <2>1, <2>2, PlaceIsCell DEF Place
  <1> QED
    BY <1>1, <1>2, <1>7, <1>8, <1>9, <1>10 DEF CursorIsBounded

\* For one process that prints, whatever handlers interrupt it, CursorIsBounded
\* (ScPrintChar, kernel/drivers/screen.c).  The kernel loads one program; of
\* two that print at once it is false: see the README.
THEOREM CursorStays == OneProcess => (ScreenSpec => []CursorIsBounded)
  <1> SUFFICES ASSUME OneProcess PROVE ScreenSpec => []CursorIsBounded
    OBVIOUS
  <1>1. ScreenInit => Bounds
    BY BoundsInit
  <1>2. Placed /\ Bounds /\ [ScreenNext]_screenVars => Bounds'
    BY BoundsNext
  <1>3. Placed /\ Bounds => CursorIsBounded
    BY BoundsSuffice
  <1> QED
    BY <1>1, <1>2, <1>3, PlacedAlways, PTL DEF ScreenSpec

-----------------------------------------------------------------------------
(* What the screen shows in the middle of a character.                      *)

Top(rows, max) == IF Len(rows) - 1 < max THEN Len(rows) - 1 ELSE max
Display(rows, l, S) ==
    /\ l \in 0..(Len(rows) - 1)
    /\ \A r \in 0..l : \A i \in DOMAIN rows[Len(rows) - l + r] :
          S[r * COLUMNS + i - 1] = rows[Len(rows) - l + r][i]
Matches(t, l, k, S) == l = Top(t.rows, LINES) /\ k = t.col /\ Display(t.rows, l, S)
\* The same, before the last row is scrolled into view.
MatchesLate(t, l, k, S) ==
    /\ k = t.col /\ Display(t.rows, l, S)
    /\ l = Top(t.rows, LINES) \/ (l = LINES + 1 /\ t.rows[Len(t.rows)] = <<>>)
HasWritten(u, c, l, S) == l = Top(u.rows, LINES) /\ Display(Rewritten(u, First(c)), l, S)

\* Of a printer in the middle of a character, with the terminal before it.
Shown(c, u, l, k, S) ==
    LET t == Told(u, First(c))
    IN  /\ c.half = 1 => c.pc \in {"wrap", "test", "put", "column", "storecolumn"}
        /\ c.half = 1 /\ c.pc \in {"wrap", "test", "put"} => Matches(u, l, k, S)
        /\ c.pc = "column" => k = u.col /\ HasWritten(u, c, l, S)
        /\ c.pc = "storecolumn" => c.tmp = k /\ k = u.col /\ HasWritten(u, c, l, S)
        /\ c.half = 2 /\ c.pc = "wrap" /\ IsPrinted(c) => k = u.col + 1 /\ HasWritten(u, c, l, S)
        /\ c.pc = "zero" => IsPrinted(c) /\ u.col + 1 >= COLUMNS /\ HasWritten(u, c, l, S)
        /\ c.half = 2 /\ c.pc \in {"line", "storeline"} =>
              IsPrinted(c) /\ u.col + 1 >= COLUMNS /\ k = 0 /\ HasWritten(u, c, l, S)
        /\ c.half = 0 /\ c.pc \in {"line", "storeline"} => Matches(u, l, k, S)
        /\ c.pc = "storeline" => c.tmp = l
        /\ c.pc = "return" /\ First(c) = LF =>
              l = Top(u.rows, LINES) + 1 /\ Display(t.rows, l, S)
        /\ c.pc = "return" /\ First(c) = CR => Matches(u, l, k, S)
        /\ c.half = 2 /\ (c.pc = "test" \/ (c.pc = "wrap" /\ ~IsPrinted(c))) =>
              MatchesLate(t, l, k, S)
        /\ c.pc = "up" => l = LINES + 1
        /\ c.pc = "storeup" => c.tmp = LINES + 1
        /\ c.pc \in {"up", "storeup"} => Matches(t, LINES, k, S)
        /\ c.pc = "end" => Matches(t, l, k, S)

LEMMA DisplayAppended ==
    ASSUME NEW rows \in Seq(Seq(Symbols)), NEW l, NEW S, Display(rows, l, S)
    PROVE  Display(Append(rows, <<>>), l + 1, S)
  <1> DEFINE N == Len(rows)
             more == Append(rows, <<>>)
  <1>1. /\ N \in Nat /\ l \in 0..(N - 1)
        /\ \A r \in 0..l : \A i \in DOMAIN rows[N - l + r] :
              S[r * COLUMNS + i - 1] = rows[N - l + r][i]
    BY LenProperties DEF Display
  <1>2. <<>> \in Seq(Symbols)
    OBVIOUS
  <1>3. /\ Len(more) = N + 1 /\ more[N + 1] = <<>>
        /\ \A j \in 1..N : more[j] = rows[j]
    BY <1>2
  <1> HIDE DEF more, N
  <1>4. ASSUME NEW r \in 0..(l + 1), NEW i \in DOMAIN more[(N + 1) - (l + 1) + r]
        PROVE  S[r * COLUMNS + i - 1] = more[(N + 1) - (l + 1) + r][i]
    <2>1. (N + 1) - (l + 1) + r = N - l + r
      BY <1>1
    <2>2. CASE r = l + 1
      <3>1. N - l + r = N + 1
        BY <1>1, <2>2
      <3>2. DOMAIN more[N + 1] = {}
        BY <1>3
      <3> QED
        BY <1>4, <2>1, <3>1, <3>2
    <2>3. CASE r # l + 1
      <3>1. r \in 0..l /\ N - l + r \in 1..N
        BY <1>1, <2>3
      <3>2. more[N - l + r] = rows[N - l + r]
        BY <1>3, <3>1
      <3> QED
        BY <1>1, <1>4, <2>1, <3>1, <3>2
    <2> QED
      BY <2>2, <2>3
  <1>5. l + 1 \in 0..((N + 1) - 1)
    BY <1>1
  <1> QED
    BY <1>3, <1>4, <1>5 DEF Display, more

\* The last row is empty when the screen scrolls.
LEMMA DisplayScrolled ==
    ASSUME NEW t \in Terminals, t.rows[Len(t.rows)] = <<>>, screen \in [Cells -> Symbols],
           Display(t.rows, LINES + 1, screen)
    PROVE  Display(t.rows, LINES, Scrolled)
  <1> DEFINE rows == t.rows
             N == Len(rows)
             C == COLUMNS
  <1>1. /\ rows \in Seq(Seq(Symbols)) /\ rows # <<>>
        /\ \A r \in 1..N : Len(rows[r]) <= C
    BY DEF Terminals, IsTerminal
  <1>2. /\ N \in Nat /\ LINES + 1 \in 0..(N - 1) /\ rows[N] = <<>>
        /\ \A r \in 0..(LINES + 1) : \A i \in DOMAIN rows[N - (LINES + 1) + r] :
              screen[r * C + i - 1] = rows[N - (LINES + 1) + r][i]
    BY <1>1, LenProperties DEF Display
  <1>3. LINES \in Nat /\ C \in Nat /\ LINES >= 1 /\ C >= 1
    BY SizesAre
  <1>0. screen \in [Cells -> Symbols]
    OBVIOUS
  <1> HIDE DEF C, N, rows
  <1>4. ASSUME NEW r \in 0..LINES, NEW i \in DOMAIN rows[N - LINES + r]
        PROVE  Scrolled[r * C + i - 1] = rows[N - LINES + r][i]
    <2>1. CASE r = LINES
      <3>1. N - LINES + r = N
        BY <1>2, <1>3, <2>1
      <3>2. DOMAIN rows[N] = {}
        BY <1>2
      <3> QED
        BY <1>4, <3>1, <3>2
    <2>2. CASE r # LINES
      <3> DEFINE j == N - LINES + r
      <3>1. r \in 0..(LINES - 1) /\ r + 1 \in 0..LINES /\ j \in 1..N
            /\ N - (LINES + 1) + (r + 1) = j
        BY <1>2, <1>3, <2>2
      <3> HIDE DEF j
      <3>2. rows[j] \in Seq(Symbols) /\ Len(rows[j]) <= C
        <4>1. j \in 1..Len(rows)
          BY <3>1 DEF N
        <4>2. rows[j] \in Seq(Symbols)
          BY <1>1, <4>1
        <4> QED
          BY <1>1, <3>1, <4>2
      <3>3. i \in 1..C
        <4>1. i \in 1..Len(rows[j]) /\ Len(rows[j]) \in Nat
          BY <1>4, <3>2, LenProperties DEF j
        <4> QED
          BY <1>3, <3>2, <4>1
      <3>4. /\ r * C \in Nat /\ (i - 1) + r * C \in Cells
            /\ (r + 1) * C \in Nat /\ (i - 1) + (r + 1) * C \in Cells
        <4>1. i - 1 \in 0..(C - 1) /\ r \in 0..LINES
          BY <3>3, <1>3
        <4> QED
          BY <3>1, <4>1, PlaceIsCell DEF C
      <3>5. LINES * C \in Nat /\ r * C + C <= LINES * C
        <4>1. r \in Nat /\ LINES \in Nat /\ r < LINES
          BY <1>3, <3>1
        <4> QED
          BY <4>1, RowsApart DEF C
      <3>6. (r + 1) * C = r * C + C
        BY <1>3, <3>1
      <3> DEFINE a == r * C
                 b == LINES * C
                 e == (r + 1) * C
      <3>7. /\ a \in Nat /\ b \in Nat /\ e \in Nat /\ a + C <= b /\ e = a + C
            /\ (i - 1) + a \in Cells /\ (i - 1) + e \in Cells
        BY <3>4, <3>5, <3>6
      <3> HIDE DEF a, b, e
      <3>8. a + i - 1 \in Cells /\ a + i - 1 <= b /\ (a + i - 1) + C \in Cells
            /\ (a + i - 1) + C = e + i - 1
        <4>1. a + i - 1 = (i - 1) + a /\ (a + i - 1) + C = (i - 1) + e
          BY <1>3, <3>3, <3>7
        <4> QED
          BY <1>3, <3>3, <3>7, <4>1
      <3>9. Scrolled[a + i - 1] = screen[e + i - 1]
        BY <3>8 DEF Scrolled, b, C
      <3>10. screen[e + i - 1] = rows[j][i]
        <4>1. r + 1 \in 0..(LINES + 1) /\ i \in DOMAIN rows[j]
          BY <1>3, <1>4, <3>1 DEF j
        <4>2. \A k \in DOMAIN rows[N - (LINES + 1) + (r + 1)] :
                 screen[(r + 1) * C + k - 1] = rows[N - (LINES + 1) + (r + 1)][k]
          BY <1>2, <4>1
        <4> QED
          BY <3>1, <4>1, <4>2 DEF e
      <3> QED
        BY <3>9, <3>10 DEF a, j
    <2> QED
      BY <2>1, <2>2
  <1>5. LINES \in 0..(N - 1)
    BY <1>2, <1>3
  <1> QED
    BY <1>4, <1>5 DEF Display, C, N, rows

\* A character is written at the cursor.
LEMMA DisplayWritten ==
    ASSUME NEW u \in Terminals, NEW x \in Symbols, NEW l \in 0..LINES, NEW S,
           Display(u.rows, l, S)
    PROVE  Display(Rewritten(u, x), l,
                   [a \in Cells |-> IF a = u.col + l * COLUMNS THEN x ELSE S[a]])
  <1> DEFINE rows == u.rows
             k == u.col
             w == Rewritten(u, x)
             N == Len(rows)
             C == COLUMNS
             T == [a \in Cells |-> IF a = k + l * C THEN x ELSE S[a]]
  <1>1. /\ rows \in Seq(Seq(Symbols)) /\ k \in Nat /\ k < C /\ k <= Len(rows[N])
    BY DEF Terminals, IsTerminal
  <1>2. /\ N \in Nat /\ l \in 0..(N - 1)
        /\ \A r \in 0..l : \A i \in DOMAIN rows[N - l + r] :
              S[r * C + i - 1] = rows[N - l + r][i]
    BY <1>1, LenProperties DEF Display
  <1>3. /\ w \in Seq(Seq(Symbols)) /\ Len(w) = N /\ N \in 1..N
        /\ \A r \in 1..N : r # N => w[r] = rows[r]
        /\ w[N] = Written(rows[N], k, x)
        /\ \A r \in 1..N : Len(w[r]) <= C
    BY RewrittenIs
  <1>4. LINES \in Nat /\ C \in Nat /\ LINES >= 1 /\ C >= 1
    BY SizesAre
  <1>5. rows[N] \in Seq(Symbols)
    BY <1>1, <1>3
  <1>6. /\ w[N] \in Seq(Symbols) /\ Len(w[N]) \in {Len(rows[N]), k + 1}
        /\ \A i \in 1..Len(w[N]) : w[N][i] = IF i = k + 1 THEN x ELSE rows[N][i]
    <2> HIDE DEF rows, k, w, N, C
    <2>1. k <= Len(rows[N]) /\ k \in Nat
      BY <1>1
    <2>2. LET v == Written(rows[N], k, x)
          IN  /\ v \in Seq(Symbols) /\ Len(v) \in {Len(rows[N]), k + 1}
              /\ \A i \in 1..Len(v) : v[i] = IF i = k + 1 THEN x ELSE rows[N][i]
      BY <1>5, <2>1, WrittenIs
    <2> QED
      BY <1>3, <2>2
  <1> HIDE DEF rows, k, w, N, C
  <1>7. ASSUME NEW r \in 0..l, NEW i \in DOMAIN w[N - l + r]
        PROVE  T[r * C + i - 1] = w[N - l + r][i]
    <2> DEFINE j == N - l + r
    <2>1. j \in 1..N /\ (j = N <=> r = l) /\ r \in 0..LINES
      BY <1>2, <1>4
    <2> HIDE DEF j
    <2>2. w[j] \in Seq(Symbols) /\ Len(w[j]) <= C
      BY <1>3, <2>1
    <2>3. i \in 1..Len(w[j]) /\ Len(w[j]) \in Nat /\ i \in 1..C
      <3>1. i \in 1..Len(w[j]) /\ Len(w[j]) \in Nat
        BY <1>7, <2>2, LenProperties DEF j
      <3> QED
        BY <1>4, <2>2, <3>1
    <2>4. r * C \in Nat /\ (i - 1) + r * C \in Cells
      <3>1. i - 1 \in 0..(C - 1)
        BY <1>4, <2>3
      <3> QED
        BY <2>1, <3>1, PlaceIsCell DEF C
    <2> DEFINE a == r * C
               b == l * C
    <2>5. a \in Nat /\ a + i - 1 \in Cells /\ a + i - 1 = (i - 1) + a
      BY <2>3, <2>4
    <2>6. CASE r # l
      <3>1. r \in Nat /\ l \in Nat /\ r < l
        BY <1>4, <2>6
      <3>2. b \in Nat /\ a + C <= b
        BY <3>1, RowsApart DEF C
      <3> HIDE DEF a, b
      <3>3. a + i - 1 # k + b
        BY <1>1, <1>4, <2>3, <2>5, <3>2
      <3>4. T[a + i - 1] = S[a + i - 1]
        BY <2>5, <3>3 DEF b
      <3>5. w[j] = rows[j]
        BY <1>3, <2>1, <2>6
      <3>6. S[a + i - 1] = rows[j][i]
        BY <1>2, <1>7, <3>5 DEF a, j
      <3> QED
        BY <3>4, <3>5, <3>6 DEF a, j
    <2>7. CASE r = l
      <3>1. j = N /\ a = b
        BY <2>1, <2>7
      <3> HIDE DEF a, b
      <3>2. w[j][i] = IF i = k + 1 THEN x ELSE rows[N][i]
        BY <1>6, <2>3, <3>1
      <3>3. a + i - 1 = k + b <=> i = k + 1
        BY <1>1, <2>3, <2>5, <3>1
      <3>4. CASE i = k + 1
        <4>1. T[a + i - 1] = x
          BY <2>5, <3>3, <3>4 DEF b
        <4> QED
          BY <3>2, <3>4, <4>1 DEF a, j
      <3>5. CASE i # k + 1
        <4>1. T[a + i - 1] = S[a + i - 1]
          BY <2>5, <3>3, <3>5 DEF b
        <4>2. i \in DOMAIN rows[N]
          <5>1. Len(rows[N]) \in Nat /\ DOMAIN rows[N] = 1..Len(rows[N])
            BY <1>5, LenProperties
          <5>2. i \in 1..Len(rows[N])
            BY <1>1, <1>6, <2>3, <3>1, <3>5, <5>1
          <5> QED
            BY <5>1, <5>2
        <4>3. S[a + i - 1] = rows[N][i]
          BY <1>2, <1>7, <3>1, <4>2 DEF a, j
        <4> QED
          BY <3>2, <3>5, <4>1, <4>3 DEF a, j
      <3> QED
        BY <3>4, <3>5
    <2> QED
      BY <2>6, <2>7
  <1>8. l \in 0..(Len(w) - 1)
    BY <1>2, <1>3
  <1> QED
    BY <1>3, <1>7, <1>8 DEF Display, w, k, C, N

\* What the terminal has after a character, of the rows before it.
LEMMA ToldRows ==
    ASSUME NEW u \in Terminals, NEW x \in Symbols
    PROVE  LET t == Told(u, x)
               w == Rewritten(u, x)
               N == Len(u.rows)
           IN  /\ t \in Terminals /\ N \in Nat /\ N >= 1 /\ Len(w) = N
               /\ u.rows \in Seq(Seq(Symbols)) /\ w \in Seq(Seq(Symbols))
               /\ u.col \in Nat /\ u.col < COLUMNS /\ t.col \in Nat /\ t.col < COLUMNS
               /\ x = LF => /\ t.rows = Append(u.rows, <<>>) /\ t.col = 0
                            /\ Len(t.rows) = N + 1 /\ t.rows[Len(t.rows)] = <<>>
               /\ x = CR => t.rows = u.rows /\ t.col = 0
               /\ x \notin {LF, CR} /\ u.col + 1 < COLUMNS => t.rows = w /\ t.col = u.col + 1
               /\ x \notin {LF, CR} /\ ~(u.col + 1 < COLUMNS) =>
                     /\ t.rows = Append(w, <<>>) /\ t.col = 0
                     /\ Len(t.rows) = N + 1 /\ t.rows[Len(t.rows)] = <<>>
  <1> DEFINE t == Told(u, x)
             w == Rewritten(u, x)
             N == Len(u.rows)
  <1>1. LF # CR
    BY DEF LF, CR
  <1>2. /\ t \in Terminals
        /\ x = LF => t.rows = Append(u.rows, <<>>) /\ t.col = 0
        /\ x # LF /\ x = CR => t.rows = u.rows /\ t.col = 0
        /\ x \notin {LF, CR} /\ u.col + 1 < COLUMNS => t.rows = w /\ t.col = u.col + 1
        /\ x \notin {LF, CR} /\ ~(u.col + 1 < COLUMNS) =>
              t.rows = Append(w, <<>>) /\ t.col = 0
    BY ToldIs
  <1>3. w \in Seq(Seq(Symbols)) /\ Len(w) = N /\ N \in Nat \ {0}
    BY RewrittenIs
  <1>4. u.rows \in Seq(Seq(Symbols)) /\ u.col \in Nat /\ u.col < COLUMNS
    BY DEF Terminals, IsTerminal
  <1> HIDE DEF t, w
  <1>5. t.col \in Nat /\ t.col < COLUMNS
    BY <1>2 DEF Terminals, IsTerminal
  <1>6. <<>> \in Seq(Symbols)
    OBVIOUS
  <1>7. ASSUME NEW s \in Seq(Seq(Symbols)), Len(s) = N
        PROVE  Len(Append(s, <<>>)) = N + 1 /\ Append(s, <<>>)[N + 1] = <<>>
    BY <1>6, <1>7
  <1>8. /\ Len(Append(w, <<>>)) = N + 1 /\ Append(w, <<>>)[N + 1] = <<>>
        /\ Len(Append(u.rows, <<>>)) = N + 1 /\ Append(u.rows, <<>>)[N + 1] = <<>>
    BY <1>3, <1>4, <1>7
  <1>9. N \in Nat /\ N >= 1
    BY <1>3
  <1> HIDE DEF N
  <1>10. x = LF => Len(t.rows) = N + 1 /\ t.rows[Len(t.rows)] = <<>>
    BY <1>2, <1>8
  <1>11. x \notin {LF, CR} /\ ~(u.col + 1 < COLUMNS) =>
            Len(t.rows) = N + 1 /\ t.rows[Len(t.rows)] = <<>>
    BY <1>2, <1>8
  <1> QED
    BY <1>1, <1>2, <1>3, <1>4, <1>5, <1>9, <1>10, <1>11 DEF t, w, N

\* The line moves on to the row that has been appended.
LEMMA TopAppended ==
    ASSUME NEW rows, NEW more, Len(rows) \in Nat, Len(rows) >= 1, Len(more) = Len(rows) + 1,
           more[Len(more)] = <<>>, NEW l \in Int, l = Top(rows, LINES) + 1
    PROVE  l = Top(more, LINES) \/ (l = LINES + 1 /\ more[Len(more)] = <<>>)
  BY SizesAre DEF Top

\* A step in the middle of a character, which changes the screen from S to T.
LEMMA ShownMoves ==
    ASSUME NEW c \in PrinterRecord, NEW d \in PrinterRecord, PlaceIn(c),
           c.pc \notin {"idle", "char"}, First(c) \in Symbols, NEW u \in Terminals,
           NEW l \in Int, NEW m \in Int, NEW k \in Int, NEW n \in Int, Moves(c, d, l, m, k, n),
           screen \in [Cells -> Symbols], NEW T, Shown(c, u, l, k, screen),
           c.pc = "test" /\ l > LINES => T = Scrolled,
           c.pc = "put" => T = [a \in Cells |-> IF a = k + l * COLUMNS THEN First(c)
                                                ELSE screen[a]],
           c.pc # "put" /\ ~(c.pc = "test" /\ l > LINES) => T = screen
    PROVE  /\ c.pc = "end" => d.pc \in {"idle", "char"} /\ Matches(Told(u, First(c)), m, n, T)
           /\ c.pc # "end" => /\ d.pc \notin {"idle", "char"} /\ First(d) = First(c)
                              /\ Shown(d, u, m, n, T)
  <1> DEFINE x == First(c)
             t == Told(u, x)
             w == Rewritten(u, x)
             rows == u.rows
  <1>1. /\ c.half \in 0..2 /\ d.half \in 0..2 /\ c.tmp \in Int /\ d.tmp \in Int /\ LF # CR
        /\ LINES \in Nat /\ COLUMNS \in Nat /\ LINES >= 1 /\ COLUMNS >= 1
    BY SizesAre DEF PrinterRecord, LF, CR
  <1>2. d.text = c.text => First(d) = x /\ (IsPrinted(d) <=> IsPrinted(c))
    BY DEF First, IsPrinted
  <1>3. IsPrinted(c) <=> x \notin {LF, CR}
    BY DEF IsPrinted
  <1>4. /\ t \in Terminals /\ Len(rows) \in Nat /\ Len(rows) >= 1 /\ Len(w) = Len(rows)
        /\ rows \in Seq(Seq(Symbols)) /\ w \in Seq(Seq(Symbols))
        /\ u.col \in Nat /\ u.col < COLUMNS /\ t.col \in Nat /\ t.col < COLUMNS
        /\ x = LF => /\ t.rows = Append(rows, <<>>) /\ t.col = 0
                     /\ Len(t.rows) = Len(rows) + 1 /\ t.rows[Len(t.rows)] = <<>>
        /\ x = CR => t.rows = rows /\ t.col = 0
        /\ x \notin {LF, CR} /\ u.col + 1 < COLUMNS => t.rows = w /\ t.col = u.col + 1
        /\ x \notin {LF, CR} /\ ~(u.col + 1 < COLUMNS) =>
              /\ t.rows = Append(w, <<>>) /\ t.col = 0
              /\ Len(t.rows) = Len(rows) + 1 /\ t.rows[Len(t.rows)] = <<>>
    BY ToldRows
  <1>5. Top(w, LINES) = Top(rows, LINES) /\ Top(rows, LINES) \in 0..LINES
    BY <1>1, <1>4 DEF Top
  <1>6. /\ c.half = 1 => c.pc \in {"wrap", "test", "put", "column", "storecolumn"}
        /\ c.half = 1 /\ c.pc \in {"wrap", "test", "put"} => Matches(u, l, k, screen)
        /\ c.pc = "column" => k = u.col /\ HasWritten(u, c, l, screen)
        /\ c.pc = "storecolumn" =>
              c.tmp = k /\ k = u.col /\ HasWritten(u, c, l, screen)
        /\ c.half = 2 /\ c.pc = "wrap" /\ IsPrinted(c) =>
              k = u.col + 1 /\ HasWritten(u, c, l, screen)
        /\ c.pc = "zero" =>
              IsPrinted(c) /\ u.col + 1 >= COLUMNS /\ HasWritten(u, c, l, screen)
        /\ c.half = 2 /\ c.pc \in {"line", "storeline"} =>
              IsPrinted(c) /\ u.col + 1 >= COLUMNS /\ k = 0 /\ HasWritten(u, c, l, screen)
        /\ c.half = 0 /\ c.pc \in {"line", "storeline"} => Matches(u, l, k, screen)
        /\ c.pc = "storeline" => c.tmp = l
        /\ c.pc = "return" /\ x = LF =>
              l = Top(rows, LINES) + 1 /\ Display(t.rows, l, screen)
        /\ c.pc = "return" /\ x = CR => Matches(u, l, k, screen)
        /\ c.half = 2 /\ (c.pc = "test" \/ (c.pc = "wrap" /\ ~IsPrinted(c))) =>
              MatchesLate(t, l, k, screen)
        /\ c.pc = "up" => l = LINES + 1
        /\ c.pc = "storeup" => c.tmp = LINES + 1
        /\ c.pc \in {"up", "storeup"} => Matches(t, LINES, k, screen)
        /\ c.pc = "end" => Matches(t, l, k, screen)
    BY DEF Shown
  <1>7. HasWritten(u, c, l, screen) <=> l = Top(rows, LINES) /\ Display(w, l, screen)
    BY DEF HasWritten
  <1>8. d.text = c.text =>
            (HasWritten(u, d, m, T) <=> m = Top(rows, LINES) /\ Display(w, m, T))
    BY <1>2 DEF HasWritten
  <1> DEFINE Goal == /\ d.pc \notin {"idle", "char"} /\ First(d) = x /\ Shown(d, u, m, n, T)
  <1>9. (d.text = c.text /\ d.pc \notin {"idle", "char"} /\
           /\ d.half = 1 => d.pc \in {"wrap", "test", "put", "column", "storecolumn"}
           /\ d.half = 1 /\ d.pc \in {"wrap", "test", "put"} => Matches(u, m, n, T)
           /\ d.pc = "column" => n = u.col /\ m = Top(rows, LINES) /\ Display(w, m, T)
           /\ d.pc = "storecolumn" =>
                 d.tmp = n /\ n = u.col /\ m = Top(rows, LINES) /\ Display(w, m, T)
           /\ d.half = 2 /\ d.pc = "wrap" /\ IsPrinted(c) =>
                 n = u.col + 1 /\ m = Top(rows, LINES) /\ Display(w, m, T)
           /\ d.pc = "zero" =>
                 IsPrinted(c) /\ u.col + 1 >= COLUMNS /\ m = Top(rows, LINES) /\ Display(w, m, T)
           /\ d.half = 2 /\ d.pc \in {"line", "storeline"} =>
                 /\ IsPrinted(c) /\ u.col + 1 >= COLUMNS /\ n = 0
                 /\ m = Top(rows, LINES) /\ Display(w, m, T)
           /\ d.half = 0 /\ d.pc \in {"line", "storeline"} => Matches(u, m, n, T)
           /\ d.pc = "storeline" => d.tmp = m
           /\ d.pc = "return" /\ x = LF => m = Top(rows, LINES) + 1 /\ Display(t.rows, m, T)
           /\ d.pc = "return" /\ x = CR => Matches(u, m, n, T)
           /\ d.half = 2 /\ (d.pc = "test" \/ (d.pc = "wrap" /\ ~IsPrinted(c))) =>
                 MatchesLate(t, m, n, T)
           /\ d.pc = "up" => m = LINES + 1
           /\ d.pc = "storeup" => d.tmp = LINES + 1
           /\ d.pc \in {"up", "storeup"} => Matches(t, LINES, n, T)
           /\ d.pc = "end" => Matches(t, m, n, T)) => Goal
    BY <1>2, <1>8 DEF Shown
  <1>10. SUFFICES /\ c.pc = "end" => d.pc \in {"idle", "char"} /\ Matches(t, m, n, T)
                  /\ c.pc # "end" => Goal
    OBVIOUS
  <1>11. Display(w, l, screen) => Display(Append(w, <<>>), l + 1, screen)
    BY <1>4, DisplayAppended
  <1>12. Display(rows, l, screen) => Display(Append(rows, <<>>), l + 1, screen)
    BY <1>4, DisplayAppended
  <1>13. c.pc \in Pcs
    BY DEF PrinterRecord
  <1> HIDE DEF x, t, w, rows, Goal
  <1>14. CASE c.pc = "line"
    <2>1. d.pc = "storeline" /\ d.tmp = l /\ d.half = c.half /\ d.text = c.text
          /\ m = l /\ n = k /\ T = screen
      BY <1>14 DEF Moves
    <2> QED
      BY <1>1, <1>6, <1>7, <1>9, <1>14, <2>1
  <1>15. CASE c.pc = "storeline"
    <2>1. d.half = c.half /\ d.text = c.text /\ m = l + 1 /\ n = k /\ T = screen
          /\ c.half # 1 /\ (c.half = 0 => d.pc = "return") /\ (c.half = 2 => d.pc = "test")
      BY <1>6, <1>15 DEF Moves
    <2>2. CASE c.half = 0
      <3>1. x = LF /\ Matches(u, l, k, screen)
        BY <1>6, <1>15, <2>2 DEF PlaceIn, x
      <3>2. l = Top(rows, LINES) /\ Display(rows, l, screen)
        BY <3>1 DEF Matches, rows
      <3>3. Display(t.rows, m, T)
        BY <1>4, <1>12, <2>1, <3>1, <3>2
      <3> QED
        BY <1>1, <1>9, <1>15, <2>1, <2>2, <3>1, <3>2, <3>3
    <2>3. CASE c.half = 2
      <3>1. /\ IsPrinted(c) /\ u.col + 1 >= COLUMNS /\ k = 0
            /\ l = Top(rows, LINES) /\ Display(w, l, screen)
        BY <1>6, <1>7, <1>15, <2>3
      <3>2. /\ t.rows = Append(w, <<>>) /\ t.col = 0
            /\ Len(t.rows) = Len(rows) + 1 /\ t.rows[Len(t.rows)] = <<>>
        BY <1>1, <1>3, <1>4, <3>1
      <3>3. m = Top(t.rows, LINES) \/ (m = LINES + 1 /\ t.rows[Len(t.rows)] = <<>>)
        BY <1>4, <2>1, <3>1, <3>2, TopAppended
      <3>4. MatchesLate(t, m, n, T)
        BY <1>11, <2>1, <3>1, <3>2, <3>3 DEF MatchesLate
      <3> QED
        BY <1>1, <1>9, <1>15, <2>1, <2>3, <3>4
    <2> QED
      BY <1>1, <2>1, <2>2, <2>3
  <1>16. CASE c.pc = "return"
    <2>1. /\ d.pc = "wrap" /\ d.half = 2 /\ d.text = c.text /\ m = l /\ n = 0 /\ T = screen
          /\ ~IsPrinted(c)
      BY <1>16 DEF Moves, PlaceIn
    <2>2. MatchesLate(t, m, n, T)
      <3>1. CASE x = LF
        <4>1. l = Top(rows, LINES) + 1 /\ Display(t.rows, l, screen)
          BY <1>6, <1>16, <3>1
        <4>2. l = Top(t.rows, LINES) \/ (l = LINES + 1 /\ t.rows[Len(t.rows)] = <<>>)
          BY <1>4, <3>1, <4>1, TopAppended
        <4> QED
          BY <1>4, <2>1, <3>1, <4>1, <4>2 DEF MatchesLate
      <3>2. CASE x = CR
        <4>1. l = Top(rows, LINES) /\ Display(rows, l, screen)
          BY <1>6, <1>16, <3>2 DEF Matches, rows
        <4> QED
          BY <1>4, <2>1, <3>2, <4>1 DEF MatchesLate
      <3> QED
        BY <1>3, <2>1, <3>1, <3>2
    <2> QED
      BY <1>1, <1>9, <1>16, <2>1, <2>2
  <1>17. CASE c.pc = "wrap"
    <2>1. /\ d.half = c.half /\ d.text = c.text /\ m = l /\ n = k /\ T = screen
          /\ k > COLUMNS - 1 => d.pc = "zero"
          /\ ~(k > COLUMNS - 1) => d.pc = "test"
          /\ c.half \in {1, 2}
      BY <1>17 DEF Moves, PlaceIn
    <2>2. CASE c.half = 1
      <3>1. Matches(u, l, k, screen) /\ k = u.col
        BY <1>6, <1>17, <2>2 DEF Matches
      <3>2. d.pc = "test"
        BY <1>1, <1>4, <2>1, <3>1
      <3> QED
        BY <1>1, <1>9, <1>17, <2>1, <2>2, <3>1, <3>2
    <2>3. CASE c.half = 2 /\ IsPrinted(c)
      <3>1. k = u.col + 1 /\ l = Top(rows, LINES) /\ Display(w, l, screen)
        BY <1>6, <1>7, <1>17, <2>3
      <3>2. CASE k > COLUMNS - 1
        <4>1. d.pc = "zero" /\ u.col + 1 >= COLUMNS
          BY <1>1, <1>4, <2>1, <3>1, <3>2
        <4>2. d.half = 2 /\ d.text = c.text
          BY <2>1, <2>3
        <4>3. m = Top(rows, LINES) /\ Display(w, m, T)
          BY <2>1, <3>1
        <4> QED
          BY <1>9, <1>17, <2>3, <4>1, <4>2, <4>3
      <3>3. CASE ~(k > COLUMNS - 1)
        <4>1. t.rows = w /\ t.col = k
          BY <1>1, <1>3, <1>4, <2>3, <3>1, <3>3
        <4>2. MatchesLate(t, m, n, T)
          BY <1>5, <2>1, <3>1, <4>1 DEF MatchesLate
        <4> QED
          BY <1>1, <1>9, <1>17, <2>1, <2>3, <3>3, <4>2
      <3> QED
        BY <3>2, <3>3
    <2>4. CASE c.half = 2 /\ ~IsPrinted(c)
      <3>1. MatchesLate(t, l, k, screen) /\ k = t.col
        BY <1>6, <1>17, <2>4 DEF MatchesLate
      <3>2. d.pc = "test"
        BY <1>1, <1>4, <2>1, <3>1
      <3> QED
        BY <1>1, <1>9, <1>17, <2>1, <2>4, <3>1, <3>2
    <2> QED
      BY <2>1, <2>2, <2>3, <2>4
  <1>18. CASE c.pc = "zero"
    <2>1. d.pc = "line" /\ d.half = c.half /\ d.text = c.text /\ m = l /\ n = 0 /\ T = screen
          /\ c.half = 2
      BY <1>6, <1>18 DEF Moves, PlaceIn
    <2> QED
      BY <1>1, <1>6, <1>7, <1>9, <1>18, <2>1
  <1>19. CASE c.pc = "test"
    <2>1. /\ d.half = c.half /\ d.text = c.text /\ m = l /\ n = k /\ c.half \in {1, 2}
          /\ l > LINES => d.pc = "up" /\ T = Scrolled
          /\ ~(l > LINES) => T = screen /\ d.pc = (IF c.half = 1 THEN "put" ELSE "end")
      BY <1>19 DEF Moves, PlaceIn
    <2>2. CASE c.half = 1
      <3>1. Matches(u, l, k, screen) /\ l = Top(rows, LINES)
        BY <1>6, <1>19, <2>2 DEF Matches, rows
      <3>2. d.pc = "put" /\ T = screen
        BY <1>1, <1>5, <2>1, <2>2, <3>1
      <3> QED
        BY <1>1, <1>9, <1>19, <2>1, <2>2, <3>1, <3>2
    <2>3. CASE c.half = 2
      <3>1. MatchesLate(t, l, k, screen)
        BY <1>6, <1>19, <2>3
      <3>2. CASE l > LINES
        <4>0. Top(t.rows, LINES) <= LINES
          <5>1. Len(t.rows) \in Nat
            BY <1>4, LenProperties DEF Terminals
          <5> QED
            BY <1>1, <5>1 DEF Top
        <4>1. l = LINES + 1 /\ t.rows[Len(t.rows)] = <<>> /\ k = t.col
              /\ Display(t.rows, l, screen)
          BY <1>1, <3>1, <3>2, <4>0 DEF MatchesLate
        <4>2. Display(t.rows, LINES, Scrolled)
          BY <1>4, <4>1, DisplayScrolled
        <4>3. LINES = Top(t.rows, LINES)
          <5>1. Len(t.rows) \in Nat
            BY <1>4, LenProperties DEF Terminals
          <5>2. LINES + 1 \in 0..(Len(t.rows) - 1)
            BY <4>1 DEF Display
          <5> QED
            BY <1>1, <5>1, <5>2 DEF Top
        <4>4. Matches(t, LINES, k, T)
          BY <2>1, <3>2, <4>1, <4>2, <4>3 DEF Matches
        <4> QED
          BY <1>1, <1>9, <1>19, <2>1, <2>3, <3>2, <4>1, <4>4
      <3>3. CASE ~(l > LINES)
        <4>1. Matches(t, l, k, screen)
          BY <1>1, <3>1, <3>3 DEF MatchesLate, Matches
        <4>2. d.pc = "end" /\ T = screen
          BY <2>1, <2>3, <3>3
        <4> QED
          BY <1>1, <1>9, <1>19, <2>1, <2>3, <4>1, <4>2
      <3> QED
        BY <3>2, <3>3
    <2> QED
      BY <2>1, <2>2, <2>3
  <1>20. CASE c.pc = "up"
    <2>1. d.pc = "storeup" /\ d.tmp = l /\ d.half = c.half /\ d.text = c.text
          /\ m = l /\ n = k /\ T = screen
      BY <1>20 DEF Moves
    <2> QED
      BY <1>1, <1>6, <1>9, <1>20, <2>1
  <1>21. CASE c.pc = "storeup"
    <2>1. c.half = 2
      BY <1>6, <1>21 DEF PlaceIn
    <2>2. d.pc = "end" /\ d.half = 2 /\ d.text = c.text /\ m = LINES /\ n = k /\ T = screen
      BY <1>1, <1>6, <1>21, <2>1 DEF Moves
    <2> QED
      BY <1>1, <1>6, <1>9, <1>21, <2>1, <2>2
  <1>22. CASE c.pc = "put"
    <2>1. c.half = 1 /\ d.pc = "column" /\ d.half = 1 /\ d.text = c.text /\ m = l /\ n = k
      BY <1>22 DEF Moves, PlaceIn
    <2>2. l = Top(rows, LINES) /\ k = u.col /\ Display(rows, l, screen)
      BY <1>6, <1>22, <2>1 DEF Matches, rows
    <2>3. T = [a \in Cells |-> IF a = u.col + l * COLUMNS THEN x ELSE screen[a]]
      BY <1>22, <2>2 DEF x
    <2>4. Display(w, l, T)
      <3>1. l \in 0..LINES /\ x \in Symbols
        BY <1>5, <2>2 DEF x
      <3> QED
        BY <2>2, <2>3, <3>1, DisplayWritten DEF w, rows
    <2> QED
      BY <1>1, <1>9, <1>22, <2>1, <2>2, <2>4
  <1>23. CASE c.pc = "column"
    <2>1. d.pc = "storecolumn" /\ d.tmp = k /\ d.half = c.half /\ d.text = c.text
          /\ m = l /\ n = k /\ T = screen
      BY <1>23 DEF Moves
    <2> QED
      BY <1>1, <1>6, <1>7, <1>9, <1>23, <2>1
  <1>24. CASE c.pc = "storecolumn"
    <2>1. d.pc = "wrap" /\ d.half = 2 /\ d.text = c.text /\ m = l /\ n = k + 1 /\ T = screen
          /\ IsPrinted(c)
      BY <1>6, <1>24 DEF Moves, PlaceIn
    <2> QED
      BY <1>1, <1>6, <1>7, <1>9, <1>24, <2>1
  <1>25. CASE c.pc = "end"
    <2>1. d.pc \in {"idle", "char"} /\ m = l /\ n = k /\ T = screen
      BY <1>25 DEF Moves
    <2> QED
      BY <1>6, <1>25, <2>1
  <1> QED
    BY <1>13, <1>14, <1>15, <1>16, <1>17, <1>18, <1>19, <1>20, <1>21, <1>22, <1>23, <1>24, <1>25
       DEF Pcs

\* A printer that begins with a character.
LEMMA ShownEnter ==
    ASSUME NEW c, NEW d, NEW l, NEW m, NEW k, NEW n, NEW S, NEW u, c.pc = "char",
           Moves(c, d, l, m, k, n), Matches(u, l, k, S)
    PROVE  /\ d.pc \notin {"idle", "char"} /\ First(d) = First(c)
           /\ Shown(d, u, m, n, S)
  <1>1. /\ d.text = c.text /\ m = l /\ n = k
        /\ \/ First(c) = LF /\ d.pc = "line" /\ d.half = 0
           \/ First(c) = CR /\ d.pc = "return" /\ d.half = 0
           \/ IsPrinted(c) /\ d.pc = "wrap" /\ d.half = 1
    BY DEF Moves
  <1>2. First(d) = First(c) /\ LF # CR
    BY <1>1 DEF First, LF, CR
  <1>3. CASE First(c) = LF /\ d.pc = "line" /\ d.half = 0
    BY <1>1, <1>2, <1>3 DEF Shown
  <1>4. CASE First(c) = CR /\ d.pc = "return" /\ d.half = 0
    BY <1>1, <1>2, <1>4 DEF Shown
  <1>5. CASE IsPrinted(c) /\ d.pc = "wrap" /\ d.half = 1
    BY <1>1, <1>2, <1>5 DEF Shown
  <1> QED
    BY <1>1, <1>3, <1>4, <1>5

InsideOf(c) == c.pc \notin {"idle", "char"}

\* The inductive invariant of what is shown.
ScreenShown ==
    ~mixed =>
        /\ \A p, q \in Printers : InsideOf(printer[p]) /\ InsideOf(printer[q]) => p = q
        /\ (\A p \in Printers : ~InsideOf(printer[p])) =>
              Matches(Terminal(said), _line, _column, screen)
        /\ \A p \in Printers : InsideOf(printer[p]) =>
              \E u \in Terminals :
                  /\ Terminal(said) = Told(u, First(printer[p]))
                  /\ Shown(printer[p], u, _line, _column, screen)

LEMMA ShownInit == ScreenInit => ScreenShown
  <1> SUFFICES ASSUME ScreenInit PROVE ScreenShown
    OBVIOUS
  <1>1. \A p \in Printers : printer[p] = Idle
    BY DEF ScreenInit
  <1>2. ~InsideOf(Idle)
    BY DEF InsideOf, Idle
  <1>3. said = <<>> /\ _line = 0 /\ _column = 0
    BY DEF ScreenInit
  <1>4. Terminal(said) = Start
    BY <1>3, TerminalHolds
  <1>5. Matches(Start, 0, 0, screen)
    <2>1. Start.col = 0 /\ Start.rows = << <<>> >>
      BY DEF Start
    <2>2. Len(Start.rows) = 1 /\ DOMAIN Start.rows[1] = {}
      BY <2>1
    <2>3. Top(Start.rows, LINES) = 0
      BY <2>2, SizesAre DEF Top
    <2>4. Display(Start.rows, 0, screen)
      BY <2>2 DEF Display
    <2> QED
      BY <2>1, <2>3, <2>4 DEF Matches
  <1> QED
    BY <1>1, <1>2, <1>3, <1>4, <1>5 DEF ScreenShown

\* The same of the next state, with its variables named.
LEMMA ShownNamed ==
    ASSUME ~mixed' =>
             /\ \A p, q \in Printers : InsideOf(printer'[p]) /\ InsideOf(printer'[q]) => p = q
             /\ (\A p \in Printers : ~InsideOf(printer'[p])) =>
                   Matches(Terminal(said'), _line', _column', screen')
             /\ \A p \in Printers : InsideOf(printer'[p]) =>
                   \E u \in Terminals :
                       /\ Terminal(said') = Told(u, First(printer'[p]))
                       /\ Shown(printer'[p], u, _line', _column', screen')
    PROVE  ScreenShown'
  BY DEF ScreenShown

LEMMA ShownStep ==
    ASSUME Placed, ScreenShown, NEW p \in Printers, Step(p)
    PROVE  ScreenShown'
  <1> DEFINE c == printer[p]
             d == printer'[p]
  <1>1. /\ ScreenTyped /\ PlaceIn(c) /\ c \in PrinterRecord /\ _line \in Int /\ _column \in Int
        /\ screen \in [Cells -> Symbols] /\ said \in Seq(Symbols)
        /\ printer \in [Printers -> PrinterRecord] /\ mixed \in BOOLEAN
    BY DEF Placed, ScreenTyped
  <1>2. /\ d \in PrinterRecord /\ printer' = [printer EXCEPT ![p] = d]
        /\ Moves(c, d, _line, _line', _column, _column')
    BY <1>1, StepMoves
  <1>3. /\ mixed => mixed'
        /\ ~mixed' =>
                /\ c.pc = "char" => /\ \A q \in Printers \ {p} : ~Inside(q)
                                    /\ said' = Append(said, First(c))
                /\ c.pc # "char" => said' = said
                /\ c.pc = "test" /\ _line > LINES => screen' = Scrolled
                /\ c.pc = "put" =>
                      screen' = [k \in Cells |-> IF k = Place THEN First(c) ELSE screen[k]]
                /\ c.pc # "put" /\ ~(c.pc = "test" /\ _line > LINES) => screen' = screen
    BY <1>1, StepShows
  <1>4. c.pc # "idle"
    BY <1>2 DEF Moves
  <1>5. First(c) \in Symbols
    <2>1. c.text \in Seq(Symbols) /\ c.text # <<>>
      BY <1>1, <1>4 DEF PrinterRecord, PlaceIn
    <2> QED
      BY <2>1, HeadTailProperties DEF First
  <1>6. \A q \in Printers : q # p => printer'[q] = printer[q]
    BY <1>1, <1>2
  <1>7. _line' \in Int /\ _column' \in Int
    <2>1. c.tmp \in Int
      BY <1>1 DEF PrinterRecord
    <2> QED
      BY <1>1, <1>2, <2>1 DEF Moves
  <1> SUFFICES ASSUME ~mixed' PROVE ScreenShown'
    BY DEF ScreenShown
  <1>8. ~mixed
    BY <1>3
  <1>9. CASE c.pc = "char"
    <2> DEFINE u == Terminal(said)
    <2>1. /\ \A q \in Printers : ~InsideOf(printer[q])
          /\ \A q \in Printers : q # p => ~InsideOf(printer'[q])
      BY <1>3, <1>6, <1>9 DEF Inside, InsideOf
    <2>2. Matches(u, _line, _column, screen)
      BY <1>8, <2>1 DEF ScreenShown
    <2>3. u \in Terminals /\ Terminal(said') = Told(u, First(c))
      BY <1>1, <1>3, <1>5, <1>9, TerminalHolds
    <2>4. screen' = screen
      BY <1>3, <1>9
    <2> HIDE DEF u, c, d
    <2>5. /\ InsideOf(d) /\ First(d) = First(c)
          /\ Shown(d, u, _line', _column', screen')
      BY <1>2, <1>9, <2>2, <2>4, ShownEnter DEF InsideOf
    <2>6. \A q \in Printers : InsideOf(printer'[q]) => q = p
      BY <2>1
    <2>7. \E v \in Terminals : /\ Terminal(said') = Told(v, First(d))
                               /\ Shown(d, v, _line', _column', screen')
      BY <2>3, <2>5
    <2> QED
      BY <2>5, <2>6, <2>7, ShownNamed DEF d
  <1>10. CASE c.pc # "char"
    <2>1. InsideOf(c)
      BY <1>4, <1>10 DEF InsideOf
    <2>2. \A q \in Printers : q # p => ~InsideOf(printer[q])
      BY <1>8, <2>1 DEF ScreenShown
    <2>3. PICK u \in Terminals : /\ Terminal(said) = Told(u, First(c))
                                 /\ Shown(c, u, _line, _column, screen)
      BY <1>8, <2>1 DEF ScreenShown
    <2>4. said' = said
      BY <1>3, <1>10
    <2>5. Place = _column + _line * COLUMNS
      BY DEF Place
    <2>6. \A q \in Printers : q # p => ~InsideOf(printer'[q])
      BY <1>6, <2>2
    <2> HIDE DEF c, d
    <2>7. c.pc = "put" => screen' = [a \in Cells |-> IF a = _column + _line * COLUMNS
                                                     THEN First(c) ELSE screen[a]]
      BY <1>3, <2>5
    <2>8. /\ c.pc = "end" =>
                d.pc \in {"idle", "char"}
                /\ Matches(Told(u, First(c)), _line', _column', screen')
          /\ c.pc # "end" => /\ d.pc \notin {"idle", "char"} /\ First(d) = First(c)
                             /\ Shown(d, u, _line', _column', screen')
      <3>1. c.pc \notin {"idle", "char"}
        BY <1>4, <1>10
      <3> QED
        BY <1>1, <1>2, <1>3, <1>5, <1>7, <2>3, <2>7, <3>1, ShownMoves
    <2>9. CASE c.pc = "end"
      <3>1. \A q \in Printers : ~InsideOf(printer'[q])
        BY <2>6, <2>8, <2>9 DEF InsideOf, d
      <3>2. Matches(Terminal(said'), _line', _column', screen')
        BY <2>3, <2>4, <2>8, <2>9
      <3> QED
        BY <3>1, <3>2, ShownNamed
    <2>10. CASE c.pc # "end"
      <3>1. InsideOf(d)
        BY <2>8, <2>10 DEF InsideOf
      <3>2. \A q \in Printers : InsideOf(printer'[q]) => q = p
        BY <2>6
      <3>3. \E v \in Terminals : /\ Terminal(said') = Told(v, First(d))
                                 /\ Shown(d, v, _line', _column', screen')
        BY <2>3, <2>4, <2>8, <2>10
      <3> QED
        BY <3>1, <3>2, <3>3, ShownNamed DEF d
    <2> QED
      BY <2>9, <2>10
  <1> QED
    BY <1>9, <1>10

LEMMA ShownCall ==
    ASSUME Placed, ScreenShown, NEW p \in Printers, NEW call \in Calls[p], KPrint(p, call)
    PROVE  ScreenShown'
  <1>1. ScreenTyped /\ printer \in [Printers -> PrinterRecord]
    BY DEF Placed, ScreenTyped
  <1>2. /\ printer[p].pc = "idle" /\ printer' = [printer EXCEPT ![p] = printer'[p]]
        /\ printer'[p].pc = "idle" \/ printer'[p].pc = "char"
        /\ UNCHANGED <<screen, _line, _column, said, mixed>>
    BY <1>1, CallMoves
  <1>3. ~InsideOf(printer[p]) /\ ~InsideOf(printer'[p])
    BY <1>2 DEF InsideOf
  <1>4. \A q \in Printers : q # p => printer'[q] = printer[q]
    BY <1>1, <1>2
  <1>5. \A q \in Printers : InsideOf(printer'[q]) => InsideOf(printer[q]) /\ q # p
    BY <1>3, <1>4
  <1>6. \A q \in Printers : InsideOf(printer[q]) => InsideOf(printer'[q])
    BY <1>3, <1>4
  <1>7. ASSUME ~mixed'
        PROVE  /\ \A q, r \in Printers : InsideOf(printer'[q]) /\ InsideOf(printer'[r]) => q = r
               /\ (\A q \in Printers : ~InsideOf(printer'[q])) =>
                     Matches(Terminal(said'), _line', _column', screen')
               /\ \A q \in Printers : InsideOf(printer'[q]) =>
                     \E u \in Terminals :
                         /\ Terminal(said') = Told(u, First(printer'[q]))
                         /\ Shown(printer'[q], u, _line', _column', screen')
    BY <1>2, <1>4, <1>5, <1>6, <1>7 DEF ScreenShown
  <1> QED
    BY <1>7, ShownNamed

LEMMA ShownNext == Placed /\ ScreenShown /\ [ScreenNext]_screenVars => ScreenShown'
  <1> SUFFICES ASSUME Placed, ScreenShown, [ScreenNext]_screenVars PROVE ScreenShown'
    OBVIOUS
  <1>1. CASE UNCHANGED screenVars
    <2>1. /\ screen' = screen /\ _line' = _line /\ _column' = _column /\ printer' = printer
          /\ said' = said /\ mixed' = mixed
      BY <1>1 DEF screenVars
    <2> QED
      BY <2>1, ShownNamed DEF ScreenShown
  <1> QED
    BY <1>1, ShownStep, ShownCall DEF ScreenNext

LEMMA ShownSuffices == Placed /\ ScreenShown => TextIsShown
  <1> DEFINE t == Terminal(said)
             n == Len(t.rows)
  <1> SUFFICES ASSUME Placed, ScreenShown, ~mixed, \A p \in Printers : ~Inside(p)
               PROVE  /\ _line = IF n - 1 < LINES THEN n - 1 ELSE LINES
                      /\ _column = t.col
                      /\ \A r \in 0.._line :
                            LET row == t.rows[n - _line + r]
                            IN  \A c \in DOMAIN row : screen[r * COLUMNS + c - 1] = row[c]
    BY DEF TextIsShown
  <1>1. \A p \in Printers : ~InsideOf(printer[p])
    BY DEF Inside, InsideOf
  <1>2. Matches(t, _line, _column, screen)
    BY <1>1 DEF ScreenShown
  <1> HIDE DEF t
  <1> QED
    BY <1>2 DEF Matches, Top, Display

\* For every number of printers, TextIsShown: as long as they have not met in
\* ScPrintChar (kernel/drivers/screen.c), the screen is the terminal's.
THEOREM TextShown == ScreenSpec => []TextIsShown
  BY ShownInit, ShownNext, ShownSuffices, PlacedAlways, PTL DEF ScreenSpec
=============================================================================
