------------------------ MODULE ProcessManagerProofs ------------------------
(***************************************************************************)
(* Proofs about ProcessManager, for every number of programs, every set of *)
(* pids and every width of the counter gNbProcess.                         *)
(***************************************************************************)
EXTENDS ProcessManager, TLAPS

\* A list that holds the first k objects in the order of their creation.
Enumerates(list, k) ==
    /\ list \in Seq(Objects)
    /\ Len(list) = k
    /\ \A i \in 1..k : list[i] = i

\* Both lists hold the objects created so far, and the counters count them.
ListsAndCounters ==
    \E k \in 0..NPrograms :
        /\ Enumerates(gProcessList, k)
        /\ Enumerates(gThreadsList, k)
        /\ s_CurrentProcessId = k
        /\ gThreadId = k
        /\ gNbThreads = k
        /\ Created = 1..k
        /\ irq => k = NPrograms

\* The k-th object is the process of pid k - 1 and its thread of tid k - 1.
Numbering ==
    \A o \in Created :
        /\ process[o].pid = o - 1
        /\ process[o].mainThread = o
        /\ thread[o].tid = o - 1
        /\ thread[o].process = o

\* No thread runs, or is in a system call, before the IRQs are unmasked; the
\* process of the thread that runs has been started.
Running ==
    /\ gCurrentThread = NULL <=> gCurrentProcess = NULL
    /\ gCurrentThread # NULL =>
        irq /\ gCurrentProcess = gCurrentThread /\ gCurrentProcess \in started
    /\ started \subseteq Created
    /\ \A t \in Objects : pc[t] # "user" => irq

\* The inductive invariant.
IInv ==
    /\ TypeOK
    /\ ListsAndCounters
    /\ Numbering
    /\ Running
    /\ CurrentAgree
    /\ StateTellsHistory

-----------------------------------------------------------------------------
\* In such a list the walk to place i ends on object i + 1.
LEMMA ListGetEnumerates ==
    ASSUME NEW list, NEW k \in Nat, Enumerates(list, k), NEW i \in 0..(k - 1)
    PROVE  ListGet(list, i) = i + 1
  BY DEF Enumerates, ListGet

\* In a list of two elements at least, the walk behind the last place finds
\* nothing.
LEMMA ListGetBehind ==
    ASSUME NEW list, NEW k \in Nat, Enumerates(list, k), k > 1,
           NEW i \in Nat, i >= k
    PROVE  ListGet(list, i) = NULL
  BY DEF Enumerates, ListGet

LEMMA ObjectsAreCreated ==
    ASSUME IInv, irq
    PROVE  /\ Created = Objects
           /\ gNbThreads = NPrograms
           /\ Enumerates(gProcessList, NPrograms)
           /\ Enumerates(gThreadsList, NPrograms)
  BY DEF IInv, ListsAndCounters, Objects

\* NULL and WILD are no objects, and neither is one more than the other.
LEMMA ObjectsAreNotNull == NULL \notin Objects /\ WILD \notin Objects /\ NULL # WILD
  BY DEF NULL, WILD, Objects

LEMMA InitIInv == Init => IInv
  <1> SUFFICES ASSUME Init PROVE IInv
    OBVIOUS
  <1>1. Created = {} /\ 1..0 = {} /\ 0 \in 0..NPrograms
    BY NProgramsAssumption DEF Init, Created
  <1>2. TypeOK
    <2>1. 0 \in 0..NPrograms /\ 0 \in 0..(UIntModulus - 1)
      BY NProgramsAssumption, UIntAssumption
    <2>2. process \in [Objects -> [pid : 0..NPrograms, state : ProcessStates,
                                   mainThread : Objects \cup {NULL}]]
      BY <2>1 DEF Init, ProcessStates
    <2>3. thread \in [Objects -> [tid : 0..NPrograms, state : ThreadStates,
                                  process : Objects \cup {NULL}]]
      BY <2>1 DEF Init, ThreadStates
    <2>4. <<>> \in Seq(Objects)
      OBVIOUS
    <2> QED
      BY <2>1, <2>2, <2>3, <2>4 DEF Init, TypeOK
  <1>3. ListsAndCounters
    <2>1. Enumerates(<<>>, 0)
      BY DEF Enumerates
    <2> QED
      BY <1>1, <2>1 DEF Init, ListsAndCounters
  <1>4. Numbering /\ StateTellsHistory
    BY <1>1 DEF Numbering, StateTellsHistory
  <1>5. Running /\ CurrentAgree
    BY DEF Init, Running, CurrentAgree
  <1> QED
    BY <1>2, <1>3, <1>4, <1>5 DEF IInv

-----------------------------------------------------------------------------
\* Creating a process appends it to both lists and numbers it.
LEMMA CreateStep ==
    ASSUME IInv, PmCreateProcess
    PROVE  IInv'
  <1> USE DEF IInv
  <1>1. PICK k \in 0..NPrograms :
            /\ Enumerates(gProcessList, k) /\ Enumerates(gThreadsList, k)
            /\ s_CurrentProcessId = k /\ gThreadId = k /\ gNbThreads = k
            /\ Created = 1..k
    BY DEF ListsAndCounters
  <1>2. k \in Nat /\ k + 1 \in Objects /\ k + 1 \in 0..NPrograms /\ Len(gProcessList) = k
    BY <1>1, NProgramsAssumption DEF PmCreateProcess, Enumerates, Objects
  <1>3. /\ thread' = [thread EXCEPT ![k + 1] = [tid |-> k, state |-> "INIT", process |-> k + 1]]
        /\ process' = [process EXCEPT ![k + 1] =
                          [pid |-> k, state |-> "INIT", mainThread |-> k + 1]]
        /\ gThreadId' = k + 1 /\ gNbThreads' = k + 1 /\ s_CurrentProcessId' = k + 1
        /\ gThreadsList' = Append(gThreadsList, k + 1)
        /\ gProcessList' = Append(gProcessList, k + 1)
        /\ gNbProcess' = (gNbProcess + 1) % UIntModulus
        /\ ~irq /\ irq' = irq
        /\ UNCHANGED <<gCurrentThread, gCurrentProcess, pc, waitTarget, stepped, started, exited>>
    BY <1>1, <1>2 DEF PmCreateProcess, NewThread, current, history
  <1>4. gCurrentThread = NULL /\ gCurrentProcess = NULL /\ \A t \in Objects : pc[t] = "user"
    BY <1>3 DEF Running
  <1>5. Created' = 1..(k + 1)
    <2>1. \A o \in Objects : process'[o].state # "NONE" <=> o = k + 1 \/ process[o].state # "NONE"
      BY <1>2, <1>3 DEF TypeOK
    <2>2. Created' = Created \cup {k + 1}
      BY <1>2, <2>1 DEF Created
    <2> QED
      BY <1>1, <1>2, <2>2
  <1>6. TypeOK'
    <2>1. (gNbProcess + 1) % UIntModulus \in 0..(UIntModulus - 1)
      BY UIntAssumption DEF TypeOK
    <2>2. process' \in [Objects -> [pid : 0..NPrograms, state : ProcessStates,
                                    mainThread : Objects \cup {NULL}]]
      BY <1>2, <1>3 DEF TypeOK, ProcessStates
    <2>3. thread' \in [Objects -> [tid : 0..NPrograms, state : ThreadStates,
                                   process : Objects \cup {NULL}]]
      BY <1>2, <1>3 DEF TypeOK, ThreadStates
    <2> QED
      BY <1>2, <1>3, <2>1, <2>2, <2>3 DEF TypeOK
  <1>7. ListsAndCounters'
    <2>1. ASSUME NEW list, Enumerates(list, k) PROVE Enumerates(Append(list, k + 1), k + 1)
      BY <1>2, <2>1 DEF Enumerates
    <2> QED
      BY <1>1, <1>2, <1>3, <1>5, <2>1 DEF ListsAndCounters
  <1>8. Numbering'
    BY <1>1, <1>2, <1>3, <1>5 DEF Numbering, TypeOK
  <1>9. Running' /\ CurrentAgree'
    BY <1>1, <1>3, <1>4, <1>5 DEF Running, CurrentAgree
  <1>10. StateTellsHistory'
    <2>1. k + 1 \notin started
      BY <1>1, <1>2 DEF Running
    <2> QED
      BY <1>1, <1>2, <1>3, <1>5, <2>1 DEF StateTellsHistory, TypeOK
  <1> QED
    BY <1>6, <1>7, <1>8, <1>9, <1>10

\* Whichever thread is started, it is an object, and its process with it.
LEMMA StartStep ==
    ASSUME IInv, irq, NEW tid \in 0..(NPrograms - 1), PmStartThread(tid),
           UNCHANGED <<lists, gNbProcess, irq, pc, waitTarget, exited>>,
           stepped' = FALSE
    PROVE  IInv' /\ gCurrentThread' = tid + 1
  <1> USE DEF IInv
  <1>1. /\ Created = Objects /\ tid + 1 \in Objects
        /\ ListGet(gThreadsList, tid) = tid + 1
        /\ tid + 1 # NULL
    BY ObjectsAreCreated, ObjectsAreNotNull, ListGetEnumerates, NProgramsAssumption DEF Objects
  <1>2. PICK t \in Objects : t = tid + 1
    BY <1>1
  <1>3. thread[t].process = t /\ process[t].mainThread = t
    BY <1>1, <1>2 DEF Numbering
  <1>4. /\ gCurrentThread' = t /\ gCurrentProcess' = t /\ t # NULL
        /\ thread' = [thread EXCEPT ![t].state = "RUNNING"]
        /\ process' = [process EXCEPT ![t].state = "RUNNING"]
        /\ started' = started \cup {t}
    BY <1>1, <1>2, <1>3 DEF PmStartThread, ProcessOfThread, StateOfStarted
  <1>5. Created' = Created
    BY <1>1, <1>4 DEF Created, TypeOK
  <1>6. TypeOK'
    <2>1. process' \in [Objects -> [pid : 0..NPrograms, state : ProcessStates,
                                    mainThread : Objects \cup {NULL}]]
      BY <1>4 DEF TypeOK, ProcessStates
    <2>2. thread' \in [Objects -> [tid : 0..NPrograms, state : ThreadStates,
                                   process : Objects \cup {NULL}]]
      BY <1>4 DEF TypeOK, ThreadStates
    <2> QED
      BY <1>4, <2>1, <2>2 DEF TypeOK, lists
  <1>7. ListsAndCounters'
    BY <1>5 DEF ListsAndCounters, lists, Enumerates
  <1>8. Numbering'
    BY <1>4, <1>5 DEF Numbering, TypeOK
  <1>9. Running'
    BY <1>1, <1>4, <1>5 DEF Running
  <1>10. CurrentAgree'
    BY <1>3, <1>4 DEF CurrentAgree, TypeOK
  <1>11. StateTellsHistory'
    BY <1>1, <1>4, <1>5 DEF StateTellsHistory, TypeOK
  <1> QED
    BY <1>2, <1>4, <1>6, <1>7, <1>8, <1>9, <1>10, <1>11

\* The first thread of the list has tid 0.
LEMMA FirstTid ==
    ASSUME IInv, ScheduleFirst
    PROVE  thread[ListTop(gThreadsList)].tid = 0 /\ 0 \in 0..(NPrograms - 1)
  <1>1. ListTop(gThreadsList) = 1 /\ 1 \in Created
    BY ObjectsAreCreated, NProgramsAssumption
    DEF ScheduleFirst, ListTop, Enumerates, Objects
  <1> QED
    BY <1>1, NProgramsAssumption DEF IInv, Numbering

\* The tid after that of thread o is o modulo the number of threads.
LEMMA NextTid ==
    ASSUME IInv, ScheduleNext
    PROVE  /\ GetNextThreadTid = gCurrentThread % NPrograms
           /\ GetNextThreadTid \in 0..(NPrograms - 1)
  <1>1. irq /\ gNbThreads = NPrograms /\ gCurrentThread \in Created /\ gCurrentThread \in Nat
    BY ObjectsAreCreated DEF ScheduleNext, IInv, TypeOK, Objects
  <1>2. thread[gCurrentThread].tid = gCurrentThread - 1
    BY <1>1 DEF IInv, Numbering
  <1> QED
    BY <1>1, <1>2, NProgramsAssumption DEF GetNextThreadTid

LEMMA SchedulesStep ==
    ASSUME IInv, Schedules
    PROVE  IInv'
  <1>1. CASE ScheduleFirst
    BY <1>1, FirstTid, StartStep DEF ScheduleFirst
  <1>2. CASE ScheduleNext
    BY <1>2, NextTid, StartStep DEF ScheduleNext
  <1> QED
    BY <1>1, <1>2 DEF Schedules

\* A step of a system call that changes neither states nor current objects.
LEMMA CallStep ==
    ASSUME IInv, irq, TypeOK',
           UNCHANGED <<lists, process, thread, current, irq, history>>
    PROVE  IInv'
  BY DEF IInv, ListsAndCounters, Numbering, Running, CurrentAgree, StateTellsHistory,
         Created, Enumerates, lists, current, history

\* What GetProcessFromPid returns is a pointer or what a null pointer gives.
LEMMA TargetType ==
    ASSUME IInv, irq, NEW pid \in Int
    PROVE  GetProcessFromPid(pid) \in Objects \cup {NULL, WILD}
  <1>1. Enumerates(gProcessList, NPrograms)
    BY ObjectsAreCreated
  <1> QED
    BY <1>1, NProgramsAssumption DEF GetProcessFromPid, ListGet, Enumerates, Objects

LEMMA ThreadStep ==
    ASSUME IInv, NEW t \in Objects, Step(t) \/ SysCall(t)
    PROVE  IInv'
  <1> USE DEF IInv
  <1>r. /\ irq /\ gCurrentThread = t /\ t # NULL /\ gCurrentProcess = t
        /\ t \in started /\ t \in Created
    BY DEF Step, SysCall, UserStep, SysWaitSpin, SysWaitReturn, SysExitCount, SysWait, SysExit,
           Runs, Running
  <1>1. CASE UserStep(t) \/ SysWaitSpin(t)
    <2>1. TypeOK'
      BY <1>1 DEF UserStep, SysWaitSpin, TypeOK, lists, current, history
    <2> QED
      BY <1>1, <1>r, <2>1, CallStep DEF UserStep, SysWaitSpin
  <1>2. CASE SysWaitReturn(t)
    <2>1. TypeOK'
      BY <1>2 DEF SysWaitReturn, TypeOK, lists, current, history
    <2> QED
      BY <1>2, <1>r, <2>1, CallStep DEF SysWaitReturn
  <1>3. CASE SysExitCount(t)
    <2>1. CountedOut \in 0..(UIntModulus - 1)
      BY UIntAssumption DEF CountedOut, TypeOK
    <2>2. TypeOK'
      BY <1>3, <2>1 DEF SysExitCount, TypeOK, lists, current, history
    <2> QED
      BY <1>3, <1>r, <2>2, CallStep DEF SysExitCount
  <1>4. ASSUME NEW pid \in Pids, SysWait(t, pid) PROVE IInv'
    <2>1. GetProcessFromPid(pid) \in Objects \cup {NULL, WILD}
      BY <1>r, TargetType, PidsAssumption
    <2>2. TypeOK'
      BY <1>4, <2>1 DEF SysWait, TypeOK, lists, current, history
    <2> QED
      BY <1>4, <1>r, <2>2, CallStep DEF SysWait
  <1>5. CASE SysExit(t)
    <2>1. /\ process' = [process EXCEPT ![t].state = "DEAD"]
          /\ exited' = exited \cup {t}
          /\ pc' = [pc EXCEPT ![t] = "exit"]
          /\ stepped' = TRUE
          /\ UNCHANGED <<lists, gNbProcess, thread, current, irq, waitTarget, started>>
      BY <1>5, <1>r DEF SysExit
    <2>2. Created' = Created
      BY <1>r, <2>1 DEF Created, TypeOK
    <2>3. TypeOK'
      <3>1. process' \in [Objects -> [pid : 0..NPrograms, state : ProcessStates,
                                      mainThread : Objects \cup {NULL}]]
        BY <2>1 DEF TypeOK, ProcessStates
      <3> QED
        BY <2>1, <3>1 DEF TypeOK, lists, current
    <2>4. ListsAndCounters'
      BY <2>1, <2>2 DEF ListsAndCounters, lists, Enumerates
    <2>5. Numbering' /\ CurrentAgree'
      BY <2>1, <2>2 DEF Numbering, CurrentAgree, TypeOK, current
    <2>6. Running'
      BY <1>r, <2>1, <2>2 DEF Running, TypeOK, current
    <2>7. StateTellsHistory'
      BY <1>r, <2>1, <2>2 DEF StateTellsHistory, TypeOK
    <2> QED
      BY <2>3, <2>4, <2>5, <2>6, <2>7
  <1> QED
    BY <1>1, <1>2, <1>3, <1>4, <1>5 DEF Step, SysCall

LEMMA NextIInv == IInv /\ [Next]_vars => IInv'
  <1> SUFFICES ASSUME IInv, [Next]_vars PROVE IInv'
    OBVIOUS
  <1>1. CASE PmCreateProcess
    BY <1>1, CreateStep
  <1>2. CASE EnableIrq
    <2>1. irq' = TRUE /\ UNCHANGED <<lists, gNbProcess, process, thread, current, pc,
                                       waitTarget, stepped, history>>
      BY <1>2 DEF EnableIrq
    <2>2. ListsAndCounters'
      <3>1. PICK k \in 0..NPrograms :
                /\ Enumerates(gProcessList, k) /\ Enumerates(gThreadsList, k)
                /\ s_CurrentProcessId = k /\ gThreadId = k /\ gNbThreads = k
                /\ Created = 1..k
        BY DEF IInv, ListsAndCounters
      <3>2. k = NPrograms
        BY <1>2, <3>1 DEF EnableIrq, Enumerates
      <3>3. Created' = Created
        BY <2>1 DEF Created
      <3> QED
        BY <2>1, <3>1, <3>2, <3>3 DEF ListsAndCounters, Enumerates, lists
    <2>3. TypeOK' /\ Numbering' /\ CurrentAgree' /\ StateTellsHistory'
      BY <2>1 DEF IInv, TypeOK, Numbering, CurrentAgree, StateTellsHistory, Created, lists,
                  current, history
    <2>4. Running'
      BY <2>1 DEF IInv, Running, Created, current, history
    <2> QED
      BY <2>2, <2>3, <2>4 DEF IInv
  <1>3. CASE Schedules
    BY <1>3, SchedulesStep
  <1>4. ASSUME NEW t \in Objects, Step(t) \/ SysCall(t) PROVE IInv'
    BY <1>4, ThreadStep
  <1>5. CASE UNCHANGED vars
    BY <1>5 DEF IInv, TypeOK, ListsAndCounters, Numbering, Running, CurrentAgree,
                StateTellsHistory, Created, Enumerates, vars, lists, current, history
  <1> QED
    BY <1>1, <1>2, <1>3, <1>4, <1>5 DEF Next

LEMMA Invariance == Spec => []IInv
  BY InitIInv, NextIInv, PTL DEF Spec

-----------------------------------------------------------------------------
\* Every variable keeps the values of its C type, and the pointers point to
\* objects, for every number of programs.
THEOREM TypeCorrect == Spec => []TypeOK
  <1>1. IInv => TypeOK
    BY DEF IInv
  <1> QED
    BY <1>1, Invariance, PTL

\* Looking a thread or a process up by its number and walking to that place
\* of the list are the same (scheduler.c:17, process_manager.c:102,
\* process.c:24).
THEOREM LookupIsByPlace == Spec => []IndexIsIdentity
  <1>1. IInv => IndexIsIdentity
    <2> SUFFICES ASSUME IInv PROVE IndexIsIdentity
      OBVIOUS
    <2>1. PICK k \in 0..NPrograms :
            /\ Enumerates(gProcessList, k) /\ Enumerates(gThreadsList, k)
            /\ gNbThreads = k /\ Created = 1..k
      BY DEF IInv, ListsAndCounters
    <2>2. ASSUME NEW o \in Created
          PROVE  /\ ListGet(gThreadsList, thread[o].tid) = o
                 /\ ListGet(gProcessList, process[o].pid) = o
      <3>1. thread[o].tid = o - 1 /\ process[o].pid = o - 1 /\ o - 1 \in 0..(k - 1)
        BY <2>1 DEF IInv, Numbering
      <3> QED
        BY <2>1, <3>1, ListGetEnumerates
    <2>3. ASSUME NEW tid \in 0..(gNbThreads - 1)
          PROVE  \E o \in Created : thread[o].tid = tid
      <3>1. tid + 1 \in Created
        BY <2>1
      <3>2. thread[tid + 1].tid = tid
        BY <2>1, <3>1 DEF IInv, Numbering
      <3> QED
        BY <3>1, <3>2
    <2> QED
      BY <2>2, <2>3 DEF IndexIsIdentity
  <1> QED
    BY <1>1, Invariance, PTL

\* System calls act upon the process of the thread that makes them
\* (process_manager.c:102-117).
THEOREM CurrentObjectsAgree == Spec => []CurrentAgree
  <1>1. IInv => CurrentAgree
    BY DEF IInv
  <1> QED
    BY <1>1, Invariance, PTL

\* The lists, the counters and the current pointers agree in every state
\* (process_manager.c:29-117, thread.c, list.c).
THEOREM ObjectsAlwaysAgree == Spec => []ObjectsAgree
  <1>1. TypeOK /\ IndexIsIdentity /\ CurrentAgree => ObjectsAgree
    BY DEF ObjectsAgree
  <1> QED
    BY <1>1, TypeCorrect, LookupIsByPlace, CurrentObjectsAgree, PTL

\* The state of a process tells whether it has run, and DEAD that it has
\* called exit (process_manager.c:117, syscalls.c:312).
THEOREM StatesTellHistory == Spec => []StateTellsHistory
  <1>1. IInv => StateTellsHistory
    BY DEF IInv
  <1> QED
    BY <1>1, Invariance, PTL

-----------------------------------------------------------------------------
\* In lists of two elements at least, what SysWait finds for a pid that it
\* does not refuse is another process than its own.
LEMMA TargetIsAnother ==
    ASSUME IInv, irq, gCurrentThread # NULL, NPrograms > 1,
           NEW pid \in Int, ~WaitRefused(pid), GetProcessFromPid(pid) # NULL
    PROVE  LET p == GetProcessFromPid(pid) IN
            /\ p \in Created
            /\ p # thread[gCurrentThread].process
            /\ process[p].pid # 0
  <1>1. Created = Objects /\ Enumerates(gProcessList, NPrograms)
    BY ObjectsAreCreated
  <1>2. pid \in Nat /\ pid # 0 /\ process[gCurrentProcess].pid # pid
    BY DEF GetProcessFromPid, WaitRefused
  <1>3. pid < NPrograms
    BY <1>1, <1>2, ListGetBehind, NProgramsAssumption DEF GetProcessFromPid
  <1>4. GetProcessFromPid(pid) = pid + 1 /\ pid + 1 \in Created
    BY <1>1, <1>2, <1>3, ListGetEnumerates, NProgramsAssumption DEF GetProcessFromPid, Objects
  <1>5. process[pid + 1].pid = pid
    BY <1>2, <1>4 DEF IInv, Numbering
  <1>6. gCurrentProcess = thread[gCurrentThread].process
    BY DEF IInv, CurrentAgree
  <1> QED
    BY <1>2, <1>4, <1>5, <1>6

\* No step makes a thread wait for its own process or for process 0.
LEMMA WaitStep ==
    ASSUME IInv, WaitsForAnother, [Next]_vars, NPrograms > 1
    PROVE  WaitsForAnother'
  <1>1. ASSUME UNCHANGED <<pc, waitTarget>>,
               \A o \in Created : /\ o \in Created'
                                  /\ process'[o].pid = process[o].pid
                                  /\ thread'[o].process = thread[o].process,
               \A t \in Objects : pc[t] = "wait" => t \in Created
        PROVE  WaitsForAnother'
    BY <1>1 DEF WaitsForAnother
  <1>2. \A t \in Objects : pc[t] = "wait" => irq /\ Created = Objects
    BY ObjectsAreCreated DEF IInv, Running
  <1>3. ASSUME UNCHANGED <<process, thread>>,
               NEW t \in Objects, pc' = [pc EXCEPT ![t] = pc'[t]],
               waitTarget' = [waitTarget EXCEPT ![t] = waitTarget'[t]],
               pc'[t] # "wait"
        PROVE  WaitsForAnother'
    BY <1>3 DEF WaitsForAnother, Created, IInv, TypeOK
  <1>4. CASE PmCreateProcess
    BY <1>4, <1>2 DEF PmCreateProcess, WaitsForAnother
  <1>5. CASE EnableIrq \/ UNCHANGED vars
    BY <1>5 DEF EnableIrq, WaitsForAnother, Created, vars
  <1>6. CASE Schedules
    <2>1. PICK tid \in 0..(NPrograms - 1) :
            /\ irq /\ PmStartThread(tid) /\ stepped' = FALSE
            /\ UNCHANGED <<lists, gNbProcess, irq, pc, waitTarget, exited>>
      BY <1>6, FirstTid, NextTid DEF Schedules, ScheduleFirst, ScheduleNext
    <2>2. IInv' /\ Created = Objects
      BY <2>1, StartStep, ObjectsAreCreated
    <2>3. \A o \in Objects : /\ o \in Created'
                             /\ process'[o].pid = o - 1 /\ process[o].pid = o - 1
                             /\ thread'[o].process = o /\ thread[o].process = o
      <3>1. irq' /\ Created' = Objects
        BY <2>1, <2>2, ObjectsAreCreated DEF IInv, ListsAndCounters, Objects
      <3> QED
        BY <2>2, <3>1 DEF IInv, Numbering
    <2> QED
      BY <2>1, <2>2, <2>3 DEF WaitsForAnother
  <1>7. ASSUME NEW t \in Objects, UserStep(t) \/ SysWaitSpin(t) PROVE WaitsForAnother'
    BY <1>7 DEF UserStep, SysWaitSpin, WaitsForAnother, Created
  <1>8. ASSUME NEW t \in Objects, SysWaitReturn(t) \/ SysExitCount(t) PROVE WaitsForAnother'
    BY <1>8, <1>3 DEF SysWaitReturn, SysExitCount, IInv, TypeOK
  <1>9. ASSUME NEW t \in Objects, NEW pid \in Pids, SysWait(t, pid) PROVE WaitsForAnother'
    <2>1. /\ irq /\ gCurrentThread = t /\ t # NULL /\ pid \in Int
          /\ process' = process /\ thread' = thread
      BY <1>9, PidsAssumption DEF SysWait, Runs
    <2>2. CASE WaitRefused(pid) \/ GetProcessFromPid(pid) = NULL
      BY <1>9, <2>1, <2>2 DEF SysWait, WaitsForAnother, Created
    <2>3. CASE ~(WaitRefused(pid) \/ GetProcessFromPid(pid) = NULL)
      <3>1. /\ pc' = [pc EXCEPT ![t] = "wait"]
            /\ waitTarget' = [waitTarget EXCEPT ![t] = GetProcessFromPid(pid)]
        BY <1>9, <2>3 DEF SysWait
      <3>2. LET p == GetProcessFromPid(pid) IN
                p \in Created /\ p # thread[t].process /\ process[p].pid # 0
        BY <2>1, <2>3, TargetIsAnother
      <3> QED
        BY <2>1, <3>1, <3>2 DEF WaitsForAnother, Created, IInv, TypeOK
    <2> QED
      BY <2>2, <2>3
  <1>10. ASSUME NEW t \in Objects, SysExit(t) PROVE WaitsForAnother'
    BY <1>10 DEF SysExit, WaitsForAnother, Created, IInv, TypeOK, Runs
  <1> QED
    BY <1>4, <1>5, <1>6, <1>7, <1>8, <1>9, <1>10 DEF Next, Step, SysCall

\* With two programs at least, nobody waits for itself, for process 0 or for
\* a process that does not exist (syscalls.c:257-286).  With one program it
\* is false: ListGet then reads through a null pointer (list.c:102-109).
THEOREM WaitsAreForOthers == NPrograms > 1 /\ Spec => []WaitsForAnother
  <1>1. Init => WaitsForAnother
    BY DEF Init, WaitsForAnother
  <1>2. NPrograms > 1 /\ IInv /\ WaitsForAnother /\ [Next]_vars => WaitsForAnother'
    BY WaitStep
  <1>3. CASE NPrograms > 1
    BY <1>1, <1>2, <1>3, Invariance, PTL DEF Spec
  <1>4. CASE ~(NPrograms > 1)
    BY <1>4
  <1> QED
    BY <1>3, <1>4

\* SysWait never returns while the process it waits for has started and has
\* not called exit (syscalls.c:288), for every number of programs: where
\* the process was read through a null pointer there is no such process.
THEOREM WaitsLongEnough == Spec => NoEarlyReturn
  <1>1. ASSUME IInv, [Next]_vars, NEW t \in Objects, pc[t] = "wait", pc'[t] = "user"
        PROVE  waitTarget[t] \notin started \/ waitTarget[t] \in exited
    <2>1. SysWaitReturn(t)
      <3>1. CASE PmCreateProcess \/ EnableIrq \/ Schedules \/ UNCHANGED vars
        BY <1>1, <3>1 DEF PmCreateProcess, EnableIrq, Schedules, ScheduleFirst, ScheduleNext, vars
      <3>2. ASSUME NEW u \in Objects, Step(u) \/ SysCall(u) PROVE SysWaitReturn(t)
        BY <1>1, <3>2 DEF Step, SysCall, UserStep, SysWaitSpin, SysWaitReturn, SysExitCount,
                          SysWait, SysExit, IInv, TypeOK
      <3> QED
        BY <1>1, <3>1, <3>2 DEF Next
    <2>2. CASE waitTarget[t] \in Objects
      <3>1. Created = Objects /\ process[waitTarget[t]].state \in ProcessStates
        BY <1>1, <2>1, <2>2, ObjectsAreCreated DEF SysWaitReturn, Runs, IInv, TypeOK
      <3>2. process[waitTarget[t]].state # "RUNNING"
        BY <2>1, <2>2, ObjectsAreNotNull DEF SysWaitReturn, SeenRunning
      <3>3. process[waitTarget[t]].state \in {"INIT", "DEAD"}
        BY <2>2, <3>1, <3>2 DEF ProcessStates, Created
      <3> QED
        BY <1>1, <2>2, <3>1, <3>3 DEF IInv, StateTellsHistory
    <2>3. CASE waitTarget[t] \notin Objects
      BY <1>1, <2>3 DEF IInv, TypeOK
    <2> QED
      BY <2>2, <2>3
  <1>2. IInv /\ [Next]_vars =>
            [\A t \in Objects : (pc[t] = "wait" /\ pc'[t] = "user") =>
                waitTarget[t] \notin started \/ waitTarget[t] \in exited]_vars
    BY <1>1
  <1> QED
    BY <1>2, Invariance, PTL DEF Spec, NoEarlyReturn

-----------------------------------------------------------------------------
\* The safety part of ImplementsRoundRobin: the first state and every step
\* of the process manager are the rotation's.  (That the rotation goes on is
\* fairness, which the run process_manager checks.)
THEOREM RotatesSafely == Spec => Abstract!Init /\ [][Abstract!Next]_gCurrentThread
  <1>1. Init => Abstract!Init
    BY DEF Init, Abstract!Init, NULL
  <1>2. ASSUME IInv, [Next]_vars PROVE [Abstract!Next]_gCurrentThread
    <2>1. CASE ScheduleFirst
      <3>1. PICK tid \in 0..(NPrograms - 1) : tid = 0
        BY NProgramsAssumption
      <3>2. PmStartThread(tid)
        BY <1>2, <2>1, <3>1, FirstTid DEF ScheduleFirst
      <3>3. gCurrentThread' = tid + 1
        BY <1>2, <2>1, <3>2, StartStep DEF ScheduleFirst
      <3>4. gCurrentThread' = 1
        BY <3>1, <3>3
      <3> QED
        BY <2>1, <3>4 DEF ScheduleFirst, Abstract!Next, Abstract!First, NULL
    <2>2. CASE ScheduleNext
      <3>1. gCurrentThread' = (gCurrentThread % NPrograms) + 1
        BY <1>2, <2>2, NextTid, StartStep DEF ScheduleNext
      <3> QED
        BY <2>2, <3>1 DEF ScheduleNext, Abstract!Next, Abstract!Rotate, NULL
    <2>3. CASE PmCreateProcess \/ EnableIrq \/ UNCHANGED vars
      BY <2>3 DEF PmCreateProcess, EnableIrq, vars, current
    <2>4. ASSUME NEW t \in Objects, Step(t) \/ SysCall(t) PROVE UNCHANGED gCurrentThread
      BY <2>4 DEF Step, SysCall, UserStep, SysWaitSpin, SysWaitReturn, SysExitCount,
                  SysWait, SysExit, current
    <2> QED
      BY <1>2, <2>1, <2>2, <2>3, <2>4 DEF Next, Schedules
  <1>3. IInv /\ [Next]_vars => [Abstract!Next]_gCurrentThread
    BY <1>2
  <1> QED
    BY <1>1, <1>3, Invariance, PTL DEF Spec
=============================================================================
