------------------------------ MODULE Debugger ------------------------------
(***************************************************************************)
(* The kernel's half of the remote debugger: the breakpoint and single     *)
(* step interrupts and the loop that serves the host's requests over the   *)
(* serial port (kernel/debug/ltdbg.c, ltdbgcom.c).                         *)
(*                                                                         *)
(* The host may send any packet at any time; the interrupts are masked     *)
(* while the program is stopped, so that nothing else runs.  What matters  *)
(* of a packet is its command and the size of its parameters; of a block   *)
(* of the heap, whether the debugger holds it, has given it back but kept  *)
(* the pointer, or has lost it.                                            *)
(***************************************************************************)
EXTENDS Integers

CONSTANTS
    MaxStops,       \* bound on the stops of the program
    MaxRequests     \* bound on the packets of the host

ASSUME BoundsAssumption == MaxStops \in Nat /\ MaxRequests \in Nat

Resuming == {"step", "continue", "quit"}
Served == Resuming \cup {"registers", "disass", "stack", "memory", "bp"}
Commands == Served \cup {"connect", "unknown"}      \* unknown: bl and the rest
DISASS_PARAM == 4       \* sizeof(KeDebugDisassParamReq)
MEMORY_PARAM == 8       \* sizeof(KeDebugMemoryParamReq)
Sizes == {0, DISASS_PARAM, MEMORY_PARAM}

\* A pointer: null, to a block that is allocated, or to one given back.
NULL == "null"
LIVE == "live"
FREED == "freed"
Pointers == {NULL, LIVE, FREED}

Requests == [command : Commands, paramSize : Sizes, param : Pointers]
Statuses == {"success", "failure", "wrong parameter", "memory unavailable"}
Responses == [command : Commands, status : Statuses, dataSize : {0, 1}, data : Pointers]

\* What the host sends: a request, or a packet of size 0.  (For sizes that are
\* too large see ConnectFails and ReceiveFails.)
Packets == [size : {1}, command : Commands, paramSize : Sizes] \cup [size : {0}]

VARIABLES
    pc,                 \* where the debugger is; "program": it is not entered,
                        \*   "broken": a command has brought the machine down
    gDbgInitialized,
    trap,               \* the trap flag in the eflags of the program
    request,            \* locals of WaitForPacket; dataSize is 1 when it is
    response,           \*   not 0
    running,            \* what the last command returned
    repeated,           \* history: the last packet was empty
    filled,             \* history: the last command has set the response's data
    lost,               \* how many blocks are allocated and known to nobody
    stops, requests     \* counted for the bounds

vars == <<pc, gDbgInitialized, trap, request, response, running, repeated, filled,
          lost, stops, requests>>
locals == <<request, response, running, repeated, filled>>

\* { 0 }: command 0 is CMD_CONNECT, status 0 is DBG_STATUS_SUCCESS.
NoRequest == [command |-> "connect", paramSize |-> 0, param |-> NULL]
NoResponse == [command |-> "connect", status |-> "success", dataSize |-> 0, data |-> NULL]

FreshLocals ==
    /\ request' = NoRequest
    /\ response' = NoResponse
    /\ running' = FALSE
    /\ repeated' = FALSE
    /\ filled' = FALSE

\* DbgInit, before the __debugbreak of KernelInit.
Init ==
    /\ pc = "program"
    /\ gDbgInitialized = FALSE
    /\ trap = FALSE
    /\ request = NoRequest
    /\ response = NoResponse
    /\ running = FALSE
    /\ repeated = FALSE
    /\ filled = FALSE
    /\ lost = 0
    /\ stops = 0
    /\ requests = 0

-----------------------------------------------------------------------------
(* The serial line.                                                        *)

\* SendResponse allocates a buffer for the packet and never frees it.
SendLoses == 1

\* A pointer to a block that the debugger holds is overwritten.
OverwriteLoses(p) == IF p = LIVE THEN 1 ELSE 0

\* RecvRequest: an empty packet leaves the request as it was, and a request
\* without parameters leaves the pointer to those of the one before.
RecvRequest(r, packet) ==
    IF packet.size = 0 THEN r
    ELSE [command |-> packet.command, paramSize |-> packet.paramSize,
          param |-> IF packet.paramSize > 0 THEN LIVE ELSE r.param]
RecvLoses(r, packet) ==
    IF packet.size > 0 /\ packet.paramSize > 0 THEN OverwriteLoses(r.param) ELSE 0

-----------------------------------------------------------------------------
(* The two interrupts.                                                     *)

\* BreakpointHit, then WaitForPacket.
Stopped ==
    /\ lost' = lost + SendLoses
    /\ pc' = "wait"
    /\ FreshLocals

Stop ==
    /\ pc = "program"
    /\ stops < MaxStops
    /\ stops' = stops + 1
    /\ UNCHANGED <<gDbgInitialized, trap, requests>>

\* After an instruction with the trap flag set.  A debugger that is not
\* initialised is only reported.
DebugIsr ==
    /\ Stop
    /\ trap
    /\ Stopped

\* int 3: the first stop waits for the host.
BreakpointIsr ==
    /\ Stop
    /\ IF gDbgInitialized
       THEN Stopped
       ELSE /\ pc' = "hello"
            /\ FreshLocals
            /\ UNCHANGED lost

\* WaitForConnectCommand reads the host's first byte, which should be a 1.
ReadHello(byte) ==
    /\ pc = "hello"
    /\ gDbgInitialized' = (byte = 1)
    /\ pc' = "connect"
    /\ UNCHANGED <<trap, locals, lost, stops, requests>>

\* It answers a connect request, and serves the host also without one.  Its
\* own request is never cleaned up.
Connect(packet) ==
    LET r == RecvRequest(NoRequest, packet)
        connects == r.command = "connect"
    IN  /\ pc = "connect"
        /\ requests < MaxRequests
        /\ requests' = requests + 1
        /\ gDbgInitialized' = (gDbgInitialized \/ connects)
        /\ lost' = lost + OverwriteLoses(r.param) + (IF connects THEN SendLoses ELSE 0)
        /\ pc' = "wait"
        /\ FreshLocals
        /\ UNCHANGED <<trap, stops>>

\* RecvRequest fails: kmalloc refuses a size of 2^31 or more, for the packet
\* or, when its content has been read and is lost, for the parameters.
RecvFailureLoses == {0, 1}

\* Without a connect request the first stop is served all the same.
ConnectFails ==
    /\ pc = "connect"
    /\ requests < MaxRequests
    /\ requests' = requests + 1
    /\ \E n \in RecvFailureLoses : lost' = lost + n
    /\ pc' = "wait"
    /\ FreshLocals
    /\ UNCHANGED <<gDbgInitialized, trap, stops>>

-----------------------------------------------------------------------------
(* A turn of the loop of WaitForPacket.                                    *)

Receive(packet) ==
    /\ pc = "wait"
    /\ requests < MaxRequests
    /\ requests' = requests + 1
    /\ request' = RecvRequest(request, packet)
    /\ lost' = lost + RecvLoses(request, packet)
    /\ repeated' = (packet.size = 0)
    /\ pc' = "command"
    /\ UNCHANGED <<gDbgInitialized, trap, response, running, filled, stops>>

\* The program goes on.
ReceiveFails ==
    /\ pc = "wait"
    /\ requests < MaxRequests
    /\ requests' = requests + 1
    /\ \E n \in RecvFailureLoses : lost' = lost + n
    /\ pc' = "program"
    /\ FreshLocals
    /\ UNCHANGED <<gDbgInitialized, trap, stops>>

\* A command has returned.
Return(resumes, answer, fills) ==
    /\ pc = "command"
    /\ running' = resumes
    /\ response' = answer
    /\ filled' = fills
    /\ pc' = IF resumes THEN "clean" ELSE "send"
    /\ UNCHANGED <<gDbgInitialized, request, repeated, stops, requests>>

\* Mutant: the data of the response before stays in it.
AnswerKeepsData(status) ==
    [response EXCEPT !.command = request.command, !.status = status]

\* An answer without data.
Answer(status) ==
    [command |-> request.command, status |-> status, dataSize |-> 0, data |-> NULL]

\* An answer with a new block of data.
AnswerWithData ==
    [command |-> request.command, status |-> "success", dataSize |-> 1, data |-> LIVE]

Resume ==
    /\ request.command \in Resuming
    /\ Return(TRUE, Answer("success"), TRUE)
    /\ trap' = (request.command = "step")
    /\ UNCHANGED lost

RegistersCommand ==
    /\ request.command = "registers"
    /\ Return(FALSE, Answer("success"), TRUE)
    /\ UNCHANGED <<trap, lost>>

\* Without parameters or instructions the response keeps its data.
DisassNothing ==
    /\ request.command = "disass"
    /\ \E status \in IF request.paramSize = 0 \/ request.param = NULL
                     THEN {"failure"} ELSE {"success"} :
          Return(FALSE, [response EXCEPT !.command = "disass", !.status = status], FALSE)
    /\ UNCHANGED <<trap, lost>>

DisassCommand ==
    /\ request.command = "disass"
    /\ request.paramSize # 0 /\ request.param # NULL
    /\ Return(FALSE, AnswerWithData, TRUE)
    /\ lost' = lost + OverwriteLoses(response.data)
    /\ UNCHANGED trap

\* The machine is lost inside a command: the kernel is overwritten, or the page
\* fault handler stops for good.
Breaks ==
    /\ pc = "command"
    /\ pc' = "broken"
    /\ UNCHANGED <<gDbgInitialized, trap, request, running, repeated, filled, stops, requests>>

\* The size of the block, 12 + 20 * nbInst, may be one that kmalloc refuses (0, or
\* 2^31 and more) or may have wrapped to less than the copy that follows.  The
\* command sets the size, a failure, and writes all the same, through a null
\* pointer or past the block; or what it copies is not mapped.
DisassBreaks ==
    /\ request.command = "disass"
    /\ request.paramSize # 0 /\ request.param # NULL
    /\ Breaks
    /\ \E size \in {0, 1}, data \in {NULL, LIVE} :
          /\ data = LIVE => size = 1
          /\ response' = [command |-> "disass", dataSize |-> size, data |-> data,
                          status |-> IF data = NULL THEN "failure" ELSE response.status]
    /\ lost' = lost + OverwriteLoses(response.data)

\* A chain of frames that leaves the mapped memory, or a range that is mapped at
\* its two ends only.  What is allocated by then is lost with the machine.
CopyBreaks ==
    /\ \/ request.command = "stack"
       \/ request.command = "memory" /\ request.paramSize = MEMORY_PARAM
    /\ Breaks
    /\ UNCHANGED <<response, lost>>

\* The list of addresses is freed as it is copied; here the chain of frames ends.
StackTraceCommand ==
    /\ request.command = "stack"
    /\ Return(FALSE, AnswerWithData, TRUE)
    /\ lost' = lost + OverwriteLoses(response.data)
    /\ UNCHANGED trap

\* The range may be absent, empty (kmalloc refuses 0 bytes), or there.
MemoryFails ==
    /\ request.command = "memory"
    /\ \E status \in IF request.paramSize # MEMORY_PARAM THEN {"wrong parameter"}
                     ELSE {"memory unavailable", "failure"} :
          Return(FALSE, Answer(status), TRUE)
    /\ UNCHANGED <<trap, lost>>

MemoryCommand ==
    /\ request.command = "memory"
    /\ request.paramSize = MEMORY_PARAM
    /\ Return(FALSE, AnswerWithData, TRUE)
    /\ lost' = lost + OverwriteLoses(response.data)
    /\ UNCHANGED trap

\* There is no command yet: the response of the request before is sent again.
BpCommand ==
    /\ request.command = "bp"
    /\ Return(FALSE, response, FALSE)
    /\ UNCHANGED <<trap, lost>>

UndefinedCommand ==
    /\ request.command \notin Served
    /\ Return(FALSE, Answer("failure"), TRUE)
    /\ UNCHANGED <<trap, lost>>

\* SendResponse, which does not send a response with a size and no data.
Refused == response.dataSize # 0 /\ response.data = NULL

SendResponse ==
    /\ pc = "send"
    /\ lost' = lost + (IF Refused THEN 0 ELSE SendLoses)
    /\ pc' = "clean"
    /\ UNCHANGED <<gDbgInitialized, trap, locals, stops, requests>>

\* Mutant: nothing is freed.
CleanedNot(p) == p

\* CleanupKeDebugRequest and CleanupKeDebugResponse: the pointer stays.
Cleaned(p) == IF p = NULL THEN NULL ELSE FREED

\* kfree of a block that was given back already: it reports it, or gives
\* back a lost block that has taken its place.
Clean ==
    /\ pc = "clean"
    /\ lost' \in IF FREED \in {request.param, response.data} /\ lost > 0
                 THEN {lost, lost - 1} ELSE {lost}
    /\ IF running
       THEN /\ pc' = "program"
            /\ FreshLocals
       ELSE /\ pc' = "wait"
            /\ request' = [request EXCEPT !.param = Cleaned(@)]
            /\ response' = [response EXCEPT !.data = Cleaned(@)]
            /\ UNCHANGED <<running, repeated, filled>>
    /\ UNCHANGED <<gDbgInitialized, trap, stops, requests>>

Command ==
    \/ Resume \/ RegistersCommand \/ DisassNothing \/ DisassCommand \/ DisassBreaks
    \/ StackTraceCommand \/ MemoryFails \/ MemoryCommand \/ CopyBreaks \/ BpCommand
    \/ UndefinedCommand

Next ==
    \/ DebugIsr
    \/ BreakpointIsr
    \/ \E byte \in {0, 1} : ReadHello(byte)
    \/ \E packet \in Packets : Connect(packet)
    \/ ConnectFails
    \/ \E packet \in Packets : Receive(packet)
    \/ ReceiveFails
    \/ Command
    \/ SendResponse
    \/ Clean

Spec == Init /\ [][Next]_vars

-----------------------------------------------------------------------------
(* Properties.                                                             *)

\* A size that is not 0 has a pointer beside it, in the request always, also
\* across the turns of the loop: MemoryCommand reads the parameters without a
\* test of the pointer.  In the response it has one whenever the debugger goes on:
\* the disass whose block is refused leaves a size without data, and breaks.
TypeOK ==
    /\ pc \in {"program", "hello", "connect", "wait", "command", "send", "clean", "broken"}
    /\ gDbgInitialized \in BOOLEAN /\ trap \in BOOLEAN
    /\ request \in Requests
    /\ request.paramSize > 0 => request.param # NULL
    /\ response \in Responses
    /\ response.dataSize # 0 => response.data # NULL \/ pc = "broken"
    /\ running \in BOOLEAN /\ repeated \in BOOLEAN /\ filled \in BOOLEAN
    /\ lost \in Nat
    /\ stops \in 0..MaxStops /\ requests \in 0..MaxRequests

\* An answer that is sent is one to the request that the host made, never to an
\* earlier one: SendResponse does not refuse it, its command is that of the
\* request, and its data was made for it.  For bp this is not so, and a
\* disass of nothing has the data of the answer before.  The three commands that
\* copy memory, and no other, may break the machine before there is an answer.
AnswersTheRequest ==
    /\ TypeOK
    /\ pc = "send" =>
        /\ ~Refused
        /\ request.command # "bp" => response.command = request.command
        /\ filled /\ response.dataSize # 0 => response.data = LIVE
    /\ pc = "broken" => request.command \in {"disass", "stack", "memory"}

\* The clean-up gives a block back once.  Exactly these give one back again:
\* a request without parameters or an empty packet, the parameters of an
\* earlier request; bp and a disass of nothing, the data of an earlier answer.
FreesOwn ==
    pc = "clean" =>
        /\ request.param = FREED => repeated \/ request.paramSize = 0
        /\ response.data = FREED => request.command \in {"bp", "disass"} /\ ~filled

\* The debugger loses the buffer of each packet that it sends and the
\* parameters of a connect request, and nothing else, however long the host
\* goes on: never more than one block for each stop and each packet.
LeakIsBounded == lost <= stops + requests
=============================================================================
