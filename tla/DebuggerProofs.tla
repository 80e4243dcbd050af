--------------------------- MODULE DebuggerProofs ---------------------------
(***************************************************************************)
(* The properties of the debugger's loop, for any number of stops and      *)
(* packets.                                                                *)
(***************************************************************************)
EXTENDS Debugger, TLAPS

\* Between two turns of the loop the debugger holds no block.
HoldsNothing == pc = "wait" => request.param # LIVE /\ response.data # LIVE

\* From the packet to the clean-up: the parameters are those of this request,
\* or the request came without any.
ParamIsOwn ==
    pc \in {"command", "send", "clean"} =>
        (request.param = FREED => repeated \/ request.paramSize = 0)

\* A command finds a response that holds nothing.
CommandFinds == pc = "command" => response.data # LIVE

\* What a command leaves to SendResponse and to the clean-up.
CommandLeaves ==
    pc \in {"send", "clean"} =>
        /\ request.command # "bp" => response.command = request.command
        /\ filled => (response.dataSize # 0 => response.data = LIVE) /\ response.data # FREED
        /\ ~filled => request.command \in {"bp", "disass"}

\* A stop is paid for before its notification is sent, a packet before its
\* answer.
LossIsPaid ==
    lost <= stops + requests - (IF pc \in {"hello", "connect", "command", "send"} THEN 1 ELSE 0)

\* Only a command that copies memory breaks the machine.
BreaksIn == pc = "broken" => request.command \in {"disass", "stack", "memory"}

IInv ==
    /\ TypeOK
    /\ HoldsNothing /\ ParamIsOwn /\ CommandFinds /\ CommandLeaves
    /\ LossIsPaid
    /\ BreaksIn

\* The locals of a loop that has just been entered.
LEMMA FreshLocalsAreTyped ==
    ASSUME FreshLocals
    PROVE  /\ request' \in Requests /\ response' \in Responses
           /\ request'.paramSize = 0 /\ request'.param = NULL
           /\ response'.dataSize = 0 /\ response'.data = NULL
           /\ running' \in BOOLEAN /\ repeated' \in BOOLEAN /\ filled' \in BOOLEAN
  BY DEF FreshLocals, NoRequest, NoResponse, Requests, Responses, Commands, Sizes, Pointers,
     Statuses, NULL, LIVE, FREED

\* RecvRequest gives a request, whose parameters are new or as they were.
LEMMA RecvRequestIsTyped ==
    ASSUME NEW r \in Requests, NEW packet \in Packets, r.paramSize > 0 => r.param # NULL
    PROVE  /\ RecvRequest(r, packet) \in Requests
           /\ RecvRequest(r, packet).paramSize > 0 => RecvRequest(r, packet).param # NULL
           /\ packet.size > 0 /\ packet.paramSize > 0 => RecvRequest(r, packet).param = LIVE
           /\ packet.size > 0 => RecvRequest(r, packet).paramSize = packet.paramSize
           /\ packet.size \in {0, 1}
           /\ packet.size = 1 => packet.paramSize \in Sizes
  BY DEF RecvRequest, Requests, Packets, Commands, Sizes, Pointers, NULL, LIVE, FREED,
     DISASS_PARAM, MEMORY_PARAM

LEMMA InitIInv == Init => IInv
  <1> SUFFICES ASSUME Init
               PROVE  IInv
    OBVIOUS
  <1>1. request \in Requests /\ request.paramSize = 0
    BY DEF Init, NoRequest, Requests, Commands, Sizes, Pointers
  <1>2. response \in Responses /\ response.dataSize = 0
    BY DEF Init, NoResponse, Responses, Commands, Pointers, Statuses
  <1>3. TypeOK
    <2>1. /\ gDbgInitialized \in BOOLEAN /\ trap \in BOOLEAN /\ running \in BOOLEAN
          /\ repeated \in BOOLEAN /\ filled \in BOOLEAN
      BY DEF Init
    <2>2. lost \in Nat /\ stops \in 0..MaxStops /\ requests \in 0..MaxRequests
      BY BoundsAssumption DEF Init
    <2>3. pc = "program"
      BY DEF Init
    <2> QED
      BY <1>1, <1>2, <2>1, <2>2, <2>3 DEF TypeOK
  <1>4. HoldsNothing /\ ParamIsOwn /\ CommandFinds /\ CommandLeaves /\ BreaksIn
    BY DEF Init, HoldsNothing, ParamIsOwn, CommandFinds, CommandLeaves, BreaksIn
  <1>5. LossIsPaid
    BY DEF Init, LossIsPaid
  <1> QED
    BY <1>3, <1>4, <1>5 DEF IInv

\* A command that returns a typed answer, which holds data or loses none.
LEMMA ReturnKeeps ==
    ASSUME IInv, NEW resumes \in BOOLEAN, NEW answer \in Responses, NEW fills \in BOOLEAN,
           Return(resumes, answer, fills), trap' \in BOOLEAN, lost' = lost,
           answer.dataSize # 0 => answer.data # NULL,
           request.command # "bp" => answer.command = request.command,
           fills => (answer.dataSize # 0 => answer.data = LIVE) /\ answer.data # FREED,
           ~fills => request.command \in {"bp", "disass"}
    PROVE  IInv'
  BY BoundsAssumption DEF Return, IInv, TypeOK, HoldsNothing, ParamIsOwn, CommandFinds,
     CommandLeaves, LossIsPaid, BreaksIn, Requests

\* A command that breaks the machine leaves any response.
LEMMA BreaksKeeps ==
    ASSUME IInv, Breaks, response' \in Responses, lost' = lost,
           request.command \in {"disass", "stack", "memory"}
    PROVE  IInv'
  BY BoundsAssumption DEF Breaks, IInv, TypeOK, HoldsNothing, ParamIsOwn, CommandFinds,
     CommandLeaves, LossIsPaid, BreaksIn, Requests

\* The two forms that an answer has.
LEMMA AnswersAreTyped ==
    ASSUME IInv
    PROVE  /\ \A status \in Statuses :
                /\ Answer(status) \in Responses
                /\ Answer(status).command = request.command
                /\ Answer(status).dataSize = 0 /\ Answer(status).data = NULL
           /\ AnswerWithData \in Responses
           /\ AnswerWithData.command = request.command
           /\ AnswerWithData.data = LIVE
  BY DEF IInv, TypeOK, Answer, AnswerWithData, Requests, Responses, Pointers, Statuses, NULL,
     LIVE, FREED

LEMMA CommandKeeps ==
    ASSUME IInv, Command, pc = "command"
    PROVE  IInv'
  <1> USE AnswersAreTyped DEF NULL, LIVE, FREED
  <1>1. /\ request.command \in Commands /\ response \in Responses /\ trap \in BOOLEAN
        /\ response.dataSize # 0 => response.data # NULL
        /\ OverwriteLoses(response.data) = 0
        /\ lost \in Nat
    BY DEF IInv, TypeOK, CommandFinds, Requests, OverwriteLoses
  <1>2. CASE Resume
    BY <1>1, <1>2, ReturnKeeps DEF Resume, Resuming, Statuses
  <1>3. CASE RegistersCommand
    BY <1>1, <1>3, ReturnKeeps DEF RegistersCommand, Statuses
  <1>4. CASE DisassNothing
    <2>1. PICK status \in {"failure", "success"} :
            Return(FALSE, [response EXCEPT !.command = "disass", !.status = status], FALSE)
      BY <1>4 DEF DisassNothing
    <2> DEFINE answer == [response EXCEPT !.command = "disass", !.status = status]
    <2>2. answer \in Responses /\ answer.command = "disass"
          /\ (answer.dataSize # 0 => answer.data # NULL)
      BY <1>1 DEF Responses, Statuses, Commands, Served
    <2> QED
      BY <1>1, <1>4, <2>1, <2>2, ReturnKeeps DEF DisassNothing
  <1>5. CASE DisassCommand
    <2>1. Return(FALSE, AnswerWithData, TRUE) /\ trap' = trap
      BY <1>5 DEF DisassCommand
    <2>2. lost' = lost
      BY <1>1, <1>5 DEF DisassCommand
    <2>3. /\ AnswerWithData \in Responses
          /\ AnswerWithData.dataSize # 0 => AnswerWithData.data # NULL
          /\ AnswerWithData.command = request.command
          /\ AnswerWithData.data = LIVE /\ AnswerWithData.data # FREED
      BY AnswersAreTyped
    <2> QED
      BY <1>1, <2>1, <2>2, <2>3, ReturnKeeps
  <1>6. CASE StackTraceCommand
    <2>1. Return(FALSE, AnswerWithData, TRUE) /\ trap' = trap
      BY <1>6 DEF StackTraceCommand
    <2>2. lost' = lost
      BY <1>1, <1>6 DEF StackTraceCommand
    <2>3. /\ AnswerWithData \in Responses
          /\ AnswerWithData.dataSize # 0 => AnswerWithData.data # NULL
          /\ AnswerWithData.command = request.command
          /\ AnswerWithData.data = LIVE /\ AnswerWithData.data # FREED
      BY AnswersAreTyped
    <2> QED
      BY <1>1, <2>1, <2>2, <2>3, ReturnKeeps
  <1>7. CASE MemoryFails
    <2>1. PICK status \in Statuses : Return(FALSE, Answer(status), TRUE)
      BY <1>7 DEF MemoryFails, Statuses
    <2> QED
      BY <1>1, <1>7, <2>1, ReturnKeeps DEF MemoryFails
  <1>8. CASE MemoryCommand
    <2>1. Return(FALSE, AnswerWithData, TRUE) /\ trap' = trap
      BY <1>8 DEF MemoryCommand
    <2>2. lost' = lost
      BY <1>1, <1>8 DEF MemoryCommand
    <2>3. /\ AnswerWithData \in Responses
          /\ AnswerWithData.dataSize # 0 => AnswerWithData.data # NULL
          /\ AnswerWithData.command = request.command
          /\ AnswerWithData.data = LIVE /\ AnswerWithData.data # FREED
      BY AnswersAreTyped
    <2> QED
      BY <1>1, <2>1, <2>2, <2>3, ReturnKeeps
  <1>9. CASE BpCommand
    BY <1>1, <1>9, ReturnKeeps DEF BpCommand
  <1>10. CASE UndefinedCommand
    BY <1>1, <1>10, ReturnKeeps DEF UndefinedCommand, Statuses
  <1>11. CASE DisassBreaks \/ CopyBreaks
    <2>1. CASE CopyBreaks
      BY <1>1, <2>1, BreaksKeeps DEF CopyBreaks
    <2>2. CASE DisassBreaks
      <3>1. /\ Breaks /\ lost' = lost /\ request.command = "disass"
        BY <1>1, <2>2 DEF DisassBreaks
      <3>2. PICK size \in {0, 1}, data \in {NULL, LIVE} :
              response' = [command |-> "disass", dataSize |-> size, data |-> data,
                           status |-> IF data = NULL THEN "failure" ELSE response.status]
        BY <2>2 DEF DisassBreaks
      <3>3. response.status \in Statuses /\ "failure" \in Statuses
        BY <1>1 DEF Responses, Statuses
      <3>4. response' \in Responses
        BY <3>2, <3>3 DEF Responses, Pointers, Commands, Served
      <3> QED
        BY <3>1, <3>4, BreaksKeeps
    <2> QED
      BY <1>11, <2>1, <2>2
  <1> QED
    BY <1>2, <1>3, <1>4, <1>5, <1>6, <1>7, <1>8, <1>9, <1>10, <1>11 DEF Command

LEMMA NextIInv == IInv /\ [Next]_vars => IInv'
  <1> SUFFICES ASSUME IInv, [Next]_vars
               PROVE  IInv'
    OBVIOUS
  <1> USE BoundsAssumption
      DEF NULL, LIVE, FREED, IInv, TypeOK, HoldsNothing, ParamIsOwn, CommandFinds,
          CommandLeaves, LossIsPaid, BreaksIn
  <1>1. CASE DebugIsr
    BY <1>1, FreshLocalsAreTyped DEF DebugIsr, Stop, Stopped, SendLoses
  <1>2. CASE BreakpointIsr
    BY <1>2, FreshLocalsAreTyped DEF BreakpointIsr, Stop, Stopped, SendLoses
  <1>3. ASSUME NEW byte \in {0, 1}, ReadHello(byte) PROVE IInv'
    BY <1>3 DEF ReadHello, locals
  <1>4. ASSUME NEW packet \in Packets, Connect(packet) PROVE IInv'
    BY <1>4, FreshLocalsAreTyped DEF Connect, SendLoses, OverwriteLoses
  <1>5. CASE ConnectFails
    BY <1>5, FreshLocalsAreTyped DEF ConnectFails, RecvFailureLoses
  <1>6. ASSUME NEW packet \in Packets, Receive(packet) PROVE IInv'
    <2>1. RecvLoses(request, packet) = 0
      BY <1>6 DEF Receive, RecvLoses, OverwriteLoses
    <2>2. packet.size = 0 => RecvRequest(request, packet) = request
      BY DEF RecvRequest
    <2>3. /\ request' \in Requests
          /\ request'.paramSize > 0 => request'.param # NULL
          /\ request'.param = FREED => packet.size = 0 \/ request'.paramSize = 0
      BY <1>6, <2>2, RecvRequestIsTyped DEF Receive, Sizes, DISASS_PARAM, MEMORY_PARAM
    <2>4. /\ pc = "wait" /\ pc' = "command"
          /\ repeated' = (packet.size = 0)
          /\ lost' = lost
          /\ requests' = requests + 1 /\ requests < MaxRequests
          /\ UNCHANGED <<gDbgInitialized, trap, response, running, filled, stops>>
      BY <1>6, <2>1 DEF Receive
    <2>5. TypeOK'
      BY <2>3, <2>4
    <2>6. ParamIsOwn'
      BY <2>3, <2>4
    <2> QED
      BY <2>4, <2>5, <2>6
  <1>7. CASE ReceiveFails
    BY <1>7, FreshLocalsAreTyped DEF ReceiveFails, RecvFailureLoses
  <1>8. CASE Command
    <2>1. pc = "command"
      BY <1>8 DEF Command, Resume, RegistersCommand, DisassNothing, DisassCommand,
         DisassBreaks, CopyBreaks, Breaks, StackTraceCommand, MemoryFails, MemoryCommand,
         BpCommand, UndefinedCommand, Return
    <2> QED
      BY <1>8, <2>1, CommandKeeps
  <1>9. CASE SendResponse
    BY <1>9 DEF SendResponse, SendLoses, locals
  <1>10. CASE Clean
    <2>1. lost' \in Nat /\ lost' <= lost
      BY <1>10 DEF Clean
    <2>2. CASE running
      BY <1>10, <2>1, <2>2, FreshLocalsAreTyped DEF Clean
    <2>3. CASE ~running
      <3>1. /\ request' = [request EXCEPT !.param = Cleaned(@)]
            /\ response' = [response EXCEPT !.data = Cleaned(@)]
            /\ pc' = "wait"
            /\ UNCHANGED <<running, repeated, filled, gDbgInitialized, trap, stops, requests>>
        BY <1>10, <2>3 DEF Clean
      <3>2. request' \in Requests /\ response' \in Responses
        BY <3>1 DEF Requests, Responses, Cleaned, Pointers
      <3>3. pc = "clean"
        BY <1>10 DEF Clean
      <3>4. /\ request'.paramSize = request.paramSize
            /\ response'.dataSize = response.dataSize
            /\ request'.param \in {NULL, FREED} /\ response'.data \in {NULL, FREED}
            /\ request'.param = NULL => request.param = NULL
            /\ response'.data = NULL => response.data = NULL
        BY <3>1 DEF Cleaned, Requests, Responses
      <3>5. TypeOK'
        BY <2>1, <3>1, <3>2, <3>3, <3>4
      <3>6. HoldsNothing' /\ LossIsPaid'
        BY <2>1, <3>1, <3>3, <3>4
      <3> QED
        BY <3>1, <3>5, <3>6
    <2> QED
      BY <2>2, <2>3
  <1>11. CASE UNCHANGED vars
    BY <1>11 DEF vars
  <1> QED
    BY <1>1, <1>2, <1>3, <1>4, <1>5, <1>6, <1>7, <1>8, <1>9, <1>10, <1>11 DEF Next

LEMMA Invariance == Spec => []IInv
  BY InitIInv, NextIInv, PTL DEF Spec

\* Type correctness.  A size has a pointer beside it: in the request always, in
\* the response unless a command has broken the machine.
THEOREM TypeCorrect == Spec => []TypeOK
  <1>1. IInv => TypeOK
    BY DEF IInv
  <1> QED
    BY Invariance, <1>1, PTL

\* Each answer that is sent belongs to its request and is not refused; only a
\* command that copies memory can break the machine instead.
THEOREM AnswersMatch == Spec => []AnswersTheRequest
  <1>1. IInv => AnswersTheRequest
    BY DEF IInv, TypeOK, CommandLeaves, BreaksIn, AnswersTheRequest, Refused
  <1> QED
    BY Invariance, <1>1, PTL

\* The clean-up gives a block back twice only after the requests named.
THEOREM FreesMatch == Spec => []FreesOwn
  <1>1. IInv => FreesOwn
    BY DEF IInv, ParamIsOwn, CommandLeaves, FreesOwn
  <1> QED
    BY Invariance, <1>1, PTL

\* No session, however long, loses more than a block for each stop and packet.
THEOREM LossIsBounded == Spec => []LeakIsBounded
  <1>1. IInv => LeakIsBounded
    BY DEF IInv, TypeOK, LossIsPaid, LeakIsBounded
  <1> QED
    BY Invariance, <1>1, PTL
=============================================================================
