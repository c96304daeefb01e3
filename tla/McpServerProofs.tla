--------------------------- MODULE McpServerProofs ---------------------------
(***************************************************************************)
(* Proofs about McpServer, for any connections, window, sizes and number   *)
(* of sessions.                                                            *)
(***************************************************************************)
EXTENDS McpServer, TLAPS

\* The promise and the locals of the command belong to where the thread is.
ThreadLocals ==
    /\ pc \in {"inner", "recv", "wait", "send"} => client \in Conns
    /\ pc \notin {"wait", "send"} => promise = "none" /\ cmd = 0
    /\ pc \in {"wait", "send"} => promise # "none" /\ cmd # 0
    /\ pc = "send" => promise # "pending" /\ partsSent < ReplyParts
    /\ pc # "send" => partsSent = 0

\* The server thread exists between StartServer and the return of Kill(true), and
\* with it the listening socket; bRunning is cleared only by StopServer.
ThreadLifetime ==
    /\ pc # "off" <=> bridge = "joining" \/ bIsRunning
    /\ bIsRunning => bridge = "up" /\ bRunning
    /\ bridge = "joining" \/ pc = "done" => ~bRunning
    /\ pc # "off" => listener = "open"

IInv ==
    /\ TypeOK
    /\ ThreadLocals
    /\ ThreadLifetime
    /\ TaskHandshake

-----------------------------------------------------------------------------
LEMMA BoundsPositive ==
    /\ MaxCommands \in Nat /\ MaxCommands > 0
    /\ MaxSegments \in Nat /\ MaxSegments > 0
    /\ ReplyParts \in Nat /\ ReplyParts > 0
    /\ RecvMax \in Nat
    /\ MaxSessions \in Nat
    /\ NoConn \notin Conns
    BY ConstantsAssumption DEF ConstantsAssumption

\* What follows the first n segments of a stream is a stream.
LEMMA RestOfStream ==
    ASSUME NEW S, NEW s \in Seq(S), NEW n \in Nat, n <= Len(s)
    PROVE  SubSeq(s, n + 1, Len(s)) \in Seq(S)
    OBVIOUS

\* A chunk that Recv returns begins with the oldest segment of the stream.
LEMMA ChunkHead ==
    ASSUME NEW S, NEW s \in Seq(S), NEW n \in Nat, n > 0, n <= Len(s)
    PROVE  /\ SubSeq(s, 1, n)[1] = s[1]
           /\ s[1] \in S
           /\ Len(SubSeq(s, 1, n)) = n
    OBVIOUS

\* The segments of a command are segments.
LEMMA SegmentsType ==
    ASSUME NEW i \in 1..MaxCommands, NEW n \in 1..MaxSegments
    PROVE  Segments(i, n) \in Seq(Segment)
    BY BoundsPositive DEF Segments, Segment

LEMMA InitIInv == Init => IInv
<1> SUFFICES ASSUME Init PROVE IInv
    OBVIOUS
<1>1. TypeOK
  <2>0. bIsRunning \in BOOLEAN /\ bRunning \in BOOLEAN
      BY Zenon DEF Init
  <2>1. /\ bridge \in {"down", "up", "joining"}
        /\ listener \in {"none", "open", "destroyed"} /\ sessions \in 0..MaxSessions
        /\ client \in Conns \cup {NoConn}
        /\ cmd \in 0..MaxCommands /\ partsSent \in 0..ReplyParts
        /\ promise \in {"none", "pending", "success", "error"}
        /\ pc \in {"off", "outer", "poll", "inner", "recv", "wait", "send", "done"}
      BY BoundsPositive DEF Init
  <2>2. tasks \in Seq(Command) /\ executed \in Seq(Command) /\ backlog \in Seq(Conns)
      BY DEF Init
  <2>3. /\ conn \in [Conns -> {"unused", "pending", "accepted", "closed"}]
        /\ clientOpen \in [Conns -> BOOLEAN]
      BY DEF Init
  <2>4. sent \in [Conns -> Seq(Kinds)]
      BY DEF Init
  <2>5. inbound \in [Conns -> Seq(Segment)]
      BY DEF Init
  <2>6. outbound \in [Conns -> Seq(Part)]
      BY DEF Init
  <2> QED BY <2>0, <2>1, <2>2, <2>3, <2>4, <2>5, <2>6 DEF TypeOK
<1>2. ThreadLocals /\ ThreadLifetime /\ TaskHandshake
    BY DEF Init, ThreadLocals, ThreadLifetime, TaskHandshake
<1> QED BY <1>1, <1>2 DEF IInv

-----------------------------------------------------------------------------
(***************************************************************************)
(* Every step keeps the invariant: one lemma per action of the code.       *)
(***************************************************************************)
USE DEF bridgeVars, gameVars, threadVars, toolVars

LEMMA StartSucceedsIInv == IInv /\ StartSucceeds => IInv'
<1> SUFFICES ASSUME IInv, StartSucceeds PROVE IInv'
    OBVIOUS
<1>1. TypeOK'
    BY BoundsPositive DEF IInv, TypeOK, ThreadLifetime, StartSucceeds
<1>2. ThreadLocals' /\ ThreadLifetime' /\ TaskHandshake'
    BY DEF IInv, TypeOK, ThreadLocals, ThreadLifetime, TaskHandshake, StartSucceeds
<1> QED BY <1>1, <1>2 DEF IInv

LEMMA StartFailsEarlyIInv == IInv /\ StartFailsEarly => IInv'
<1> SUFFICES ASSUME IInv, StartFailsEarly PROVE IInv'
    OBVIOUS
<1>1. TypeOK'
  <2>1. bIsRunning' \in BOOLEAN
      BY Zenon DEF StartFailsEarly
  <2>2. sessions' \in 0..MaxSessions
      BY BoundsPositive DEF IInv, TypeOK, StartFailsEarly
  <2> QED BY <2>1, <2>2 DEF IInv, TypeOK, StartFailsEarly
<1>2. ThreadLocals' /\ ThreadLifetime' /\ TaskHandshake'
    BY DEF IInv, TypeOK, ThreadLocals, ThreadLifetime, TaskHandshake, StartFailsEarly
<1> QED BY <1>1, <1>2 DEF IInv

LEMMA StartFailsNoThreadIInv == IInv /\ StartFailsNoThread => IInv'
<1> SUFFICES ASSUME IInv, StartFailsNoThread PROVE IInv'
    OBVIOUS
<1>1. TypeOK'
  <2>1. bIsRunning' \in BOOLEAN
      BY Zenon DEF StartFailsNoThread
  <2>2. sessions' \in 0..MaxSessions
      BY BoundsPositive DEF IInv, TypeOK, StartFailsNoThread
  <2> QED BY <2>1, <2>2 DEF IInv, TypeOK, StartFailsNoThread, CloseSockets
<1>2. ThreadLocals' /\ ThreadLifetime' /\ TaskHandshake'
    BY DEF IInv, TypeOK, ThreadLocals, ThreadLifetime, TaskHandshake, StartFailsNoThread, CloseSockets
<1> QED BY <1>1, <1>2 DEF IInv

LEMMA DeinitializeIdleIInv == IInv /\ DeinitializeIdle => IInv'
<1> SUFFICES ASSUME IInv, DeinitializeIdle PROVE IInv'
    OBVIOUS
<1>1. TypeOK'
    BY BoundsPositive DEF IInv, TypeOK, ThreadLifetime, DeinitializeIdle
<1>2. ThreadLocals' /\ ThreadLifetime' /\ TaskHandshake'
    BY DEF IInv, TypeOK, ThreadLocals, ThreadLifetime, TaskHandshake, DeinitializeIdle
<1> QED BY <1>1, <1>2 DEF IInv

LEMMA StopServerIInv == IInv /\ StopServer => IInv'
<1> SUFFICES ASSUME IInv, StopServer PROVE IInv'
    OBVIOUS
<1>1. TypeOK'
    BY BoundsPositive DEF IInv, TypeOK, ThreadLifetime, StopServer
<1>2. ThreadLocals' /\ ThreadLifetime' /\ TaskHandshake'
    BY DEF IInv, TypeOK, ThreadLocals, ThreadLifetime, TaskHandshake, StopServer
<1> QED BY <1>1, <1>2 DEF IInv

LEMMA JoinServerThreadIInv == IInv /\ JoinServerThread => IInv'
<1> SUFFICES ASSUME IInv, JoinServerThread PROVE IInv'
    OBVIOUS
<1>1. TypeOK'
    BY BoundsPositive DEF IInv, TypeOK, ThreadLifetime, JoinServerThread, CloseSockets
<1>2. ThreadLocals' /\ ThreadLifetime' /\ TaskHandshake'
    BY DEF IInv, TypeOK, ThreadLocals, ThreadLifetime, TaskHandshake, JoinServerThread, CloseSockets
<1> QED BY <1>1, <1>2 DEF IInv

LEMMA OuterLoopIInv == IInv /\ OuterLoop => IInv'
<1> SUFFICES ASSUME IInv, OuterLoop PROVE IInv'
    OBVIOUS
<1>1. TypeOK'
    BY BoundsPositive DEF IInv, TypeOK, ThreadLocals, TaskHandshake, OuterLoop
<1>2. ThreadLocals' /\ ThreadLifetime' /\ TaskHandshake'
    BY BoundsPositive DEF IInv, TypeOK, ThreadLocals, ThreadLifetime, TaskHandshake, OuterLoop
<1> QED BY <1>1, <1>2 DEF IInv

LEMMA PollNothingIInv == IInv /\ PollNothing => IInv'
<1> SUFFICES ASSUME IInv, PollNothing PROVE IInv'
    OBVIOUS
<1>1. TypeOK'
    BY BoundsPositive DEF IInv, TypeOK, ThreadLocals, TaskHandshake, PollNothing
<1>2. ThreadLocals' /\ ThreadLifetime' /\ TaskHandshake'
    BY BoundsPositive DEF IInv, TypeOK, ThreadLocals, ThreadLifetime, TaskHandshake, PollNothing
<1> QED BY <1>1, <1>2 DEF IInv

LEMMA AcceptIInv == IInv /\ Accept => IInv'
<1> SUFFICES ASSUME IInv, Accept PROVE IInv'
    OBVIOUS
<1>1. TypeOK'
    BY BoundsPositive DEF IInv, TypeOK, ThreadLocals, TaskHandshake, Accept, ReplaceClient
<1>2. ThreadLocals' /\ ThreadLifetime' /\ TaskHandshake'
    BY BoundsPositive DEF IInv, TypeOK, ThreadLocals, ThreadLifetime, TaskHandshake, Accept, ReplaceClient
<1> QED BY <1>1, <1>2 DEF IInv

LEMMA AcceptFailsIInv == IInv /\ AcceptFails => IInv'
<1> SUFFICES ASSUME IInv, AcceptFails PROVE IInv'
    OBVIOUS
<1>1. TypeOK'
    BY BoundsPositive DEF IInv, TypeOK, ThreadLocals, TaskHandshake, AcceptFails, ReplaceClient
<1>2. ThreadLocals' /\ ThreadLifetime' /\ TaskHandshake'
    BY BoundsPositive DEF IInv, TypeOK, ThreadLocals, ThreadLifetime, TaskHandshake, AcceptFails, ReplaceClient
<1> QED BY <1>1, <1>2 DEF IInv

LEMMA InnerLoopIInv == IInv /\ InnerLoop => IInv'
<1> SUFFICES ASSUME IInv, InnerLoop PROVE IInv'
    OBVIOUS
<1>1. TypeOK'
    BY BoundsPositive DEF IInv, TypeOK, ThreadLocals, TaskHandshake, InnerLoop
<1>2. ThreadLocals' /\ ThreadLifetime' /\ TaskHandshake'
    BY BoundsPositive DEF IInv, TypeOK, ThreadLocals, ThreadLifetime, TaskHandshake, InnerLoop
<1> QED BY <1>1, <1>2 DEF IInv

LEMMA RecvNothingIInv == IInv /\ RecvNothing => IInv'
<1> SUFFICES ASSUME IInv, RecvNothing PROVE IInv'
    OBVIOUS
<1>1. TypeOK'
    BY BoundsPositive DEF IInv, TypeOK, ThreadLocals, TaskHandshake, RecvNothing
<1>2. ThreadLocals' /\ ThreadLifetime' /\ TaskHandshake'
    BY BoundsPositive DEF IInv, TypeOK, ThreadLocals, ThreadLifetime, TaskHandshake, RecvNothing
<1> QED BY <1>1, <1>2 DEF IInv

LEMMA RecvEndsIInv == IInv /\ RecvEnds => IInv'
<1> SUFFICES ASSUME IInv, RecvEnds PROVE IInv'
    OBVIOUS
<1>1. TypeOK'
    BY BoundsPositive DEF IInv, TypeOK, ThreadLocals, TaskHandshake, RecvEnds
<1>2. ThreadLocals' /\ ThreadLifetime' /\ TaskHandshake'
    BY BoundsPositive DEF IInv, TypeOK, ThreadLocals, ThreadLifetime, TaskHandshake, RecvEnds
<1> QED BY <1>1, <1>2 DEF IInv

LEMMA TakeResponseIInv == IInv /\ TakeResponse => IInv'
<1> SUFFICES ASSUME IInv, TakeResponse PROVE IInv'
    OBVIOUS
<1>1. TypeOK'
    BY BoundsPositive DEF IInv, TypeOK, ThreadLocals, TaskHandshake, TakeResponse
<1>2. ThreadLocals' /\ ThreadLifetime' /\ TaskHandshake'
    BY BoundsPositive DEF IInv, TypeOK, ThreadLocals, ThreadLifetime, TaskHandshake, TakeResponse
<1> QED BY <1>1, <1>2 DEF IInv

LEMMA SendPartIInv == IInv /\ SendPart => IInv'
<1> SUFFICES ASSUME IInv, SendPart PROVE IInv'
    OBVIOUS
<1>1. TypeOK'
  <2> DEFINE reply == [num |-> cmd, part |-> partsSent + 1, status |-> promise]
  <2>1. client \in Conns
      BY DEF IInv, ThreadLocals, SendPart
  <2>2. reply \in Part
      BY BoundsPositive DEF IInv, TypeOK, ThreadLocals, SendPart, Part
  <2>3. outbound' \in [Conns -> Seq(Part)]
      BY <2>1, <2>2 DEF IInv, TypeOK, SendPart
  <2>4. pc' \in {"inner", "send"} /\ cmd' \in 0..MaxCommands
        /\ promise' \in {"none", "success", "error"} /\ partsSent' \in 0..ReplyParts
      BY BoundsPositive DEF IInv, TypeOK, ThreadLocals, SendPart, EndCommand
  <2> QED BY <2>3, <2>4 DEF IInv, TypeOK, SendPart
<1>2. ThreadLocals' /\ ThreadLifetime' /\ TaskHandshake'
    BY BoundsPositive DEF IInv, TypeOK, ThreadLocals, ThreadLifetime, TaskHandshake, SendPart, EndCommand
<1> QED BY <1>1, <1>2 DEF IInv

LEMMA SendFailsIInv == IInv /\ SendFails => IInv'
<1> SUFFICES ASSUME IInv, SendFails PROVE IInv'
    OBVIOUS
<1>1. TypeOK'
    BY BoundsPositive DEF IInv, TypeOK, ThreadLocals, TaskHandshake, SendFails, EndCommand
<1>2. ThreadLocals' /\ ThreadLifetime' /\ TaskHandshake'
    BY BoundsPositive DEF IInv, TypeOK, ThreadLocals, ThreadLifetime, TaskHandshake, SendFails, EndCommand
<1> QED BY <1>1, <1>2 DEF IInv

LEMMA RunTaskIInv == IInv /\ RunTask => IInv'
<1> SUFFICES ASSUME IInv, RunTask PROVE IInv'
    OBVIOUS
<1>1. PICK status \in {"success", "error"} : Fulfil(Head(tasks), status)
    BY DEF RunTask
<1>2. tasks = <<[conn |-> client, num |-> cmd]>> /\ pc = "wait"
    BY DEF IInv, TaskHandshake, RunTask
<1>3. tasks' = <<>> /\ Head(tasks) \in Command
    BY <1>2 DEF IInv, TypeOK, RunTask
<1>4. executed' \in Seq(Command)
    BY <1>1, <1>3 DEF IInv, TypeOK, Fulfil
<1>5. TypeOK'
    BY <1>1, <1>3, <1>4 DEF IInv, TypeOK, Fulfil, RunTask
<1>6. ThreadLocals' /\ ThreadLifetime' /\ TaskHandshake'
    BY <1>1, <1>2, <1>3
    DEF IInv, ThreadLocals, ThreadLifetime, TaskHandshake, Fulfil, RunTask
<1> QED BY <1>5, <1>6 DEF IInv

LEMMA RecvCommandIInv == IInv /\ RecvCommand => IInv'
<1> SUFFICES ASSUME IInv, RecvCommand PROVE IInv'
    OBVIOUS
<1>1. client \in Conns /\ inbound[client] \in Seq(Segment)
    BY DEF IInv, TypeOK, ThreadLocals, RecvCommand
<1>2. PICK n \in ChunkSizes(client) :
        /\ Execute(client, SubSeq(inbound[client], 1, n)[1].num)
        /\ Take(client, n)
    BY DEF RecvCommand
<1>3. n \in Nat /\ n > 0 /\ n <= Len(inbound[client])
    BY <1>1, <1>2, BoundsPositive DEF ChunkSizes
<1> DEFINE chunk == SubSeq(inbound[client], 1, n)
           num == chunk[1].num
<1>4. num \in 1..MaxCommands
  <2>1. chunk[1] \in Segment
      BY <1>1, <1>3, ChunkHead
  <2> QED BY <2>1 DEF Segment
<1>5. inbound' \in [Conns -> Seq(Segment)]
    BY <1>1, <1>2, <1>3, RestOfStream DEF IInv, TypeOK, Take
<1> HIDE DEF chunk
<1>6. /\ tasks' = Append(tasks, [conn |-> client, num |-> num])
      /\ promise' = "pending" /\ cmd' = num /\ pc' = "wait"
    BY <1>2 DEF Execute, chunk
<1>7. tasks' = <<[conn |-> client, num |-> num]>> /\ tasks' \in Seq(Command)
  <2>1. tasks = <<>>
      BY DEF IInv, ThreadLocals, TaskHandshake, RecvCommand
  <2>2. [conn |-> client, num |-> num] \in Command
      BY <1>1, <1>4 DEF Command
  <2> HIDE DEF num
  <2> QED BY <1>6, <2>1, <2>2
<1> HIDE DEF num
<1>8. TypeOK'
    BY <1>4, <1>5, <1>6, <1>7, BoundsPositive DEF IInv, TypeOK, RecvCommand
<1>9. ThreadLocals' /\ ThreadLifetime' /\ TaskHandshake'
    BY <1>1, <1>4, <1>6, <1>7
    DEF IInv, ThreadLocals, ThreadLifetime, TaskHandshake, RecvCommand
<1> QED BY <1>8, <1>9 DEF IInv

LEMMA RecvDiscardsIInv == IInv /\ RecvDiscards => IInv'
<1> SUFFICES ASSUME IInv, RecvDiscards PROVE IInv'
    OBVIOUS
<1>1. client \in Conns /\ inbound[client] \in Seq(Segment)
    BY DEF IInv, TypeOK, ThreadLocals, RecvDiscards
<1>2. PICK n \in ChunkSizes(client) : Take(client, n)
    BY DEF RecvDiscards
<1>3. n \in Nat /\ n <= Len(inbound[client])
    BY <1>1, <1>2, BoundsPositive DEF ChunkSizes
<1>4. inbound' \in [Conns -> Seq(Segment)]
    BY <1>1, <1>2, <1>3, RestOfStream DEF IInv, TypeOK, Take
<1>5. TypeOK'
    BY <1>4 DEF IInv, TypeOK, RecvDiscards
<1>6. ThreadLocals' /\ ThreadLifetime' /\ TaskHandshake'
    BY DEF IInv, ThreadLocals, ThreadLifetime, TaskHandshake, RecvDiscards
<1> QED BY <1>5, <1>6 DEF IInv

LEMMA ToolIInv == ASSUME NEW c \in Conns PROVE IInv /\ Tool(c) => IInv'
<1> SUFFICES ASSUME IInv, Tool(c) PROVE IInv'
    OBVIOUS
<1>1. CASE Connect(c)
  <2>1. TypeOK'
      BY <1>1 DEF IInv, TypeOK, Connect
  <2> QED BY <1>1, <2>1
      DEF IInv, ThreadLocals, ThreadLifetime, TaskHandshake, Connect
<1>2. CASE SendCommand(c)
  <2>1. PICK kind \in Kinds, n \in 1..MaxSegments :
          /\ sent' = [sent EXCEPT ![c] = Append(@, kind)]
          /\ inbound' = [inbound EXCEPT ![c] = @ \o Segments(Len(sent[c]) + 1, n)]
      BY <1>2 DEF SendCommand
  <2>2. Len(sent[c]) + 1 \in 1..MaxCommands
      BY <1>2, BoundsPositive DEF IInv, TypeOK, SendCommand
  <2>3. Segments(Len(sent[c]) + 1, n) \in Seq(Segment)
      BY <2>2, SegmentsType
  <2>4. sent' \in [Conns -> Seq(Kinds)] /\ inbound' \in [Conns -> Seq(Segment)]
      BY <2>1, <2>3 DEF IInv, TypeOK
  <2>5. TypeOK'
      BY <1>2, <2>4 DEF IInv, TypeOK, SendCommand
  <2> QED BY <1>2, <2>5
      DEF IInv, ThreadLocals, ThreadLifetime, TaskHandshake, SendCommand
<1>3. CASE Disconnect(c)
  <2>1. TypeOK'
      BY <1>3 DEF IInv, TypeOK, Disconnect
  <2> QED BY <1>3, <2>1
      DEF IInv, ThreadLocals, ThreadLifetime, TaskHandshake, Disconnect
<1> QED BY <1>1, <1>2, <1>3 DEF Tool

LEMMA NextIInv == IInv /\ [Next]_vars => IInv'
<1> SUFFICES ASSUME IInv, [Next]_vars PROVE IInv'
    OBVIOUS
<1>1. CASE GameThread
    BY <1>1, StartSucceedsIInv, StartFailsEarlyIInv, StartFailsNoThreadIInv,
       DeinitializeIdleIInv, StopServerIInv, JoinServerThreadIInv, RunTaskIInv
    DEF GameThread
<1>2. CASE ServerThread
    BY <1>2, OuterLoopIInv, PollNothingIInv, AcceptIInv, AcceptFailsIInv,
       InnerLoopIInv, RecvCommandIInv, RecvDiscardsIInv, RecvNothingIInv,
       RecvEndsIInv, TakeResponseIInv, SendPartIInv, SendFailsIInv
    DEF ServerThread
<1>3. CASE \E c \in Conns : Tool(c)
    BY <1>3, ToolIInv
<1>4. CASE UNCHANGED vars
    BY <1>4 DEF vars, IInv, TypeOK, ThreadLocals, ThreadLifetime, TaskHandshake
<1> QED BY <1>1, <1>2, <1>3, <1>4 DEF Next

-----------------------------------------------------------------------------
(***************************************************************************)
(* The theorems.                                                           *)
(***************************************************************************)

\* The invariant holds throughout every behaviour.
THEOREM Inductive == Spec => []IInv
<1>1. Init => IInv
    BY InitIInv
<1>2. IInv /\ [Next]_vars => IInv'
    BY NextIInv
<1> QED BY <1>1, <1>2, PTL DEF Spec

\* Every variable of the server keeps its type, whatever the socket calls do.
THEOREM TypeCorrect == Spec => []TypeOK
<1>1. IInv => TypeOK
    BY DEF IInv
<1> QED BY <1>1, Inductive, PTL

\* The thread that blocks in Future.Get() is owed its answer by exactly one queued
\* task, and nothing but that command is ever queued.
THEOREM Handshake == Spec => []TaskHandshake
<1>1. IInv => TaskHandshake
    BY DEF IInv
<1> QED BY <1>1, Inductive, PTL

\* No task that captured the bridge is queued after StopServer has returned.
THEOREM TasksHaveTheirBridge == Spec => []TaskHasBridge
<1>1. IInv => TaskHasBridge
    BY DEF IInv, TaskHasBridge, TaskHandshake, ThreadLifetime
<1> QED BY <1>1, Inductive, PTL

\* Inside Kill(true) a step of the server thread is one of those that lead out of Run.
LEMMA WindDown ==
    ASSUME IInv, bridge = "joining", ServerThread
    PROVE  StepsLeft' < StepsLeft
<1>1. /\ ~bRunning
      /\ ReplyParts \in Nat /\ ReplyParts > 0
      /\ partsSent \in Nat
    BY BoundsPositive DEF IInv, TypeOK, ThreadLifetime
<1>2. CASE OuterLoop \/ PollNothing \/ Accept \/ AcceptFails \/ InnerLoop
    BY <1>1, <1>2 DEF OuterLoop, PollNothing, Accept, AcceptFails, InnerLoop, StepsLeft
<1>3. CASE RecvCommand \/ RecvDiscards \/ RecvNothing \/ RecvEnds
  <2>1. pc = "recv" /\ pc' \in {"wait", "inner", "outer"}
      BY <1>3 DEF RecvCommand, Execute, RecvDiscards, RecvNothing, RecvEnds
  <2> QED BY <1>1, <2>1 DEF StepsLeft
<1>4. CASE TakeResponse
  <2>1. pc = "wait" /\ pc' = "send" /\ partsSent' = 0
      BY <1>4 DEF TakeResponse, IInv, ThreadLocals
  <2> QED BY <1>1, <2>1 DEF StepsLeft
<1>5. CASE SendPart \/ SendFails
  <2>1. pc = "send" /\ partsSent < ReplyParts
      BY <1>5 DEF SendPart, SendFails, IInv, ThreadLocals
  <2>2. pc' = "inner" \/ (pc' = "send" /\ partsSent' = partsSent + 1)
      BY <1>5, <2>1 DEF SendPart, SendFails, EndCommand
  <2> QED BY <1>1, <2>1, <2>2 DEF StepsLeft
<1> QED BY <1>2, <1>3, <1>4, <1>5 DEF ServerThread

\* Kill(true) can wait for the server thread only as long as a response and a few steps
\* of the loops last: no tool, however many connect or keep sending, prolongs it.
THEOREM WindsDown == Spec => StopWindsDown
<1>1. IInv /\ [Next]_vars
        => [bridge = "joining" /\ ServerThread => StepsLeft' < StepsLeft]_vars
    BY WindDown
<1> QED BY <1>1, Inductive, PTL DEF Spec, StopWindsDown

\* The game thread is inside Kill(true), and the thread it waits for is inside
\* Future.Get() for a task that has not run.
Hung == bridge = "joining" /\ pc = "wait" /\ promise = "pending"

LEMMA StaysHung == Hung /\ [Next]_vars => Hung'
<1> SUFFICES ASSUME Hung, [Next]_vars PROVE Hung'
    OBVIOUS
<1>1. ~GameThread
    BY DEF Hung, GameThread, StartSucceeds, StartFailsEarly, StartFailsNoThread,
           DeinitializeIdle, StopServer, JoinServerThread, RunTask
<1>2. ~ServerThread
    BY DEF Hung, ServerThread, OuterLoop, PollNothing, Accept, AcceptFails, InnerLoop,
           RecvCommand, RecvDiscards, RecvNothing, RecvEnds, TakeResponse, SendPart, SendFails
<1>3. ASSUME NEW c \in Conns, Tool(c) PROVE Hung'
    BY <1>3 DEF Hung, Tool, Connect, SendCommand, Disconnect
<1> QED BY <1>1, <1>2, <1>3 DEF Next, vars, Hung

\* A StopServer that finds the server thread waiting for its answer never returns: the
\* two threads stay as they are in every later state, whatever the tools do. Outside of
\* this state WindsDown bounds the wait.
THEOREM HungForGood == Spec => [](Hung => []Hung)
<1>1. Hung /\ [Next]_vars => Hung'
    BY StaysHung
<1> QED BY <1>1, PTL DEF Spec

\* The bridge destroys the listening socket only after the thread that polls it
\* has left Run.
THEOREM ListenerSafe == Spec => []ListenerOutlivesThread
<1>1. IInv => ListenerOutlivesThread
    BY DEF IInv, ListenerOutlivesThread, ThreadLifetime
<1> QED BY <1>1, Inductive, PTL

=============================================================================
