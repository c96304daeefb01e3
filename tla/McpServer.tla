------------------------------ MODULE McpServer ------------------------------
(***************************************************************************)
(* The MCP server of the UnrealMCP plugin: an editor subsystem            *)
(* (UEpicUnrealMCPBridge) that lives on the game thread, one server thread *)
(* (FMCPServerRunnable::Run) and the TCP connections of external tools.    *)
(*                                                                         *)
(* Three kinds of actors interleave:                                       *)
(*   - the game thread starts and stops the server and runs the tasks that *)
(*     ExecuteCommand queues with AsyncTask;                               *)
(*   - the server thread accepts one connection at a time, receives, hands *)
(*     each command to the game thread, blocks on its future and sends the *)
(*     response;                                                           *)
(*   - the tools connect, send commands and hang up.                       *)
(*                                                                         *)
(* A command is a number on its connection together with its kind. What a  *)
(* connection carries is cut into network segments: TCP keeps their order  *)
(* and nothing else, so one Recv returns any number of them. A connection  *)
(* is used once; a tool that reconnects is another member of Conns.        *)
(* Sleeps, logging, socket options and the text of a response are left out.*)
(***************************************************************************)
EXTENDS Naturals, Sequences, FiniteSets

CONSTANTS
    Conns,        \* the connections tools may open
    NoConn,       \* an empty ClientSocket pointer
    Kinds,        \* the kinds of command a tool sends
    MaxCommands,  \* bound: commands sent on one connection
    Window,       \* commands a tool has in flight: 1 is request and response
    MaxSegments,  \* segments the largest command is cut into
    RecvMax,      \* segments that fit the 8191 bytes of one Recv
    ReplyParts,   \* Send calls a response takes
    Backlog,      \* the argument of Listen
    MaxSessions,  \* bound: times the editor creates the subsystem
    Faults        \* whether the socket calls may fail while the tool is there

ASSUME ConstantsAssumption ==
    /\ NoConn \notin Conns
    /\ Kinds \subseteq {"known", "unknown", "untyped"}
    /\ {MaxCommands, Window, MaxSegments, RecvMax, ReplyParts, Backlog}
         \subseteq Nat \ {0}
    /\ MaxSessions \in Nat
    /\ Faults \in BOOLEAN

VARIABLES
    bridge,      \* the subsystem: "down", "up", or "joining" inside Kill(true)
    bIsRunning,  \* UEpicUnrealMCPBridge::bIsRunning
    listener,    \* the listening socket: "none", "open" or "destroyed"
    sessions,    \* Initialize calls so far
    tasks,       \* game-thread tasks queued by AsyncTask, oldest first
    executed,    \* commands a handler has run, in order (history)
    pc,          \* where the server thread is
    bRunning,    \* FMCPServerRunnable::bRunning
    client,      \* FMCPServerRunnable::ClientSocket
    cmd,         \* number of the command the thread works on, 0 for none
    promise,     \* the promise and future of ExecuteCommand
    partsSent,   \* TotalBytesSent, in Send calls
    conn,        \* the server's end of each connection
    backlog,     \* connections the kernel holds for Accept, oldest first
    clientOpen,  \* whether the tool holds its end open
    sent,        \* kinds of the commands the tool sent, in order
    inbound,     \* segments sent by the tool and not received yet
    outbound     \* response parts handed to the kernel for the tool

bridgeVars == <<bridge, bIsRunning, listener, sessions>>
gameVars   == <<tasks, executed>>
threadVars == <<pc, bRunning, client, cmd, promise, partsSent>>
toolVars   == <<clientOpen, sent>>
vars == <<bridgeVars, gameVars, threadVars, conn, backlog, toolVars,
          inbound, outbound>>

Command == [conn : Conns, num : 1..MaxCommands]
Segment == [num : 1..MaxCommands, part : 1..MaxSegments, of : 1..MaxSegments]
Part    == [num : 1..MaxCommands, part : 1..ReplyParts,
            status : {"success", "error"}]

(***************************************************************************)
(* Type invariant.                                                         *)
(***************************************************************************)
TypeOK ==
    /\ bridge \in {"down", "up", "joining"}
    /\ bIsRunning \in BOOLEAN
    /\ listener \in {"none", "open", "destroyed"}
    /\ sessions \in 0..MaxSessions
    /\ tasks \in Seq(Command)
    /\ executed \in Seq(Command)
    /\ pc \in {"off", "outer", "poll", "inner", "recv", "wait", "send", "done"}
    /\ bRunning \in BOOLEAN
    /\ client \in Conns \cup {NoConn}
    /\ cmd \in 0..MaxCommands
    /\ promise \in {"none", "pending", "success", "error"}
    /\ partsSent \in 0..ReplyParts
    /\ conn \in [Conns -> {"unused", "pending", "accepted", "closed"}]
    /\ backlog \in Seq(Conns)
    /\ clientOpen \in [Conns -> BOOLEAN]
    /\ sent \in [Conns -> Seq(Kinds)]
    /\ inbound \in [Conns -> Seq(Segment)]
    /\ outbound \in [Conns -> Seq(Part)]

Init ==
    /\ bridge = "down"
    /\ bIsRunning = FALSE
    /\ listener = "none"
    /\ sessions = 0
    /\ tasks = <<>>
    /\ executed = <<>>
    /\ pc = "off"
    /\ bRunning = FALSE
    /\ client = NoConn
    /\ cmd = 0
    /\ promise = "none"
    /\ partsSent = 0
    /\ conn = [c \in Conns |-> "unused"]
    /\ backlog = <<>>
    /\ clientOpen = [c \in Conns |-> FALSE]
    /\ sent = [c \in Conns |-> <<>>]
    /\ inbound = [c \in Conns |-> <<>>]
    /\ outbound = [c \in Conns |-> <<>>]

-----------------------------------------------------------------------------
(***************************************************************************)
(* The game thread: Initialize, Deinitialize and the queued tasks.         *)
(***************************************************************************)

\* The tail of StopServer. ConnectionSocket is never assigned, so the listening
\* socket is the only one destroyed; what waits in its backlog is reset.
CloseSockets ==
    /\ listener' = "destroyed"
    /\ backlog' = <<>>
    /\ conn' = [c \in Conns |-> IF conn[c] = "pending" THEN "closed" ELSE conn[c]]

\* Initialize, and StartServer up to a running thread. The thread gets a new
\* FMCPServerRunnable; the runnable of an earlier session is never deleted, so
\* the connection it held stays as it was.
StartSucceeds ==
    /\ bridge = "down"
    /\ sessions < MaxSessions
    /\ sessions' = sessions + 1
    /\ bridge' = "up"
    /\ bIsRunning' = TRUE
    /\ listener' = "open"
    /\ pc' = "outer"
    /\ bRunning' = TRUE
    /\ client' = NoConn
    /\ UNCHANGED <<gameVars, cmd, promise, partsSent, conn, backlog, toolVars,
                   inbound, outbound>>

\* StartServer returns early: no socket subsystem, no socket, Bind or Listen
\* failed. The subsystem exists with no server.
StartFailsEarly ==
    /\ bridge = "down"
    /\ sessions < MaxSessions
    /\ Faults
    /\ sessions' = sessions + 1
    /\ bridge' = "up"
    /\ bIsRunning' = FALSE
    /\ listener' = "none"
    /\ UNCHANGED <<gameVars, threadVars, conn, backlog, toolVars, inbound, outbound>>

\* FRunnableThread::Create returns null: StartServer calls StopServer, which has
\* no thread to join and destroys the listening socket.
StartFailsNoThread ==
    /\ bridge = "down"
    /\ sessions < MaxSessions
    /\ Faults
    /\ sessions' = sessions + 1
    /\ bridge' = "up"
    /\ bIsRunning' = FALSE
    /\ CloseSockets
    /\ UNCHANGED <<gameVars, threadVars, toolVars, inbound, outbound>>

\* Deinitialize when no server runs: StopServer returns at once.
DeinitializeIdle ==
    /\ bridge = "up"
    /\ ~bIsRunning
    /\ bridge' = "down"
    /\ UNCHANGED <<bIsRunning, listener, sessions, gameVars, threadVars, conn,
                   backlog, toolVars, inbound, outbound>>

\* Deinitialize, StopServer up to the wait inside ServerThread->Kill(true):
\* Kill calls the runnable's Stop, which clears bRunning, then blocks the game
\* thread until the server thread has left Run.
StopServer ==
    /\ bridge = "up"
    /\ bIsRunning
    /\ bIsRunning' = FALSE
    /\ bRunning' = FALSE
    /\ bridge' = "joining"
    /\ UNCHANGED <<listener, sessions, gameVars, pc, client, cmd, promise,
                   partsSent, conn, backlog, toolVars, inbound, outbound>>

\* Mutant of JoinServerThread: Kill(false), which does not wait.
JoinNoWait ==
    /\ bridge = "joining"
    /\ bridge' = "down"
    /\ CloseSockets
    /\ UNCHANGED <<bIsRunning, sessions, gameVars, threadVars, toolVars,
                   inbound, outbound>>

\* The server thread has left Run: Kill returns, the thread object is deleted,
\* the sockets are closed and the subsystem goes away.
JoinServerThread ==
    /\ bridge = "joining"
    /\ pc = "done"
    /\ pc' = "off"
    /\ bridge' = "down"
    /\ CloseSockets
    /\ UNCHANGED <<bIsRunning, sessions, gameVars, bRunning, client, cmd, promise,
                   partsSent, toolVars, inbound, outbound>>

\* Mutant of Fulfil: the exception path forgets Promise.SetValue.
FulfilForgotten(t, status) ==
    /\ promise' = IF status = "error" THEN promise ELSE status
    /\ executed' = IF sent[t.conn][t.num] = "known" THEN Append(executed, t) ELSE executed

\* The body of the task: a known type is routed to its handler, which succeeds
\* or reports an error (an exception is reported as one); an unknown type is an
\* error and reaches no handler. Every path sets the promise.
Fulfil(t, status) ==
    /\ promise' = status
    /\ executed' = IF sent[t.conn][t.num] = "known" THEN Append(executed, t) ELSE executed

\* The game thread, when it is not blocked in Kill, runs the oldest task.
RunTask ==
    /\ bridge # "joining"
    /\ tasks # <<>>
    /\ \E status \in {"success", "error"} :
        /\ sent[Head(tasks).conn][Head(tasks).num] = "unknown" => status = "error"
        /\ Fulfil(Head(tasks), status)
    /\ tasks' = Tail(tasks)
    /\ UNCHANGED <<bridgeVars, pc, bRunning, client, cmd, partsSent, conn, backlog,
                   toolVars, inbound, outbound>>

GameThread ==
    \/ StartSucceeds
    \/ StartFailsEarly
    \/ StartFailsNoThread
    \/ DeinitializeIdle
    \/ StopServer
    \/ JoinServerThread
    \/ RunTask

-----------------------------------------------------------------------------
(***************************************************************************)
(* The server thread: FMCPServerRunnable::Run.                             *)
(***************************************************************************)

\* while (bRunning) of the outer loop; Run returns when it is cleared.
OuterLoop ==
    /\ pc = "outer"
    /\ pc' = IF bRunning THEN "poll" ELSE "done"
    /\ UNCHANGED <<bridgeVars, gameVars, bRunning, client, cmd, promise, partsSent,
                   conn, backlog, toolVars, inbound, outbound>>

\* HasPendingConnection finds nothing, or fails; the thread sleeps and loops.
PollNothing ==
    /\ pc = "poll"
    /\ backlog = <<>> \/ Faults
    /\ pc' = "outer"
    /\ UNCHANGED <<bridgeVars, gameVars, bRunning, client, cmd, promise, partsSent,
                   conn, backlog, toolVars, inbound, outbound>>

\* Assigning ClientSocket drops the last reference to the socket it held, and
\* the socket's destructor closes it.
ReplaceClient(state) ==
    conn' = [c \in Conns |-> IF c = Head(backlog) THEN state
                             ELSE IF c = client THEN "closed" ELSE conn[c]]

\* Accept returns a socket, which becomes the thread's ClientSocket.
Accept ==
    /\ pc = "poll"
    /\ backlog # <<>>
    /\ ReplaceClient("accepted")
    /\ client' = Head(backlog)
    /\ backlog' = Tail(backlog)
    /\ pc' = "inner"
    /\ UNCHANGED <<bridgeVars, gameVars, bRunning, cmd, promise, partsSent, toolVars,
                   inbound, outbound>>

\* Accept returns null, the pending connection having been lost: ClientSocket
\* becomes null as well.
AcceptFails ==
    /\ pc = "poll"
    /\ backlog # <<>>
    /\ Faults
    /\ ReplaceClient("closed")
    /\ client' = NoConn
    /\ backlog' = Tail(backlog)
    /\ pc' = "outer"
    /\ UNCHANGED <<bridgeVars, gameVars, bRunning, cmd, promise, partsSent, toolVars,
                   inbound, outbound>>

\* Mutant of InnerLoop: while (true).
InnerLoopForever ==
    /\ pc = "inner"
    /\ pc' = "recv"
    /\ UNCHANGED <<bridgeVars, gameVars, bRunning, client, cmd, promise, partsSent,
                   conn, backlog, toolVars, inbound, outbound>>

\* while (bRunning) of the inner loop.
InnerLoop ==
    /\ pc = "inner"
    /\ pc' = IF bRunning THEN "recv" ELSE "outer"
    /\ UNCHANGED <<bridgeVars, gameVars, bRunning, client, cmd, promise, partsSent,
                   conn, backlog, toolVars, inbound, outbound>>

\* Deserialize accepts a chunk that is one whole JSON object: not a piece of
\* one, and not an object with anything after it.
ParsesAsOne(chunk) == chunk[1].part = 1 /\ Len(chunk) = chunk[1].of

\* What Recv may hand over: any first part of what the connection holds, up to
\* the size of the buffer.
ChunkSizes(c) == {n \in 1..RecvMax : n <= Len(inbound[c])}

\* Mutant of Take: the bytes are peeked at and stay in the socket.
TakePeeking(c, n) == inbound' = inbound

\* Mutant of Take: Recv is repeated until the socket is empty, and only the first
\* chunk is looked at.
TakeAll(c, n) == inbound' = [inbound EXCEPT ![c] = <<>>]

\* Recv removes what it returned.
Take(c, n) == inbound' = [inbound EXCEPT ![c] = SubSeq(@, n + 1, Len(@))]

\* ExecuteCommand up to Future.Get(): a fresh promise, and a task on the game
\* thread that will fulfil it.
Execute(c, num) ==
    /\ tasks' = Append(tasks, [conn |-> c, num |-> num])
    /\ promise' = "pending"
    /\ cmd' = num
    /\ pc' = "wait"

\* Recv returns bytes that are one command with a "type".
RecvCommand ==
    /\ pc = "recv"
    /\ \E n \in ChunkSizes(client) :
        LET chunk == SubSeq(inbound[client], 1, n) IN
        /\ ParsesAsOne(chunk)
        /\ sent[client][chunk[1].num] # "untyped"
        /\ Execute(client, chunk[1].num)
        /\ Take(client, n)
    /\ UNCHANGED <<bridgeVars, executed, bRunning, client, partsSent, conn, backlog,
                   toolVars, outbound>>

\* Recv returns bytes that do not parse, or a command without "type": a line in
\* the log, and the whole chunk is gone.
RecvDiscards ==
    /\ pc = "recv"
    /\ \E n \in ChunkSizes(client) :
        LET chunk == SubSeq(inbound[client], 1, n) IN
        /\ ParsesAsOne(chunk) => sent[client][chunk[1].num] = "untyped"
        /\ Take(client, n)
    /\ pc' = "inner"
    /\ UNCHANGED <<bridgeVars, gameVars, bRunning, client, cmd, promise, partsSent,
                   conn, backlog, toolVars, outbound>>

\* Mutant of RecvNothing: SE_EWOULDBLOCK ends the connection.
RecvNothingBreaks ==
    /\ pc = "recv"
    /\ inbound[client] = <<>>
    /\ clientOpen[client]
    /\ pc' = "outer"
    /\ UNCHANGED <<bridgeVars, gameVars, bRunning, client, cmd, promise, partsSent,
                   conn, backlog, toolVars, inbound, outbound>>

\* Recv fails with SE_EWOULDBLOCK or SE_EINTR: the connection is kept.
RecvNothing ==
    /\ pc = "recv"
    /\ inbound[client] = <<>>
    /\ clientOpen[client]
    /\ pc' = "inner"
    /\ UNCHANGED <<bridgeVars, gameVars, bRunning, client, cmd, promise, partsSent,
                   conn, backlog, toolVars, inbound, outbound>>

\* Mutant of RecvEnds: zero bytes read as nothing to read yet.
RecvEndsIgnored ==
    /\ pc = "recv"
    /\ Faults \/ (~clientOpen[client] /\ inbound[client] = <<>>)
    /\ pc' = "inner"
    /\ UNCHANGED <<bridgeVars, gameVars, bRunning, client, cmd, promise, partsSent,
                   conn, backlog, toolVars, inbound, outbound>>

\* Recv returns no bytes, or fails with any other error: the inner loop ends.
\* The tool has hung up (a reset may overtake what it sent), or the socket broke.
\* ClientSocket keeps the socket until the next Accept.
RecvEnds ==
    /\ pc = "recv"
    /\ Faults \/ (~clientOpen[client] /\ inbound[client] = <<>>)
    /\ pc' = "outer"
    /\ UNCHANGED <<bridgeVars, gameVars, bRunning, client, cmd, promise, partsSent,
                   conn, backlog, toolVars, inbound, outbound>>

\* Mutant of TakeResponse: Future.WaitFor, which gives up waiting.
TakeResponseTimedOut ==
    /\ pc = "wait"
    /\ pc' = "send"
    /\ UNCHANGED <<bridgeVars, gameVars, bRunning, client, cmd, promise, partsSent,
                   conn, backlog, toolVars, inbound, outbound>>

\* Future.Get() returns the response.
TakeResponse ==
    /\ pc = "wait"
    /\ promise # "pending"
    /\ pc' = "send"
    /\ UNCHANGED <<bridgeVars, gameVars, bRunning, client, cmd, promise, partsSent,
                   conn, backlog, toolVars, inbound, outbound>>

\* Mutant of EndCommand: TotalBytesSent outlives the command.
EndCommandKeepingCount ==
    /\ pc' = "inner"
    /\ cmd' = 0
    /\ promise' = "none"
    /\ UNCHANGED partsSent

\* The command is over: ExecuteCommand's locals are gone.
EndCommand ==
    /\ pc' = "inner"
    /\ cmd' = 0
    /\ promise' = "none"
    /\ partsSent' = 0

\* Mutant of SendPart: one Send is taken to send everything.
SendOnce ==
    /\ pc = "send"
    /\ outbound' = [outbound EXCEPT ![client] =
           Append(@, [num |-> cmd, part |-> partsSent + 1, status |-> promise])]
    /\ EndCommand
    /\ UNCHANGED <<bridgeVars, gameVars, bRunning, client, conn, backlog, toolVars,
                   inbound>>

\* Mutant of SendPart: <= for < in the loop's condition.
SendOneMore ==
    /\ pc = "send"
    /\ outbound' = [outbound EXCEPT ![client] =
           Append(@, [num |-> cmd, part |-> partsSent + 1, status |-> promise])]
    /\ IF partsSent = ReplyParts
       THEN EndCommand
       ELSE /\ partsSent' = partsSent + 1
            /\ UNCHANGED <<pc, cmd, promise>>
    /\ UNCHANGED <<bridgeVars, gameVars, bRunning, client, conn, backlog, toolVars,
                   inbound>>

\* One Send of the loop that sends the response; the last one ends the command.
SendPart ==
    /\ pc = "send"
    /\ outbound' = [outbound EXCEPT ![client] =
           Append(@, [num |-> cmd, part |-> partsSent + 1, status |-> promise])]
    /\ IF partsSent + 1 = ReplyParts
       THEN EndCommand
       ELSE /\ partsSent' = partsSent + 1
            /\ UNCHANGED <<pc, cmd, promise>>
    /\ UNCHANGED <<bridgeVars, gameVars, bRunning, client, conn, backlog, toolVars,
                   inbound>>

\* Send fails, whatever the error: the rest of the response is dropped and the
\* loop goes on to the next Recv on the same connection.
SendFails ==
    /\ pc = "send"
    /\ Faults \/ ~clientOpen[client]
    /\ EndCommand
    /\ UNCHANGED <<bridgeVars, gameVars, bRunning, client, conn, backlog, toolVars,
                   inbound, outbound>>

ServerThread ==
    \/ OuterLoop
    \/ PollNothing
    \/ Accept
    \/ AcceptFails
    \/ InnerLoop
    \/ RecvCommand
    \/ RecvDiscards
    \/ RecvNothing
    \/ RecvEnds
    \/ TakeResponse
    \/ SendPart
    \/ SendFails

-----------------------------------------------------------------------------
(***************************************************************************)
(* The tools, which are not part of the repository: what they do is what   *)
(* the sockets let them do.                                                *)
(***************************************************************************)

\* The connection reaches the listening socket while its backlog has room.
Connect(c) ==
    /\ conn[c] = "unused"
    /\ listener = "open"
    /\ Len(backlog) < Backlog
    /\ conn' = [conn EXCEPT ![c] = "pending"]
    /\ backlog' = Append(backlog, c)
    /\ clientOpen' = [clientOpen EXCEPT ![c] = TRUE]
    /\ UNCHANGED <<bridgeVars, gameVars, threadVars, sent, inbound, outbound>>

\* Command i of connection c has its whole response.
Answered(c, i) ==
    \E k \in DOMAIN outbound[c] :
        outbound[c][k].num = i /\ outbound[c][k].part = ReplyParts

\* The segments of command i, cut into n.
Segments(i, n) == [p \in 1..n |-> [num |-> i, part |-> p, of |-> n]]

\* The tool sends its next command.
SendCommand(c) ==
    /\ clientOpen[c]
    /\ conn[c] \in {"pending", "accepted"}
    /\ Len(sent[c]) < MaxCommands
    /\ Cardinality({i \in DOMAIN sent[c] : ~Answered(c, i)}) < Window
    /\ \E kind \in Kinds, n \in 1..MaxSegments :
        /\ sent' = [sent EXCEPT ![c] = Append(@, kind)]
        /\ inbound' = [inbound EXCEPT ![c] = @ \o Segments(Len(sent[c]) + 1, n)]
    /\ UNCHANGED <<bridgeVars, gameVars, threadVars, conn, backlog, clientOpen,
                   outbound>>

\* The tool closes its end.
Disconnect(c) ==
    /\ clientOpen[c]
    /\ clientOpen' = [clientOpen EXCEPT ![c] = FALSE]
    /\ UNCHANGED <<bridgeVars, gameVars, threadVars, conn, backlog, sent, inbound,
                   outbound>>

Tool(c) == Connect(c) \/ SendCommand(c) \/ Disconnect(c)

Next ==
    \/ GameThread
    \/ ServerThread
    \/ \E c \in Conns : Tool(c)

Spec == Init /\ [][Next]_vars

\* The operating system schedules the server thread, and the editor's main loop
\* keeps running tasks unless it is blocked in Kill, which returns once the
\* thread has ended. Starting, stopping and whatever a tool does need not happen.
Fairness ==
    /\ WF_vars(ServerThread)
    /\ WF_vars(RunTask)
    /\ WF_vars(JoinServerThread)

FairSpec == Spec /\ Fairness

-----------------------------------------------------------------------------
(***************************************************************************)
(* Safety.                                                                 *)
(***************************************************************************)

\* The promise of ExecuteCommand and the task queue agree: the queue holds a task
\* exactly while the promise is open, and then it is the one task of the command
\* the server thread is blocked on. A thread blocked in Future.Get() therefore
\* always has someone to wake it, and no task is left over from another command.
TaskHandshake ==
    /\ promise = "pending" <=> tasks # <<>>
    /\ tasks # <<>> => /\ pc = "wait"
                       /\ tasks = <<[conn |-> client, num |-> cmd]>>

\* The task lambda captures the bridge: no task is queued once the subsystem is
\* gone, because StopServer joins the thread that waits for it.
TaskHasBridge == tasks # <<>> => bridge # "down"

\* The server thread uses the listening socket the bridge destroys: it is there
\* until the thread has left its loop.
ListenerOutlivesThread == pc \notin {"off", "done"} => listener = "open"

\* However segments arrive, are cut, glued or lost, a handler runs a command at
\* most once, and the commands of a connection run in the order they were sent.
ExecutedOnceInOrder ==
    \A j, k \in DOMAIN executed :
        j < k /\ executed[j].conn = executed[k].conn => executed[j].num < executed[k].num

\* What a tool reads on its connection answers a command it sent there, after
\* the game thread dealt with it: a known command has run, any other is an error.
RepliesFollowExecution ==
    \A c \in Conns : \A k \in DOMAIN outbound[c] :
        LET reply == outbound[c][k] IN
        /\ reply.num \in DOMAIN sent[c]
        /\ \/ /\ sent[c][reply.num] = "known"
              /\ \E e \in DOMAIN executed : executed[e] = [conn |-> c, num |-> reply.num]
           \/ /\ sent[c][reply.num] = "unknown"
              /\ reply.status = "error"

\* Responses come in the order of their commands, and each from its first byte on
\* without a gap, even when the one before was cut short by a failing Send.
ReplyOrder ==
    \A c \in Conns : \A k \in DOMAIN outbound[c] :
        LET reply == outbound[c][k]
            before == outbound[c][k - 1] IN
        \/ reply.part = 1 /\ (k > 1 => before.num < reply.num)
        \/ /\ k > 1
           /\ before = [num |-> reply.num, part |-> reply.part - 1,
                        status |-> reply.status]

\* While Send does not fail, the stream a connected tool reads is whole responses
\* one after the other: the loop sends all of one before anything of the next.
ResponseStreamIntact ==
    \A c \in Conns : clientOpen[c] =>
        \A k \in DOMAIN outbound[c] :
            k > 1 /\ outbound[c][k].part = 1 => outbound[c][k - 1].part = ReplyParts

\* No command of a tool that is there is lost between two places: it is on its way
\* to Recv, the one command the thread works on, or answered to the last part. Holds
\* while the socket calls do not fail and every Recv returns one whole command: each
\* comes in one segment, and Recv takes one or the tool has one in flight.
NoCommandLost ==
    \A c \in Conns : clientOpen[c] =>
        \A i \in DOMAIN sent[c] : sent[c][i] # "untyped" =>
            \/ \E k \in DOMAIN inbound[c] : inbound[c][k].num = i
            \/ client = c /\ cmd = i
            \/ Answered(c, i)

\* While the socket calls do not fail, the server never closes the connection of
\* a tool that is still there: the next tool waits until this one hangs up.
NeverHangsUpOnLiveTool ==
    [][\A c \in Conns : conn[c] = "accepted" /\ clientOpen[c] => conn'[c] = "accepted"]_vars

-----------------------------------------------------------------------------
(***************************************************************************)
(* The server implements CommandService. A command is answered when the    *)
(* first part of its response is handed to the kernel.                     *)
(***************************************************************************)

\* The responses begun on each connection.
Begun ==
    [c \in Conns |->
        {[num |-> outbound[c][k].num, status |-> outbound[c][k].status] :
            k \in {j \in DOMAIN outbound[c] : outbound[c][j].part = 1}}]

Service == INSTANCE CommandService WITH replies <- Begun

\* Seen by the tools, whatever is cut, glued, lost or stopped, the server is a
\* CommandService: commands run one by one, in order and once, and the reply to
\* each is begun before the game thread runs a command of anyone else.
ImplementsService == Service!Spec

-----------------------------------------------------------------------------
(***************************************************************************)
(* Liveness.                                                               *)
(***************************************************************************)

\* The steps the server thread can still take before it is out of the inner loop or
\* in the next Recv, and from there out of Run, once bRunning is cleared.
StepsLeft ==
    CASE pc \in {"off", "done"} -> 0
      [] pc = "outer" -> 1
      [] pc = "inner" -> 2
      [] pc = "poll" -> 3
      [] pc = "send" -> 2 + (ReplyParts - partsSent)
      [] pc = "wait" -> 3 + ReplyParts
      [] pc = "recv" -> 4 + ReplyParts

\* Once StopServer has cleared bRunning, every step of the server thread brings it
\* nearer to the end of Run, whatever the sockets do and however many tools wait or
\* keep sending: all that can keep Kill(true) from returning is a step not taken.
StopWindsDown ==
    [][bridge = "joining" /\ ServerThread => StepsLeft' < StepsLeft]_vars

\* A command of the connection being served is answered, unless the tool hangs up
\* or the editor stops the server first.
EveryCommandAnswered ==
    \A c \in Conns : \A i \in 1..MaxCommands :
        (client = c /\ clientOpen[c] /\ i \in DOMAIN sent[c])
            ~> (Answered(c, i) \/ ~clientOpen[c] \/ bridge # "up")

\* Tools are served one at a time: if none keeps its connection open for ever, a
\* pending connection is accepted, unless the editor stops the server first.
PendingIsServed ==
    (\A d \in Conns : []<>~clientOpen[d])
        => \A c \in Conns : conn[c] = "pending" ~> (conn[c] # "pending" \/ bridge # "up")

\* StopServer returns: Kill(true) waits for the server thread, which leaves Run.
StopTerminates == bridge = "joining" ~> bridge = "down"

\* StopServer returns when it finds the server thread anywhere but between the
\* test of bRunning and the Recv that may bring a command, or in Future.Get().
StopTerminatesOutsideCommand ==
    (bridge = "joining" /\ pc \notin {"recv", "wait"}) ~> bridge = "down"

=============================================================================
