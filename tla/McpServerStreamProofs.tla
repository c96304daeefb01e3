------------------------ MODULE McpServerStreamProofs ------------------------
(***************************************************************************)
(* Proofs that responses of McpServer are whole and no tool is hung up on, *)
(* as long as no socket call fails while the tool is there.                *)
(***************************************************************************)
EXTENDS McpServerOrderProofs, FiniteSetTheorems

\* Only a connection that was made carries responses.
UnusedEmpty ==
    /\ \A c \in Conns : conn[c] = "unused" => outbound[c] = <<>>
    /\ client \in Conns => conn[client] # "unused"

\* The stream to a tool that is there ends with a whole response, but while the
\* thread is between two Sends of one.
EndsWhole ==
    \A c \in Conns : clientOpen[c] /\ outbound[c] # <<>> =>
        \/ outbound[c][Len(outbound[c])].part = ReplyParts
        \/ c = client /\ partsSent > 0

StreamInv == UnusedEmpty /\ EndsWhole /\ ResponseStreamIntact

-----------------------------------------------------------------------------
\* A step that hands nothing to the kernel and ends no command halfway.
LEMMA NothingSent ==
    ASSUME StreamInv, outbound' = outbound, partsSent = 0,
           \A c \in Conns : clientOpen'[c] => clientOpen[c] \/ outbound[c] = <<>>,
           UnusedEmpty'
    PROVE  StreamInv'
<1>1. EndsWhole'
    BY DEF StreamInv, EndsWhole
<1>2. ResponseStreamIntact'
    BY DEF StreamInv, ResponseStreamIntact
<1> QED BY <1>1, <1>2 DEF StreamInv

\* A step that leaves the thread where it is in its response.
LEMMA NothingTouched ==
    ASSUME StreamInv, UNCHANGED <<outbound, partsSent, client>>,
           \A c \in Conns : clientOpen'[c] => clientOpen[c] \/ outbound[c] = <<>>,
           UnusedEmpty'
    PROVE  StreamInv'
<1>1. EndsWhole'
    BY DEF StreamInv, EndsWhole
<1>2. ResponseStreamIntact'
    BY DEF StreamInv, ResponseStreamIntact
<1> QED BY <1>1, <1>2 DEF StreamInv

\* The connections are as they were, or closed.
LEMMA ClosingKeeps ==
    ASSUME StreamInv, outbound' = outbound, client' = client \/ client' = NoConn,
           \A c \in Conns : conn'[c] \in {conn[c], "closed"}
    PROVE  UnusedEmpty'
    BY BoundsPositive DEF StreamInv, UnusedEmpty

LEMMA GameThreadStream ==
    ASSUME FullInv, StreamInv, GameThread
    PROVE  StreamInv'
<1>1. /\ outbound' = outbound /\ clientOpen' = clientOpen /\ partsSent' = partsSent
      /\ \A c \in Conns : conn'[c] \in {conn[c], "closed"}
  <2>1. outbound' = outbound /\ clientOpen' = clientOpen /\ partsSent' = partsSent
      BY DEF GameThread, StartSucceeds, StartFailsEarly, StartFailsNoThread, DeinitializeIdle,
             StopServer, JoinServerThread, RunTask, toolVars, threadVars
  <2>2. conn' = conn \/ CloseSockets
      BY DEF GameThread, StartSucceeds, StartFailsEarly, StartFailsNoThread, DeinitializeIdle,
             StopServer, JoinServerThread, RunTask
  <2> QED BY <2>1, <2>2 DEF CloseSockets
<1>2. CASE StartSucceeds
  <2>1. client' = NoConn /\ partsSent = 0
      BY <1>2 DEF StartSucceeds, FullInv, IInv, ThreadLocals, ThreadLifetime
  <2> QED BY <1>1, <2>1, ClosingKeeps, NothingSent
<1>3. CASE ~StartSucceeds
  <2>1. client' = client
      BY <1>3 DEF GameThread, StartFailsEarly, StartFailsNoThread, DeinitializeIdle,
                  StopServer, JoinServerThread, RunTask, threadVars
  <2> QED BY <1>1, <2>1, ClosingKeeps, NothingTouched
<1> QED BY <1>2, <1>3

LEMMA AcceptStream ==
    ASSUME FullInv, StreamInv, Accept \/ AcceptFails
    PROVE  StreamInv'
<1>1. /\ outbound' = outbound /\ clientOpen' = clientOpen /\ partsSent = 0
      /\ Head(backlog) \in Conns
    BY DEF Accept, AcceptFails, toolVars, FullInv, IInv, TypeOK, ThreadLocals
<1>2. CASE Accept
  <2>1. /\ client' = Head(backlog)
        /\ conn' = [c \in Conns |-> IF c = Head(backlog) THEN "accepted"
                                    ELSE IF c = client THEN "closed" ELSE conn[c]]
      BY <1>2 DEF Accept, ReplaceClient
  <2>2. UnusedEmpty'
      BY <1>1, <2>1 DEF StreamInv, UnusedEmpty
  <2> QED BY <1>1, <2>2, NothingSent
<1>3. CASE AcceptFails
  <2>1. /\ client' = NoConn
        /\ \A c \in Conns : conn'[c] \in {conn[c], "closed"}
      BY <1>3 DEF AcceptFails, ReplaceClient
  <2> QED BY <1>1, <2>1, ClosingKeeps, NothingSent
<1> QED BY <1>2, <1>3

\* The first part of a response follows the last part of another.
LEMMA SendPartStream ==
    ASSUME FullInv, StreamInv, SendPart
    PROVE  StreamInv'
<1> DEFINE reply == [num |-> cmd, part |-> partsSent + 1, status |-> promise]
           old == outbound[client]
<1>1. /\ client \in Conns /\ partsSent \in Nat /\ partsSent < ReplyParts
      /\ outbound' = [outbound EXCEPT ![client] = Append(old, reply)]
      /\ UNCHANGED <<client, conn, clientOpen>>
    BY BoundsPositive DEF SendPart, EndCommand, toolVars, FullInv, IInv, TypeOK, ThreadLocals
<1>2. reply \in Part /\ old \in Seq(Part)
  <2>1. reply \in Part
      BY BoundsPositive DEF FullInv, IInv, TypeOK, ThreadLocals, SendPart, Part
  <2>2. old \in Seq(Part)
      BY <1>1 DEF FullInv, IInv, TypeOK
  <2> QED BY <2>1, <2>2
<1>3. \A d \in Conns : outbound'[d] = IF d = client THEN Append(old, reply) ELSE outbound[d]
    BY <1>1 DEF FullInv, IInv, TypeOK
<1>4. /\ DOMAIN old = 1..Len(old) /\ Len(old) \in Nat
      /\ DOMAIN outbound'[client] = 1..Len(old) + 1
      /\ Len(outbound'[client]) = Len(old) + 1
      /\ outbound'[client][Len(old) + 1] = reply
      /\ \A j \in 1..Len(old) : outbound'[client][j] = old[j]
  <2> HIDE DEF reply, old
  <2>1. outbound'[client] = Append(old, reply)
      BY <1>1, <1>3
  <2> QED BY <1>2, <2>1, AppendElements
<1>5. reply.part = partsSent + 1
    OBVIOUS
<1> HIDE DEF reply
<1>6. UnusedEmpty'
    BY <1>1, <1>3 DEF StreamInv, UnusedEmpty
<1>7. EndsWhole'
  <2> SUFFICES ASSUME NEW c \in Conns, clientOpen[c], outbound'[c] # <<>>
               PROVE  \/ outbound'[c][Len(outbound'[c])].part = ReplyParts
                      \/ c = client /\ partsSent' > 0
      BY <1>1 DEF EndsWhole
  <2>1. CASE c # client
      BY <1>3, <2>1 DEF StreamInv, EndsWhole
  <2>2. CASE c = client /\ partsSent + 1 = ReplyParts
      BY <1>4, <1>5, <2>2
  <2>3. CASE c = client /\ partsSent + 1 # ReplyParts
      BY <1>1, <2>3 DEF SendPart
  <2> QED BY <2>1, <2>2, <2>3
<1>8. ResponseStreamIntact'
  <2> SUFFICES ASSUME NEW c \in Conns, clientOpen[c], NEW k \in DOMAIN outbound'[c],
                      k > 1, outbound'[c][k].part = 1
               PROVE  outbound'[c][k - 1].part = ReplyParts
      BY <1>1 DEF ResponseStreamIntact
  <2>1. CASE c # client
      BY <1>3, <2>1 DEF StreamInv, ResponseStreamIntact
  <2>2. CASE c = client /\ k <= Len(old)
    <3>1. k \in DOMAIN old /\ k - 1 \in 1..Len(old)
        BY <1>4, <2>2
    <3> QED BY <1>4, <2>2, <3>1 DEF StreamInv, ResponseStreamIntact
  <2>3. CASE c = client /\ k = Len(old) + 1
    <3>1. partsSent = 0 /\ k - 1 = Len(old) /\ Len(old) \in 1..Len(old) /\ old # <<>>
        BY <1>1, <1>2, <1>4, <1>5, <2>3
    <3>2. old[Len(old)].part = ReplyParts
        BY <1>1, <2>3, <3>1 DEF StreamInv, EndsWhole
    <3> QED BY <1>4, <2>3, <3>1, <3>2
  <2> QED BY <1>4, <2>1, <2>2, <2>3
<1> QED BY <1>6, <1>7, <1>8 DEF StreamInv

\* Only a tool that has hung up makes Send fail.
LEMMA SendFailsStream ==
    ASSUME StreamInv, ~Faults, SendFails
    PROVE  StreamInv'
<1>1. /\ UNCHANGED <<outbound, client, conn, clientOpen>>
      /\ ~clientOpen[client]
    BY DEF SendFails, toolVars
<1>2. UnusedEmpty' /\ EndsWhole' /\ ResponseStreamIntact'
    BY <1>1 DEF StreamInv, UnusedEmpty, EndsWhole, ResponseStreamIntact
<1> QED BY <1>2 DEF StreamInv

LEMMA ServerThreadStream ==
    ASSUME FullInv, StreamInv, ~Faults, ServerThread
    PROVE  StreamInv'
<1>1. CASE OuterLoop \/ PollNothing \/ InnerLoop \/ RecvCommand \/ RecvDiscards \/ RecvNothing
           \/ RecvEnds \/ TakeResponse
  <2>1. UNCHANGED <<outbound, partsSent, client, conn, clientOpen>>
      BY <1>1 DEF OuterLoop, PollNothing, InnerLoop, RecvCommand, RecvDiscards, RecvNothing,
                  RecvEnds, TakeResponse, toolVars
  <2> QED BY <2>1, ClosingKeeps, NothingTouched
<1> QED BY <1>1, AcceptStream, SendPartStream, SendFailsStream DEF ServerThread

LEMMA ToolStream ==
    ASSUME FullInv, StreamInv, NEW c \in Conns, Tool(c)
    PROVE  StreamInv'
<1>1. UNCHANGED <<outbound, partsSent, client>>
    BY DEF Tool, Connect, SendCommand, Disconnect, threadVars
<1>2. CASE Connect(c)
  <2>1. /\ \A d \in Conns : conn'[d] = IF d = c THEN "pending" ELSE conn[d]
        /\ \A d \in Conns : clientOpen'[d] = IF d = c THEN TRUE ELSE clientOpen[d]
        /\ outbound[c] = <<>>
      BY <1>2 DEF Connect, FullInv, IInv, TypeOK, StreamInv, UnusedEmpty
  <2>2. UnusedEmpty'
      BY <1>1, <2>1 DEF StreamInv, UnusedEmpty
  <2> QED BY <1>1, <2>1, <2>2, NothingTouched
<1>3. CASE SendCommand(c) \/ Disconnect(c)
  <2>1. conn' = conn /\ \A d \in Conns : clientOpen'[d] => clientOpen[d]
      BY <1>3 DEF SendCommand, Disconnect, FullInv, IInv, TypeOK
  <2> QED BY <1>1, <2>1, ClosingKeeps, NothingTouched
<1> QED BY <1>2, <1>3 DEF Tool

-----------------------------------------------------------------------------
(***************************************************************************)
(* Who is hung up on.                                                      *)
(***************************************************************************)

\* The thread goes back to poll for the next connection only after the tool it served
\* has hung up; when the loops end because of Stop it does not poll again.
ServedHungUp ==
    (pc = "poll" \/ (pc = "outer" /\ bRunning)) /\ client \in Conns
        => ~clientOpen[client]

LEMMA HungUpKept ==
    ASSUME FullInv, StreamInv, ServedHungUp, ~Faults, [Next]_vars
    PROVE  ServedHungUp'
<1>1. CASE GameThread
  <2>1. CASE StartSucceeds
      BY <2>1, BoundsPositive DEF StartSucceeds, ServedHungUp
  <2>2. CASE JoinServerThread
      BY <2>2 DEF JoinServerThread, ServedHungUp
  <2>3. CASE StopServer \/ StartFailsEarly \/ StartFailsNoThread \/ DeinitializeIdle \/ RunTask
      BY <2>3 DEF StopServer, StartFailsEarly, StartFailsNoThread, DeinitializeIdle, RunTask,
                  threadVars, toolVars, ServedHungUp
  <2> QED BY <1>1, <2>1, <2>2, <2>3 DEF GameThread
<1>2. CASE ServerThread
  <2>1. CASE RecvEnds
      BY <2>1 DEF RecvEnds, toolVars, ServedHungUp
  <2>2. CASE OuterLoop \/ PollNothing \/ InnerLoop
    <3>1. pc = "poll" => bRunning' = bRunning /\ pc' = "outer"
        BY <2>2 DEF OuterLoop, PollNothing, InnerLoop
    <3> QED BY <2>2, <3>1 DEF OuterLoop, PollNothing, InnerLoop, toolVars, ServedHungUp
  <2>3. CASE Accept \/ RecvCommand \/ RecvDiscards \/ RecvNothing \/ TakeResponse
    <3>1. pc' \in {"inner", "wait", "send"}
        BY <2>3 DEF Accept, RecvCommand, Execute, RecvDiscards, RecvNothing, TakeResponse
    <3> QED BY <3>1 DEF ServedHungUp
  <2>4. CASE SendPart \/ SendFails
    <3>1. pc' \in {"inner", "send"}
        BY <2>4 DEF SendPart, SendFails, EndCommand
    <3> QED BY <3>1 DEF ServedHungUp
  <2>5. ~AcceptFails
      BY DEF AcceptFails
  <2> QED BY <1>2, <2>1, <2>2, <2>3, <2>4, <2>5 DEF ServerThread
<1>3. ASSUME NEW c \in Conns, Tool(c) PROVE ServedHungUp'
  <2>1. UNCHANGED <<pc, bRunning, client>>
      BY <1>3 DEF Tool, Connect, SendCommand, Disconnect, threadVars
  <2>2. client \in Conns /\ ~clientOpen[client] => ~clientOpen'[client]
      BY <1>3 DEF Tool, Connect, SendCommand, Disconnect, FullInv, IInv, TypeOK,
                  StreamInv, UnusedEmpty
  <2> QED BY <2>1, <2>2 DEF ServedHungUp
<1>4. CASE UNCHANGED vars
    BY <1>4 DEF vars, threadVars, toolVars, ServedHungUp
<1> QED BY <1>1, <1>2, <1>3, <1>4 DEF Next

LEMMA NoHangUp ==
    ASSUME FullInv, ServedHungUp, ~Faults, [Next]_vars,
           NEW c \in Conns, conn[c] = "accepted", clientOpen[c]
    PROVE  conn'[c] = "accepted"
<1>1. CASE GameThread
  <2>1. conn' = conn \/ CloseSockets
      BY <1>1 DEF GameThread, StartSucceeds, StartFailsEarly, StartFailsNoThread,
                  DeinitializeIdle, StopServer, JoinServerThread, RunTask
  <2> QED BY <2>1 DEF CloseSockets
<1>2. CASE Accept
  <2>1. c # client
      BY <1>2 DEF Accept, ServedHungUp
  <2> QED BY <1>2, <2>1 DEF Accept, ReplaceClient
<1>3. CASE ServerThread /\ ~Accept
    BY <1>3 DEF ServerThread, OuterLoop, PollNothing, AcceptFails, InnerLoop, RecvCommand,
                RecvDiscards, RecvNothing, RecvEnds, TakeResponse, SendPart, SendFails
<1>4. ASSUME NEW d \in Conns, Tool(d) PROVE conn'[c] = "accepted"
    BY <1>4 DEF Tool, Connect, SendCommand, Disconnect, FullInv, IInv, TypeOK
<1>5. CASE UNCHANGED vars
    BY <1>5 DEF vars
<1> QED BY <1>1, <1>2, <1>3, <1>4, <1>5 DEF Next

-----------------------------------------------------------------------------
(***************************************************************************)
(* What becomes of a command, when each comes in one segment and Recv      *)
(* takes one or the tool has one in flight.                                *)
(***************************************************************************)
USE DEF bridgeVars, gameVars, threadVars, toolVars

OneByOne == MaxSegments = 1 /\ (RecvMax = 1 \/ Window = 1)

\* Command i of connection c is where NoCommandLost says it may be.
Kept(c, i) ==
    \/ \E k \in DOMAIN inbound[c] : inbound[c][k].num = i
    \/ client = c /\ cmd = i
    \/ Answered(c, i)

\* A tool with one command in flight has at most one segment on its way.
AtMostOneSegment == Window = 1 => \A c \in Conns : Len(inbound[c]) <= 1

\* A connection no tool has opened yet has sent nothing.
UnusedSilent == \A c \in Conns : conn[c] = "unused" => sent[c] = <<>>

KeptInv == AtMostOneSegment /\ UnusedSilent /\ NoCommandLost

\* NoCommandLost in terms of Kept, in this state and in the next one.
LEMMA LostMeans ==
    /\ NoCommandLost <=> \A c \in Conns : clientOpen[c] =>
            \A i \in DOMAIN sent[c] : sent[c][i] # "untyped" => Kept(c, i)
    /\ NoCommandLost' <=> \A c \in Conns : clientOpen'[c] =>
            \A i \in DOMAIN sent'[c] : sent'[c][i] # "untyped" => Kept(c, i)'
    BY DEF NoCommandLost, Kept

\* Commands are numbered from 1.
LEMMA Numbered ==
    ASSUME FullInv, NEW c \in Conns, NEW i \in DOMAIN sent[c]
    PROVE  i \in Nat /\ i # 0
<1>1. sent[c] \in Seq(Kinds)
    BY DEF FullInv, IInv, TypeOK
<1> QED BY <1>1

\* A step that neither sends nor opens a connection loses nothing if it keeps what the
\* state before kept.
LEMMA KeptStays ==
    ASSUME KeptInv, UNCHANGED <<sent, conn, clientOpen>>, AtMostOneSegment',
           \A c \in Conns : clientOpen[c] =>
               \A i \in DOMAIN sent[c] : sent[c][i] # "untyped" /\ Kept(c, i) => Kept(c, i)'
    PROVE  KeptInv'
<1>1. NoCommandLost'
    BY LostMeans DEF KeptInv
<1>2. UnusedSilent'
    BY DEF KeptInv, UnusedSilent
<1> QED BY <1>1, <1>2 DEF KeptInv

\* A step of the loops, and one of the game thread: the command worked on, if any, is
\* the same, and no stream changes.
LEMMA KeptQuiet ==
    ASSUME FullInv, KeptInv, UNCHANGED <<sent, clientOpen, inbound, outbound, cmd>>,
           client' = client \/ cmd = 0,
           \A c \in Conns : conn'[c] = "unused" => conn[c] = "unused"
    PROVE  KeptInv'
<1>1. AtMostOneSegment' /\ UnusedSilent'
    BY DEF KeptInv, AtMostOneSegment, UnusedSilent
<1>2. ASSUME NEW c \in Conns, NEW i \in DOMAIN sent[c], Kept(c, i)
      PROVE  Kept(c, i)'
  <2>1. i # 0
      BY Numbered
  <2> QED BY <1>2, <2>1 DEF Kept, Answered
<1>3. NoCommandLost'
    BY <1>2, LostMeans DEF KeptInv
<1> QED BY <1>1, <1>3 DEF KeptInv

LEMMA GameThreadKept ==
    ASSUME FullInv, KeptInv, GameThread
    PROVE  KeptInv'
<1>1. /\ UNCHANGED <<sent, clientOpen, inbound, outbound, cmd>>
      /\ \A c \in Conns : conn'[c] \in {conn[c], "closed"}
  <2>1. UNCHANGED <<sent, clientOpen, inbound, outbound, cmd>>
      BY DEF GameThread, StartSucceeds, StartFailsEarly, StartFailsNoThread, DeinitializeIdle,
             StopServer, JoinServerThread, RunTask
  <2>2. conn' = conn \/ CloseSockets
      BY DEF GameThread, StartSucceeds, StartFailsEarly, StartFailsNoThread, DeinitializeIdle,
             StopServer, JoinServerThread, RunTask
  <2> QED BY <2>1, <2>2 DEF CloseSockets
<1>2. client' = client \/ cmd = 0
  <2>1. CASE StartSucceeds
      BY <2>1 DEF StartSucceeds, FullInv, IInv, ThreadLocals, ThreadLifetime
  <2>2. CASE ~StartSucceeds
      BY <2>2 DEF GameThread, StartFailsEarly, StartFailsNoThread, DeinitializeIdle,
                  StopServer, JoinServerThread, RunTask
  <2> QED BY <2>1, <2>2
<1> QED BY <1>1, <1>2, KeptQuiet

\* What Recv returns is the one segment of the oldest command on its way.
LEMMA ChunkIsOneCommand ==
    ASSUME FullInv, KeptInv, OneByOne, client \in Conns, NEW n \in ChunkSizes(client)
    PROVE  LET first == inbound[client][1] IN
           /\ n = 1 /\ 1 <= Len(inbound[client])
           /\ SubSeq(inbound[client], 1, n)[1] = first
           /\ ParsesAsOne(SubSeq(inbound[client], 1, n))
<1>1. /\ n \in Nat /\ n > 0 /\ n <= Len(inbound[client]) /\ n <= RecvMax
      /\ inbound[client] \in Seq(Segment)
    BY BoundsPositive DEF FullInv, IInv, TypeOK, ChunkSizes
<1>2. n = 1
  <2>1. CASE RecvMax = 1
      BY <1>1, <2>1
  <2>2. CASE Window = 1
    <3>1. Len(inbound[client]) <= 1
        BY <2>2 DEF KeptInv, AtMostOneSegment
    <3> QED BY <1>1, <3>1
  <2> QED BY <2>1, <2>2 DEF OneByOne
<1> DEFINE chunk == SubSeq(inbound[client], 1, n)
<1>3. /\ chunk[1] = inbound[client][1] /\ inbound[client][1] \in Segment
      /\ Len(chunk) = n
    BY <1>1, ChunkHead
<1> HIDE DEF chunk
<1>4. chunk[1].part = 1 /\ chunk[1].of = 1
    BY <1>3 DEF Segment, OneByOne
<1> QED BY <1>1, <1>2, <1>3, <1>4 DEF ParsesAsOne, chunk

\* After Recv has taken one segment every other is still there.
LEMMA TakeKeepsOthers ==
    ASSUME FullInv, KeptInv, client \in Conns, 1 <= Len(inbound[client]), Take(client, 1)
    PROVE  /\ AtMostOneSegment'
           /\ \A c \in Conns, i \in Nat :
               (\E k \in DOMAIN inbound[c] : inbound[c][k].num = i) =>
                   \/ \E k \in DOMAIN inbound'[c] : inbound'[c][k].num = i
                   \/ c = client /\ i = inbound[client][1].num
<1> DEFINE s == inbound[client]
           rest == SubSeq(s, 2, Len(s))
<1>1. s \in Seq(Segment) /\ Len(s) \in Nat
    BY DEF FullInv, IInv, TypeOK
<1>2. rest \in Seq(Segment) /\ Len(rest) = Len(s) - 1
      /\ \A k \in 1..Len(s) - 1 : rest[k] = s[k + 1]
    BY <1>1
<1>3. \A c \in Conns : inbound'[c] = IF c = client THEN rest ELSE inbound[c]
    BY DEF Take, FullInv, IInv, TypeOK
<1> HIDE DEF rest
<1>4. AtMostOneSegment'
    BY <1>1, <1>2, <1>3 DEF KeptInv, AtMostOneSegment
<1>5. ASSUME NEW c \in Conns, NEW i \in Nat, NEW k \in DOMAIN inbound[c], inbound[c][k].num = i
      PROVE  \/ \E j \in DOMAIN inbound'[c] : inbound'[c][j].num = i
             \/ c = client /\ i = inbound[client][1].num
  <2>1. CASE c # client
      BY <1>3, <1>5, <2>1
  <2>2. CASE c = client /\ k = 1
      BY <1>5, <2>2
  <2>3. CASE c = client /\ k # 1
    <3>1. k - 1 \in 1..Len(s) - 1 /\ k - 1 \in DOMAIN rest /\ rest[k - 1] = s[k]
        BY <1>1, <1>2, <2>3
    <3> QED BY <1>3, <1>5, <2>3, <3>1
  <2> QED BY <2>1, <2>2, <2>3
<1> QED BY <1>4, <1>5

LEMMA RecvKept ==
    ASSUME FullInv, KeptInv, OneByOne, RecvCommand \/ RecvDiscards
    PROVE  KeptInv'
<1>1. /\ client \in Conns /\ cmd = 0
      /\ UNCHANGED <<sent, conn, clientOpen, client, outbound>>
    BY DEF RecvCommand, RecvDiscards, FullInv, IInv, ThreadLocals
<1> DEFINE first == inbound[client][1].num
<1>2. /\ Take(client, 1) /\ 1 <= Len(inbound[client])
      /\ cmd' = first \/ sent[client][first] = "untyped"
  <2>1. CASE RecvCommand
    <3>1. PICK n \in ChunkSizes(client) :
            /\ Execute(client, SubSeq(inbound[client], 1, n)[1].num)
            /\ Take(client, n)
        BY <2>1 DEF RecvCommand
    <3>2. /\ n = 1 /\ 1 <= Len(inbound[client])
          /\ SubSeq(inbound[client], 1, n)[1] = inbound[client][1]
        BY <1>1, ChunkIsOneCommand
    <3> QED BY <3>1, <3>2 DEF Execute
  <2>2. CASE RecvDiscards
    <3>1. PICK n \in ChunkSizes(client) :
            /\ LET chunk == SubSeq(inbound[client], 1, n) IN
                ParsesAsOne(chunk) => sent[client][chunk[1].num] = "untyped"
            /\ Take(client, n)
        BY <2>2 DEF RecvDiscards
    <3>2. /\ n = 1 /\ 1 <= Len(inbound[client])
          /\ SubSeq(inbound[client], 1, n)[1] = inbound[client][1]
          /\ ParsesAsOne(SubSeq(inbound[client], 1, n))
        BY <1>1, ChunkIsOneCommand
    <3> QED BY <3>1, <3>2
  <2> QED BY <2>1, <2>2
<1> HIDE DEF first
<1>3. AtMostOneSegment'
    BY <1>1, <1>2, TakeKeepsOthers
<1>4. ASSUME NEW c \in Conns, NEW i \in DOMAIN sent[c], sent[c][i] # "untyped", Kept(c, i)
      PROVE  Kept(c, i)'
  <2>1. i \in Nat /\ i # 0
      BY Numbered
  <2>2. CASE Answered(c, i)
      BY <1>1, <2>2 DEF Kept, Answered
  <2>3. CASE \E k \in DOMAIN inbound[c] : inbound[c][k].num = i
    <3>1. \/ \E k \in DOMAIN inbound'[c] : inbound'[c][k].num = i
          \/ c = client /\ i = first
        BY <1>1, <1>2, <2>1, <2>3, TakeKeepsOthers DEF first
    <3> QED BY <1>1, <1>2, <1>4, <3>1 DEF Kept
  <2> QED BY <1>1, <1>4, <2>1, <2>2, <2>3 DEF Kept
<1> QED BY <1>1, <1>3, <1>4, KeptStays

\* The last part of the response answers the command worked on.
LEMMA SendPartKept ==
    ASSUME FullInv, KeptInv, SendPart
    PROVE  KeptInv'
<1> DEFINE reply == [num |-> cmd, part |-> partsSent + 1, status |-> promise]
           old == outbound[client]
<1>1. /\ client \in Conns /\ partsSent \in Nat
      /\ outbound' = [outbound EXCEPT ![client] = Append(old, reply)]
      /\ UNCHANGED <<sent, conn, clientOpen, inbound, client>>
      /\ cmd' = cmd \/ partsSent + 1 = ReplyParts
    BY BoundsPositive DEF SendPart, EndCommand, FullInv, IInv, TypeOK, ThreadLocals
<1>2. reply \in Part /\ old \in Seq(Part)
  <2>1. reply \in Part
      BY BoundsPositive DEF FullInv, IInv, TypeOK, ThreadLocals, SendPart, Part
  <2>2. old \in Seq(Part)
      BY <1>1 DEF FullInv, IInv, TypeOK
  <2> QED BY <2>1, <2>2
<1>3. reply.num = cmd /\ reply.part = partsSent + 1
    OBVIOUS
<1> HIDE DEF reply, old
<1>4. /\ DOMAIN old = 1..Len(old) /\ Len(old) \in Nat
      /\ DOMAIN outbound'[client] = 1..Len(old) + 1
      /\ outbound'[client][Len(old) + 1] = reply
      /\ \A j \in 1..Len(old) : outbound'[client][j] = old[j]
  <2>1. outbound'[client] = Append(old, reply)
      BY <1>1 DEF FullInv, IInv, TypeOK, old
  <2> QED BY <1>2, <2>1, AppendElements
<1>5. AtMostOneSegment'
    BY <1>1 DEF KeptInv, AtMostOneSegment
<1>6. ASSUME NEW c \in Conns, NEW i, Answered(c, i)
      PROVE  Answered(c, i)'
  <2>1. CASE c # client
    <3>1. outbound'[c] = outbound[c]
        BY <1>1, <2>1 DEF FullInv, IInv, TypeOK
    <3> QED BY <1>6, <3>1 DEF Answered
  <2>2. CASE c = client
      BY <1>4, <1>6, <2>2 DEF Answered, old
  <2> QED BY <2>1, <2>2
<1>7. ASSUME partsSent + 1 = ReplyParts, NEW i, i = cmd
      PROVE  Answered(client, i)'
  <2>1. Len(old) + 1 \in DOMAIN outbound'[client]
      BY <1>4
  <2>2. outbound'[client][Len(old) + 1].num = i /\ outbound'[client][Len(old) + 1].part = ReplyParts
      BY <1>3, <1>4, <1>7
  <2> QED BY <1>1, <2>1, <2>2 DEF Answered
<1>8. ASSUME NEW c \in Conns, NEW i \in DOMAIN sent[c], Kept(c, i)
      PROVE  Kept(c, i)'
    BY <1>1, <1>6, <1>7, <1>8 DEF Kept
<1> QED BY <1>1, <1>5, <1>8, KeptStays

\* Only a tool that has hung up makes Send fail, and it no longer waits for an answer.
LEMMA SendFailsKept ==
    ASSUME FullInv, KeptInv, ~Faults, SendFails
    PROVE  KeptInv'
<1>1. /\ UNCHANGED <<sent, conn, clientOpen, inbound, outbound, client>>
      /\ ~clientOpen[client]
    BY DEF SendFails
<1>2. AtMostOneSegment'
    BY <1>1 DEF KeptInv, AtMostOneSegment
<1>3. ASSUME NEW c \in Conns, clientOpen[c], NEW i \in DOMAIN sent[c], Kept(c, i)
      PROVE  Kept(c, i)'
    BY <1>1, <1>3 DEF Kept, Answered
<1> QED BY <1>1, <1>2, <1>3, KeptStays

LEMMA ServerThreadKept ==
    ASSUME FullInv, KeptInv, OneByOne, ~Faults, ServerThread
    PROVE  KeptInv'
<1>1. CASE OuterLoop \/ PollNothing \/ InnerLoop \/ RecvNothing \/ RecvEnds \/ TakeResponse
    BY <1>1, KeptQuiet DEF OuterLoop, PollNothing, InnerLoop, RecvNothing, RecvEnds, TakeResponse
<1>2. CASE Accept \/ AcceptFails
  <2>1. /\ cmd = 0 /\ Head(backlog) \in Conns
        /\ UNCHANGED <<sent, clientOpen, inbound, outbound, cmd>>
        /\ ReplaceClient("accepted") \/ ReplaceClient("closed")
      BY <1>2 DEF Accept, AcceptFails, FullInv, IInv, TypeOK, ThreadLocals
  <2>2. \A c \in Conns : conn'[c] = "unused" => conn[c] = "unused"
      BY <2>1 DEF ReplaceClient
  <2> QED BY <2>1, <2>2, KeptQuiet
<1> QED BY <1>1, <1>2, RecvKept, SendPartKept, SendFailsKept DEF ServerThread

\* With one command in flight, a tool that sends has nothing on its way any more: every
\* command is answered, and what is answered has left the network.
LEMMA NothingInFlight ==
    ASSUME FullInv, Window = 1, NEW c \in Conns, SendCommand(c)
    PROVE  inbound[c] = <<>>
<1> DEFINE open == {i \in DOMAIN sent[c] : ~Answered(c, i)}
<1>1. /\ sent[c] \in Seq(Kinds) /\ inbound[c] \in Seq(Segment)
      /\ DOMAIN sent[c] = 1..Len(sent[c]) /\ Len(sent[c]) \in Nat
    BY DEF FullInv, IInv, TypeOK
<1>2. IsFiniteSet(open)
  <2>1. IsFiniteSet(1..Len(sent[c]))
      BY <1>1, FS_Interval
  <2>2. open \subseteq 1..Len(sent[c])
      BY <1>1
  <2> QED BY <2>1, <2>2, FS_Subset
<1>3. Cardinality(open) \in Nat /\ Cardinality(open) < 1
    BY <1>2, FS_CardinalityType DEF SendCommand
<1>4. open = {}
    BY <1>2, <1>3, FS_EmptySet
<1>5. ASSUME NEW j \in DOMAIN inbound[c] PROVE FALSE
  <2>1. inbound[c][j] \in Segment /\ inbound[c][j].num <= Len(sent[c])
      BY <1>1 DEF FullInv, OrderInv, SegmentsOrdered
  <2>2. PICK i \in Nat : i = inbound[c][j].num /\ i \in DOMAIN sent[c]
      BY <1>1, <2>1, BoundsPositive DEF Segment
  <2>3. PICK k \in DOMAIN outbound[c] : outbound[c][k].num = i
      BY <1>4, <2>2 DEF Answered
  <2>4. Received(c, i)
      BY <2>3 DEF FullInv, OrderInv, BehindSegments
  <2> QED BY <2>2, <2>4 DEF Received
<1>6. Len(inbound[c]) = 0
  <2>1. Len(inbound[c]) \in Nat /\ DOMAIN inbound[c] = 1..Len(inbound[c])
      BY <1>1
  <2>2. 1 \notin DOMAIN inbound[c]
      BY <1>5
  <2> QED BY <2>1, <2>2
<1> QED BY <1>1, <1>6

LEMMA SendCommandKept ==
    ASSUME FullInv, KeptInv, OneByOne, NEW c \in Conns, SendCommand(c)
    PROVE  KeptInv'
<1> DEFINE i == Len(sent[c]) + 1
           seg == [num |-> i, part |-> 1, of |-> 1]
<1>1. /\ UNCHANGED <<client, cmd, conn, clientOpen, outbound>>
      /\ conn[c] # "unused"
      /\ sent[c] \in Seq(Kinds) /\ inbound[c] \in Seq(Segment)
      /\ i \in Nat /\ i \in 1..MaxCommands
    BY BoundsPositive DEF SendCommand, FullInv, IInv, TypeOK
<1>2. PICK kind \in Kinds :
        /\ sent' = [sent EXCEPT ![c] = Append(@, kind)]
        /\ inbound' = [inbound EXCEPT ![c] = @ \o <<seg>>]
  <2>1. PICK kind \in Kinds, n \in 1..MaxSegments :
          /\ sent' = [sent EXCEPT ![c] = Append(@, kind)]
          /\ inbound' = [inbound EXCEPT ![c] = @ \o Segments(Len(sent[c]) + 1, n)]
      BY DEF SendCommand
  <2>2. n = 1 /\ Segments(i, 1) = <<seg>>
      BY DEF OneByOne, Segments
  <2> QED BY <2>1, <2>2
<1>3. seg \in Segment /\ seg.num = i
    BY <1>1 DEF Segment, OneByOne
<1> HIDE DEF seg
<1>4. \A d \in Conns : /\ d # c => sent'[d] = sent[d] /\ inbound'[d] = inbound[d]
                       /\ d = c => sent'[d] = Append(sent[c], kind)
                                   /\ inbound'[d] = inbound[c] \o <<seg>>
    BY <1>2 DEF FullInv, IInv, TypeOK
<1>5. /\ Len(inbound[c] \o <<seg>>) = Len(inbound[c]) + 1
      /\ DOMAIN inbound'[c] = 1..Len(inbound[c]) + 1
      /\ DOMAIN inbound[c] = 1..Len(inbound[c]) /\ Len(inbound[c]) \in Nat
      /\ inbound'[c][Len(inbound[c]) + 1] = seg
      /\ \A k \in 1..Len(inbound[c]) : inbound'[c][k] = inbound[c][k]
    BY <1>1, <1>3, <1>4
<1>6. AtMostOneSegment'
  <2> SUFFICES ASSUME Window = 1, NEW d \in Conns PROVE Len(inbound'[d]) <= 1
      BY DEF AtMostOneSegment
  <2>1. CASE d # c
      BY <1>4, <2>1 DEF KeptInv, AtMostOneSegment
  <2>2. CASE d = c
      BY <1>4, <1>5, <2>2, NothingInFlight
  <2> QED BY <2>1, <2>2
<1>7. UnusedSilent'
    BY <1>1, <1>4 DEF KeptInv, UnusedSilent
<1>8. ASSUME NEW d \in Conns, NEW j, Kept(d, j)
      PROVE  Kept(d, j)'
    BY <1>1, <1>4, <1>5, <1>8 DEF Kept, Answered
<1>9. ASSUME NEW j, j = i PROVE Kept(c, j)'
  <2>1. Len(inbound[c]) + 1 \in DOMAIN inbound'[c]
      BY <1>5
  <2>2. inbound'[c][Len(inbound[c]) + 1].num = j
      BY <1>3, <1>5, <1>9
  <2> QED BY <2>1, <2>2 DEF Kept
<1>10. NoCommandLost'
  <2> SUFFICES ASSUME NEW d \in Conns, clientOpen[d], NEW j \in DOMAIN sent'[d],
                      sent'[d][j] # "untyped"
               PROVE  Kept(d, j)'
      BY <1>1, LostMeans
  <2>1. CASE d # c
      BY <1>4, <1>8, <2>1, LostMeans DEF KeptInv
  <2>2. CASE d = c /\ j # i
    <3>1. j \in DOMAIN sent[c] /\ sent'[c][j] = sent[c][j]
      <4>1. sent'[c] = Append(sent[c], kind)
          BY <1>4
      <4> QED BY <1>1, <2>2, <4>1, AppendElements
    <3> QED BY <1>8, <2>2, <3>1, LostMeans DEF KeptInv
  <2> QED BY <1>9, <2>1, <2>2
<1> QED BY <1>6, <1>7, <1>10 DEF KeptInv

LEMMA ToolKept ==
    ASSUME FullInv, KeptInv, OneByOne, NEW c \in Conns, Tool(c)
    PROVE  KeptInv'
<1>1. CASE Connect(c)
  <2>1. /\ UNCHANGED <<sent, inbound, outbound, client, cmd>>
        /\ \A d \in Conns : conn'[d] = IF d = c THEN "pending" ELSE conn[d]
        /\ \A d \in Conns : clientOpen'[d] = IF d = c THEN TRUE ELSE clientOpen[d]
        /\ sent[c] = <<>>
      BY <1>1 DEF Connect, FullInv, IInv, TypeOK, KeptInv, UnusedSilent
  <2>2. AtMostOneSegment' /\ UnusedSilent'
      BY <2>1 DEF KeptInv, AtMostOneSegment, UnusedSilent
  <2>3. ASSUME NEW d \in Conns, NEW i, Kept(d, i) PROVE Kept(d, i)'
      BY <2>1, <2>3 DEF Kept, Answered
  <2>4. DOMAIN sent[c] = {}
      BY <2>1
  <2>5. \A d \in Conns : clientOpen'[d] => d = c \/ clientOpen[d]
      BY <2>1
  <2>6. NoCommandLost'
      BY <2>1, <2>3, <2>4, <2>5, LostMeans DEF KeptInv
  <2> QED BY <2>2, <2>6 DEF KeptInv
<1>2. CASE Disconnect(c)
  <2>1. /\ UNCHANGED <<sent, inbound, outbound, client, cmd, conn>>
        /\ \A d \in Conns : clientOpen'[d] => clientOpen[d]
      BY <1>2 DEF Disconnect, FullInv, IInv, TypeOK
  <2>2. AtMostOneSegment' /\ UnusedSilent'
      BY <2>1 DEF KeptInv, AtMostOneSegment, UnusedSilent
  <2>3. ASSUME NEW d \in Conns, NEW i, Kept(d, i) PROVE Kept(d, i)'
      BY <2>1, <2>3 DEF Kept, Answered
  <2>4. NoCommandLost'
      BY <2>1, <2>3, LostMeans DEF KeptInv
  <2> QED BY <2>2, <2>4 DEF KeptInv
<1> QED BY <1>1, <1>2, SendCommandKept DEF Tool

LEMMA InitKept == Init => KeptInv
    BY DEF Init, KeptInv, AtMostOneSegment, UnusedSilent, NoCommandLost

LEMMA NextKept ==
    ASSUME FullInv, KeptInv, OneByOne, ~Faults, [Next]_vars
    PROVE  KeptInv'
<1>1. CASE UNCHANGED vars
    BY <1>1, KeptQuiet DEF vars
<1> QED BY <1>1, GameThreadKept, ServerThreadKept, ToolKept DEF Next

-----------------------------------------------------------------------------
(***************************************************************************)
(* The theorems.                                                           *)
(***************************************************************************)

\* The invariant holds throughout every behaviour without faults.
THEOREM FaultlessInductive ==
    ASSUME ~Faults
    PROVE  Spec => [](FullInv /\ StreamInv /\ ServedHungUp)
<1>1. Init => StreamInv /\ ServedHungUp
    BY BoundsPositive DEF Init, StreamInv, UnusedEmpty, EndsWhole, ResponseStreamIntact,
                          ServedHungUp
<1>2. FullInv /\ StreamInv /\ [Next]_vars => StreamInv'
  <2> SUFFICES ASSUME FullInv, StreamInv, [Next]_vars PROVE StreamInv'
      OBVIOUS
  <2>1. CASE UNCHANGED vars
    <3>1. UNCHANGED <<outbound, partsSent, client, conn, clientOpen>>
        BY <2>1 DEF vars, threadVars, toolVars
    <3> QED BY <3>1, ClosingKeeps, NothingTouched
  <2> QED BY <2>1, GameThreadStream, ServerThreadStream, ToolStream DEF Next
<1>3. FullInv /\ StreamInv /\ ServedHungUp /\ [Next]_vars => ServedHungUp'
    BY HungUpKept
<1> QED BY <1>1, <1>2, <1>3, OrderInductive, PTL DEF Spec

\* While no socket call fails, a tool that is there reads whole responses, one after
\* the other, whenever the server is stopped and whoever else hangs up.
THEOREM StreamIntact ==
    ASSUME ~Faults
    PROVE  Spec => []ResponseStreamIntact
<1>1. StreamInv => ResponseStreamIntact
    BY DEF StreamInv
<1> QED BY <1>1, FaultlessInductive, PTL

\* While no socket call fails, a tool that is there is never hung up on, neither for
\* the next tool nor by a stop and a start of the server.
THEOREM LiveToolsKept ==
    ASSUME ~Faults
    PROVE  Spec => NeverHangsUpOnLiveTool
<1>1. FullInv /\ ServedHungUp /\ [Next]_vars
        => [\A c \in Conns : conn[c] = "accepted" /\ clientOpen[c] => conn'[c] = "accepted"]_vars
    BY NoHangUp
<1> QED BY <1>1, FaultlessInductive, PTL DEF Spec, NeverHangsUpOnLiveTool

\* While no socket call fails and each Recv returns one whole command, no command of a
\* tool that is there gets lost: not while its tool waits to be accepted, not when the
\* commands of a tool overtake its answers, not when the server is stopped.
THEOREM CommandsKept ==
    ASSUME ~Faults, MaxSegments = 1, RecvMax = 1 \/ Window = 1
    PROVE  Spec => []NoCommandLost
<1>1. OneByOne
    BY DEF OneByOne
<1>2. FullInv /\ KeptInv /\ [Next]_vars => KeptInv'
    BY <1>1, NextKept
<1>3. KeptInv => NoCommandLost
    BY DEF KeptInv
<1> QED BY InitKept, <1>2, <1>3, OrderInductive, PTL DEF Spec

=============================================================================
