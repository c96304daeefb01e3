------------------------- MODULE McpServerOrderProofs -------------------------
(***************************************************************************)
(* Proofs that McpServer runs commands once and in order, that responses   *)
(* follow them, and that it implements CommandService: for any             *)
(* connections, segments, faults and number of sessions.                   *)
(***************************************************************************)
EXTENDS McpServerProofs

\* The segments on the way to the server: of commands that were sent, in order,
\* and those of one command without a gap.
SegmentsOrdered ==
    \A c \in Conns : \A j \in DOMAIN inbound[c] :
        /\ inbound[c][j].num <= Len(sent[c])
        /\ inbound[c][j].part <= inbound[c][j].of
        /\ \A k \in DOMAIN inbound[c] : j < k =>
            \/ inbound[c][j].num < inbound[c][k].num
            \/ /\ inbound[c][j].num = inbound[c][k].num
               /\ inbound[c][j].of = inbound[c][k].of
               /\ inbound[c][k].part = inbound[c][j].part + (k - j)

\* Command i of connection c has been sent and has left the network.
Received(c, i) ==
    /\ i <= Len(sent[c])
    /\ \A j \in DOMAIN inbound[c] : i < inbound[c][j].num

\* What has run, what is being worked on and what has been answered is received.
BehindSegments ==
    /\ \A e \in DOMAIN executed : Received(executed[e].conn, executed[e].num)
    /\ cmd # 0 => Received(client, cmd) /\ sent[client][cmd] # "untyped"
    /\ \A c \in Conns : \A k \in DOMAIN outbound[c] : Received(c, outbound[c][k].num)

\* The command being worked on comes after those that ran on its connection, until
\* it has run itself; then it is the last that ran, unless it is unknown.
CommandIsLatest ==
    /\ promise = "pending" =>
        \A e \in DOMAIN executed : executed[e].conn = client => executed[e].num < cmd
    /\ promise \in {"success", "error"} =>
        \/ /\ sent[client][cmd] = "known"
           /\ executed # <<>>
           /\ executed[Len(executed)] = [conn |-> client, num |-> cmd]
        \/ /\ sent[client][cmd] = "unknown"
           /\ promise = "error"

\* It comes after those that were answered, until its response is begun; then the
\* tool has the first partsSent parts, and nothing after them.
ResponseIsLatest ==
    /\ cmd # 0 => \A k \in DOMAIN outbound[client] :
        \/ outbound[client][k].num < cmd
        \/ partsSent > 0 /\ outbound[client][k].num = cmd
    /\ partsSent > 0 =>
        /\ outbound[client] # <<>>
        /\ outbound[client][Len(outbound[client])]
             = [num |-> cmd, part |-> partsSent, status |-> promise]

OrderInv ==
    /\ SegmentsOrdered
    /\ BehindSegments
    /\ CommandIsLatest
    /\ ResponseIsLatest
    /\ ExecutedOnceInOrder
    /\ RepliesFollowExecution
    /\ ReplyOrder

FullInv == IInv /\ OrderInv

-----------------------------------------------------------------------------
\* What is left of a stream holds its elements, moved up.
LEMMA RestElements ==
    ASSUME NEW S, NEW s \in Seq(S), NEW n \in Nat, n <= Len(s)
    PROVE  LET rest == SubSeq(s, n + 1, Len(s)) IN
           /\ rest \in Seq(S)
           /\ DOMAIN rest = 1..Len(s) - n
           /\ \A j \in DOMAIN rest : j + n \in DOMAIN s /\ rest[j] = s[j + n]
    OBVIOUS

\* An element appended to a sequence.
LEMMA AppendElements ==
    ASSUME NEW S, NEW s \in Seq(S), NEW x \in S
    PROVE  /\ Append(s, x) \in Seq(S)
           /\ DOMAIN s = 1..Len(s)
           /\ Len(s) \in Nat
           /\ DOMAIN Append(s, x) = 1..Len(s) + 1
           /\ Len(Append(s, x)) = Len(s) + 1
           /\ Append(s, x)[Len(s) + 1] = x
           /\ \A j \in 1..Len(s) : Append(s, x)[j] = s[j]
    OBVIOUS

\* Two sequences one after the other.
LEMMA ConcatElements ==
    ASSUME NEW S, NEW s \in Seq(S), NEW t \in Seq(S)
    PROVE  /\ Len(s) \in Nat
           /\ DOMAIN s = 1..Len(s)
           /\ DOMAIN (s \o t) = 1..Len(s) + Len(t)
           /\ \A j \in 1..Len(s) : (s \o t)[j] = s[j]
           /\ \A j \in Len(s) + 1..Len(s) + Len(t) : (s \o t)[j] = t[j - Len(s)]
    OBVIOUS

\* Taking segments off a stream keeps the order and what has been received.
LEMMA TakeKeepsOrder ==
    ASSUME TypeOK, SegmentsOrdered, NEW c \in Conns, NEW n \in ChunkSizes(c),
           Take(c, n), UNCHANGED sent
    PROVE  /\ SegmentsOrdered'
           /\ \A d \in Conns, i \in Nat : Received(d, i) => Received(d, i)'
<1> DEFINE rest == SubSeq(inbound[c], n + 1, Len(inbound[c]))
<1>1. n \in Nat /\ n <= Len(inbound[c]) /\ inbound[c] \in Seq(Segment)
    BY BoundsPositive DEF TypeOK, ChunkSizes
<1>2. /\ DOMAIN rest = 1..Len(inbound[c]) - n
      /\ \A j \in DOMAIN rest : j + n \in DOMAIN inbound[c] /\ rest[j] = inbound[c][j + n]
    BY <1>1, RestElements
<1>3. \A d \in Conns : inbound'[d] = IF d = c THEN rest ELSE inbound[d]
    BY DEF Take, TypeOK
<1> HIDE DEF rest
<1>4. SegmentsOrdered'
  <2> SUFFICES ASSUME NEW d \in Conns, NEW j \in DOMAIN inbound'[d]
               PROVE  /\ inbound'[d][j].num <= Len(sent[d])
                      /\ inbound'[d][j].part <= inbound'[d][j].of
                      /\ \A k \in DOMAIN inbound'[d] : j < k =>
                          \/ inbound'[d][j].num < inbound'[d][k].num
                          \/ /\ inbound'[d][j].num = inbound'[d][k].num
                             /\ inbound'[d][j].of = inbound'[d][k].of
                             /\ inbound'[d][k].part = inbound'[d][j].part + (k - j)
      BY DEF SegmentsOrdered
  <2>1. CASE d # c
      BY <1>3, <2>1 DEF SegmentsOrdered
  <2>2. CASE d = c
    <3>1. inbound'[d] = rest
        BY <1>3, <2>2
    <3>2. j + n \in DOMAIN inbound[c] /\ rest[j] = inbound[c][j + n]
        BY <1>2, <3>1
    <3>3. ASSUME NEW k \in DOMAIN rest, j < k
          PROVE  \/ rest[j].num < rest[k].num
                 \/ /\ rest[j].num = rest[k].num
                    /\ rest[j].of = rest[k].of
                    /\ rest[k].part = rest[j].part + (k - j)
      <4>1. k + n \in DOMAIN inbound[c] /\ rest[k] = inbound[c][k + n]
          BY <1>2
      <4>2. j \in Nat /\ k \in Nat /\ n \in Nat
          BY <1>1, <1>2, <3>1
      <4>3. j + n < k + n /\ (k + n) - (j + n) = k - j
          BY <3>3, <4>2
      <4> QED BY <3>2, <4>1, <4>3 DEF SegmentsOrdered
    <3> QED BY <2>2, <3>1, <3>2, <3>3 DEF SegmentsOrdered
  <2> QED BY <2>1, <2>2
<1>5. ASSUME NEW d \in Conns, NEW i \in Nat, Received(d, i)
      PROVE  Received(d, i)'
    BY <1>2, <1>3, <1>5 DEF Received
<1> QED BY <1>4, <1>5

-----------------------------------------------------------------------------
orderVars == <<executed, client, cmd, promise, partsSent, sent, inbound, outbound>>

\* Most steps change none of what the invariant is about.
LEMMA QuietStep == OrderInv /\ UNCHANGED orderVars => OrderInv'
<1> SUFFICES ASSUME OrderInv, UNCHANGED orderVars PROVE OrderInv'
    OBVIOUS
<1>1. /\ executed' = executed /\ client' = client /\ cmd' = cmd /\ promise' = promise
      /\ partsSent' = partsSent /\ sent' = sent /\ inbound' = inbound /\ outbound' = outbound
    BY DEF orderVars
<1>2. SegmentsOrdered' /\ ExecutedOnceInOrder'
    BY <1>1 DEF OrderInv, SegmentsOrdered, ExecutedOnceInOrder
<1>3. BehindSegments'
    BY <1>1 DEF OrderInv, BehindSegments, Received
<1>4. CommandIsLatest' /\ ResponseIsLatest'
    BY <1>1 DEF OrderInv, CommandIsLatest, ResponseIsLatest
<1>5. RepliesFollowExecution' /\ ReplyOrder'
    BY <1>1 DEF OrderInv, RepliesFollowExecution, ReplyOrder
<1> QED BY <1>2, <1>3, <1>4, <1>5 DEF OrderInv

\* ClientSocket is replaced only between commands.
LEMMA ClientReplaced ==
    ASSUME OrderInv, cmd' = 0, promise' = "none", partsSent' = 0,
           UNCHANGED <<executed, sent, inbound, outbound>>
    PROVE  OrderInv'
<1>1. SegmentsOrdered' /\ ExecutedOnceInOrder'
    BY DEF OrderInv, SegmentsOrdered, ExecutedOnceInOrder
<1>2. BehindSegments'
    BY DEF OrderInv, BehindSegments, Received
<1>3. CommandIsLatest' /\ ResponseIsLatest'
    BY DEF CommandIsLatest, ResponseIsLatest
<1>4. RepliesFollowExecution' /\ ReplyOrder'
    BY DEF OrderInv, RepliesFollowExecution, ReplyOrder
<1> QED BY <1>1, <1>2, <1>3, <1>4 DEF OrderInv

-----------------------------------------------------------------------------
(***************************************************************************)
(* The steps that change what the invariant is about: one lemma each.      *)
(***************************************************************************)
USE DEF bridgeVars, gameVars, threadVars, toolVars

\* The commands and response parts in the history belong to connections.
LEMMA HistoryTyped ==
    ASSUME TypeOK
    PROVE  /\ \A e \in DOMAIN executed : executed[e].conn \in Conns /\ executed[e].num \in Nat
           /\ \A c \in Conns : \A k \in DOMAIN outbound[c] : outbound[c][k].num \in Nat
           /\ cmd \in Nat
<1>1. \A e \in DOMAIN executed : executed[e] \in Command
    BY DEF TypeOK
<1>2. \A c \in Conns : outbound[c] \in Seq(Part)
    BY DEF TypeOK
<1>3. \A c \in Conns : \A k \in DOMAIN outbound[c] : outbound[c][k] \in Part
    BY <1>2
<1>4. cmd \in Nat
    BY BoundsPositive DEF TypeOK
<1> QED BY <1>1, <1>3, <1>4, BoundsPositive DEF Command, Part

LEMMA RunTaskOrder == IInv /\ OrderInv /\ RunTask => OrderInv'
<1> SUFFICES ASSUME IInv, OrderInv, RunTask PROVE OrderInv'
    OBVIOUS
<1> DEFINE t == [conn |-> client, num |-> cmd]
<1>1. /\ pc = "wait" /\ promise = "pending" /\ partsSent = 0 /\ cmd # 0
      /\ client \in Conns /\ cmd \in Nat /\ Head(tasks) = t
      /\ t \in Command
    BY BoundsPositive DEF RunTask, IInv, TaskHandshake, ThreadLocals, TypeOK, Command
<1>2. sent[client][cmd] \in {"known", "unknown"}
  <2>1. cmd \in 1..Len(sent[client]) /\ sent[client] \in Seq(Kinds) /\ sent[client][cmd] # "untyped"
      BY <1>1 DEF OrderInv, BehindSegments, Received, IInv, TypeOK
  <2>2. sent[client][cmd] \in Kinds
      BY <2>1
  <2> QED BY <2>1, <2>2, ConstantsAssumption DEF ConstantsAssumption
<1>3. PICK status \in {"success", "error"} :
        /\ sent[client][cmd] = "unknown" => status = "error"
        /\ promise' = status
        /\ executed' = IF sent[client][cmd] = "known" THEN Append(executed, t) ELSE executed
    BY <1>1 DEF RunTask, Fulfil
<1>4. UNCHANGED <<cmd, client, partsSent, sent, inbound, outbound>>
    BY DEF RunTask
<1>5. SegmentsOrdered' /\ ReplyOrder'
    BY <1>4 DEF OrderInv, SegmentsOrdered, ReplyOrder
<1>6. CASE sent[client][cmd] = "known"
  <2>1. /\ executed' = Append(executed, t)
        /\ DOMAIN executed = 1..Len(executed) /\ Len(executed) \in Nat
        /\ DOMAIN executed' = 1..Len(executed) + 1
        /\ Len(executed') = Len(executed) + 1
        /\ executed'[Len(executed) + 1] = t
        /\ \A j \in 1..Len(executed) : executed'[j] = executed[j]
    <3>1. executed \in Seq(Command)
        BY DEF IInv, TypeOK
    <3> QED BY <1>1, <1>3, <1>6, <3>1, AppendElements
  <2>2. BehindSegments'
    <3>1. \A e \in DOMAIN executed' : Received(executed'[e].conn, executed'[e].num)
      <4>1. \A e \in 1..Len(executed) : Received(executed'[e].conn, executed'[e].num)
          BY <2>1 DEF OrderInv, BehindSegments
      <4>2. Received(t.conn, t.num)
          BY <1>1 DEF OrderInv, BehindSegments
      <4> QED BY <2>1, <4>1, <4>2
    <3> QED BY <1>4, <3>1 DEF OrderInv, BehindSegments, Received
  <2>3. CommandIsLatest'
      BY <1>3, <1>4, <1>6, <2>1 DEF CommandIsLatest
  <2>4. ResponseIsLatest'
      BY <1>1, <1>4 DEF OrderInv, ResponseIsLatest
  <2>5. ExecutedOnceInOrder'
    <3>1. \A e \in 1..Len(executed) : executed[e].conn = client => executed[e].num < cmd
        BY <1>1, <2>1 DEF OrderInv, CommandIsLatest
    <3> QED BY <2>1, <3>1 DEF OrderInv, ExecutedOnceInOrder
  <2>6. RepliesFollowExecution'
      BY <1>4, <2>1 DEF OrderInv, RepliesFollowExecution
  <2> QED BY <1>5, <2>2, <2>3, <2>4, <2>5, <2>6 DEF OrderInv
<1>7. CASE sent[client][cmd] = "unknown"
  <2>1. UNCHANGED executed
      BY <1>3, <1>7
  <2>2. BehindSegments' /\ ResponseIsLatest' /\ ExecutedOnceInOrder' /\ RepliesFollowExecution'
      BY <1>1, <1>4, <2>1 DEF OrderInv, BehindSegments, Received, ResponseIsLatest,
                              ExecutedOnceInOrder, RepliesFollowExecution
  <2>3. CommandIsLatest'
      BY <1>3, <1>4, <1>7 DEF CommandIsLatest
  <2> QED BY <1>5, <2>2, <2>3 DEF OrderInv
<1> QED BY <1>2, <1>6, <1>7

\* Whatever Recv returned, what was received stays so.
LEMMA TakeKeepsBehind ==
    ASSUME IInv, OrderInv, NEW n \in ChunkSizes(client), client \in Conns, Take(client, n),
           UNCHANGED <<executed, client, cmd, sent, outbound>>
    PROVE  SegmentsOrdered' /\ BehindSegments'
<1>1. TypeOK
    BY DEF IInv
<1>2. /\ SegmentsOrdered'
      /\ \A d \in Conns, i \in Nat : Received(d, i) => Received(d, i)'
    BY <1>1, TakeKeepsOrder DEF OrderInv
<1> QED BY <1>1, <1>2, HistoryTyped DEF OrderInv, BehindSegments

LEMMA RecvDiscardsOrder == IInv /\ OrderInv /\ RecvDiscards => OrderInv'
<1> SUFFICES ASSUME IInv, OrderInv, RecvDiscards PROVE OrderInv'
    OBVIOUS
<1>1. client \in Conns /\ UNCHANGED <<executed, client, cmd, promise, partsSent, sent, outbound>>
    BY DEF RecvDiscards, IInv, ThreadLocals
<1>2. PICK n \in ChunkSizes(client) : Take(client, n)
    BY DEF RecvDiscards
<1>3. SegmentsOrdered' /\ BehindSegments'
    BY <1>1, <1>2, TakeKeepsBehind
<1>4. CommandIsLatest' /\ ResponseIsLatest' /\ ExecutedOnceInOrder' /\ RepliesFollowExecution' /\ ReplyOrder'
    BY <1>1 DEF OrderInv, CommandIsLatest, ResponseIsLatest, ExecutedOnceInOrder,
                RepliesFollowExecution, ReplyOrder
<1> QED BY <1>3, <1>4 DEF OrderInv

\* The command Recv returns is the oldest on its connection, and after it nothing of
\* it is left to receive.
LEMMA RecvCommandOrder == IInv /\ OrderInv /\ RecvCommand => OrderInv'
<1> SUFFICES ASSUME IInv, OrderInv, RecvCommand PROVE OrderInv'
    OBVIOUS
<1>1. /\ client \in Conns /\ partsSent = 0 /\ TypeOK
      /\ inbound[client] \in Seq(Segment)
      /\ executed' = executed /\ client' = client /\ partsSent' = partsSent
      /\ sent' = sent /\ outbound' = outbound
    BY DEF RecvCommand, IInv, TypeOK, ThreadLocals
<1>2. PICK n \in ChunkSizes(client) :
        /\ ParsesAsOne(SubSeq(inbound[client], 1, n))
        /\ sent[client][SubSeq(inbound[client], 1, n)[1].num] # "untyped"
        /\ Execute(client, SubSeq(inbound[client], 1, n)[1].num)
        /\ Take(client, n)
    BY DEF RecvCommand
<1>3. n \in Nat /\ n > 0 /\ n <= Len(inbound[client]) /\ 1 \in DOMAIN inbound[client]
    BY <1>1, <1>2, BoundsPositive DEF ChunkSizes
<1> DEFINE chunk == SubSeq(inbound[client], 1, n)
           rest == SubSeq(inbound[client], n + 1, Len(inbound[client]))
<1>4. chunk[1] = inbound[client][1] /\ inbound[client][1] \in Segment /\ Len(chunk) = n
    BY <1>1, <1>3, ChunkHead
<1>5. PICK d \in Conns, num \in Nat : d = client /\ num = inbound[client][1].num
    BY <1>1, <1>4, BoundsPositive DEF Segment
<1>6. chunk[1].part = 1 /\ Len(chunk) = chunk[1].of /\ sent[d][chunk[1].num] # "untyped"
      /\ cmd' = chunk[1].num /\ promise' = "pending"
    BY <1>2, <1>5 DEF ParsesAsOne, Execute
<1> HIDE DEF chunk
<1>7. /\ inbound[d][1].part = 1 /\ inbound[d][1].of = n /\ inbound[d][1].num = num
      /\ sent[d][num] # "untyped" /\ cmd' = num /\ promise' = "pending"
    BY <1>4, <1>5, <1>6
<1>8. /\ SegmentsOrdered'
      /\ \A e \in Conns, i \in Nat : Received(e, i) => Received(e, i)'
    BY <1>1, <1>2, TakeKeepsOrder DEF OrderInv
<1>9. \A i \in Nat : Received(d, i) => i < num
    BY <1>3, <1>5 DEF Received
<1>10. Received(d, num)'
  <2>1. num <= Len(sent[d])
      BY <1>3, <1>5 DEF OrderInv, SegmentsOrdered
  <2>2. /\ DOMAIN rest = 1..Len(inbound[client]) - n
        /\ \A j \in DOMAIN rest : j + n \in DOMAIN inbound[client] /\ rest[j] = inbound[client][j + n]
      BY <1>1, <1>3, RestElements
  <2>3. inbound'[d] = rest
      BY <1>1, <1>2, <1>5 DEF Take, TypeOK
  <2>4. ASSUME NEW j \in DOMAIN rest PROVE num < rest[j].num
    <3>1. j \in Nat /\ j > 0 /\ Len(inbound[client]) \in Nat
        BY <1>1, <1>3, <2>2
    <3>2. PICK k \in DOMAIN inbound[d] : k = j + n /\ rest[j] = inbound[d][k]
        BY <1>5, <2>2
    <3>3. \A i \in DOMAIN inbound[d] : 1 < i =>
            \/ inbound[d][1].num < inbound[d][i].num
            \/ /\ inbound[d][1].of = inbound[d][i].of
               /\ inbound[d][i].part = inbound[d][1].part + (i - 1)
        BY <1>3, <1>5 DEF OrderInv, SegmentsOrdered
    <3>4. inbound[d][k].part <= inbound[d][k].of
        BY <3>2 DEF OrderInv, SegmentsOrdered
    <3>5. 1 < k /\ 1 + (k - 1) > n
        BY <1>3, <3>1, <3>2
    <3>6. num < inbound[d][k].num \/ (n = inbound[d][k].of /\ inbound[d][k].part = 1 + (k - 1))
        BY <1>7, <3>3, <3>5
    <3> HIDE DEF rest
    <3>7. k \in Nat
        BY <1>3, <3>1, <3>2
    <3>8. ~(n = inbound[d][k].of /\ inbound[d][k].part = 1 + (k - 1))
        BY <1>3, <3>4, <3>5, <3>7
    <3> QED BY <3>2, <3>6, <3>8
  <2> HIDE DEF rest
  <2>5. sent'[d] = sent[d]
      BY <1>1
  <2> QED BY <2>1, <2>3, <2>4, <2>5 DEF Received
<1> HIDE DEF rest
<1>11. BehindSegments'
  <2>1. client' = d /\ cmd' = num /\ sent'[client'][cmd'] # "untyped"
      BY <1>1, <1>5, <1>7
  <2>2. Received(client, cmd)'
      BY <1>10, <2>1 DEF Received
  <2>3. \A e \in DOMAIN executed : Received(executed[e].conn, executed[e].num)'
      BY <1>1, <1>8, HistoryTyped DEF OrderInv, BehindSegments
  <2>4. \A c \in Conns : \A k \in DOMAIN outbound[c] : Received(c, outbound[c][k].num)'
      BY <1>1, <1>8, HistoryTyped DEF OrderInv, BehindSegments
  <2> QED BY <1>1, <2>1, <2>2, <2>3, <2>4 DEF BehindSegments
<1>12. CommandIsLatest'
    BY <1>1, <1>5, <1>7, <1>9, HistoryTyped DEF OrderInv, BehindSegments, CommandIsLatest
<1>13. ResponseIsLatest'
    BY <1>1, <1>5, <1>7, <1>9, HistoryTyped DEF OrderInv, BehindSegments, ResponseIsLatest
<1>14. ExecutedOnceInOrder' /\ RepliesFollowExecution' /\ ReplyOrder'
    BY <1>1 DEF OrderInv, ExecutedOnceInOrder, RepliesFollowExecution, ReplyOrder
<1> QED BY <1>8, <1>11, <1>12, <1>13, <1>14 DEF OrderInv

LEMMA SendPartOrder == IInv /\ OrderInv /\ SendPart => OrderInv'
<1> SUFFICES ASSUME IInv, OrderInv, SendPart PROVE OrderInv'
    OBVIOUS
<1> DEFINE reply == [num |-> cmd, part |-> partsSent + 1, status |-> promise]
           old == outbound[client]
<1>1. /\ client \in Conns /\ cmd # 0 /\ cmd \in Nat /\ partsSent \in Nat /\ TypeOK
      /\ promise \in {"success", "error"}
      /\ executed' = executed /\ client' = client /\ sent' = sent /\ inbound' = inbound
      /\ \/ cmd' = 0 /\ promise' = "none" /\ partsSent' = 0
         \/ cmd' = cmd /\ promise' = promise /\ partsSent' = partsSent + 1
    BY BoundsPositive DEF SendPart, EndCommand, IInv, TypeOK, ThreadLocals
<1>2. reply \in Part
    BY BoundsPositive DEF IInv, TypeOK, ThreadLocals, SendPart, Part
<1>3. old \in Seq(Part) /\ \A d \in Conns : outbound'[d] = IF d = client THEN Append(old, reply) ELSE outbound[d]
    BY <1>1 DEF SendPart, TypeOK
<1>4. /\ DOMAIN old = 1..Len(old)
      /\ Len(old) \in Nat
      /\ DOMAIN outbound'[client] = 1..Len(old) + 1
      /\ Len(outbound'[client]) = Len(old) + 1
      /\ outbound'[client][Len(old) + 1] = reply
      /\ \A j \in 1..Len(old) : outbound'[client][j] = old[j]
  <2> HIDE DEF reply, old
  <2>1. outbound'[client] = Append(old, reply)
      BY <1>1, <1>3
  <2> QED BY <1>2, <1>3, <2>1, AppendElements
<1>5. SegmentsOrdered' /\ CommandIsLatest' /\ ExecutedOnceInOrder'
    BY <1>1 DEF OrderInv, SegmentsOrdered, CommandIsLatest, ExecutedOnceInOrder
<1>6. BehindSegments'
  <2>1. \A d \in Conns, i \in Nat : Received(d, i)' = Received(d, i)
      BY <1>1 DEF Received
  <2>2. Received(client, reply.num) /\ sent[client][cmd] # "untyped"
      BY <1>1 DEF OrderInv, BehindSegments
  <2>3. \A d \in Conns : \A k \in DOMAIN outbound'[d] : Received(d, outbound'[d][k].num)
      BY <1>3, <1>4, <2>2 DEF OrderInv, BehindSegments
  <2> HIDE DEF reply
  <2> QED BY <1>1, <2>2, <2>3 DEF OrderInv, BehindSegments, Received
<1>7. ResponseIsLatest'
    BY <1>1, <1>4 DEF OrderInv, ResponseIsLatest
<1>8. RepliesFollowExecution'
  <2>1. /\ cmd \in DOMAIN sent[client]
        /\ \/ /\ sent[client][cmd] = "known"
              /\ \E e \in DOMAIN executed : executed[e] = [conn |-> client, num |-> cmd]
           \/ sent[client][cmd] = "unknown" /\ promise = "error"
    <3>1. cmd <= Len(sent[client]) /\ sent[client] \in Seq(Kinds) /\ executed \in Seq(Command)
        BY <1>1 DEF OrderInv, BehindSegments, Received, TypeOK
    <3> QED BY <1>1, <3>1 DEF OrderInv, CommandIsLatest
  <2> SUFFICES ASSUME NEW d \in Conns, NEW k \in DOMAIN outbound'[d]
               PROVE  LET r == outbound'[d][k] IN
                      /\ r.num \in DOMAIN sent[d]
                      /\ \/ /\ sent[d][r.num] = "known"
                            /\ \E e \in DOMAIN executed : executed[e] = [conn |-> d, num |-> r.num]
                         \/ sent[d][r.num] = "unknown" /\ r.status = "error"
      BY <1>1 DEF RepliesFollowExecution
  <2>2. CASE d = client /\ k = Len(old) + 1
      BY <1>4, <2>1, <2>2
  <2>3. CASE ~(d = client /\ k = Len(old) + 1)
    <3>1. k \in DOMAIN outbound[d] /\ outbound'[d][k] = outbound[d][k]
        BY <1>3, <1>4, <2>3
    <3> QED BY <3>1 DEF OrderInv, RepliesFollowExecution
  <2> QED BY <2>2, <2>3
<1>9. ReplyOrder'
  <2>1. \/ reply.part = 1 /\ \A k \in 1..Len(old) : old[k].num < reply.num
        \/ /\ Len(old) > 0
           /\ old[Len(old)] = [num |-> reply.num, part |-> reply.part - 1, status |-> reply.status]
    <3>1. CASE partsSent = 0
        BY <1>1, <1>4, <3>1 DEF OrderInv, ResponseIsLatest
    <3>2. CASE partsSent > 0
      <4>1. old # <<>> /\ old[Len(old)] = [num |-> cmd, part |-> partsSent, status |-> promise]
          BY <3>2 DEF OrderInv, ResponseIsLatest
      <4>2. reply.num = cmd /\ reply.status = promise /\ reply.part - 1 = partsSent
          BY <1>1
      <4> HIDE DEF reply, old
      <4> QED BY <1>3, <4>1, <4>2
    <3> QED BY <1>1, <3>1, <3>2
  <2> HIDE DEF reply
  <2>2. ASSUME NEW k \in 1..Len(old) + 1
        PROVE  LET r == outbound'[client][k]
                   before == outbound'[client][k - 1] IN
               \/ r.part = 1 /\ (k > 1 => before.num < r.num)
               \/ /\ k > 1
                  /\ before = [num |-> r.num, part |-> r.part - 1, status |-> r.status]
    <3>1. CASE k = Len(old) + 1
      <4>1. outbound'[client][k] = reply /\ (k > 1 => k - 1 \in 1..Len(old) /\ k - 1 = Len(old))
          BY <1>4, <3>1
      <4> QED BY <1>4, <2>1, <3>1, <4>1
    <3>2. CASE k \in 1..Len(old)
      <4>1. outbound'[client][k] = old[k] /\ (k > 1 => outbound'[client][k - 1] = old[k - 1])
          BY <1>4, <3>2
      <4>2. LET r == old[k]
                before == old[k - 1] IN
            \/ r.part = 1 /\ (k > 1 => before.num < r.num)
            \/ /\ k > 1
               /\ before = [num |-> r.num, part |-> r.part - 1, status |-> r.status]
          BY <1>1, <1>4, <3>2 DEF OrderInv, ReplyOrder
      <4> HIDE DEF old
      <4> QED BY <4>1, <4>2
    <3> QED BY <1>4, <3>1, <3>2
  <2>3. \A d \in Conns : d # client => outbound'[d] = outbound[d]
      BY <1>3
  <2> QED BY <1>1, <1>4, <2>2, <2>3 DEF OrderInv, ReplyOrder
<1> QED BY <1>5, <1>6, <1>7, <1>8, <1>9 DEF OrderInv

LEMMA SendFailsOrder == IInv /\ OrderInv /\ SendFails => OrderInv'
<1> SUFFICES ASSUME IInv, OrderInv, SendFails PROVE OrderInv'
    OBVIOUS
<1>1. /\ cmd' = 0 /\ promise' = "none" /\ partsSent' = 0
      /\ UNCHANGED <<executed, sent, inbound, outbound>>
    BY DEF SendFails, EndCommand
<1> QED BY <1>1, ClientReplaced

\* The first len segments of s, of commands up to m, are in order.
InOrder(s, len, m) ==
    \A j \in 1..len :
        /\ s[j].num \in Nat /\ s[j].num <= m /\ s[j].part <= s[j].of
        /\ \A k \in 1..len : j < k =>
            \/ s[j].num < s[k].num
            \/ s[j].num = s[k].num /\ s[j].of = s[k].of /\ s[k].part = s[j].part + (k - j)

\* g is s with the n segments of command m + 1 appended.
GrowsBy(s, g, len, n, m) ==
    /\ \A j \in 1..len : g[j] = s[j]
    /\ \A j \in len + 1..len + n : g[j].num = m + 1 /\ g[j].part = j - len /\ g[j].of = n

\* A new command keeps a stream in order.
LEMMA StreamGrows ==
    ASSUME NEW s, NEW g, NEW len \in Nat, NEW n \in Nat, NEW m \in Nat,
           InOrder(s, len, m), GrowsBy(s, g, len, n, m)
    PROVE  InOrder(g, len + n, m + 1)
<1>1. \A j \in 1..len + n : j \in 1..len \/ j \in len + 1..len + n
    OBVIOUS
<1>2. \A j \in 1..len : \A k \in len + 1..len + n : g[j].num < g[k].num
    BY DEF InOrder, GrowsBy
<1>3. \A j, k \in len + 1..len + n : j < k =>
        g[j].num = g[k].num /\ g[j].of = g[k].of /\ g[k].part = g[j].part + (k - j)
    BY DEF GrowsBy
<1>4. \A j \in len + 1..len + n : \A k \in 1..len : ~(j < k)
    OBVIOUS
<1>5. \A j \in 1..len + n : g[j].num \in Nat /\ g[j].num <= m + 1 /\ g[j].part <= g[j].of
    BY <1>1 DEF InOrder, GrowsBy
<1>6. \A j, k \in 1..len : j < k =>
        \/ g[j].num < g[k].num
        \/ g[j].num = g[k].num /\ g[j].of = g[k].of /\ g[k].part = g[j].part + (k - j)
    BY DEF InOrder, GrowsBy
<1> QED BY <1>1, <1>2, <1>3, <1>4, <1>5, <1>6 DEF InOrder

\* What is received is still so when a later command is appended.
LEMMA StreamGrowsBehind ==
    ASSUME NEW s, NEW g, NEW len \in Nat, NEW n \in Nat, NEW m \in Nat, NEW i \in Nat,
           GrowsBy(s, g, len, n, m), i <= m, \A j \in 1..len : i < s[j].num
    PROVE  \A j \in 1..len + n : i < g[j].num
<1>1. \A j \in 1..len + n : j \in 1..len \/ j \in len + 1..len + n
    OBVIOUS
<1> QED BY <1>1 DEF GrowsBy

\* A new command goes to the end of the stream and of what was sent.
LEMMA SendCommandOrder ==
    ASSUME NEW c \in Conns, IInv, OrderInv, SendCommand(c)
    PROVE  OrderInv'
<1>1. PICK kind \in Kinds, n \in 1..MaxSegments :
        /\ sent' = [sent EXCEPT ![c] = Append(@, kind)]
        /\ inbound' = [inbound EXCEPT ![c] = @ \o Segments(Len(sent[c]) + 1, n)]
    BY DEF SendCommand
<1> DEFINE new == Segments(Len(sent[c]) + 1, n)
           len == Len(inbound[c])
<1>2. /\ sent[c] \in Seq(Kinds) /\ inbound[c] \in Seq(Segment) /\ n \in Nat
      /\ Len(sent[c]) + 1 \in 1..MaxCommands /\ Len(sent[c]) \in Nat /\ TypeOK
      /\ executed' = executed /\ client' = client /\ cmd' = cmd /\ promise' = promise
      /\ partsSent' = partsSent /\ outbound' = outbound
    BY BoundsPositive DEF IInv, TypeOK, SendCommand
<1>3. /\ \A d \in Conns : d # c => sent'[d] = sent[d] /\ inbound'[d] = inbound[d]
      /\ sent'[c] = Append(sent[c], kind)
      /\ inbound'[c] = inbound[c] \o new
    BY <1>1, <1>2 DEF TypeOK
<1>4. /\ Len(sent'[c]) = Len(sent[c]) + 1
      /\ \A i \in 1..Len(sent[c]) : sent'[c][i] = sent[c][i]
    BY <1>2, <1>3, AppendElements
<1>5. /\ new \in Seq(Segment) /\ Len(new) = n
      /\ \A p \in 1..n : new[p].num = Len(sent[c]) + 1 /\ new[p].part = p /\ new[p].of = n
    BY <1>2, SegmentsType DEF Segments
<1>6. /\ len \in Nat /\ DOMAIN inbound[c] = 1..len /\ DOMAIN inbound'[c] = 1..len + n
      /\ GrowsBy(inbound[c], inbound'[c], len, n, Len(sent[c]))
  <2> HIDE DEF new
  <2>1. /\ len \in Nat /\ DOMAIN inbound[c] = 1..len /\ DOMAIN inbound'[c] = 1..len + n
        /\ \A j \in 1..len : inbound'[c][j] = inbound[c][j]
        /\ \A j \in len + 1..len + n : inbound'[c][j] = new[j - len]
    <3>1. inbound[c] \in Seq(Segment) /\ new \in Seq(Segment) /\ Len(new) = n
        BY <1>2, <1>5
    <3>2. inbound'[c] = inbound[c] \o new
        BY <1>3
    <3>3. LET g == inbound[c] \o new IN
          /\ len \in Nat
          /\ DOMAIN inbound[c] = 1..len
          /\ DOMAIN g = 1..len + Len(new)
          /\ \A j \in 1..len : g[j] = inbound[c][j]
          /\ \A j \in len + 1..len + Len(new) : g[j] = new[j - len]
        BY <3>1, ConcatElements
    <3> HIDE DEF len
    <3> QED BY <3>1, <3>2, <3>3
  <2>2. \A j \in len + 1..len + n : j - len \in 1..n
      BY <1>2, <2>1
  <2>3. ASSUME NEW j \in len + 1..len + n
        PROVE  /\ inbound'[c][j].num = Len(sent[c]) + 1
               /\ inbound'[c][j].part = j - len
               /\ inbound'[c][j].of = n
    <3>1. PICK p \in 1..n : p = j - len /\ inbound'[c][j] = new[p]
        BY <2>1, <2>2
    <3> QED BY <1>5, <3>1
  <2> QED BY <2>1, <2>3 DEF GrowsBy
<1> HIDE DEF new, len
<1>7. InOrder(inbound'[c], len + n, Len(sent[c]) + 1)
  <2>1. \A j \in 1..len : inbound[c][j] \in Segment
      BY <1>2, <1>6
  <2>2. \A j \in 1..len : inbound[c][j].num \in Nat
      BY <2>1, BoundsPositive DEF Segment
  <2>3. InOrder(inbound[c], len, Len(sent[c]))
    <3>1. ASSUME NEW j \in 1..len
          PROVE  /\ inbound[c][j].num <= Len(sent[c])
                 /\ inbound[c][j].part <= inbound[c][j].of
                 /\ \A k \in 1..len : j < k =>
                    \/ inbound[c][j].num < inbound[c][k].num
                    \/ /\ inbound[c][j].num = inbound[c][k].num
                       /\ inbound[c][j].of = inbound[c][k].of
                       /\ inbound[c][k].part = inbound[c][j].part + (k - j)
        BY <1>6 DEF OrderInv, SegmentsOrdered
    <3> QED BY <2>2, <3>1 DEF InOrder
  <2>4. len \in Nat /\ n \in Nat /\ Len(sent[c]) \in Nat
      BY <1>2, <1>6
  <2>5. GrowsBy(inbound[c], inbound'[c], len, n, Len(sent[c]))
      BY <1>6
  <2> QED BY <2>3, <2>4, <2>5, StreamGrows, Zenon
<1>8. SegmentsOrdered'
  <2>1. ASSUME NEW d \in Conns, NEW j \in DOMAIN inbound'[d]
        PROVE  /\ inbound'[d][j].num <= Len(sent'[d])
               /\ inbound'[d][j].part <= inbound'[d][j].of
               /\ \A k \in DOMAIN inbound'[d] : j < k =>
                    \/ inbound'[d][j].num < inbound'[d][k].num
                    \/ /\ inbound'[d][j].num = inbound'[d][k].num
                       /\ inbound'[d][j].of = inbound'[d][k].of
                       /\ inbound'[d][k].part = inbound'[d][j].part + (k - j)
    <3>1. CASE d # c
        BY <1>3, <3>1 DEF OrderInv, SegmentsOrdered
    <3>2. CASE d = c
        BY <1>4, <1>6, <1>7, <3>2 DEF InOrder
    <3> QED BY <3>1, <3>2
  <2> QED BY <2>1 DEF SegmentsOrdered
<1>9. ASSUME NEW d \in Conns, NEW i \in Nat, Received(d, i)
      PROVE  Received(d, i)'
  <2>1. CASE d # c
      BY <1>3, <1>9, <2>1 DEF Received
  <2>2. CASE d = c
    <3>1. i <= Len(sent[c]) /\ \A j \in 1..len : i < inbound[c][j].num
        BY <1>6, <1>9, <2>2 DEF Received
    <3>2. \A j \in 1..len + n : i < inbound'[c][j].num
        BY <1>2, <1>6, <3>1, StreamGrowsBehind
    <3>3. i <= Len(sent'[c])
        BY <1>2, <1>4, <3>1
    <3> QED BY <1>6, <2>2, <3>2, <3>3 DEF Received
  <2> QED BY <2>1, <2>2
<1>10. ASSUME NEW d \in Conns, NEW i \in DOMAIN sent[d]
      PROVE  i \in DOMAIN sent'[d] /\ sent'[d][i] = sent[d][i]
  <2>1. CASE d # c
      BY <1>3, <2>1
  <2>2. CASE d = c
    <3>1. i \in 1..Len(sent[c])
        BY <1>2, <2>2
    <3>2. DOMAIN sent'[c] = 1..Len(sent[c]) + 1
        BY <1>2, <1>3, AppendElements
    <3> QED BY <1>2, <1>4, <2>2, <3>1, <3>2
  <2> QED BY <2>1, <2>2
<1>11. cmd # 0 => client \in Conns /\ cmd \in DOMAIN sent[client]
  <2>1. cmd # 0 => client \in Conns /\ cmd \in Nat /\ cmd <= Len(sent[client])
      BY BoundsPositive DEF OrderInv, BehindSegments, Received, IInv, ThreadLocals, TypeOK
  <2>2. client \in Conns => sent[client] \in Seq(Kinds)
      BY <1>2 DEF TypeOK
  <2> QED BY <2>1, <2>2
<1>12. BehindSegments'
    BY <1>2, <1>9, <1>10, <1>11, HistoryTyped DEF OrderInv, BehindSegments
<1>13. CommandIsLatest'
  <2>1. promise \in {"success", "error"} => cmd # 0
      BY DEF IInv, ThreadLocals
  <2> QED BY <1>2, <1>10, <1>11, <2>1 DEF OrderInv, CommandIsLatest
<1>14. RepliesFollowExecution'
    BY <1>2, <1>10 DEF OrderInv, RepliesFollowExecution
<1>15. ResponseIsLatest' /\ ExecutedOnceInOrder' /\ ReplyOrder'
    BY <1>2 DEF OrderInv, ResponseIsLatest, ExecutedOnceInOrder, ReplyOrder
<1> QED BY <1>8, <1>12, <1>13, <1>14, <1>15 DEF OrderInv

-----------------------------------------------------------------------------
LEMMA InitOrder == Init => OrderInv
<1> SUFFICES ASSUME Init PROVE OrderInv
    OBVIOUS
<1> QED BY DEF Init, OrderInv, SegmentsOrdered, BehindSegments, CommandIsLatest,
               ResponseIsLatest, ExecutedOnceInOrder, RepliesFollowExecution, ReplyOrder

LEMMA GameThreadOrder == IInv /\ OrderInv /\ GameThread => OrderInv'
<1> SUFFICES ASSUME IInv, OrderInv, GameThread PROVE OrderInv'
    OBVIOUS
<1>1. CASE StartSucceeds
  <2>1. cmd = 0 /\ promise = "none" /\ partsSent = 0
      BY <1>1 DEF StartSucceeds, IInv, ThreadLocals, ThreadLifetime
  <2> QED BY <1>1, <2>1, ClientReplaced DEF StartSucceeds
<1>2. CASE StartFailsEarly \/ StartFailsNoThread \/ DeinitializeIdle \/ StopServer \/ JoinServerThread
    BY <1>2, QuietStep DEF StartFailsEarly, StartFailsNoThread, DeinitializeIdle, StopServer,
                           JoinServerThread, orderVars
<1>3. CASE RunTask
    BY <1>3, RunTaskOrder
<1> QED BY <1>1, <1>2, <1>3 DEF GameThread

LEMMA ServerThreadOrder == IInv /\ OrderInv /\ ServerThread => OrderInv'
<1> SUFFICES ASSUME IInv, OrderInv, ServerThread PROVE OrderInv'
    OBVIOUS
<1>1. CASE Accept \/ AcceptFails
  <2>1. cmd = 0 /\ promise = "none" /\ partsSent = 0
      BY <1>1 DEF Accept, AcceptFails, IInv, ThreadLocals
  <2> QED BY <1>1, <2>1, ClientReplaced DEF Accept, AcceptFails
<1>2. CASE OuterLoop \/ PollNothing \/ InnerLoop \/ RecvNothing \/ RecvEnds \/ TakeResponse
    BY <1>2, QuietStep DEF OuterLoop, PollNothing, InnerLoop, RecvNothing, RecvEnds, TakeResponse,
                           orderVars
<1>3. CASE RecvCommand \/ RecvDiscards \/ SendPart \/ SendFails
    BY <1>3, RecvCommandOrder, RecvDiscardsOrder, SendPartOrder, SendFailsOrder
<1> QED BY <1>1, <1>2, <1>3 DEF ServerThread

LEMMA NextOrder == IInv /\ OrderInv /\ [Next]_vars => OrderInv'
<1> SUFFICES ASSUME IInv, OrderInv, [Next]_vars PROVE OrderInv'
    OBVIOUS
<1>1. ASSUME NEW c \in Conns, Tool(c) PROVE OrderInv'
  <2>1. CASE Connect(c) \/ Disconnect(c)
      BY <2>1, QuietStep DEF Connect, Disconnect, orderVars
  <2>2. CASE SendCommand(c)
      BY <2>2, SendCommandOrder
  <2> QED BY <1>1, <2>1, <2>2 DEF Tool
<1>2. CASE UNCHANGED vars
    BY <1>2, QuietStep DEF vars, orderVars
<1> QED BY <1>1, <1>2, GameThreadOrder, ServerThreadOrder DEF Next

-----------------------------------------------------------------------------
(***************************************************************************)
(* The theorems.                                                           *)
(***************************************************************************)

\* The invariant holds throughout every behaviour.
THEOREM OrderInductive == Spec => []FullInv
<1>1. Init => FullInv
    BY InitIInv, InitOrder DEF FullInv
<1>2. FullInv /\ [Next]_vars => FullInv'
    BY NextIInv, NextOrder DEF FullInv
<1> QED BY <1>1, <1>2, PTL DEF Spec

\* However segments are cut, glued or lost, whoever hangs up and however often the
\* server restarts: no command runs twice or before an earlier one of its connection.
THEOREM ExecutedInOrder == Spec => []ExecutedOnceInOrder
<1>1. FullInv => ExecutedOnceInOrder
    BY DEF FullInv, OrderInv
<1> QED BY <1>1, OrderInductive, PTL

\* No response reaches a tool for a command of another connection, for one that was
\* not sent, or for a known one that did not run.
THEOREM RepliesFollow == Spec => []RepliesFollowExecution
<1>1. FullInv => RepliesFollowExecution
    BY DEF FullInv, OrderInv
<1> QED BY <1>1, OrderInductive, PTL

\* The parts of responses come in the order of their commands and without a gap.
THEOREM RepliesInOrder == Spec => []ReplyOrder
<1>1. FullInv => ReplyOrder
    BY DEF FullInv, OrderInv
<1> QED BY <1>1, OrderInductive, PTL

-----------------------------------------------------------------------------
(***************************************************************************)
(* The server implements CommandService: every step is a step of it or     *)
(* changes nothing it shows.                                               *)
(***************************************************************************)

LEMMA BegunUnchanged == outbound' = outbound => Begun' = Begun
    BY DEF Begun

\* The steps after which a tool, or a reader of what has run, sees nothing new.
LEMMA HiddenStep == UNCHANGED <<sent, executed, outbound>> => UNCHANGED Service!serviceVars
    BY BegunUnchanged DEF Service!serviceVars

\* What the command being worked on needs to be run or answered.
LEMMA CommandIsNext ==
    ASSUME TypeOK, ThreadLocals, OrderInv, cmd # 0, partsSent = 0
    PROVE  /\ client \in Conns
           /\ cmd \in DOMAIN sent[client]
           /\ \A reply \in Begun[client] : reply.num < cmd
<1>1. client \in Conns
    BY DEF ThreadLocals
<1>2. cmd \in Nat /\ cmd <= Len(sent[client]) /\ sent[client] \in Seq(Kinds)
    BY <1>1, BoundsPositive DEF OrderInv, BehindSegments, Received, TypeOK
<1>3. \A k \in DOMAIN outbound[client] : outbound[client][k].num < cmd
    BY DEF OrderInv, ResponseIsLatest
<1> QED BY <1>1, <1>2, <1>3 DEF Begun

LEMMA RunTaskService == FullInv /\ RunTask => [Service!Next]_Service!serviceVars
<1> SUFFICES ASSUME FullInv, RunTask PROVE [Service!Next]_Service!serviceVars
    OBVIOUS
<1>1. /\ promise = "pending" /\ partsSent = 0 /\ cmd # 0
      /\ TypeOK /\ ThreadLocals /\ OrderInv /\ Head(tasks) = [conn |-> client, num |-> cmd]
    BY DEF RunTask, FullInv, IInv, TaskHandshake, ThreadLocals
<1>2. sent' = sent /\ outbound' = outbound /\ Begun' = Begun
    BY BegunUnchanged DEF RunTask
<1>3. executed' = IF sent[client][cmd] = "known"
                  THEN Append(executed, [conn |-> client, num |-> cmd]) ELSE executed
    BY <1>1 DEF RunTask, Fulfil
<1>4. CASE sent[client][cmd] = "known"
  <2>1. \A e \in DOMAIN executed : executed[e].conn = client => executed[e].num < cmd
      BY <1>1 DEF OrderInv, CommandIsLatest
  <2>2. client \in Conns /\ cmd \in DOMAIN sent[client] /\ Service!IsNext(client, cmd)
      BY <1>1, CommandIsNext DEF Service!IsNext
  <2>3. Service!Run(client, cmd)
      BY <1>2, <1>3, <1>4, <2>1, <2>2 DEF Service!Run
  <2> QED BY <2>2, <2>3 DEF Service!Next
<1>5. CASE sent[client][cmd] # "known"
    BY <1>2, <1>3, <1>5, HiddenStep
<1> QED BY <1>4, <1>5

LEMMA SendPartService == FullInv /\ SendPart => [Service!Next]_Service!serviceVars
<1> SUFFICES ASSUME FullInv, SendPart PROVE [Service!Next]_Service!serviceVars
    OBVIOUS
<1> DEFINE reply == [num |-> cmd, part |-> partsSent + 1, status |-> promise]
           old == outbound[client]
<1>1. /\ cmd # 0 /\ promise \in {"success", "error"} /\ client \in Conns
      /\ TypeOK /\ ThreadLocals /\ OrderInv /\ partsSent \in Nat
      /\ sent' = sent /\ executed' = executed
      /\ outbound' = [outbound EXCEPT ![client] = Append(old, reply)]
    BY BoundsPositive DEF SendPart, FullInv, IInv, TypeOK, ThreadLocals
<1>2. reply \in Part
    BY BoundsPositive DEF FullInv, IInv, TypeOK, ThreadLocals, SendPart, Part
<1>3. old \in Seq(Part) /\ \A d \in Conns : outbound'[d] = IF d = client THEN Append(old, reply) ELSE outbound[d]
    BY <1>1 DEF TypeOK
<1>4. /\ DOMAIN old = 1..Len(old)
      /\ Len(old) \in Nat
      /\ DOMAIN outbound'[client] = 1..Len(old) + 1
      /\ outbound'[client][Len(old) + 1] = reply
      /\ \A j \in 1..Len(old) : outbound'[client][j] = old[j]
  <2> HIDE DEF reply, old
  <2>1. outbound'[client] = Append(old, reply)
      BY <1>1, <1>3
  <2> QED BY <1>2, <1>3, <2>1, AppendElements
<1> DEFINE given == [num |-> cmd, status |-> promise]
<1>5. /\ Begun' = [c \in Conns |->
                    {[num |-> outbound'[c][k].num, status |-> outbound'[c][k].status] :
                        k \in {j \in DOMAIN outbound'[c] : outbound'[c][j].part = 1}}]
      /\ \A d \in Conns \ {client} : Begun'[d] = Begun[d]
    BY <1>3 DEF Begun
<1>6. CASE partsSent = 0
  <2>1. Begun'[client] = Begun[client] \cup {given}
    <3>1. reply.part = 1 /\ given = [num |-> reply.num, status |-> reply.status]
        BY <1>6
    <3> HIDE DEF reply, given, old
    <3>2. Begun[client] = {[num |-> old[k].num, status |-> old[k].status] :
                              k \in {j \in 1..Len(old) : old[j].part = 1}}
        BY <1>1, <1>4 DEF Begun, old
    <3>3. Begun'[client] = {[num |-> outbound'[client][k].num, status |-> outbound'[client][k].status] :
                              k \in {j \in 1..Len(old) + 1 : outbound'[client][j].part = 1}}
        BY <1>1, <1>4, <1>5
    <3>4. \A j : j \in 1..Len(old) + 1 <=> j \in 1..Len(old) \/ j = Len(old) + 1
        BY <1>4
    <3>5. \A x \in Begun'[client] : x \in Begun[client] \cup {given}
        BY <1>4, <3>1, <3>2, <3>3, <3>4
    <3>6. \A x \in Begun[client] : x \in Begun'[client]
        BY <1>4, <3>2, <3>3, <3>4
    <3>7. given \in Begun'[client]
        BY <1>4, <3>1, <3>3, <3>4
    <3> QED BY <3>5, <3>6, <3>7
  <2>2. Begun' = [Begun EXCEPT ![client] = @ \cup {given}]
    <3> HIDE DEF given
    <3> QED BY <1>1, <1>5, <2>1 DEF Begun
  <2>3. client \in Conns /\ cmd \in DOMAIN sent[client] /\ Service!IsNext(client, cmd)
      BY <1>1, <1>6, CommandIsNext DEF Service!IsNext
  <2>4. Service!Reply(client, cmd, promise)
      BY <1>1, <2>2, <2>3 DEF OrderInv, CommandIsLatest, Service!Reply
  <2> QED BY <1>1, <2>3, <2>4 DEF Service!Next
<1>7. CASE partsSent > 0
  <2>1. reply.part # 1
      BY <1>1, <1>7
  <2> HIDE DEF reply, old
  <2>2. {j \in DOMAIN outbound'[client] : outbound'[client][j].part = 1}
          = {j \in DOMAIN old : old[j].part = 1}
    <3>1. \A j : j \in 1..Len(old) + 1 <=> j \in 1..Len(old) \/ j = Len(old) + 1
        BY <1>4
    <3> QED BY <1>4, <2>1, <3>1
  <2>3. Begun'[client] = Begun[client]
      BY <1>1, <1>4, <1>5, <2>2 DEF Begun, old
  <2>4. Begun' = Begun
      BY <1>5, <2>3 DEF Begun
  <2> QED BY <1>1, <2>4 DEF Service!serviceVars
<1> QED BY <1>1, <1>6, <1>7

LEMMA SendCommandService ==
    ASSUME NEW c \in Conns, SendCommand(c) PROVE Service!Next
<1>1. Begun' = Begun
    BY BegunUnchanged DEF SendCommand
<1>2. Service!Send(c)
    BY <1>1 DEF SendCommand, Service!Send
<1> QED BY <1>2 DEF Service!Next

LEMMA NextService == FullInv /\ [Next]_vars => [Service!Next]_Service!serviceVars
<1> SUFFICES ASSUME FullInv, [Next]_vars PROVE [Service!Next]_Service!serviceVars
    OBVIOUS
<1>1. CASE GameThread
  <2>1. CASE StartSucceeds \/ StartFailsEarly \/ StartFailsNoThread \/ DeinitializeIdle
             \/ StopServer \/ JoinServerThread
      BY <2>1, HiddenStep DEF StartSucceeds, StartFailsEarly, StartFailsNoThread,
                              DeinitializeIdle, StopServer, JoinServerThread
  <2> QED BY <1>1, <2>1, RunTaskService DEF GameThread
<1>2. CASE ServerThread
  <2>1. CASE OuterLoop \/ PollNothing \/ Accept \/ AcceptFails \/ InnerLoop \/ RecvCommand
             \/ RecvDiscards \/ RecvNothing \/ RecvEnds \/ TakeResponse \/ SendFails
      BY <2>1, HiddenStep DEF OuterLoop, PollNothing, Accept, AcceptFails, InnerLoop, RecvCommand,
                              RecvDiscards, RecvNothing, RecvEnds, TakeResponse, SendFails
  <2> QED BY <1>2, <2>1, SendPartService DEF ServerThread
<1>3. ASSUME NEW c \in Conns, Tool(c) PROVE [Service!Next]_Service!serviceVars
  <2>1. CASE Connect(c) \/ Disconnect(c)
      BY <2>1, HiddenStep DEF Connect, Disconnect
  <2> QED BY <1>3, <2>1, SendCommandService DEF Tool
<1>4. CASE UNCHANGED vars
    BY <1>4, HiddenStep DEF vars
<1> QED BY <1>1, <1>2, <1>3, <1>4 DEF Next

\* The server implements CommandService, whatever the sockets and the editor do.
THEOREM ServiceImplemented == Spec => ImplementsService
<1>1. Init => Service!Init
    BY DEF Init, Service!Init, Begun
<1>2. FullInv /\ [Next]_vars => [Service!Next]_Service!serviceVars
    BY NextService
<1> QED BY <1>1, <1>2, OrderInductive, PTL DEF Spec, ImplementsService, Service!Spec

=============================================================================
