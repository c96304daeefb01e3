---------------------------- MODULE CommandService ----------------------------
(***************************************************************************)
(* What the MCP server promises the tools that use it, without threads,    *)
(* promises, sockets or segments: a tool sends commands on a connection; a *)
(* command may be lost; one that is not runs once, after those sent before *)
(* it on that connection; and its reply is given before any other command, *)
(* of any tool, runs. McpServer implements this.                           *)
(***************************************************************************)
EXTENDS Naturals, Sequences

CONSTANTS
    Conns,  \* the connections tools may open
    Kinds   \* the kinds of command a tool sends

VARIABLES
    sent,      \* kinds of the commands sent on each connection, in order
    executed,  \* commands that have run, of all connections, in order
    replies    \* what each connection has been answered: numbers and statuses

serviceVars == <<sent, executed, replies>>

Init ==
    /\ sent = [c \in Conns |-> <<>>]
    /\ executed = <<>>
    /\ replies = [c \in Conns |-> {}]

\* A tool sends a command.
Send(c) ==
    /\ \E kind \in Kinds : sent' = [sent EXCEPT ![c] = Append(@, kind)]
    /\ UNCHANGED <<executed, replies>>

\* Command i of connection c has been sent, and neither it nor a later command of
\* the connection has been answered.
IsNext(c, i) ==
    /\ i \in DOMAIN sent[c]
    /\ \A reply \in replies[c] : reply.num < i

\* A known command runs, after everything that ran before it on its connection.
Run(c, i) ==
    /\ IsNext(c, i)
    /\ sent[c][i] = "known"
    /\ \A e \in DOMAIN executed : executed[e].conn = c => executed[e].num < i
    /\ executed' = Append(executed, [conn |-> c, num |-> i])
    /\ UNCHANGED <<sent, replies>>

\* The command that ran last is the one that is answered; an unknown command runs
\* nothing and is answered with an error.
Reply(c, i, status) ==
    /\ IsNext(c, i)
    /\ \/ /\ sent[c][i] = "known"
          /\ executed # <<>>
          /\ executed[Len(executed)] = [conn |-> c, num |-> i]
       \/ /\ sent[c][i] = "unknown"
          /\ status = "error"
    /\ replies' = [replies EXCEPT ![c] = @ \cup {[num |-> i, status |-> status]}]
    /\ UNCHANGED <<sent, executed>>

Next ==
    \E c \in Conns :
        \/ Send(c)
        \/ \E i \in DOMAIN sent[c] : Run(c, i)
        \/ \E i \in DOMAIN sent[c], status \in {"success", "error"} : Reply(c, i, status)

Spec == Init /\ [][Next]_serviceVars

=============================================================================
