----------------------------- MODULE FunctionTable -----------------------------
(***************************************************************************)
(* What the function commands of the MCP server mean to a tool: a table    *)
(* from names to what the functions hold. A command changes one entry, a   *)
(* new entry or a new name never takes the place of another, and what the  *)
(* tool is told to have added to a function was put into that function.    *)
(***************************************************************************)
CONSTANTS
    Names,          \* of functions
    Script,         \* the function some Blueprints start with
    Inputs,         \* parameters
    Outputs,        \* return values
    Nodes,          \* the other nodes
    Entry, Result   \* the nodes for the parameters and for the return values

VARIABLES
    holds,  \* what each function holds
    told    \* <<n, i>>: the tool was told that it has added i to n

tableVars == <<holds, told>>

Init ==
    /\ \E start \in {{}, {Script}} : holds = [n \in start |-> {Entry}]
    /\ told = {}

\* A new function, which holds its entry node.
Create(n) ==
    /\ n \notin DOMAIN holds
    /\ holds' = [m \in DOMAIN holds \cup {n} |-> IF m = n THEN {Entry} ELSE holds[m]]
    /\ UNCHANGED told

Delete(n) ==
    /\ holds' = [m \in DOMAIN holds \ {n} |-> holds[m]]
    /\ told' = {t \in told : t[1] # n}

\* Function n gets a name no function has, and keeps all it holds.
Rename(n, new) ==
    /\ new \notin DOMAIN holds
    /\ holds' = [m \in (DOMAIN holds \ {n}) \cup {new} |-> IF m = new THEN holds[n] ELSE holds[m]]
    /\ told' = {<<IF t[1] = n THEN new ELSE t[1], t[2]>> : t \in told}

\* The tool may be told that it has added i to n.
Tell(n, i) == told' = told \/ told' = told \cup {<<n, i>>}

\* A parameter is added, the first return value with the result node.
AddParameter(n, p) ==
    /\ p \in Inputs => Entry \in holds[n]
    /\ holds' = [holds EXCEPT ![n] = @ \cup {p} \cup (IF p \in Inputs THEN {} ELSE {Result})]
    /\ Tell(n, p)

AddNode(n, i) ==
    /\ holds' = [holds EXCEPT ![n] = @ \cup {i}]
    /\ Tell(n, i)

\* A node is removed, an entry or result node with its parameters or values.
Remove(n, i) ==
    LET gone == {i} \cup (IF i = Entry THEN Inputs ELSE {})
                    \cup (IF i = Result THEN Outputs ELSE {}) IN
    /\ holds' = [holds EXCEPT ![n] = @ \ gone]
    /\ told' = told \ ({n} \X gone)

Next ==
    \/ \E n \in Names : Create(n)
    \/ \E n \in DOMAIN holds :
        \/ Delete(n)
        \/ \E new \in Names : Rename(n, new)
        \/ \E p \in Inputs \cup Outputs : AddParameter(n, p)
        \/ \E i \in Nodes : AddNode(n, i)
        \/ \E i \in Nodes \cup {Entry, Result} : Remove(n, i)

Spec == Init /\ [][Next]_tableVars

===============================================================================
