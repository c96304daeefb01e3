------------------------- MODULE BlueprintFunctions -------------------------
(***************************************************************************)
(* The commands of the UnrealMCP plugin that create, delete, rename and    *)
(* fill the functions of one Blueprint (FFunctionManager, FFunctionIO,     *)
(* FBlueprintNodeManager, FNodeDeleter).                                   *)
(*                                                                         *)
(* A command names the function it means, and three different lookups turn *)
(* the name into a graph of the list FunctionGraphs: by the exact name, by *)
(* the name of the graph's outer object, which is the Blueprint, and by a  *)
(* part of the name. A tool repeats commands, after a timeout for instance,*)
(* and gives names that no function has. Commands run one at a time on the *)
(* game thread.                                                            *)
(*                                                                         *)
(* A name stands for its letters in either case. Of a graph's nodes the    *)
(* entry and the result are told apart, which hold the parameters; types,  *)
(* positions and links are left out. So are the graphs of events, and what *)
(* a user does in the editor at the same time.                             *)
(***************************************************************************)
EXTENDS Naturals, Sequences, SequencesExt

CONSTANTS
    Names,         \* the function names of the commands
    Parts,         \* <<p, n>> where the name p is a part of the longer name n
    Valid,         \* the names that ValidateFunctionName lets pass
    Blueprint,     \* the name of the Blueprint
    Script,        \* UserConstructionScript, the graph that an actor's Blueprint has
    Guarded,       \* the names that DeleteFunction calls system functions
    Inputs,        \* the parameters a function may be given
    Outputs,       \* and its return values
    Nodes,         \* the other nodes
    Entry, Result, \* the nodes for the parameters and for the return values
    NoGraph,
    MaxFunctions   \* bound: functions in the Blueprint

Within(part, name) == part = name \/ <<part, name>> \in Parts

ASSUME NamesAssumption ==
    /\ Parts \subseteq Names \X Names
    /\ \A a, b, c \in Names : Within(a, b) /\ Within(b, c) => Within(a, c)
    /\ \A a, b \in Names : Within(a, b) /\ Within(b, a) => a = b
    /\ Valid \subseteq Names /\ Guarded \subseteq Names
    /\ {Blueprint, Script} \subseteq Valid
    /\ NoGraph \notin Names
    /\ MaxFunctions \in Nat \ {0}

Items == {Entry, Result} \cup Inputs \cup Outputs \cup Nodes

VARIABLES
    functions,  \* the names of FunctionGraphs, in the list's order
    items,      \* what the graph of that name holds
    scripted,   \* whether the Blueprint was made with a construction script
    asked       \* <<f, i>>: some command that gave f, a function's name, was told
                \* that it had added i (history)

vars == <<functions, items, scripted, asked>>

Functions == ToSet(functions)

\* The types, and that no two functions have the same name.
TypeOK ==
    /\ functions \in Seq(Names)
    /\ Len(functions) <= MaxFunctions
    /\ \A i, j \in DOMAIN functions : functions[i] = functions[j] => i = j
    /\ items \in [Names -> SUBSET Items]
    /\ \A n \in Names \ Functions : items[n] = {}
    /\ scripted \in BOOLEAN
    /\ asked \subseteq Names \X Items

Init ==
    /\ scripted \in BOOLEAN
    /\ functions = IF scripted THEN <<Script>> ELSE <<>>
    /\ items = [n \in Names |-> IF scripted /\ n = Script THEN {Entry} ELSE {}]
    /\ asked = {}

-----------------------------------------------------------------------------
(***************************************************************************)
(* Lookups.                                                                *)
(***************************************************************************)

\* The first graph of the list whose name is one of S.
FirstGraph(S) ==
    LET i == SelectInSeq(functions, LAMBDA f : f \in S) IN
    IF i = 0 THEN NoGraph ELSE functions[i]

FirstContaining(n) == FirstGraph({f \in Names : Within(n, f)})

\* FFunctionManager: the exact name, then the outer's name, then a part of a name.
FindFunctionGraph(n) ==
    IF n \in Functions THEN n
    ELSE IF n = Blueprint /\ functions # <<>> THEN Head(functions)
    ELSE FirstContaining(n)

\* Mutant of FunctionGraph: a part of a name does as well as the name.
FunctionGraphContaining(n) == FirstContaining(n)

\* FFunctionIO and FBlueprintNodeManager: the exact name or the outer's name,
\* whichever graph comes first, then a part of a name.
FunctionGraph(n) ==
    LET g == FirstGraph(IF n = Blueprint THEN Names ELSE {n}) IN
    IF g = NoGraph THEN FirstContaining(n) ELSE g

\* FNodeDeleter and FNodePropertyManager: the exact name.
GetGraph(n) == IF n \in Functions THEN n ELSE NoGraph

-----------------------------------------------------------------------------
(***************************************************************************)
(* Commands. A command that answers with an error changes nothing.         *)
(***************************************************************************)

\* Mutant of CreateFunction: only the exact name counts as taken.
CreateFunctionExact(n) ==
    /\ n \in Valid
    /\ GetGraph(n) = NoGraph
    /\ Len(functions) < MaxFunctions
    /\ functions' = Append(functions, n)
    /\ items' = [items EXCEPT ![n] = {Entry}]
    /\ UNCHANGED <<scripted, asked>>

\* A new function holds its entry node.
CreateFunction(n) ==
    /\ n \in Valid
    /\ FindFunctionGraph(n) = NoGraph
    /\ Len(functions) < MaxFunctions
    /\ functions' = Append(functions, n)
    /\ items' = [items EXCEPT ![n] = {Entry}]
    /\ UNCHANGED <<scripted, asked>>

\* Mutant of DeleteFunction: the loop over the graphs goes on after a match.
DeleteFunctionAll(n) ==
    /\ FindFunctionGraph(n) # NoGraph
    /\ n \notin Guarded
    /\ functions' = SelectSeq(functions, LAMBDA f : ~Within(n, f))
    /\ items' = [m \in Names |-> IF Within(n, m) THEN {} ELSE items[m]]
    /\ asked' = {a \in asked : ~Within(n, a[1])}
    /\ UNCHANGED scripted

\* The function found is deleted with all it holds.
DeleteFunction(n) ==
    LET g == FindFunctionGraph(n) IN
    /\ g # NoGraph
    /\ n \notin Guarded
    /\ functions' = RemoveFirst(functions, g)
    /\ items' = [items EXCEPT ![g] = {}]
    /\ asked' = {a \in asked : a[1] # g}
    /\ UNCHANGED scripted

\* The graph named g is named n from now on.
Renamed(g, n) ==
    /\ functions' = [i \in DOMAIN functions |-> IF functions[i] = g THEN n ELSE functions[i]]
    /\ items' = [items EXCEPT ![g] = {}, ![n] = items[g]]
    /\ asked' = {<<IF a[1] = g THEN n ELSE a[1], a[2]>> : a \in asked}
    /\ UNCHANGED scripted

\* Mutant of RenameFunction: the new name is not looked up.
RenameFunctionOver(old, new) ==
    /\ new \in Valid
    /\ FindFunctionGraph(old) # NoGraph
    /\ Renamed(FindFunctionGraph(old), new)

RenameFunction(old, new) ==
    /\ new \in Valid
    /\ FindFunctionGraph(old) # NoGraph
    /\ FindFunctionGraph(new) = NoGraph
    /\ Renamed(FindFunctionGraph(old), new)

\* The tool was told that i is in function n.
Told(n, i) ==
    asked' = IF n \in Functions THEN asked \cup {<<n, i>>} ELSE asked

\* AddFunctionIO: an input needs the entry node; an output makes the result node if
\* there is none.
AddFunctionIO(n, p) ==
    LET g == FunctionGraph(n) IN
    /\ g # NoGraph
    /\ p \in Inputs => Entry \in items[g]
    /\ items' = [items EXCEPT ![g] = @ \cup {p} \cup (IF p \in Inputs THEN {} ELSE {Result})]
    /\ Told(n, p)
    /\ UNCHANGED <<functions, scripted>>

\* AddNode with a function_name.
AddNode(n, i) ==
    LET g == FunctionGraph(n) IN
    /\ g # NoGraph
    /\ items' = [items EXCEPT ![g] = @ \cup {i}]
    /\ Told(n, i)
    /\ UNCHANGED <<functions, scripted>>

\* DeleteNode with a function_name takes any node, the entry and the result too, and
\* the parameters go with them.
DeleteNode(n, i) ==
    LET g == GetGraph(n)
        gone == {i} \cup (IF i = Entry THEN Inputs ELSE {})
                    \cup (IF i = Result THEN Outputs ELSE {})
    IN
    /\ g # NoGraph
    /\ i \in items[g]
    /\ items' = [items EXCEPT ![g] = @ \ gone]
    /\ asked' = asked \ ({g} \X gone)
    /\ UNCHANGED <<functions, scripted>>

Next ==
    \E n \in Names :
        \/ CreateFunction(n)
        \/ DeleteFunction(n)
        \/ \E new \in Names : RenameFunction(n, new)
        \/ \E p \in Inputs \cup Outputs : AddFunctionIO(n, p)
        \/ \E i \in Nodes : AddNode(n, i)
        \/ \E i \in Nodes \cup {Entry, Result} : DeleteNode(n, i)

Spec == Init /\ [][Next]_vars

-----------------------------------------------------------------------------
(***************************************************************************)
(* Properties.                                                             *)
(***************************************************************************)

\* The lookups agree on the name of an existing function: whatever was created,
\* renamed and deleted before, each command that gives it reaches that function. A
\* function with the name of the Blueprint must then be the first of the list.
LookupsAgree ==
    \A f \in Functions :
        FindFunctionGraph(f) = f /\ FunctionGraph(f) = f /\ GetGraph(f) = f

\* What a tool has added to a function by its name, and was told so, is in that
\* function until it is deleted; a rename takes it along.
ItemsWhereAsked ==
    \A a \in asked : a[1] \in Functions /\ a[2] \in items[a[1]]

\* Functions are a table from names to what they hold, whatever the order of the list
\* and the text the lookups are given: a command changes the entry of one function,
\* takes no name that is in use, and tells the tool it added something to a function
\* only if it put it there.
Table == [f \in Functions |-> items[f]]

View == INSTANCE FunctionTable WITH holds <- Table, told <- asked

ImplementsFunctionTable == View!Spec

\* No command deletes a system function, which is what the comment in
\* DeleteFunction says. It compares the name that was given, not the graph found.
SystemFunctionsStay == scripted => Script \in Functions

=============================================================================
