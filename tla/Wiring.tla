-------------------------------- MODULE Wiring --------------------------------
(***************************************************************************)
(* What the graph commands of the MCP server mean to a tool, which knows   *)
(* nodes and names of pins: wires join an output of a node to an input of a*)
(* node, removing a numbered pin moves the wires of those after it down by *)
(* one, and nothing else moves a wire, or cuts one that is not asked for.  *)
(***************************************************************************)
EXTENDS Naturals

CONSTANTS
    MaxNodes,  \* bound: nodes made
    MaxPin     \* bound: highest name of a pin

VARIABLES
    ins,   \* names of the inputs of each node in the graph
    outs,  \* names of the outputs of each node in the graph
    wires  \* what is wired to what

wiringVars == <<ins, outs, wires>>

Init ==
    /\ ins = [n \in {} |-> {}]
    /\ outs = [n \in {} |-> {}]
    /\ wires = {}

\* f with node n given the names.
With(f, n, names) == [m \in DOMAIN f \cup {n} |-> IF m = n THEN names ELSE f[m]]

\* A node is added, unwired.
Add(n) ==
    /\ n \notin DOMAIN ins
    /\ \E i \in 0..2 : ins' = With(ins, n, 0..i - 1)
    /\ \E o \in 0..2 : outs' = With(outs, n, 0..o - 1)
    /\ UNCHANGED wires

\* A node is deleted with its wires.
Delete(n) ==
    /\ ins' = [m \in DOMAIN ins \ {n} |-> ins[m]]
    /\ outs' = [m \in DOMAIN outs \ {n} |-> outs[m]]
    /\ wires' = {w \in wires : w.from # n /\ w.to # n}

\* One wire is added.
Connect(n, m) == \E o \in outs[n], i \in ins[m] :
    wires' = wires \cup {[from |-> n, out |-> o, to |-> m, in |-> i]}

\* Outputs are appended.
AppendOuts(n) ==
    /\ \E last \in 0..MaxPin :
        /\ outs[n] \subseteq 0..last
        /\ outs' = [outs EXCEPT ![n] = 0..last]
    /\ UNCHANGED wires

\* A name, once name i is removed: the ones after it move down by one.
NameAfter(name, i) == IF name > i THEN name - 1 ELSE name

\* Output i is removed; the ones after it move down.
RemoveOut(n, i) ==
    /\ outs' = [outs EXCEPT ![n] = {NameAfter(j, i) : j \in outs[n] \ {i}}]
    /\ wires' = {[w EXCEPT !.out = IF w.from = n THEN NameAfter(w.out, i) ELSE w.out] :
                    w \in {v \in wires : v.from # n \/ v.out # i}}

\* Output i stays and its wires are cut.
Unwire(n, i) ==
    /\ wires' = {w \in wires : w.from # n \/ w.out # i}
    /\ UNCHANGED outs

\* The outputs get other names: the wires on a name that is gone go with it, and no
\* other wire is touched.
Retype(n) == \E names \in SUBSET (0..MaxPin) :
    /\ outs' = [outs EXCEPT ![n] = names]
    /\ wires' = {w \in wires : w.from # n \/ w.out \in names}

\* Inputs are appended.
AppendIns(n) ==
    /\ \E last \in 0..MaxPin :
        /\ ins[n] \subseteq 0..last
        /\ ins' = [ins EXCEPT ![n] = 0..last]
    /\ UNCHANGED wires

\* Input i is removed; the ones after it move down.
RemoveIn(n, i) ==
    /\ ins' = [ins EXCEPT ![n] = {NameAfter(j, i) : j \in ins[n] \ {i}}]
    /\ wires' = {[w EXCEPT !.in = IF w.to = n THEN NameAfter(w.in, i) ELSE w.in] :
                    w \in {v \in wires : v.to # n \/ v.in # i}}

\* The inputs from number i on are removed.
Truncate(n, i) ==
    /\ ins' = [ins EXCEPT ![n] = {j \in ins[n] : j < i}]
    /\ wires' = {w \in wires : w.to # n \/ w.in < i}

Next ==
    \/ \E n \in 1..MaxNodes : Add(n)
    \/ \E n \in DOMAIN ins : Delete(n)
    \/ /\ UNCHANGED <<ins, outs>>
       /\ \E n, m \in DOMAIN ins : Connect(n, m)
    \/ /\ UNCHANGED ins
       /\ \E n \in DOMAIN ins : \/ AppendOuts(n)
                                \/ \E i \in outs[n] : RemoveOut(n, i) \/ Unwire(n, i)
                                \/ Retype(n)
    \/ /\ UNCHANGED outs
       /\ \E n \in DOMAIN ins : \/ AppendIns(n)
                                \/ \E i \in ins[n] : RemoveIn(n, i)
                                \/ \E i \in 1..MaxPin : Truncate(n, i)

Spec == Init /\ [][Next]_wiringVars

=============================================================================
