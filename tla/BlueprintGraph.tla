---------------------------- MODULE BlueprintGraph ----------------------------
(***************************************************************************)
(* The nodes, pins and links of one graph of a Blueprint, as the graph     *)
(* commands of the MCP server edit them: add_node, add_event_node,         *)
(* delete_node, connect_nodes and the edit actions of set_node_property.   *)
(* The commands run one after the other on the game thread; what is hard   *)
(* is what each leaves for the next: pins that are renumbered under links, *)
(* links whose pin or node goes away, events that exist already.           *)
(*                                                                         *)
(* A node is the number of its creation, which is also its place in        *)
(* Graph->Nodes: nodes are added at the end. A pin is numbered in the      *)
(* order in which it joined its node; the name a tool uses (then_1, [1]) is*)
(* its position among the pins of its side. The pins of a switch are named *)
(* by the entry of the enum. Each kind stands for the node types that have *)
(* its pins, "sequence" for every other node with execution pins too; pins *)
(* that the commands cannot link are left out, as are node positions,      *)
(* texts and default values. A refused command changes nothing.            *)
(***************************************************************************)
EXTENDS Naturals, FiniteSets

CONSTANTS
    Events,    \* functions of the class an event node can stand for
    NoEvent,   \* the reference of a node that stands for none of them
    Enums,     \* enums, each a set of entries
    MinThen,   \* outputs an execution sequence keeps (CanRemoveExecutionPin)
    MaxNodes,  \* bound: nodes made
    MaxPin,    \* bound: highest number of a pin on its node
    MaxLinks   \* bound: links at a time

ASSUME ConstantsAssumption ==
    /\ NoEvent \notin Events
    /\ \A enum \in Enums : enum \subseteq 0..MaxPin
    /\ MinThen \in {1, 2}
    /\ {MaxNodes, MaxPin, MaxLinks} \subseteq Nat \ {0}

VARIABLES
    made,   \* nodes made so far
    nodes,  \* Graph->Nodes
    kind,   \* what each node is
    event,  \* EventReference.MemberName of each event node
    unset,  \* nodes whose NodeGuid was never made: all zeros
    pins,   \* the pins of the nodes
    links,  \* LinkedTo: pairs of an output and an input
    told    \* node that add_event_node last answered with for each event (history)

vars == <<made, nodes, kind, event, unset, pins, links, told>>

Kinds == {"event", "sequence", "array", "switch"}
Node  == 1..MaxNodes
Pin   == [node : Node, side : {"in", "out"}, type : {"exec", "wildcard"}, num : 0..MaxPin]
OutPin == {p \in Pin : p.side = "out"}
InPin  == {p \in Pin : p.side = "in"}

(***************************************************************************)
(* Type invariant.                                                         *)
(***************************************************************************)
TypeOK ==
    /\ made \in 0..MaxNodes
    /\ nodes \subseteq 1..made
    /\ kind \in [Node -> Kinds]
    /\ event \in [Node -> Events \cup {NoEvent}]
    /\ unset \subseteq nodes
    /\ pins \subseteq Pin
    /\ \A p \in pins : p.node \in nodes
    /\ links \subseteq OutPin \X InPin
    /\ told \in [Events -> 0..MaxNodes]

Init ==
    /\ made = 0
    /\ nodes = {}
    /\ kind = [n \in Node |-> "event"]
    /\ event = [n \in Node |-> NoEvent]
    /\ unset = {}
    /\ pins = {}
    /\ links = {}
    /\ told = [e \in Events |-> 0]

-----------------------------------------------------------------------------
(***************************************************************************)
(* Pins and lookups.                                                       *)
(***************************************************************************)

Ins(n)  == {p \in pins : p.node = n /\ p.side = "in"}
Outs(n) == {p \in pins : p.node = n /\ p.side = "out"}

\* The pins a new node has after AllocateDefaultPins. A switch gets its outputs
\* when it is given an enum.
DefaultPins(n, k) ==
    LET pin(side, type, num) == [node |-> n, side |-> side, type |-> type, num |-> num]
    IN  {p \in Pin :
            \/ k \in {"sequence", "switch"} /\ p = pin("in", "exec", 0)
            \/ k \in {"event", "sequence"} /\ p = pin("out", "exec", 0)
            \/ k = "sequence" /\ p = pin("out", "exec", 1)
            \/ k = "array" /\ p = pin("in", "wildcard", 0)
            \/ k = "array" /\ p = pin("out", "wildcard", 0)}

\* The name of a pin, without its prefix.
Name(p) ==
    IF kind[p.node] = "switch"
    THEN p.num
    ELSE Cardinality({q \in pins : /\ q.node = p.node
                                   /\ q.side = p.side
                                   /\ q.num < p.num})

\* A node by id: the first whose guid or name it is. The number of a node stands
\* for its name and for the guid it was given, 0 for the guid of all zeros.
Matching(id) == {n \in nodes : n = id \/ (id = 0 /\ n \in unset)}
FindNodeById(id) == {n \in Matching(id) : \A m \in Matching(id) : n <= m}

\* Mutant of FindPinByName: the direction is not compared.
FindPinAnySide(n, name, side) == {p \in Ins(n) \cup Outs(n) : Name(p) = name}

\* A pin by name and direction: one, or none.
FindPinByName(n, name, side) ==
    {p \in Ins(n) \cup Outs(n) : p.side = side /\ Name(p) = name}

\* Mutant of FindExistingEventNode: the newest one.
FindNewestEventNode(e) ==
    LET ofEvent == {n \in nodes : kind[n] = "event" /\ event[n] = e}
    IN  {n \in ofEvent : \A m \in ofEvent : m <= n}

\* The first event node of the graph that refers to the function.
FindExistingEventNode(e) ==
    LET ofEvent == {n \in nodes : kind[n] = "event" /\ event[n] = e}
    IN  {n \in ofEvent : \A m \in ofEvent : n <= m}

\* The number for the next pin on a side of a node: after all it has.
NextNum(ofSide) == CHOOSE i \in 0..MaxPin + 1 :
    /\ \A p \in ofSide : p.num < i
    /\ i = 0 \/ \E p \in ofSide : p.num = i - 1

\* BreakAllPinLinks, of all the pins in a set.
Break(cut) == {l \in links : l[1] \notin cut /\ l[2] \notin cut}

-----------------------------------------------------------------------------
(***************************************************************************)
(* Nodes: add_node, add_event_node, delete_node.                           *)
(***************************************************************************)

\* A new node joins the graph with its default pins.
Place(k, e) ==
    /\ made < MaxNodes
    /\ made' = made + 1
    /\ nodes' = nodes \cup {made + 1}
    /\ kind' = [kind EXCEPT ![made + 1] = k]
    /\ event' = [event EXCEPT ![made + 1] = e]
    /\ pins' = pins \cup DefaultPins(made + 1, k)
    /\ UNCHANGED links

\* add_node: the type is routed to its creator. Whichever it is, the node gets a
\* guid, from the creator or from AddNode.
AddNode(k) ==
    /\ Place(k, NoEvent)
    /\ UNCHANGED <<unset, told>>

\* add_node of type "Event": no look at the events the graph has. Names other than
\* BeginPlay and Tick become a CustomFunctionName and no reference.
CreateEventNode(e) ==
    /\ Place("event", e)
    /\ UNCHANGED <<unset, told>>

\* add_event_node finds the event in the graph and answers with its node.
AddEventNodeExisting(e) ==
    /\ \E n \in FindExistingEventNode(e) : told' = [told EXCEPT ![e] = n]
    /\ UNCHANGED <<made, nodes, kind, event, unset, pins, links>>

\* add_event_node makes the node. It never gets a guid, unlike those of add_node.
AddEventNodeNew(e) ==
    /\ FindExistingEventNode(e) = {}
    /\ Place("event", e)
    /\ unset' = unset \cup {made + 1}
    /\ told' = [told EXCEPT ![e] = made + 1]

\* Mutant of RemoveNode: the links are left to the other ends.
RemoveNodeOnly(n) ==
    /\ nodes' = nodes \ {n}
    /\ kind' = [kind EXCEPT ![n] = "event"]
    /\ event' = [event EXCEPT ![n] = NoEvent]
    /\ unset' = unset \ {n}
    /\ pins' = {p \in pins : p.node # n}
    /\ UNCHANGED links

\* BreakAllNodeLinks, then Graph->RemoveNode.
RemoveNode(n) ==
    /\ nodes' = nodes \ {n}
    /\ kind' = [kind EXCEPT ![n] = "event"]
    /\ event' = [event EXCEPT ![n] = NoEvent]
    /\ unset' = unset \ {n}
    /\ pins' = {p \in pins : p.node # n}
    /\ links' = Break(Ins(n) \cup Outs(n))

\* delete_node.
DeleteNode(id) ==
    /\ \E n \in FindNodeById(id) : RemoveNode(n)
    /\ UNCHANGED <<made, told>>

-----------------------------------------------------------------------------
(***************************************************************************)
(* Links and pins: connect_nodes, and the edit actions of                  *)
(* set_node_property (DispatchEditAction).                                 *)
(***************************************************************************)

\* connect_nodes: both pins exist and are of one category; MakeLinkTo adds the link
\* to those the pins have. It bypasses the schema, which would replace them.
ConnectNodes(sourceId, sourcePin, targetId, targetPin) ==
    /\ Cardinality(links) < MaxLinks
    /\ \E n \in FindNodeById(sourceId), m \in FindNodeById(targetId) :
        \E from \in FindPinByName(n, sourcePin, "out"),
           to \in FindPinByName(m, targetPin, "in") :
            /\ from.type = to.type
            /\ links' = links \cup {<<from, to>>}
    /\ UNCHANGED <<made, nodes, kind, event, unset, pins, told>>

\* add_pin on an execution sequence: a new output after the last.
AddExecutionPin(n) ==
    /\ kind[n] = "sequence"
    /\ NextNum(Outs(n)) <= MaxPin
    /\ pins' = pins \cup {[node |-> n, side |-> "out", type |-> "exec",
                           num |-> NextNum(Outs(n))]}
    /\ UNCHANGED links

\* add_pin on a MakeArray node, after the sequence editor refused it.
AddArrayElementPin(n) ==
    /\ kind[n] = "array"
    /\ NextNum(Ins(n)) <= MaxPin
    /\ pins' = pins \cup {[node |-> n, side |-> "in", type |-> "wildcard",
                           num |-> NextNum(Ins(n))]}
    /\ UNCHANGED links

\* remove_pin on an execution sequence. The pin is looked up by name in either
\* direction, so "execute" is removed like an output.
RemoveExecutionPin(n, side, name) ==
    /\ kind[n] = "sequence"
    /\ Cardinality(Outs(n)) > MinThen
    /\ \E p \in FindPinByName(n, name, side) :
        /\ links' = Break({p})
        /\ pins' = pins \ {p}

\* Mutant of RemoveArrayElementPin: InputPinCount < 1.
RemoveLastElementToo(n, side, name) ==
    /\ kind[n] = "array"
    /\ \E p \in FindPinByName(n, name, side) :
        /\ links' = Break({p})
        /\ \/ pins' = pins \ {p}
           \/ side = "out" /\ pins' = pins

\* remove_pin on a MakeArray node with two elements or more. The pin is looked up by
\* name in either direction: the output passes the guard, which counts the inputs,
\* loses its links and is handed to RemoveInputPin, out of the contract of that
\* function, which may stop the editor (no step), leave the output or take it.
RemoveArrayElementPin(n, side, name) ==
    /\ kind[n] = "array"
    /\ Cardinality(Ins(n)) > 1
    /\ \E p \in FindPinByName(n, name, side) :
        /\ links' = Break({p})
        /\ \/ pins' = pins \ {p}
           \/ side = "out" /\ pins' = pins

\* Mutant of SetNumArrayElements: the first elements are removed.
SetNumRemovingFirst(n, count) ==
    LET current == Cardinality(Ins(n))
        next    == NextNum(Ins(n))
        surplus == {p \in Ins(n) : Name(p) < current - count}
        added   == {p \in Pin : /\ p.node = n /\ p.side = "in" /\ p.type = "wildcard"
                                /\ p.num >= next /\ p.num < next + count - current}
    IN  /\ kind[n] = "array"
        /\ count >= 1
        /\ next + count <= MaxPin + 1 + current
        /\ pins' = (pins \ surplus) \cup added
        /\ links' = Break(surplus)

\* set_num_elements: pins are added, or removed from the end, up to the count.
SetNumArrayElements(n, count) ==
    LET current == Cardinality(Ins(n))
        next    == NextNum(Ins(n))
        surplus == {p \in Ins(n) : Name(p) >= count}
        added   == {p \in Pin : /\ p.node = n /\ p.side = "in" /\ p.type = "wildcard"
                                /\ p.num >= next /\ p.num < next + count - current}
    IN  /\ kind[n] = "array"
        /\ count >= 1
        /\ next + count <= MaxPin + 1 + current
        /\ pins' = (pins \ surplus) \cup added
        /\ links' = Break(surplus)

\* set_enum_type: ReconstructNode makes a pin for each entry. Links of a pin whose
\* entry is still there are kept; the engine keeps another linked pin as an orphan,
\* or drops it with its links.
SetEnumType(n, enum) ==
    LET entries == [node : {n}, side : {"out"}, type : {"exec"}, num : enum]
        linked  == {l[1] : l \in {k \in links : k[1] \in Outs(n) \ entries}}
    IN  /\ kind[n] = "switch"
        /\ \E orphans \in SUBSET linked :
            /\ pins' = (pins \ Outs(n)) \cup entries \cup orphans
            /\ links' = Break(linked \ orphans)

\* set_node_property with an action, on the node the id finds.
EditNode(id) ==
    /\ \E n \in FindNodeById(id) :
        \/ AddExecutionPin(n)
        \/ AddArrayElementPin(n)
        \/ \E name \in 0..MaxPin :
            \E side \in {"in", "out"} :
                RemoveExecutionPin(n, side, name) \/ RemoveArrayElementPin(n, side, name)
        \/ \E count \in 0..MaxPin + 1 : SetNumArrayElements(n, count)
        \/ \E enum \in Enums : SetEnumType(n, enum)
    /\ UNCHANGED <<made, nodes, kind, event, unset, told>>

Next ==
    \/ \E k \in Kinds \ {"event"} : AddNode(k)
    \/ \E e \in Events \cup {NoEvent} : CreateEventNode(e)
    \/ \E e \in Events : AddEventNodeExisting(e) \/ AddEventNodeNew(e)
    \/ \E id \in 0..MaxNodes : DeleteNode(id) \/ EditNode(id)
    \/ \E sourceId, targetId \in 0..MaxNodes, sourcePin, targetPin \in 0..MaxPin :
        ConnectNodes(sourceId, sourcePin, targetId, targetPin)

Spec == Init /\ [][Next]_vars

-----------------------------------------------------------------------------
(***************************************************************************)
(* Safety.                                                                 *)
(***************************************************************************)

\* A link joins pins that exist: whatever removes a pin - delete_node, remove_pin,
\* set_num_elements, set_enum_type - cuts its links first. A compile after a link
\* that dangles reads a pin that is gone.
LinksJoinLivePins == \A l \in links : l[1] \in pins /\ l[2] \in pins

\* No sequence of edits takes a MakeArray's last element or an execution sequence's
\* last output, though remove_pin counts the pins of one side and takes a pin of
\* either, and set_num_elements takes several. (A MakeArray's output and a sequence's
\* "execute" may be taken: nothing in the code keeps them.)
PinsNeverRunOut ==
    \A n \in nodes :
        /\ kind[n] = "array" => Ins(n) # {}
        /\ kind[n] = "sequence" => Outs(n) # {}

\* A tool that asks for an event again gets the node it was given before, as long as
\* that node is in the graph, whatever other nodes of the event add_node made.
EventKeepsItsNode ==
    [][\A e \in Events : told'[e] # told[e] /\ told[e] # 0 => told[e] \notin nodes]_vars

-----------------------------------------------------------------------------
(***************************************************************************)
(* The graph a tool works on is that of Wiring: nodes, names and wires.    *)
(***************************************************************************)
Inputs  == [n \in nodes |-> {Name(p) : p \in Ins(n)}]
Outputs == [n \in nodes |-> {Name(p) : p \in Outs(n)}]
Wires   == {[from |-> l[1].node, out |-> Name(l[1]),
             to |-> l[2].node, in |-> Name(l[2])] : l \in links}

View == INSTANCE Wiring WITH ins <- Inputs, outs <- Outputs, wires <- Wires

\* Names are positions and links are held by pins that move; what a tool wired up
\* by name stays wired, under the name the renumbering gives it, until it removes
\* the pin or the node itself. A removal that leaves the pin, of a MakeArray's
\* output, cuts its wires (Unwire).
ImplementsWiring == View!Spec

=============================================================================
