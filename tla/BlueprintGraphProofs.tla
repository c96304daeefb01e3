------------------------- MODULE BlueprintGraphProofs -------------------------
(***************************************************************************)
(* Proofs about BlueprintGraph: for any events, enums, nodes and pins.     *)
(***************************************************************************)
EXTENDS BlueprintGraph, TLAPS, FiniteSetTheorems, WellFoundedInduction

\* A tool was given the first node of an event, and no node made since is before it.
ToldIsFirst ==
    \A e \in Events :
        /\ told[e] <= made
        /\ told[e] \in nodes => told[e] \in FindExistingEventNode(e)

IInv ==
    /\ TypeOK
    /\ LinksJoinLivePins
    /\ PinsNeverRunOut
    /\ ToldIsFirst

\* PinsNeverRunOut, of any nodes and pins.
Supplied(ns, ks, ps) ==
    \A n \in ns :
        /\ ks[n] = "array" => \E p \in ps : p.node = n /\ p.side = "in"
        /\ ks[n] = "sequence" => \E p \in ps : p.node = n /\ p.side = "out"

-----------------------------------------------------------------------------
LEMMA Bounds ==
    /\ MaxNodes \in Nat /\ MaxNodes > 0 /\ MaxPin \in Nat /\ MaxPin > 0
    /\ MinThen \in Nat /\ MinThen >= 1 /\ NoEvent \notin Events
    /\ \A enum \in Enums : enum \subseteq 0..MaxPin
    BY ConstantsAssumption DEF ConstantsAssumption

LEMMA SuppliedNow == PinsNeverRunOut <=> Supplied(nodes, kind, pins)
    BY DEF PinsNeverRunOut, Supplied, Ins, Outs

LEMMA SuppliedNext == PinsNeverRunOut' <=> Supplied(nodes', kind', pins')
    BY DEF PinsNeverRunOut, Supplied, Ins, Outs

\* A set with more than one element has one besides any that is removed.
LEMMA OneMore ==
    ASSUME NEW S, NEW p, NEW k \in Nat, k >= 1, Cardinality(S) > k
    PROVE  \E q \in S : q # p
<1> SUFFICES ASSUME \A q \in S : q = p PROVE FALSE
    OBVIOUS
<1>1. S = {} \/ S = {p}
    OBVIOUS
<1>2. Cardinality(S) = 0 \/ Cardinality(S) = 1
    BY <1>1, FS_EmptySet, FS_Singleton
<1> QED BY <1>2

\* Natural numbers have a least one.
LEMMA Least ==
    ASSUME NEW N, N \subseteq Nat, N # {}
    PROVE  \E i \in N : \A j \in N : i <= j
<1> DEFINE R == OpToRel(<, Nat)
<1>1. IsWellFoundedOn(R, Nat)
    BY NatLessThanWellFounded
<1> HIDE DEF R
<1>2. PICK i \in N : \A j \in N : ~(<<j, i>> \in R)
    BY <1>1, WFMin, Zenon
<1>3. ASSUME NEW j \in N, j < i PROVE <<j, i>> \in R
  <2>1. <<j, i>> \in Nat \X Nat
      OBVIOUS
  <2>2. <<j, i>>[1] < <<j, i>>[2]
      BY <1>3
  <2> QED BY <2>1, <2>2, Zenon DEF R, OpToRel
<1>4. \A j \in N : ~(j < i)
    BY <1>2, <1>3, Zenon
<1> QED BY <1>4

\* Bounded ones have a greatest one.
LEMMA Greatest ==
    ASSUME NEW m \in Nat, NEW N \in SUBSET (0..m), N # {}
    PROVE  \E i \in N : \A j \in N : j <= i
<1> DEFINE M == {m - j : j \in N}
<1>1. M \subseteq Nat /\ M # {}
  <2>1. \A j \in N : m - j \in Nat /\ m - j \in M
      OBVIOUS
  <2> QED BY <2>1
<1>2. PICK k \in M : \A j \in M : k <= j
  <2> HIDE DEF M
  <2> QED BY <1>1, Least
<1>3. PICK i \in N : k = m - i
    OBVIOUS
<1>4. \A j \in N : m - i <= m - j
    BY <1>2, <1>3
<1> QED BY <1>4

\* There is a number for the next pin, after all of its side.
LEMMA NextNumType ==
    ASSUME NEW ofSide \in SUBSET Pin
    PROVE  /\ NextNum(ofSide) \in 0..MaxPin + 1
           /\ \A p \in ofSide : p.num < NextNum(ofSide)
<1> DEFINE N == {p.num : p \in ofSide}
           IsNext(i) == /\ \A p \in ofSide : p.num < i
                        /\ i = 0 \/ \E p \in ofSide : p.num = i - 1
<1>1. N \subseteq 0..MaxPin
    BY DEF Pin
<1>2. \E i \in 0..MaxPin + 1 : IsNext(i)
  <2>1. CASE N = {}
    <3>1. ofSide = {}
        BY <2>1
    <3>2. IsNext(0)
        BY <3>1
    <3> HIDE DEF IsNext
    <3> QED BY <3>2, Bounds
  <2>2. CASE N # {}
    <3>1. PICK i \in N : \A j \in N : j <= i
      <4> HIDE DEF N
      <4>1. MaxPin \in Nat
          BY Bounds
      <4>2. N \in SUBSET (0..MaxPin) /\ N # {}
          BY <1>1, <2>2
      <4>3. \E i \in N : \A j \in N : j <= i
          BY <4>1, <4>2, Greatest, Zenon
      <4> QED BY <4>3
    <3>2. i + 1 \in 0..MaxPin + 1 /\ i \in Nat /\ (i + 1) - 1 = i
      <4> HIDE DEF N
      <4>1. i \in 0..MaxPin
          BY <1>1
      <4> QED BY <4>1, Bounds
    <3>3. \A p \in ofSide : p.num \in N /\ p.num < i + 1
        BY <1>1, <3>1, <3>2, Bounds
    <3>4. PICK p \in ofSide : p.num = i
        OBVIOUS
    <3> QED BY <3>2, <3>3, <3>4
  <2> QED BY <2>1, <2>2
<1> HIDE DEF IsNext
<1> DEFINE i == CHOOSE j \in 0..MaxPin + 1 : IsNext(j)
<1>3. i \in 0..MaxPin + 1 /\ IsNext(i)
    BY <1>2
<1>4. i = NextNum(ofSide)
    BY DEF NextNum, IsNext
<1> HIDE DEF i
<1> QED BY <1>3, <1>4 DEF IsNext

\* An event that has a node has a first one.
LEMMA FirstOfEvent ==
    ASSUME TypeOK, NEW e \in Events, NEW n \in nodes, kind[n] = "event", event[n] = e
    PROVE  FindExistingEventNode(e) # {}
<1> DEFINE ofEvent == {m \in nodes : kind[m] = "event" /\ event[m] = e}
<1>1. ofEvent \subseteq Nat /\ ofEvent # {}
  <2>1. nodes \subseteq Nat
      BY Bounds DEF TypeOK
  <2>2. n \in ofEvent
      OBVIOUS
  <2> QED BY <2>1, <2>2
<1>2. PICK i \in ofEvent : \A j \in ofEvent : i <= j
  <2> HIDE DEF ofEvent
  <2> QED BY <1>1, Least
<1> QED BY <1>2 DEF FindExistingEventNode

\* Of the pins of one side of a node there is one whose name is 0, if there is any
\* and the node is no switch.
LEMMA FirstPin ==
    ASSUME TypeOK, NEW n \in nodes, NEW side \in {"in", "out"}, kind[n] # "switch",
           NEW r \in pins, r.node = n, r.side = side
    PROVE  \E p \in pins : p.node = n /\ p.side = side /\ Name(p) = 0
<1> DEFINE P == {p \in pins : p.node = n /\ p.side = side}
           N == {p.num : p \in P}
<1>1. \A p \in pins : p \in Pin
    BY DEF TypeOK
<1>2. N \subseteq Nat /\ N # {}
    BY <1>1, Bounds DEF Pin
<1>3. \E i \in N : \A j \in N : i <= j
  <2> HIDE DEF N
  <2> QED BY <1>2, Least
<1>4. PICK i \in N : \A j \in N : i <= j
    BY <1>3
<1>5. PICK p \in P : p.num = i
    BY <1>4
<1>6. \A j \in N : ~(j < i)
  <2> HIDE DEF N
  <2> QED BY <1>2, <1>4
<1>7. {q \in pins : q.node = p.node /\ q.side = p.side /\ q.num < p.num} = {}
  <2> SUFFICES ASSUME NEW q \in pins, q.node = p.node, q.side = p.side, q.num < p.num PROVE FALSE
      BY Zenon
  <2>1. q.num \in N
      BY <1>5
  <2> QED BY <1>5, <1>6, <2>1
<1>8. Name(p) = 0
  <2>1. kind[p.node] # "switch"
      BY <1>5
  <2>2. Name(p) = Cardinality({q \in pins : q.node = p.node /\ q.side = p.side /\ q.num < p.num})
      BY <2>1, Zenon DEF Name
  <2> QED BY <1>7, <2>2, FS_EmptySet
<1> QED BY <1>5, <1>8

LEMMA InitIInv == Init => IInv
<1> SUFFICES ASSUME Init PROVE IInv
    OBVIOUS
<1>1. TypeOK
  <2>1. kind \in [Node -> Kinds] /\ event \in [Node -> Events \cup {NoEvent}]
      BY DEF Init, Kinds
  <2>2. told \in [Events -> 0..MaxNodes] /\ made \in 0..MaxNodes
      BY Bounds DEF Init
  <2> QED BY <2>1, <2>2 DEF Init, TypeOK
<1> QED BY <1>1 DEF Init, IInv, LinksJoinLivePins, PinsNeverRunOut, ToldIsFirst

-----------------------------------------------------------------------------
(***************************************************************************)
(* Nodes.                                                                  *)
(***************************************************************************)

\* A new node has the pins of its kind and is after all others.
LEMMA PlaceIInv ==
    ASSUME IInv, NEW k \in Kinds, NEW e \in Events \cup {NoEvent}, Place(k, e)
    PROVE  /\ made + 1 \in Node /\ made + 1 \notin nodes /\ made \in Nat
           /\ kind' \in [Node -> Kinds] /\ event' \in [Node -> Events \cup {NoEvent}]
           /\ made' \in 0..MaxNodes /\ nodes' \subseteq 1..made'
           /\ pins' \subseteq Pin /\ (\A p \in pins' : p.node \in nodes')
           /\ LinksJoinLivePins' /\ PinsNeverRunOut'
           /\ \A n \in nodes : kind'[n] = kind[n] /\ event'[n] = event[n] /\ n < made + 1
           /\ kind'[made + 1] = k /\ event'[made + 1] = e
<1>1. /\ made \in Nat /\ made + 1 \in Node /\ made + 1 \notin nodes
      /\ \A n \in nodes : n \in Node /\ n < made + 1
    BY Bounds DEF IInv, TypeOK, Place, Node
<1>2. /\ made' = made + 1 /\ nodes' = nodes \cup {made + 1}
      /\ kind' = [kind EXCEPT ![made + 1] = k] /\ event' = [event EXCEPT ![made + 1] = e]
      /\ pins' = pins \cup DefaultPins(made + 1, k) /\ links' = links
    BY DEF Place
<1>3. /\ kind' \in [Node -> Kinds] /\ event' \in [Node -> Events \cup {NoEvent}]
      /\ kind'[made + 1] = k /\ event'[made + 1] = e
      /\ \A n \in nodes : kind'[n] = kind[n] /\ event'[n] = event[n]
    BY <1>1, <1>2 DEF IInv, TypeOK
<1>4. /\ made' \in 0..MaxNodes /\ nodes' \subseteq 1..made'
    BY <1>1, <1>2, Bounds DEF Node, IInv, TypeOK
<1>5. \A p \in DefaultPins(made + 1, k) : p \in Pin /\ p.node = made + 1
    BY DEF DefaultPins
<1>6. pins' \subseteq Pin /\ \A p \in pins' : p.node \in nodes'
    BY <1>2, <1>5 DEF IInv, TypeOK
<1>7. LinksJoinLivePins'
    BY <1>2 DEF IInv, LinksJoinLivePins
<1>8. PinsNeverRunOut'
  <2>1. /\ k = "array" => /\ \E p \in DefaultPins(made + 1, k) : p.node = made + 1 /\ p.side = "in"
                          /\ \E p \in DefaultPins(made + 1, k) : p.node = made + 1 /\ p.side = "out"
        /\ k = "sequence" => \E p \in DefaultPins(made + 1, k) : p.node = made + 1 /\ p.side = "out"
    <3> DEFINE pin(side, type, num) == [node |-> made + 1, side |-> side, type |-> type, num |-> num]
    <3>1. \A side \in {"in", "out"}, type \in {"exec", "wildcard"} :
            /\ pin(side, type, 0) \in Pin
            /\ pin(side, type, 0).node = made + 1 /\ pin(side, type, 0).side = side
        BY <1>1, Bounds DEF Pin
    <3>2. k = "array" => pin("in", "wildcard", 0) \in DefaultPins(made + 1, k)
                         /\ pin("out", "wildcard", 0) \in DefaultPins(made + 1, k)
        BY <3>1 DEF DefaultPins
    <3>3. k = "sequence" => pin("out", "exec", 0) \in DefaultPins(made + 1, k)
        BY <3>1 DEF DefaultPins
    <3> HIDE DEF pin
    <3> QED BY <3>1, <3>2, <3>3
  <2>2. Supplied(nodes, kind, pins)
      BY SuppliedNow DEF IInv
  <2>3. Supplied(nodes', kind', pins')
      BY <1>2, <1>3, <2>1, <2>2 DEF Supplied
  <2> QED BY <2>3, SuppliedNext
<1> QED BY <1>1, <1>3, <1>4, <1>6, <1>7, <1>8

\* add_node, of whatever type.
LEMMA AddNodeIInv ==
    ASSUME IInv, NEW k \in Kinds, NEW e \in Events \cup {NoEvent}, Place(k, e),
           UNCHANGED <<unset, told>>
    PROVE  IInv'
<1>1. TypeOK' /\ LinksJoinLivePins' /\ PinsNeverRunOut'
    BY PlaceIInv DEF IInv, TypeOK, Place
<1>2. ToldIsFirst'
  <2> SUFFICES ASSUME NEW d \in Events
               PROVE  /\ told[d] <= made'
                      /\ told[d] \in nodes' => told[d] \in FindExistingEventNode(d)'
      BY DEF ToldIsFirst
  <2>1. made' = made + 1 /\ made \in Nat /\ nodes' = nodes \cup {made + 1} /\ told[d] \in Nat
        /\ told[d] <= made
      BY Bounds DEF Place, IInv, TypeOK, ToldIsFirst
  <2>2. ASSUME told[d] \in nodes' PROVE told[d] \in FindExistingEventNode(d)'
    <3>1. told[d] \in nodes /\ told[d] \in FindExistingEventNode(d)
        BY <2>1, <2>2 DEF IInv, ToldIsFirst
    <3>2. \A n \in nodes : kind'[n] = kind[n] /\ event'[n] = event[n]
        BY PlaceIInv
    <3> QED BY <2>1, <3>1, <3>2 DEF FindExistingEventNode
  <2> QED BY <2>1, <2>2
<1> QED BY <1>1, <1>2 DEF IInv

LEMMA AddEventNodeNewIInv ==
    ASSUME IInv, NEW e \in Events, AddEventNodeNew(e) PROVE IInv'
<1>1. Place("event", e) /\ FindExistingEventNode(e) = {} /\ unset' = unset \cup {made + 1}
      /\ told' = [told EXCEPT ![e] = made + 1]
    BY DEF AddEventNodeNew
<1>2. "event" \in Kinds
    BY DEF Kinds
<1>3. /\ made + 1 \in Node /\ made + 1 \notin nodes /\ made \in Nat
      /\ kind' \in [Node -> Kinds] /\ event' \in [Node -> Events \cup {NoEvent}]
      /\ made' \in 0..MaxNodes /\ nodes' \subseteq 1..made'
      /\ pins' \subseteq Pin /\ (\A p \in pins' : p.node \in nodes')
      /\ LinksJoinLivePins' /\ PinsNeverRunOut'
      /\ \A n \in nodes : kind'[n] = kind[n] /\ event'[n] = event[n] /\ n < made + 1
      /\ kind'[made + 1] = "event" /\ event'[made + 1] = e
    BY <1>1, <1>2, PlaceIInv
<1>4. made' = made + 1 /\ nodes' = nodes \cup {made + 1} /\ links' = links
    BY <1>1 DEF Place
<1>5. TypeOK'
  <2>1. told' \in [Events -> 0..MaxNodes]
      BY <1>1, <1>3, Bounds DEF IInv, TypeOK, Node
  <2> QED BY <1>1, <1>3, <1>4, <2>1 DEF IInv, TypeOK
<1>6. ToldIsFirst'
  <2> SUFFICES ASSUME NEW d \in Events
               PROVE  /\ told'[d] <= made'
                      /\ told'[d] \in nodes' => told'[d] \in FindExistingEventNode(d)'
      BY DEF ToldIsFirst
  <2>1. CASE d = e
    <3>1. told'[d] = made + 1
        BY <1>1, <2>1 DEF IInv, TypeOK
    <3>2. ~\E n \in nodes : kind[n] = "event" /\ event[n] = e
        BY <1>1, FirstOfEvent DEF IInv
    <3> QED BY <1>3, <1>4, <2>1, <3>1, <3>2 DEF FindExistingEventNode
  <2>2. CASE d # e
    <3>1. told'[d] = told[d] /\ told[d] \in Nat /\ told[d] <= made
        BY <1>1, <2>2, Bounds DEF IInv, TypeOK, ToldIsFirst
    <3>2. told[d] \in nodes' => told[d] \in nodes /\ told[d] \in FindExistingEventNode(d)
        BY <1>3, <1>4, <3>1 DEF IInv, ToldIsFirst
    <3> QED BY <1>3, <1>4, <3>1, <3>2 DEF FindExistingEventNode
  <2> QED BY <2>1, <2>2
<1> QED BY <1>3, <1>5, <1>6 DEF IInv

\* add_event_node, for an event that has a node.
LEMMA AddEventNodeExistingIInv ==
    ASSUME IInv, NEW e \in Events, AddEventNodeExisting(e) PROVE IInv'
<1>1. PICK n \in FindExistingEventNode(e) : told' = [told EXCEPT ![e] = n]
    BY DEF AddEventNodeExisting
<1>2. UNCHANGED <<made, nodes, kind, event, unset, pins, links>>
    BY DEF AddEventNodeExisting
<1>3. n \in nodes /\ n \in 0..MaxNodes /\ n <= made
    BY Bounds DEF IInv, TypeOK, FindExistingEventNode
<1>4. TypeOK'
    BY <1>1, <1>2, <1>3 DEF IInv, TypeOK
<1>5. LinksJoinLivePins'
    BY <1>2 DEF IInv, LinksJoinLivePins
<1>6. PinsNeverRunOut'
    BY <1>2, SuppliedNow, SuppliedNext DEF IInv
<1>7. ToldIsFirst'
  <2>1. \A d \in Events : FindExistingEventNode(d)' = FindExistingEventNode(d)
      BY <1>2 DEF FindExistingEventNode
  <2>2. \A d \in Events : told'[d] = IF d = e THEN n ELSE told[d]
      BY <1>1 DEF IInv, TypeOK
  <2> QED BY <1>2, <1>3, <2>1, <2>2 DEF IInv, ToldIsFirst
<1> QED BY <1>4, <1>5, <1>6, <1>7 DEF IInv

LEMMA DeleteNodeIInv ==
    ASSUME IInv, NEW id, DeleteNode(id) PROVE IInv'
<1>1. PICK n \in FindNodeById(id) : RemoveNode(n)
    BY DEF DeleteNode
<1>2. n \in nodes /\ n \in Node
    BY Bounds DEF FindNodeById, Matching, IInv, TypeOK, Node
<1>3. /\ nodes' = nodes \ {n} /\ unset' = unset \ {n} /\ made' = made /\ told' = told
      /\ pins' = {p \in pins : p.node # n}
      /\ links' = Break(Ins(n) \cup Outs(n))
      /\ kind' = [kind EXCEPT ![n] = "event"] /\ event' = [event EXCEPT ![n] = NoEvent]
    BY <1>1 DEF RemoveNode, DeleteNode
<1>4. \A m \in nodes' : kind'[m] = kind[m] /\ event'[m] = event[m]
    BY <1>3 DEF IInv, TypeOK
<1>5. TypeOK'
  <2>1. kind' \in [Node -> Kinds] /\ event' \in [Node -> Events \cup {NoEvent}]
      BY <1>2, <1>3 DEF IInv, TypeOK, Kinds
  <2>2. links' \subseteq links
      BY <1>3 DEF Break
  <2> QED BY <1>3, <2>1, <2>2 DEF IInv, TypeOK
<1>6. LinksJoinLivePins'
  <2> SUFFICES ASSUME NEW l \in links' PROVE l[1] \in pins' /\ l[2] \in pins'
      BY DEF LinksJoinLivePins
  <2>1. l \in links /\ l[1] \notin Ins(n) \cup Outs(n) /\ l[2] \notin Ins(n) \cup Outs(n)
      BY <1>3 DEF Break
  <2>2. l[1] \in pins /\ l[2] \in pins /\ l[1].side = "out" /\ l[2].side = "in"
      BY <2>1 DEF IInv, TypeOK, LinksJoinLivePins, OutPin, InPin
  <2> QED BY <1>3, <2>1, <2>2 DEF Ins, Outs
<1>7. PinsNeverRunOut'
  <2>1. Supplied(nodes, kind, pins)
      BY SuppliedNow DEF IInv
  <2>2. Supplied(nodes', kind', pins')
      BY <1>3, <1>4, <2>1 DEF Supplied
  <2> QED BY <2>2, SuppliedNext
<1>8. ToldIsFirst'
    BY <1>3, <1>4 DEF IInv, ToldIsFirst, FindExistingEventNode
<1> QED BY <1>5, <1>6, <1>7, <1>8 DEF IInv

-----------------------------------------------------------------------------
(***************************************************************************)
(* Links and pins.                                                         *)
(***************************************************************************)

\* What an edit of one node may do to pins and links.
Edited(ps, ls) ==
    /\ ps \subseteq Pin
    /\ \A p \in ps : p.node \in nodes
    /\ ls \subseteq OutPin \X InPin
    /\ \A l \in ls : l[1] \in ps /\ l[2] \in ps
    /\ Supplied(nodes, kind, ps)

LEMMA EditedIInv ==
    ASSUME IInv, Edited(pins', links'), UNCHANGED <<made, nodes, kind, event, unset, told>>
    PROVE  IInv'
<1>1. TypeOK'
    BY DEF Edited, IInv, TypeOK
<1>2. LinksJoinLivePins'
    BY DEF Edited, LinksJoinLivePins
<1>3. PinsNeverRunOut'
    BY SuppliedNext DEF Edited
<1>4. ToldIsFirst'
    BY DEF IInv, ToldIsFirst, FindExistingEventNode
<1> QED BY <1>1, <1>2, <1>3, <1>4 DEF IInv

LEMMA ConnectNodesIInv ==
    ASSUME IInv, NEW sourceId, NEW sourcePin, NEW targetId, NEW targetPin,
           ConnectNodes(sourceId, sourcePin, targetId, targetPin)
    PROVE  IInv'
<1>1. PICK n \in FindNodeById(sourceId), m \in FindNodeById(targetId) :
        \E from \in FindPinByName(n, sourcePin, "out"), to \in FindPinByName(m, targetPin, "in") :
            links' = links \cup {<<from, to>>}
    BY DEF ConnectNodes
<1>2. PICK from \in FindPinByName(n, sourcePin, "out"), to \in FindPinByName(m, targetPin, "in") :
        links' = links \cup {<<from, to>>}
    BY <1>1
<1>3. from \in pins /\ from.side = "out" /\ to \in pins /\ to.side = "in"
    BY DEF FindPinByName, Ins, Outs
<1>4. pins' = pins /\ UNCHANGED <<made, nodes, kind, event, unset, told>>
    BY DEF ConnectNodes
<1>5. <<from, to>> \in OutPin \X InPin /\ <<from, to>>[1] = from /\ <<from, to>>[2] = to
    BY <1>3 DEF IInv, TypeOK, OutPin, InPin
<1>6. Supplied(nodes, kind, pins)
    BY SuppliedNow DEF IInv
<1>7. Edited(pins', links')
    BY <1>2, <1>3, <1>4, <1>5, <1>6 DEF Edited, IInv, TypeOK, LinksJoinLivePins
<1> QED BY <1>4, <1>7, EditedIInv

\* Pins are removed, their links cut, and others added.
Replaces(gone, cut, more) ==
    /\ more \subseteq Pin
    /\ \A p \in more : p.node \in nodes
    /\ pins' = (pins \ gone) \cup more
    /\ links' = Break(cut)
    /\ \A l \in links : /\ l[1] \in gone \ more => l[1] \in cut
                        /\ l[2] \in gone \ more => l[2] \in cut

LEMMA ReplacePins ==
    ASSUME IInv, NEW gone, NEW cut, NEW more, Replaces(gone, cut, more),
           Supplied(nodes, kind, pins')
    PROVE  Edited(pins', links')
<1>1. pins' \subseteq Pin /\ \A p \in pins' : p.node \in nodes
    BY DEF Replaces, IInv, TypeOK
<1>2. \A l \in links' : l \in links /\ l[1] \notin cut /\ l[2] \notin cut
    BY DEF Replaces, Break
<1>3. links' \subseteq OutPin \X InPin
    BY <1>2 DEF IInv, TypeOK
<1>4. \A l \in links' : l[1] \in pins' /\ l[2] \in pins'
    BY <1>2 DEF Replaces, IInv, LinksJoinLivePins
<1> QED BY <1>1, <1>3, <1>4 DEF Edited

\* Adding a pin runs nothing out.
LEMMA AddPins ==
    ASSUME IInv, NEW new \in Pin, new.node \in nodes, pins' = pins \cup {new}, links' = links
    PROVE  Edited(pins', links')
<1>1. Supplied(nodes, kind, pins)
    BY SuppliedNow DEF IInv
<1>2. Supplied(nodes, kind, pins')
    BY <1>1 DEF Supplied
<1> QED BY <1>2 DEF Edited, IInv, TypeOK, LinksJoinLivePins

LEMMA AddPinEdits ==
    ASSUME IInv, NEW n \in nodes, AddExecutionPin(n) \/ AddArrayElementPin(n)
    PROVE  Edited(pins', links')
<1>1. n \in Node /\ Outs(n) \in SUBSET Pin /\ Ins(n) \in SUBSET Pin
    BY Bounds DEF IInv, TypeOK, Node, Ins, Outs
<1>2. NextNum(Outs(n)) \in 0..MaxPin + 1 /\ NextNum(Ins(n)) \in 0..MaxPin + 1
    BY <1>1, NextNumType
<1>3. CASE AddExecutionPin(n)
  <2> DEFINE new == [node |-> n, side |-> "out", type |-> "exec", num |-> NextNum(Outs(n))]
  <2>1. NextNum(Outs(n)) \in 0..MaxPin /\ pins' = pins \cup {new} /\ links' = links
      BY <1>2, <1>3, Bounds DEF AddExecutionPin
  <2>2. new \in Pin /\ new.node = n
      BY <1>1, <2>1 DEF Pin
  <2> HIDE DEF new
  <2> QED BY <2>1, <2>2, AddPins
<1>4. CASE AddArrayElementPin(n)
  <2> DEFINE new == [node |-> n, side |-> "in", type |-> "wildcard", num |-> NextNum(Ins(n))]
  <2>1. NextNum(Ins(n)) \in 0..MaxPin /\ pins' = pins \cup {new} /\ links' = links
      BY <1>2, <1>4, Bounds DEF AddArrayElementPin
  <2>2. new \in Pin /\ new.node = n
      BY <1>1, <2>1 DEF Pin
  <2> HIDE DEF new
  <2> QED BY <2>1, <2>2, AddPins
<1> QED BY <1>3, <1>4

LEMMA RemoveExecutionPinEdits ==
    ASSUME IInv, NEW n \in nodes, NEW side, NEW name, RemoveExecutionPin(n, side, name)
    PROVE  Edited(pins', links')
<1>1. PICK p \in FindPinByName(n, name, side) : links' = Break({p}) /\ pins' = pins \ {p}
    BY DEF RemoveExecutionPin
<1>2. p \in pins /\ p.node = n /\ kind[n] = "sequence"
    BY DEF RemoveExecutionPin, FindPinByName, Ins, Outs
<1>3. PICK q \in Outs(n) : q # p
  <2>1. Cardinality(Outs(n)) > MinThen
      BY DEF RemoveExecutionPin
  <2>2. MinThen \in Nat /\ MinThen >= 1
      BY Bounds
  <2> DEFINE S == Outs(n)
  <2>3. Cardinality(S) > MinThen
      BY <2>1
  <2> HIDE DEF S
  <2>4. \E q \in S : q # p
      BY <2>2, <2>3, OneMore
  <2> QED BY <2>4 DEF S
<1>4. Supplied(nodes, kind, pins)
    BY SuppliedNow DEF IInv
<1>5. Supplied(nodes, kind, pins')
  <2>1. q \in pins' /\ q.node = n /\ q.side = "out"
      BY <1>1, <1>3 DEF Outs
  <2> QED BY <1>1, <1>2, <1>4, <2>1 DEF Supplied
<1>6. Replaces({p}, {p}, {})
    BY <1>1 DEF Replaces
<1> QED BY <1>5, <1>6, ReplacePins

LEMMA RemoveArrayElementPinEdits ==
    ASSUME IInv, NEW n \in nodes, NEW side, NEW name, RemoveArrayElementPin(n, side, name)
    PROVE  Edited(pins', links')
<1>1. PICK p \in FindPinByName(n, name, side) :
        links' = Break({p}) /\ (pins' = pins \ {p} \/ pins' = pins)
    BY DEF RemoveArrayElementPin
<1>2. p \in pins /\ p.node = n /\ kind[n] = "array"
    BY DEF RemoveArrayElementPin, FindPinByName, Ins, Outs
<1>3. PICK q \in Ins(n) : q # p
  <2>1. Cardinality(Ins(n)) > 1
      BY DEF RemoveArrayElementPin
  <2> QED BY <2>1, OneMore
<1>4. Supplied(nodes, kind, pins)
    BY SuppliedNow DEF IInv
<1>5. Supplied(nodes, kind, pins')
  <2>1. q \in pins' /\ q.node = n /\ q.side = "in"
      BY <1>1, <1>3 DEF Ins
  <2> QED BY <1>1, <1>2, <1>4, <2>1 DEF Supplied
<1>6. \E gone \in {{p}, {}} : Replaces(gone, {p}, {})
    BY <1>1 DEF Replaces
<1> QED BY <1>5, <1>6, ReplacePins

\* The first element stays: its name is 0, below any count that is accepted.
LEMMA SetNumArrayElementsEdits ==
    ASSUME IInv, NEW n \in nodes, NEW count \in Nat, SetNumArrayElements(n, count)
    PROVE  Edited(pins', links')
<1> DEFINE current == Cardinality(Ins(n))
           next == NextNum(Ins(n))
           surplus == {p \in Ins(n) : Name(p) >= count}
           added == {p \in Pin : /\ p.node = n /\ p.side = "in" /\ p.type = "wildcard"
                                 /\ p.num >= next /\ p.num < next + count - current}
<1>1. /\ kind[n] = "array" /\ count >= 1
      /\ pins' = (pins \ surplus) \cup added /\ links' = Break(surplus)
    BY DEF SetNumArrayElements
<1>2. added \in SUBSET Pin /\ \A p \in added : p.node \in nodes
    OBVIOUS
<1>3. \A p \in surplus : p \in pins /\ p.node = n /\ p.side = "in"
    BY DEF Ins
<1>4. Supplied(nodes, kind, pins)
    BY SuppliedNow DEF IInv
<1>5. PICK r \in pins : r.node = n /\ r.side = "in"
    BY <1>1, <1>4 DEF Supplied
<1>6. PICK p \in pins : p.node = n /\ p.side = "in" /\ Name(p) = 0
    BY <1>1, <1>5, FirstPin DEF IInv
<1>7. p \notin surplus
    BY <1>1, <1>6
<1> HIDE DEF surplus, added
<1>8. Supplied(nodes, kind, pins')
    BY <1>1, <1>3, <1>4, <1>6, <1>7 DEF Supplied
<1>9. Replaces(surplus, surplus, added)
    BY <1>1, <1>2 DEF Replaces
<1> QED BY <1>8, <1>9, ReplacePins

LEMMA SetEnumTypeEdits ==
    ASSUME IInv, NEW n \in nodes, NEW enum \in Enums, SetEnumType(n, enum)
    PROVE  Edited(pins', links')
<1> DEFINE entries == [node : {n}, side : {"out"}, type : {"exec"}, num : enum]
           linked == {l[1] : l \in {k \in links : k[1] \in Outs(n) \ entries}}
<1>1. PICK orphans \in SUBSET linked :
        /\ pins' = (pins \ Outs(n)) \cup entries \cup orphans
        /\ links' = Break(linked \ orphans)
    BY DEF SetEnumType
<1>2. kind[n] = "switch" /\ n \in Node
    BY Bounds DEF SetEnumType, IInv, TypeOK, Node
<1>3. entries \in SUBSET Pin /\ \A p \in entries : p.node = n
    BY <1>2, Bounds DEF Pin
<1>4. \A p \in orphans : p \in Outs(n)
    OBVIOUS
<1>5. \A l \in links : l[2].side = "in"
    BY DEF IInv, TypeOK, InPin
<1>6. \A l \in links : l[1] \in Outs(n) \ (entries \cup orphans) => l[1] \in linked \ orphans
    OBVIOUS
<1> HIDE DEF entries, linked
<1>7. /\ entries \cup orphans \in SUBSET Pin
      /\ \A p \in entries \cup orphans : p.node \in nodes
      /\ pins' = (pins \ Outs(n)) \cup (entries \cup orphans)
    BY <1>1, <1>3, <1>4 DEF Outs, IInv, TypeOK
<1>8. Supplied(nodes, kind, pins')
  <2>1. Supplied(nodes, kind, pins)
      BY SuppliedNow DEF IInv
  <2>2. \A p \in pins : p.node # n => p \in pins'
      BY <1>7 DEF Outs
  <2> QED BY <1>2, <2>1, <2>2 DEF Supplied
<1>9. \A l \in links : /\ l[1] \in Outs(n) \ (entries \cup orphans) => l[1] \in linked \ orphans
                       /\ l[2] \in Outs(n) \ (entries \cup orphans) => l[2] \in linked \ orphans
    BY <1>5, <1>6 DEF Outs
<1>10. Replaces(Outs(n), linked \ orphans, entries \cup orphans)
    BY <1>1, <1>7, <1>9 DEF Replaces
<1> QED BY <1>8, <1>10, ReplacePins

LEMMA EditNodeIInv ==
    ASSUME IInv, NEW id, EditNode(id) PROVE IInv'
<1>1. PICK n \in FindNodeById(id) :
        \/ AddExecutionPin(n)
        \/ AddArrayElementPin(n)
        \/ \E name \in 0..MaxPin :
            \E side \in {"in", "out"} :
                RemoveExecutionPin(n, side, name) \/ RemoveArrayElementPin(n, side, name)
        \/ \E count \in 0..MaxPin + 1 : SetNumArrayElements(n, count)
        \/ \E enum \in Enums : SetEnumType(n, enum)
    BY DEF EditNode
<1>2. n \in nodes
    BY DEF FindNodeById, Matching
<1>3. \A count \in 0..MaxPin + 1 : count \in Nat
    BY Bounds
<1>4. Edited(pins', links')
    BY <1>1, <1>2, <1>3, AddPinEdits, RemoveExecutionPinEdits, RemoveArrayElementPinEdits,
       SetNumArrayElementsEdits, SetEnumTypeEdits
<1>5. UNCHANGED <<made, nodes, kind, event, unset, told>>
    BY DEF EditNode
<1> QED BY <1>4, <1>5, EditedIInv

-----------------------------------------------------------------------------
LEMMA NextIInv == IInv /\ [Next]_vars => IInv'
<1> SUFFICES ASSUME IInv, [Next]_vars PROVE IInv'
    OBVIOUS
<1>1. ASSUME NEW k \in Kinds \ {"event"}, AddNode(k) PROVE IInv'
    BY <1>1, AddNodeIInv DEF AddNode
<1>2. ASSUME NEW e \in Events \cup {NoEvent}, CreateEventNode(e) PROVE IInv'
    BY <1>2, AddNodeIInv DEF CreateEventNode, Kinds
<1>3. ASSUME NEW e \in Events, AddEventNodeExisting(e) \/ AddEventNodeNew(e) PROVE IInv'
    BY <1>3, AddEventNodeExistingIInv, AddEventNodeNewIInv
<1>4. ASSUME NEW id \in 0..MaxNodes, DeleteNode(id) \/ EditNode(id) PROVE IInv'
    BY <1>4, DeleteNodeIInv, EditNodeIInv
<1>5. CASE UNCHANGED vars
  <2>1. Edited(pins, links)
    <3>1. Supplied(nodes, kind, pins)
        BY SuppliedNow DEF IInv
    <3> QED BY <3>1 DEF Edited, IInv, TypeOK, LinksJoinLivePins
  <2> QED BY <1>5, <2>1, EditedIInv DEF vars
<1> QED BY <1>1, <1>2, <1>3, <1>4, <1>5, ConnectNodesIInv DEF Next

-----------------------------------------------------------------------------
(***************************************************************************)
(* The theorems.                                                           *)
(***************************************************************************)

\* The invariant holds throughout every behaviour.
THEOREM Inductive == Spec => []IInv
<1>1. Init => IInv
    BY InitIInv
<1>2. IInv /\ [Next]_vars => IInv'
    BY NextIInv
<1> QED BY <1>1, <1>2, PTL DEF Spec

\* Every variable keeps its type; pins and unmade guids belong to nodes of the graph.
THEOREM TypeCorrect == Spec => []TypeOK
<1>1. IInv => TypeOK
    BY DEF IInv
<1> QED BY <1>1, Inductive, PTL

\* Whatever removes a pin cuts its links first.
THEOREM NoDanglingLink == Spec => []LinksJoinLivePins
<1>1. IInv => LinksJoinLivePins
    BY DEF IInv
<1> QED BY <1>1, Inductive, PTL

\* No sequence of edits takes the last pin the edit commands need.
THEOREM PinsRemain == Spec => []PinsNeverRunOut
<1>1. IInv => PinsNeverRunOut
    BY DEF IInv
<1> QED BY <1>1, Inductive, PTL

\* Asking for an event again leads to the node it was given before.
THEOREM EventsKeepNodes == Spec => EventKeepsItsNode
<1>1. IInv /\ [Next]_vars
        => [\A e \in Events : told'[e] # told[e] /\ told[e] # 0 => told[e] \notin nodes]_vars
  <2> SUFFICES ASSUME IInv, Next, NEW d \in Events, told'[d] # told[d], told[d] \in nodes
               PROVE  FALSE
      BY DEF vars
  <2>1. told[d] \in FindExistingEventNode(d)
      BY DEF IInv, ToldIsFirst
  <2>2. PICK e \in Events : AddEventNodeExisting(e) \/ AddEventNodeNew(e)
      BY DEF Next, AddNode, CreateEventNode, DeleteNode, EditNode, ConnectNodes
  <2>3. d = e
      BY <2>2 DEF AddEventNodeExisting, AddEventNodeNew, IInv, TypeOK
  <2>4. PICK n \in FindExistingEventNode(d) : told' = [told EXCEPT ![d] = n]
      BY <2>1, <2>2, <2>3 DEF AddEventNodeExisting, AddEventNodeNew
  <2>5. told'[d] = n
      BY <2>4 DEF IInv, TypeOK
  <2>6. n \in Nat /\ told[d] \in Nat
      BY Bounds DEF IInv, TypeOK, FindExistingEventNode
  <2>7. n <= told[d] /\ told[d] <= n
      BY <2>1 DEF FindExistingEventNode
  <2> QED BY <2>5, <2>6, <2>7
<1> QED BY <1>1, Inductive, PTL DEF Spec, EventKeepsItsNode

-----------------------------------------------------------------------------
(***************************************************************************)
(* Numbered things and their ranks: the names of pins that are positions.  *)
(***************************************************************************)

Numbered(S) ==
    /\ IsFiniteSet(S)
    /\ \A p \in S : p.num \in Nat
    /\ \A p, q \in S : p.num = q.num => p = q

Below(S, p) == {q \in S : q.num < p.num}
Rank(S, p)  == Cardinality(Below(S, p))

LEMMA RankType ==
    ASSUME NEW S, Numbered(S), NEW p \in S
    PROVE  /\ Rank(S, p) \in Nat /\ Cardinality(S) \in Nat
           /\ Rank(S, p) < Cardinality(S)
<1>1. Below(S, p) \in SUBSET S /\ p \notin Below(S, p)
    BY DEF Below, Numbered
<1>2. Below(S, p) # S
    BY <1>1
<1>3. IsFiniteSet(S)
    BY DEF Numbered
<1>4. /\ IsFiniteSet(Below(S, p)) /\ Cardinality(Below(S, p)) <= Cardinality(S)
      /\ Cardinality(S) = Cardinality(Below(S, p)) => S = Below(S, p)
    BY <1>1, <1>3, FS_Subset
<1>5. Cardinality(Below(S, p)) \in Nat /\ Cardinality(S) \in Nat
    BY <1>3, <1>4, FS_CardinalityType
<1> QED BY <1>2, <1>4, <1>5 DEF Rank

LEMMA RankGrows ==
    ASSUME NEW S, Numbered(S), NEW p \in S, NEW q \in S, p.num < q.num
    PROVE  Rank(S, p) < Rank(S, q)
<1>1. \A r \in S : r.num \in Nat
    BY DEF Numbered
<1>2. Below(S, p) \in SUBSET Below(S, q) /\ Below(S, q) \in SUBSET S
    BY <1>1 DEF Below
<1>3. p \in Below(S, q) /\ p \notin Below(S, p)
    BY <1>1 DEF Below
<1>4. IsFiniteSet(Below(S, q))
    BY <1>2, FS_Subset DEF Numbered
<1>5. /\ Cardinality(Below(S, p)) <= Cardinality(Below(S, q))
      /\ Cardinality(Below(S, q)) = Cardinality(Below(S, p)) => Below(S, q) = Below(S, p)
    BY <1>2, <1>4, FS_Subset
<1>6. Rank(S, p) \in Nat /\ Rank(S, q) \in Nat
    BY RankType
<1> QED BY <1>3, <1>5, <1>6 DEF Rank

\* Ranks are ordered as the numbers are.
LEMMA RankOrder ==
    ASSUME NEW S, Numbered(S), NEW p \in S, NEW q \in S
    PROVE  /\ p.num < q.num <=> Rank(S, p) < Rank(S, q)
           /\ p = q <=> Rank(S, p) = Rank(S, q)
<1>1. p.num \in Nat /\ q.num \in Nat /\ (p.num = q.num => p = q)
    BY DEF Numbered
<1>2. Rank(S, p) \in Nat /\ Rank(S, q) \in Nat
    BY RankType
<1>3. p.num < q.num => Rank(S, p) < Rank(S, q)
    BY RankGrows
<1>4. q.num < p.num => Rank(S, q) < Rank(S, p)
    BY RankGrows
<1> QED BY <1>1, <1>2, <1>3, <1>4

\* Ranks are the numbers from zero, without gaps.
LEMMA Ranks ==
    ASSUME NEW S, Numbered(S)
    PROVE  {Rank(S, p) : p \in S} = 0..Cardinality(S) - 1
<1> DEFINE T == 0..Cardinality(S) - 1
           f == [p \in S |-> Rank(S, p)]
<1>1. IsFiniteSet(S) /\ Cardinality(S) \in Nat
    BY FS_CardinalityType DEF Numbered
<1>2. IsFiniteSet(T) /\ Cardinality(T) = Cardinality(S)
  <2>1. 0 \in Int /\ Cardinality(S) - 1 \in Int
      BY <1>1
  <2> QED BY <1>1, <2>1, FS_Interval
<1>3. \A p \in S : Rank(S, p) \in T
  <2> TAKE p \in S
  <2>1. Rank(S, p) \in Nat /\ Rank(S, p) < Cardinality(S)
      BY RankType
  <2> QED BY <1>1, <2>1
<1>4. f \in Injection(S, T)
  <2>1. f \in [S -> T]
      BY <1>3
  <2>2. \A p, q \in S : f[p] = f[q] => p = q
      BY RankOrder
  <2> HIDE DEF f, T
  <2> QED BY <2>1, <2>2 DEF Injection, IsInjective
<1>5. f \in Surjection(S, T)
  <2> HIDE DEF f, T
  <2> QED BY <1>2, <1>4, FS_Injection
<1>6. \A i \in T : \E p \in S : f[p] = i
  <2> HIDE DEF f, T
  <2> QED BY <1>5 DEF Surjection
<1> QED BY <1>3, <1>6

\* Removing one moves those after it down.
LEMMA RankRemove ==
    ASSUME NEW S, Numbered(S), NEW p \in S, NEW q \in S, p # q
    PROVE  Rank(S \ {p}, q) = IF Rank(S, q) > Rank(S, p) THEN Rank(S, q) - 1 ELSE Rank(S, q)
<1>1. /\ Rank(S, p) \in Nat /\ Rank(S, q) \in Nat
      /\ p.num < q.num <=> Rank(S, p) < Rank(S, q)
    BY RankType, RankOrder
<1>2. Below(S \ {p}, q) = Below(S, q) \ {p}
    BY DEF Below
<1>3. IsFiniteSet(Below(S, q))
  <2>1. Below(S, q) \in SUBSET S
      BY DEF Below
  <2> QED BY <2>1, FS_Subset DEF Numbered
<1>4. Cardinality(Below(S, q) \ {p})
        = IF p \in Below(S, q) THEN Cardinality(Below(S, q)) - 1 ELSE Cardinality(Below(S, q))
    BY <1>3, FS_RemoveElement
<1>5. p \in Below(S, q) <=> p.num < q.num
    BY DEF Below
<1> QED BY <1>1, <1>2, <1>4, <1>5 DEF Rank

-----------------------------------------------------------------------------
(***************************************************************************)
(* Names, of any nodes and pins.                                           *)
(***************************************************************************)

SideOf(ps, n, side) == {p \in ps : p.node = n /\ p.side = side}

NameIn(ks, ps, p) ==
    IF ks[p.node] = "switch" THEN p.num ELSE Rank(SideOf(ps, p.node, p.side), p)

NamesIn(ks, ps, n, side) == {NameIn(ks, ps, p) : p \in SideOf(ps, n, side)}

WireIn(ks, ps, l) == [from |-> l[1].node, out |-> NameIn(ks, ps, l[1]),
                      to |-> l[2].node, in |-> NameIn(ks, ps, l[2])]

LEMMA SidesNow == \A n : Ins(n) = SideOf(pins, n, "in") /\ Outs(n) = SideOf(pins, n, "out")
    BY DEF Ins, Outs, SideOf

LEMMA NameNow == \A p : Name(p) = NameIn(kind, pins, p)
<1> TAKE p
<1>1. {q \in pins : q.node = p.node /\ q.side = p.side /\ q.num < p.num}
        = Below(SideOf(pins, p.node, p.side), p)
    BY DEF Below, SideOf
<1> QED BY <1>1 DEF Name, NameIn, Rank

LEMMA NameNext == \A p : Name(p)' = NameIn(kind', pins', p)
<1> TAKE p
<1>1. {q \in pins' : q.node = p.node /\ q.side = p.side /\ q.num < p.num}
        = Below(SideOf(pins', p.node, p.side), p)
    BY DEF Below, SideOf
<1> QED BY <1>1 DEF Name, NameIn, Rank

LEMMA ViewNow ==
    /\ Inputs = [n \in nodes |-> NamesIn(kind, pins, n, "in")]
    /\ Outputs = [n \in nodes |-> NamesIn(kind, pins, n, "out")]
    /\ Wires = {WireIn(kind, pins, l) : l \in links}
    BY NameNow, SidesNow, Zenon DEF Inputs, Outputs, Wires, NamesIn, WireIn

LEMMA ViewNext ==
    /\ Inputs' = [n \in nodes' |-> NamesIn(kind', pins', n, "in")]
    /\ Outputs' = [n \in nodes' |-> NamesIn(kind', pins', n, "out")]
    /\ Wires' = {WireIn(kind', pins', l) : l \in links'}
<1>1. \A n : Ins(n)' = SideOf(pins', n, "in") /\ Outs(n)' = SideOf(pins', n, "out")
    BY DEF Ins, Outs, SideOf
<1> QED BY <1>1, NameNext, Zenon DEF Inputs, Outputs, Wires, NamesIn, WireIn

\* The type of pins on a node is that of its kind.
PinsTyped == \A p \in pins :
    p.type = IF kind[p.node] = "array" THEN "wildcard" ELSE "exec"

\* Pins of one side that have one type are told apart by their numbers.
LEMMA SideNumbered ==
    ASSUME NEW ps \in SUBSET Pin, NEW n, NEW side, NEW t,
           \A p \in ps : p.node = n => p.type = t
    PROVE  Numbered(SideOf(ps, n, side))
<1> DEFINE S == SideOf(ps, n, side)
           f == [p \in S |-> p.num]
<1>1. \A p \in S : p \in Pin /\ p.num \in 0..MaxPin
    BY DEF SideOf, Pin
<1>2. \A p, q \in S : p.num = q.num => p = q
    BY DEF SideOf, Pin
<1>3. IsFiniteSet(S)
  <2> HIDE DEF S
  <2>1. f \in Injection(S, 0..MaxPin)
      BY <1>1, <1>2 DEF Injection, IsInjective
  <2>2. IsFiniteSet(0..MaxPin)
      BY FS_Interval, Bounds
  <2> HIDE DEF f
  <2> QED BY <2>1, <2>2, FS_Injection
<1>4. \A p \in S : p.num \in Nat
    BY <1>1, Bounds
<1> QED BY <1>2, <1>3, <1>4 DEF Numbered

LEMMA SidesNumbered ==
    ASSUME TypeOK, PinsTyped, NEW n, NEW side
    PROVE  Numbered(SideOf(pins, n, side))
<1>1. \A p \in pins : p.node = n => p.type = IF kind[n] = "array" THEN "wildcard" ELSE "exec"
    BY DEF PinsTyped
<1> QED BY <1>1, SideNumbered DEF TypeOK

\* The names on a side are the numbers from zero, unless the node is a switch.
LEMMA NamesInOrder ==
    ASSUME NEW ks, NEW ps, NEW n, NEW side, ks[n] # "switch", Numbered(SideOf(ps, n, side))
    PROVE  /\ NamesIn(ks, ps, n, side) = 0..Cardinality(SideOf(ps, n, side)) - 1
           /\ Cardinality(NamesIn(ks, ps, n, side)) = Cardinality(SideOf(ps, n, side))
           /\ Cardinality(SideOf(ps, n, side)) \in Nat
<1> DEFINE S == SideOf(ps, n, side)
<1>1. \A p \in S : NameIn(ks, ps, p) = Rank(S, p)
    BY DEF NameIn, SideOf
<1>2. NamesIn(ks, ps, n, side) = {Rank(S, p) : p \in S}
    BY <1>1, Zenon DEF NamesIn
<1>3. {Rank(S, p) : p \in S} = 0..Cardinality(S) - 1
  <2>1. Numbered(S)
      OBVIOUS
  <2> HIDE DEF S
  <2> QED BY <2>1, Ranks
<1>4. Cardinality(S) \in Nat
    BY FS_CardinalityType DEF Numbered
<1>5. Cardinality(0..Cardinality(S) - 1) = Cardinality(S)
  <2> HIDE DEF S
  <2>1. 0 \in Int /\ Cardinality(S) - 1 \in Int
      BY <1>4
  <2> QED BY <1>4, <2>1, FS_Interval
<1> QED BY <1>2, <1>3, <1>4, <1>5

\* A side that is left alone keeps its names.
LEMMA SideKept ==
    ASSUME NEW ks, NEW ks2, NEW ps, NEW ps2, NEW n, NEW side, ks2[n] = ks[n],
           SideOf(ps2, n, side) = SideOf(ps, n, side)
    PROVE  /\ NamesIn(ks2, ps2, n, side) = NamesIn(ks, ps, n, side)
           /\ \A p : p.node = n /\ p.side = side => NameIn(ks2, ps2, p) = NameIn(ks, ps, p)
<1>1. \A p : p.node = n /\ p.side = side => NameIn(ks2, ps2, p) = NameIn(ks, ps, p)
    BY DEF NameIn
<1>2. \A p \in SideOf(ps, n, side) : p.node = n /\ p.side = side
    BY DEF SideOf
<1> QED BY <1>1, <1>2, Zenon DEF NamesIn

-----------------------------------------------------------------------------
(***************************************************************************)
(* The graph implements Wiring.                                            *)
(***************************************************************************)

LEMMA ViewUnchanged ==
    UNCHANGED <<nodes, kind, pins, links>> => UNCHANGED View!wiringVars
    BY ViewNow, ViewNext, Zenon DEF View!wiringVars

\* The names on one side of one node are all that an edit of that side changes.
LEMMA OneSide ==
    ASSUME UNCHANGED <<nodes, kind>>, NEW n, NEW side \in {"in", "out"},
           \A m, s : m # n \/ s # side => SideOf(pins', m, s) = SideOf(pins, m, s)
    PROVE  /\ side = "in" => /\ Outputs' = Outputs
                             /\ Inputs' = [Inputs EXCEPT ![n] = NamesIn(kind, pins', n, "in")]
           /\ side = "out" => /\ Inputs' = Inputs
                              /\ Outputs' = [Outputs EXCEPT ![n] = NamesIn(kind, pins', n, "out")]
           /\ \A p : p.node # n \/ p.side # side => NameIn(kind, pins', p) = NameIn(kind, pins, p)
<1>1. \A m, s : m # n \/ s # side => NamesIn(kind, pins', m, s) = NamesIn(kind, pins, m, s)
    BY SideKept
<1>2. \A p : p.node # n \/ p.side # side => NameIn(kind, pins', p) = NameIn(kind, pins, p)
    BY DEF NameIn
<1>3. CASE side = "in"
  <2>1. Outputs' = Outputs
      BY <1>1, <1>3, ViewNow, ViewNext
  <2>2. Inputs' = [Inputs EXCEPT ![n] = NamesIn(kind, pins', n, "in")]
      BY <1>1, <1>3, ViewNow, ViewNext
  <2> QED BY <1>2, <1>3, <2>1, <2>2
<1>4. CASE side = "out"
  <2>1. Inputs' = Inputs
      BY <1>1, <1>4, ViewNow, ViewNext
  <2>2. Outputs' = [Outputs EXCEPT ![n] = NamesIn(kind, pins', n, "out")]
      BY <1>1, <1>4, ViewNow, ViewNext
  <2> QED BY <1>2, <1>4, <2>1, <2>2
<1> QED BY <1>3, <1>4

\* What links are, for the steps below.
LEMMA LinkEnds ==
    ASSUME IInv, NEW l \in links
    PROVE  /\ l[1] \in pins /\ l[1].side = "out" /\ l[1].node \in nodes
           /\ l[2] \in pins /\ l[2].side = "in" /\ l[2].node \in nodes
    BY DEF IInv, TypeOK, LinksJoinLivePins, OutPin, InPin

\* A pin goes, with its links: the names after it move down.
LEMMA PinRemoved ==
    ASSUME IInv, PinsTyped, UNCHANGED <<nodes, kind>>, NEW p \in pins,
           kind[p.node] # "switch", pins' = pins \ {p}, links' = Break({p})
    PROVE  View!Next
<1> DEFINE n == p.node
           S == SideOf(pins, n, p.side)
<1>1. n \in nodes /\ p.side \in {"in", "out"} /\ p \in S
    BY DEF IInv, TypeOK, Pin, SideOf
<1>2. /\ SideOf(pins', n, p.side) = S \ {p}
      /\ \A m, s : m # n \/ s # p.side => SideOf(pins', m, s) = SideOf(pins, m, s)
    BY DEF SideOf
<1>3. Numbered(S)
    BY SidesNumbered DEF IInv
<1>5. \A q \in S : NameIn(kind, pins, q) = Rank(S, q)
    BY DEF NameIn, SideOf
<1>6. \A q \in S \ {p} : NameIn(kind, pins', q) = Rank(S \ {p}, q)
  <2> SUFFICES ASSUME NEW q \in S \ {p} PROVE NameIn(kind, pins', q) = Rank(S \ {p}, q)
      OBVIOUS
  <2>1. q.node = n /\ q.side = p.side
      BY DEF SideOf
  <2> QED BY <1>2, <2>1 DEF NameIn
<1>7. \A q \in S \ {p} : NameIn(kind, pins', q)
                           = View!NameAfter(NameIn(kind, pins, q), NameIn(kind, pins, p))
  <2> HIDE DEF S
  <2> QED BY <1>1, <1>3, <1>5, <1>6, RankRemove DEF View!NameAfter
<1>8. \A q \in S : NameIn(kind, pins, q) = NameIn(kind, pins, p) <=> q = p
  <2> HIDE DEF S
  <2> QED BY <1>1, <1>3, <1>5, RankOrder
<1>9. NamesIn(kind, pins', n, p.side)
        = {View!NameAfter(j, NameIn(kind, pins, p)) :
             j \in NamesIn(kind, pins, n, p.side) \ {NameIn(kind, pins, p)}}
  <2>1. NamesIn(kind, pins, n, p.side) = {NameIn(kind, pins, q) : q \in S}
      BY DEF NamesIn
  <2>2. NamesIn(kind, pins', n, p.side) = {NameIn(kind, pins', q) : q \in S \ {p}}
      BY <1>2 DEF NamesIn
  <2> HIDE DEF S, n
  <2> QED BY <1>7, <1>8, <2>1, <2>2
<1>10. NameIn(kind, pins, p) \in NamesIn(kind, pins, n, p.side)
    BY <1>1 DEF NamesIn
<1>13. \A q : q.node # n \/ q.side # p.side => NameIn(kind, pins', q) = NameIn(kind, pins, q)
  <2> HIDE DEF n, S
  <2> QED BY <1>2 DEF NameIn
<1>11. CASE p.side = "out"
  <2>1. Inputs' = Inputs /\ Outputs' = [Outputs EXCEPT ![n] = NamesIn(kind, pins', n, "out")]
      BY <1>1, <1>2, <1>11, OneSide
  <2>2. Outputs[n] = NamesIn(kind, pins, n, "out") /\ DOMAIN Inputs = nodes
      BY <1>1, ViewNow
  <2>3. \A l \in links : /\ l \in links' <=> l[1] # p
                         /\ l[1].node = n => l[1] \in S
                         /\ l[2].side # p.side
    <3>1. \A l \in links : l[2] # p /\ l[1] \in pins /\ l[1].side = "out" /\ l[2].side = "in"
        BY <1>11, LinkEnds
    <3> QED BY <1>11, <3>1 DEF Break, SideOf
  <2>4. \A l \in links' : WireIn(kind, pins', l)
          = [WireIn(kind, pins, l) EXCEPT !.out =
                IF WireIn(kind, pins, l).from = n
                THEN View!NameAfter(WireIn(kind, pins, l).out, NameIn(kind, pins, p))
                ELSE WireIn(kind, pins, l).out]
    <3> SUFFICES ASSUME NEW l \in links'
                 PROVE  WireIn(kind, pins', l)
                          = [WireIn(kind, pins, l) EXCEPT !.out =
                                IF WireIn(kind, pins, l).from = n
                                THEN View!NameAfter(WireIn(kind, pins, l).out, NameIn(kind, pins, p))
                                ELSE WireIn(kind, pins, l).out]
        OBVIOUS
    <3>1. l \in links /\ l[1] # p /\ l[2].side # p.side
        BY <2>3 DEF Break
    <3>2. NameIn(kind, pins', l[2]) = NameIn(kind, pins, l[2])
        BY <1>13, <3>1
    <3>3. l[1].node # n => NameIn(kind, pins', l[1]) = NameIn(kind, pins, l[1])
        BY <1>13
    <3>4. l[1].node = n => l[1] \in S \ {p}
        BY <2>3, <3>1
    <3> HIDE DEF S, n
    <3> QED BY <1>7, <3>2, <3>3, <3>4 DEF WireIn
  <2>5. \A l \in links : l \in links' <=> \/ WireIn(kind, pins, l).from # n
                                          \/ WireIn(kind, pins, l).out # NameIn(kind, pins, p)
    <3> SUFFICES ASSUME NEW l \in links
                 PROVE  l[1] # p <=> l[1].node # n \/ NameIn(kind, pins, l[1]) # NameIn(kind, pins, p)
        BY <2>3 DEF WireIn
    <3> QED BY <1>8, <2>3
  <2>6. links' \subseteq links
      BY DEF Break
  <2> HIDE DEF n, S
  <2>7. Wires' = {[w EXCEPT !.out = IF w.from = n
                                  THEN View!NameAfter(w.out, NameIn(kind, pins, p)) ELSE w.out] :
                    w \in {v \in Wires : v.from # n \/ v.out # NameIn(kind, pins, p)}}
    <3> DEFINE Moved(w) == [w EXCEPT !.out =
                               IF w.from = n
                                  THEN View!NameAfter(w.out, NameIn(kind, pins, p)) ELSE w.out]
               Stays(w) == w.from # n \/ w.out # NameIn(kind, pins, p)
    <3>1. \A l \in links' : WireIn(kind, pins', l) = Moved(WireIn(kind, pins, l))
        BY <2>4
    <3>2. \A l \in links : l \in links' <=> Stays(WireIn(kind, pins, l))
        BY <2>5
    <3>3. Wires = {WireIn(kind, pins, l) : l \in links} /\ Wires' = {WireIn(kind', pins', l) : l \in links'}
        BY ViewNow, ViewNext
    <3> HIDE DEF Moved, Stays
    <3>4. Wires' = {Moved(w) : w \in {v \in Wires : Stays(v)}}
        BY <2>6, <3>1, <3>2, <3>3
    <3> QED BY <3>4 DEF Moved, Stays
  <2>8. View!RemoveOut(n, NameIn(kind, pins, p))
    <3>1. Outputs' = [Outputs EXCEPT ![n] = {View!NameAfter(j, NameIn(kind, pins, p)) :
                                               j \in Outputs[n] \ {NameIn(kind, pins, p)}}]
        BY <1>9, <1>11, <2>1, <2>2
    <3> QED BY <2>7, <3>1, Zenon DEF View!RemoveOut
  <2> QED BY <1>1, <1>10, <1>11, <2>1, <2>2, <2>8 DEF View!Next, n
<1>12. CASE p.side = "in"
  <2>1. Outputs' = Outputs /\ Inputs' = [Inputs EXCEPT ![n] = NamesIn(kind, pins', n, "in")]
      BY <1>1, <1>2, <1>12, OneSide
  <2>2. Inputs[n] = NamesIn(kind, pins, n, "in") /\ DOMAIN Inputs = nodes
      BY <1>1, ViewNow
  <2>3. \A l \in links : /\ l \in links' <=> l[2] # p
                         /\ l[2].node = n => l[2] \in S
                         /\ l[1].side # p.side
    <3>1. \A l \in links : l[1] # p /\ l[2] \in pins /\ l[1].side = "out" /\ l[2].side = "in"
        BY <1>12, LinkEnds
    <3> QED BY <1>12, <3>1 DEF Break, SideOf
  <2>4. \A l \in links' : WireIn(kind, pins', l)
          = [WireIn(kind, pins, l) EXCEPT !.in =
                IF WireIn(kind, pins, l).to = n
                THEN View!NameAfter(WireIn(kind, pins, l).in, NameIn(kind, pins, p))
                ELSE WireIn(kind, pins, l).in]
    <3> SUFFICES ASSUME NEW l \in links'
                 PROVE  WireIn(kind, pins', l)
                          = [WireIn(kind, pins, l) EXCEPT !.in =
                                IF WireIn(kind, pins, l).to = n
                                THEN View!NameAfter(WireIn(kind, pins, l).in, NameIn(kind, pins, p))
                                ELSE WireIn(kind, pins, l).in]
        OBVIOUS
    <3>1. l \in links /\ l[2] # p /\ l[1].side # p.side
        BY <2>3 DEF Break
    <3>2. NameIn(kind, pins', l[1]) = NameIn(kind, pins, l[1])
        BY <1>13, <3>1
    <3>3. l[2].node # n => NameIn(kind, pins', l[2]) = NameIn(kind, pins, l[2])
        BY <1>13
    <3>4. l[2].node = n => l[2] \in S \ {p}
        BY <2>3, <3>1
    <3> HIDE DEF S, n
    <3> QED BY <1>7, <3>2, <3>3, <3>4 DEF WireIn
  <2>5. \A l \in links : l \in links' <=> \/ WireIn(kind, pins, l).to # n
                                          \/ WireIn(kind, pins, l).in # NameIn(kind, pins, p)
    <3> SUFFICES ASSUME NEW l \in links
                 PROVE  l[2] # p <=> l[2].node # n \/ NameIn(kind, pins, l[2]) # NameIn(kind, pins, p)
        BY <2>3 DEF WireIn
    <3> QED BY <1>8, <2>3
  <2>6. links' \subseteq links
      BY DEF Break
  <2> HIDE DEF n, S
  <2>7. Wires' = {[w EXCEPT !.in = IF w.to = n
                                  THEN View!NameAfter(w.in, NameIn(kind, pins, p)) ELSE w.in] :
                    w \in {v \in Wires : v.to # n \/ v.in # NameIn(kind, pins, p)}}
    <3> DEFINE Moved(w) == [w EXCEPT !.in =
                               IF w.to = n
                                  THEN View!NameAfter(w.in, NameIn(kind, pins, p)) ELSE w.in]
               Stays(w) == w.to # n \/ w.in # NameIn(kind, pins, p)
    <3>1. \A l \in links' : WireIn(kind, pins', l) = Moved(WireIn(kind, pins, l))
        BY <2>4
    <3>2. \A l \in links : l \in links' <=> Stays(WireIn(kind, pins, l))
        BY <2>5
    <3>3. Wires = {WireIn(kind, pins, l) : l \in links} /\ Wires' = {WireIn(kind', pins', l) : l \in links'}
        BY ViewNow, ViewNext
    <3> HIDE DEF Moved, Stays
    <3>4. Wires' = {Moved(w) : w \in {v \in Wires : Stays(v)}}
        BY <2>6, <3>1, <3>2, <3>3
    <3> QED BY <3>4 DEF Moved, Stays
  <2>8. View!RemoveIn(n, NameIn(kind, pins, p))
    <3>1. Inputs' = [Inputs EXCEPT ![n] = {View!NameAfter(j, NameIn(kind, pins, p)) :
                                               j \in Inputs[n] \ {NameIn(kind, pins, p)}}]
        BY <1>9, <1>12, <2>1, <2>2
    <3> QED BY <2>7, <3>1, Zenon DEF View!RemoveIn
  <2> QED BY <1>1, <1>10, <1>12, <2>1, <2>2, <2>8 DEF View!Next, n
<1> QED BY <1>1, <1>11, <1>12

\* Pins join a side after all it has: the names there are stay, and wires with them.
LEMMA PinsAppended ==
    ASSUME IInv, PinsTyped, UNCHANGED <<nodes, kind, links>>, NEW n \in nodes,
           NEW side \in {"in", "out"}, NEW added, kind[n] # "switch",
           SideOf(pins, n, side) \cup added # {},
           pins' = pins \cup added, pins' \in SUBSET Pin, PinsTyped',
           \A p \in added : /\ p.node = n /\ p.side = side
                            /\ \A q \in SideOf(pins, n, side) : q.num < p.num
    PROVE  View!Next
<1> DEFINE S == SideOf(pins, n, side)
           T == SideOf(pins', n, side)
<1>1. /\ T = S \cup added
      /\ \A m, s : m # n \/ s # side => SideOf(pins', m, s) = SideOf(pins, m, s)
    BY DEF SideOf
<1>2. Numbered(S)
    BY SidesNumbered DEF IInv
<1>3. Numbered(T)
  <2>1. \A p \in pins' : p.node = n => p.type = IF kind[n] = "array" THEN "wildcard" ELSE "exec"
      BY DEF PinsTyped
  <2> QED BY <2>1, SideNumbered
<1>4. \A q \in S : Below(T, q) = Below(S, q)
  <2> SUFFICES ASSUME NEW q \in S, NEW p \in added, p.num < q.num PROVE FALSE
      BY <1>1 DEF Below
  <2>1. q.num < p.num /\ p.num \in Nat /\ q.num \in Nat
      BY <1>1, <1>3 DEF Numbered
  <2> QED BY <2>1
<1>5. \A q : q.node # n \/ q.side # side => NameIn(kind, pins', q) = NameIn(kind, pins, q)
  <2> HIDE DEF S, T
  <2> QED BY <1>1 DEF NameIn
<1>6. \A q \in S : NameIn(kind, pins', q) = NameIn(kind, pins, q)
  <2> SUFFICES ASSUME NEW q \in S PROVE NameIn(kind, pins', q) = NameIn(kind, pins, q)
      OBVIOUS
  <2>1. q.node = n /\ q.side = side
      BY DEF SideOf
  <2> QED BY <1>4, <2>1 DEF NameIn, Rank
<1>7. \A q \in pins : NameIn(kind, pins', q) = NameIn(kind, pins, q)
    BY <1>5, <1>6 DEF SideOf
<1>8. Wires' = Wires
  <2>1. \A l \in links : WireIn(kind, pins', l) = WireIn(kind, pins, l)
      BY <1>7, LinkEnds DEF WireIn
  <2>2. Wires = {WireIn(kind, pins, l) : l \in links} /\ Wires' = {WireIn(kind, pins', l) : l \in links}
      BY ViewNow, ViewNext
  <2> QED BY <2>1, <2>2
<1> DEFINE last == Cardinality(T) - 1
<1>9. NamesIn(kind, pins', n, side) = 0..last /\ NamesIn(kind, pins, n, side) = 0..Cardinality(S) - 1
    BY <1>2, <1>3, NamesInOrder
<1>10. NamesIn(kind, pins, n, side) \subseteq 0..last
    BY <1>1, <1>6, <1>9 DEF NamesIn
<1>11. last \in 0..MaxPin
  <2>1. Cardinality(T) \in Nat /\ Cardinality(T) # 0
    <3>1. T # {}
        BY <1>1
    <3>2. IsFiniteSet(T)
        BY <1>3 DEF Numbered
    <3> HIDE DEF T
    <3> QED BY <3>1, <3>2, FS_CardinalityType, FS_EmptySet
  <2>2. Cardinality(T) <= MaxPin + 1
    <3> DEFINE f == [p \in T |-> p.num]
    <3>1. \A p \in T : p.num \in 0..MaxPin
        BY DEF SideOf, Pin
    <3> HIDE DEF T
    <3>2. f \in Injection(T, 0..MaxPin)
        BY <1>3, <3>1 DEF Numbered, Injection, IsInjective
    <3>3. IsFiniteSet(0..MaxPin) /\ Cardinality(0..MaxPin) = MaxPin + 1
        BY FS_Interval, Bounds
    <3> HIDE DEF f
    <3> QED BY <3>2, <3>3, FS_Injection
  <2> HIDE DEF T
  <2> QED BY <2>1, <2>2, Bounds
<1> HIDE DEF S, T, last
<1>12. CASE side = "out"
  <2>1. Inputs' = Inputs /\ Outputs' = [Outputs EXCEPT ![n] = 0..last]
      BY <1>1, <1>9, <1>12, OneSide
  <2>2. Outputs[n] = NamesIn(kind, pins, n, "out") /\ DOMAIN Inputs = nodes
      BY ViewNow
  <2>3. View!AppendOuts(n)
      BY <1>8, <1>10, <1>11, <1>12, <2>1, <2>2 DEF View!AppendOuts
  <2> QED BY <2>1, <2>2, <2>3 DEF View!Next
<1>13. CASE side = "in"
  <2>1. Outputs' = Outputs /\ Inputs' = [Inputs EXCEPT ![n] = 0..last]
      BY <1>1, <1>9, <1>13, OneSide
  <2>2. Inputs[n] = NamesIn(kind, pins, n, "in") /\ DOMAIN Inputs = nodes
      BY ViewNow
  <2>3. View!AppendIns(n)
      BY <1>8, <1>10, <1>11, <1>13, <2>1, <2>2 DEF View!AppendIns
  <2> QED BY <2>1, <2>2, <2>3 DEF View!Next
<1> QED BY <1>12, <1>13

\* An edit of pins keeps their types, if those it adds have the type of their node.
LEMMA TypedEdit ==
    ASSUME PinsTyped, kind' = kind,
           \A p \in pins' : \/ p \in pins
                            \/ p.type = IF kind[p.node] = "array" THEN "wildcard" ELSE "exec"
    PROVE  PinsTyped'
    BY DEF PinsTyped

LEMMA EditTyped ==
    ASSUME IInv, PinsTyped, NEW id, EditNode(id) PROVE PinsTyped'
<1>1. PICK n \in FindNodeById(id) :
        \/ AddExecutionPin(n)
        \/ AddArrayElementPin(n)
        \/ \E name \in 0..MaxPin :
            \E side \in {"in", "out"} :
                RemoveExecutionPin(n, side, name) \/ RemoveArrayElementPin(n, side, name)
        \/ \E count \in 0..MaxPin + 1 : SetNumArrayElements(n, count)
        \/ \E enum \in Enums : SetEnumType(n, enum)
    BY DEF EditNode
<1>2. kind' = kind
    BY DEF EditNode
<1>3. CASE AddExecutionPin(n)
    BY <1>2, <1>3, TypedEdit DEF AddExecutionPin
<1>4. CASE AddArrayElementPin(n)
    BY <1>2, <1>4, TypedEdit DEF AddArrayElementPin
<1>5. ASSUME NEW name, NEW side, RemoveExecutionPin(n, side, name) \/ RemoveArrayElementPin(n, side, name)
      PROVE  PinsTyped'
    BY <1>2, <1>5, TypedEdit DEF RemoveExecutionPin, RemoveArrayElementPin
<1>6. ASSUME NEW count, SetNumArrayElements(n, count) PROVE PinsTyped'
    BY <1>2, <1>6, TypedEdit DEF SetNumArrayElements, Ins
<1>7. ASSUME NEW enum \in Enums, SetEnumType(n, enum) PROVE PinsTyped'
  <2> DEFINE entries == [node : {n}, side : {"out"}, type : {"exec"}, num : enum]
             linked == {l[1] : l \in {k \in links : k[1] \in Outs(n) \ entries}}
  <2>1. PICK orphans \in SUBSET linked : pins' = (pins \ Outs(n)) \cup entries \cup orphans
      BY <1>7 DEF SetEnumType
  <2>2. \A p \in entries : p.node = n /\ p.type = "exec"
      OBVIOUS
  <2>3. orphans \subseteq pins
      BY DEF Outs
  <2>4. kind[n] = "switch"
      BY <1>7 DEF SetEnumType
  <2> HIDE DEF entries, linked
  <2> QED BY <1>2, <2>1, <2>2, <2>3, <2>4, TypedEdit
<1> QED BY <1>1, <1>3, <1>4, <1>5, <1>6, <1>7

LEMMA PlaceTyped ==
    ASSUME IInv, PinsTyped, NEW k \in Kinds, NEW e \in Events \cup {NoEvent}, Place(k, e)
    PROVE  PinsTyped'
<1>1. \A p \in pins : kind'[p.node] = kind[p.node]
    BY PlaceIInv DEF IInv, TypeOK
<1>2. \A p \in DefaultPins(made + 1, k) :
        p.node = made + 1 /\ p.type = IF k = "array" THEN "wildcard" ELSE "exec"
    BY DEF DefaultPins
<1>3. kind'[made + 1] = k
    BY PlaceIInv
<1> QED BY <1>1, <1>2, <1>3 DEF PinsTyped, Place

LEMMA TypedNext ==
    ASSUME IInv, PinsTyped, [Next]_vars PROVE PinsTyped'
<1>1. ASSUME NEW k \in Kinds, NEW e \in Events \cup {NoEvent}, Place(k, e) PROVE PinsTyped'
    BY <1>1, PlaceTyped
<1>2. ASSUME NEW id, DeleteNode(id) PROVE PinsTyped'
  <2>1. PICK n \in FindNodeById(id) : RemoveNode(n)
      BY <1>2 DEF DeleteNode
  <2> QED BY <2>1 DEF RemoveNode, PinsTyped, IInv, TypeOK
<1>3. ASSUME UNCHANGED <<kind, pins>> PROVE PinsTyped'
    BY <1>3 DEF PinsTyped
<1>4. "event" \in Kinds
    BY DEF Kinds
<1> QED BY <1>1, <1>2, <1>3, <1>4, EditTyped
    DEF Next, vars, AddNode, CreateEventNode, AddEventNodeExisting, AddEventNodeNew, ConnectNodes

-----------------------------------------------------------------------------
\* Numbers up to m: at most m + 1 pins.
LEMMA FewNumbered ==
    ASSUME NEW S, Numbered(S), NEW m \in Nat, \A p \in S : p.num \in 0..m
    PROVE  Cardinality(S) \in Nat /\ Cardinality(S) <= m + 1
<1> DEFINE f == [p \in S |-> p.num]
<1>1. f \in Injection(S, 0..m)
    BY DEF Numbered, Injection, IsInjective
<1>2. IsFiniteSet(0..m) /\ Cardinality(0..m) = m + 1
    BY FS_Interval
<1>3. Cardinality(S) \in Nat
    BY FS_CardinalityType DEF Numbered
<1> HIDE DEF f
<1> QED BY <1>1, <1>2, <1>3, FS_Injection

\* The inputs of an array from a number on go, with their links.
LEMMA PinsTruncated ==
    ASSUME IInv, PinsTyped, UNCHANGED <<nodes, kind>>, NEW n \in nodes, kind[n] # "switch",
           NEW count \in Nat, count >= 1, NEW surplus, surplus # {},
           surplus = {p \in Ins(n) : Name(p) >= count},
           pins' = pins \ surplus, links' = Break(surplus)
    PROVE  View!Next
<1> DEFINE S == SideOf(pins, n, "in")
           T == SideOf(pins', n, "in")
<1>1. /\ T = S \ surplus /\ surplus \subseteq S
      /\ \A m, s : m # n \/ s # "in" => SideOf(pins', m, s) = SideOf(pins, m, s)
    BY DEF SideOf, Ins
<1>2. Numbered(S)
    BY SidesNumbered DEF IInv
<1>3. \A q \in S : NameIn(kind, pins, q) = Rank(S, q) /\ Rank(S, q) \in Nat
  <2>1. \A q \in S : NameIn(kind, pins, q) = Rank(S, q)
      BY DEF NameIn, SideOf
  <2> HIDE DEF S
  <2> QED BY <1>2, <2>1, RankType
<1>4. \A q \in S : q \in surplus <=> Rank(S, q) >= count
    BY <1>3, NameNow, SidesNow
<1>5. \A q \in T : Below(T, q) = Below(S, q)
  <2> HIDE DEF S, T
  <2> SUFFICES ASSUME NEW q \in T, NEW r \in S, r.num < q.num PROVE r \in T
      BY <1>1 DEF Below
  <2>1. Rank(S, r) < Rank(S, q) /\ Rank(S, q) < count
      BY <1>1, <1>2, <1>3, <1>4, RankOrder
  <2> QED BY <1>1, <1>3, <1>4, <2>1
<1>6. \A q : q.node # n \/ q.side # "in" => NameIn(kind, pins', q) = NameIn(kind, pins, q)
  <2> HIDE DEF S, T
  <2> QED BY <1>1 DEF NameIn
<1>7. \A q \in T : NameIn(kind, pins', q) = NameIn(kind, pins, q)
  <2> SUFFICES ASSUME NEW q \in T PROVE NameIn(kind, pins', q) = NameIn(kind, pins, q)
      OBVIOUS
  <2>1. q.node = n /\ q.side = "in"
      BY DEF SideOf
  <2> QED BY <1>5, <2>1 DEF NameIn, Rank
<1>8. Outputs' = Outputs /\ Inputs' = [Inputs EXCEPT ![n] = NamesIn(kind, pins', n, "in")]
    BY <1>1, OneSide
<1>9. Inputs[n] = NamesIn(kind, pins, n, "in") /\ DOMAIN Inputs = nodes
    BY ViewNow
<1>10. NamesIn(kind, pins', n, "in") = {j \in NamesIn(kind, pins, n, "in") : j < count}
  <2>1. NamesIn(kind, pins', n, "in") = {NameIn(kind, pins', q) : q \in T}
      BY DEF NamesIn
  <2>2. NamesIn(kind, pins, n, "in") = {NameIn(kind, pins, q) : q \in S}
      BY DEF NamesIn
  <2> HIDE DEF S, T
  <2>3. \A q \in S : q \in T <=> NameIn(kind, pins, q) < count
      BY <1>1, <1>3, <1>4
  <2> QED BY <1>1, <1>7, <2>1, <2>2, <2>3
<1>11. \A l \in links : l \in links' <=> l[2] \notin surplus
  <2>1. \A l \in links : l[1] \notin surplus
      BY <1>1, LinkEnds DEF SideOf
  <2> QED BY <2>1 DEF Break
<1>12. \A l \in links : l \in links' <=> \/ WireIn(kind, pins, l).to # n
                                         \/ WireIn(kind, pins, l).in < count
  <2> SUFFICES ASSUME NEW l \in links
               PROVE  l[2] \notin surplus <=> l[2].node # n \/ NameIn(kind, pins, l[2]) < count
      BY <1>11 DEF WireIn
  <2>1. l[2].node = n <=> l[2] \in S
      BY LinkEnds DEF SideOf
  <2> HIDE DEF S
  <2> QED BY <1>1, <1>3, <1>4, <2>1
<1>13. \A l \in links' : WireIn(kind, pins', l) = WireIn(kind, pins, l)
  <2> SUFFICES ASSUME NEW l \in links' PROVE WireIn(kind, pins', l) = WireIn(kind, pins, l)
      OBVIOUS
  <2>1. l \in links /\ l[2] \notin surplus
      BY <1>11 DEF Break
  <2>2. l[1].side = "out" /\ (l[2].node = n => l[2] \in T)
      BY <1>1, <2>1, LinkEnds DEF SideOf
  <2> HIDE DEF T
  <2> QED BY <1>6, <1>7, <2>2 DEF WireIn
<1>14. Wires' = {w \in Wires : w.to # n \/ w.in < count}
  <2> DEFINE Stays(w) == w.to # n \/ w.in < count
  <2>1. Wires = {WireIn(kind, pins, l) : l \in links} /\ Wires' = {WireIn(kind, pins', l) : l \in links'}
      BY ViewNow, ViewNext
  <2>2. \A l \in links : l \in links' <=> Stays(WireIn(kind, pins, l))
      BY <1>12
  <2>3. links' \subseteq links
      BY DEF Break
  <2> HIDE DEF Stays
  <2>4. Wires' = {w \in Wires : Stays(w)}
      BY <1>13, <2>1, <2>2, <2>3
  <2> QED BY <2>4 DEF Stays
<1>15. count \in 1..MaxPin
  <2>1. \A p \in S : p.num \in 0..MaxPin
      BY DEF SideOf, IInv, TypeOK, Pin
  <2> HIDE DEF S, T
  <2>2. Cardinality(S) \in Nat /\ Cardinality(S) <= MaxPin + 1
      BY <1>2, <2>1, FewNumbered, Bounds
  <2>3. PICK p \in surplus : TRUE
      OBVIOUS
  <2>4. Rank(S, p) < Cardinality(S) /\ Rank(S, p) >= count /\ Rank(S, p) \in Nat
      BY <1>1, <1>2, <1>4, <2>3, RankType
  <2> QED BY <2>2, <2>4, Bounds
<1> HIDE DEF S, T
<1>16. View!Truncate(n, count)
    BY <1>8, <1>9, <1>10, <1>14 DEF View!Truncate
<1> QED BY <1>8, <1>9, <1>15, <1>16 DEF View!Next

LEMMA AddPinView ==
    ASSUME IInv, PinsTyped, PinsTyped', NEW n \in nodes, UNCHANGED <<nodes, kind>>,
           AddExecutionPin(n) \/ AddArrayElementPin(n)
    PROVE  View!Next
<1>1. n \in Node /\ Outs(n) \in SUBSET Pin /\ Ins(n) \in SUBSET Pin
    BY Bounds DEF IInv, TypeOK, Node, Ins, Outs
<1>2. /\ NextNum(Outs(n)) \in 0..MaxPin + 1 /\ NextNum(Ins(n)) \in 0..MaxPin + 1
      /\ \A p \in Outs(n) : p.num < NextNum(Outs(n))
      /\ \A p \in Ins(n) : p.num < NextNum(Ins(n))
    BY <1>1, NextNumType
<1>3. CASE AddExecutionPin(n)
  <2> DEFINE new == [node |-> n, side |-> "out", type |-> "exec", num |-> NextNum(Outs(n))]
  <2>1. /\ NextNum(Outs(n)) \in 0..MaxPin /\ pins' = pins \cup {new} /\ links' = links
        /\ kind[n] # "switch"
      BY <1>2, <1>3, Bounds DEF AddExecutionPin
  <2>2. new \in Pin /\ new.node = n /\ new.side = "out" /\ new.num = NextNum(Outs(n))
      BY <1>1, <2>1 DEF Pin
  <2>3. \A q \in SideOf(pins, n, "out") : q.num < new.num
      BY <1>2, SidesNow
  <2>4. pins' \in SUBSET Pin
      BY <2>1, <2>2 DEF IInv, TypeOK
  <2> HIDE DEF new
  <2> DEFINE added == {new}
  <2>5. \A p \in added : /\ p.node = n /\ p.side = "out"
                         /\ \A q \in SideOf(pins, n, "out") : q.num < p.num
      BY <2>2, <2>3
  <2>6. SideOf(pins, n, "out") \cup added # {} /\ pins' = pins \cup added
      BY <2>1
  <2> HIDE DEF added
  <2> QED BY <2>1, <2>4, <2>5, <2>6, PinsAppended
<1>4. CASE AddArrayElementPin(n)
  <2> DEFINE new == [node |-> n, side |-> "in", type |-> "wildcard", num |-> NextNum(Ins(n))]
  <2>1. /\ NextNum(Ins(n)) \in 0..MaxPin /\ pins' = pins \cup {new} /\ links' = links
        /\ kind[n] # "switch"
      BY <1>2, <1>4, Bounds DEF AddArrayElementPin
  <2>2. new \in Pin /\ new.node = n /\ new.side = "in" /\ new.num = NextNum(Ins(n))
      BY <1>1, <2>1 DEF Pin
  <2>3. \A q \in SideOf(pins, n, "in") : q.num < new.num
      BY <1>2, SidesNow
  <2>4. pins' \in SUBSET Pin
      BY <2>1, <2>2 DEF IInv, TypeOK
  <2> HIDE DEF new
  <2> DEFINE added == {new}
  <2>5. \A p \in added : /\ p.node = n /\ p.side = "in"
                         /\ \A q \in SideOf(pins, n, "in") : q.num < p.num
      BY <2>2, <2>3
  <2>6. SideOf(pins, n, "in") \cup added # {} /\ pins' = pins \cup added
      BY <2>1
  <2> HIDE DEF added
  <2> QED BY <2>1, <2>4, <2>5, <2>6, PinsAppended
<1> QED BY <1>3, <1>4

\* The links of an output are cut, and it stays.
LEMMA LinksCut ==
    ASSUME IInv, PinsTyped, UNCHANGED <<nodes, kind, pins>>, NEW p \in pins, p.side = "out",
           kind[p.node] # "switch", links' = Break({p})
    PROVE  View!Next
<1> DEFINE n == p.node
           i == NameIn(kind, pins, p)
<1>1. n \in nodes /\ Inputs' = Inputs /\ Outputs' = Outputs
    BY ViewNow, ViewNext DEF IInv, TypeOK
<1>2. i \in Outputs[n] /\ DOMAIN Inputs = nodes
    BY <1>1, ViewNow DEF NamesIn, SideOf
<1>3. \A l \in links : l[1].node = n /\ NameIn(kind, pins, l[1]) = i <=> l[1] = p
  <2> SUFFICES ASSUME NEW l \in links, l[1].node = n, NameIn(kind, pins, l[1]) = i
               PROVE  l[1] = p
      OBVIOUS
  <2> DEFINE S == SideOf(pins, n, "out")
  <2>1. l[1] \in S /\ p \in S /\ Numbered(S)
      BY LinkEnds, SidesNumbered DEF SideOf, IInv
  <2>2. Rank(S, l[1]) = Rank(S, p)
      BY <2>1 DEF NameIn, SideOf
  <2> HIDE DEF S
  <2> QED BY <2>1, <2>2, RankOrder
<1>4. \A l \in links : l \in links' <=> l[1] # p
    BY LinkEnds DEF Break
<1>5. Wires' = {w \in Wires : w.from # n \/ w.out # i}
  <2>1. Wires = {WireIn(kind, pins, l) : l \in links} /\ Wires' = {WireIn(kind, pins, l) : l \in links'}
      BY ViewNow, ViewNext
  <2>2. links' \subseteq links
      BY DEF Break
  <2>3. \A l \in links : LET w == WireIn(kind, pins, l) IN
            l \in links' <=> w.from # n \/ w.out # i
      BY <1>3, <1>4 DEF WireIn
  <2> HIDE DEF n, i
  <2> QED BY <2>1, <2>2, <2>3
<1>6. View!Unwire(n, i)
    BY <1>1, <1>5 DEF View!Unwire
<1> HIDE DEF n, i
<1> QED BY <1>1, <1>2, <1>6 DEF View!Next

LEMMA RemovePinView ==
    ASSUME IInv, PinsTyped, NEW n \in nodes, NEW side, NEW name, UNCHANGED <<nodes, kind>>,
           RemoveExecutionPin(n, side, name) \/ RemoveArrayElementPin(n, side, name)
    PROVE  View!Next
<1>1. PICK p \in Ins(n) \cup Outs(n) :
        links' = Break({p}) /\ (pins' = pins \ {p} \/ (p.side = "out" /\ pins' = pins))
    BY DEF RemoveExecutionPin, RemoveArrayElementPin, FindPinByName
<1>2. p \in pins /\ p.node = n
    BY DEF Ins, Outs
<1>3. kind[p.node] # "switch"
    BY <1>2 DEF RemoveExecutionPin, RemoveArrayElementPin
<1> QED BY <1>1, <1>2, <1>3, PinRemoved, LinksCut

\* set_num_elements: appends, removes from the end, or leaves the inputs alone.
LEMMA SetNumView ==
    ASSUME IInv, PinsTyped, PinsTyped', IInv', NEW n \in nodes, NEW count \in Nat,
           UNCHANGED <<nodes, kind>>, SetNumArrayElements(n, count)
    PROVE  View!Next \/ UNCHANGED View!wiringVars
<1> DEFINE S == SideOf(pins, n, "in")
           current == Cardinality(Ins(n))
           next == NextNum(Ins(n))
           surplus == {p \in Ins(n) : Name(p) >= count}
           added == {p \in Pin : /\ p.node = n /\ p.side = "in" /\ p.type = "wildcard"
                                 /\ p.num >= next /\ p.num < next + count - current}
<1>1. /\ kind[n] = "array" /\ count >= 1
      /\ pins' = (pins \ surplus) \cup added /\ links' = Break(surplus)
    BY DEF SetNumArrayElements
<1>2. Numbered(S) /\ S = Ins(n)
    BY SidesNumbered, SidesNow DEF IInv
<1>3. current \in Nat /\ \A p \in Ins(n) : Name(p) \in Nat /\ Name(p) < current
  <2>1. \A p \in S : Name(p) = Rank(S, p)
      BY <1>1, NameNow DEF NameIn, SideOf
  <2> HIDE DEF S
  <2>2. \A p \in S : Rank(S, p) \in Nat /\ Rank(S, p) < Cardinality(S)
      BY <1>2, RankType
  <2>3. Cardinality(S) \in Nat
      BY <1>2, FS_CardinalityType DEF Numbered
  <2> QED BY <1>2, <2>1, <2>2, <2>3
<1>4. next \in Nat /\ (\A p \in Ins(n) : p.num < next) /\ \A p \in Ins(n) : p.num \in Nat
  <2>1. Ins(n) \in SUBSET Pin
      BY DEF Ins, IInv, TypeOK
  <2> QED BY <2>1, NextNumType, Bounds DEF Pin
<1>5. \A p \in added : /\ p.num \in Nat /\ p.node = n /\ p.side = "in"
                       /\ p.num >= next /\ p.num < next + count - current
    BY Bounds DEF Pin
<1>6. added # {} => count > current
  <2> HIDE DEF current, next, added
  <2> QED BY <1>3, <1>4, <1>5
<1>7. surplus # {} => count < current
  <2> HIDE DEF current
  <2> QED BY <1>3
<1>8. CASE surplus # {}
  <2>1. added = {}
      BY <1>3, <1>6, <1>7, <1>8
  <2>2. pins' = pins \ surplus
      BY <1>1, <2>1
  <2>3. kind[n] # "switch"
      BY <1>1
  <2> HIDE DEF added, current, next
  <2> QED BY <1>1, <1>8, <2>2, <2>3, PinsTruncated
<1>9. CASE surplus = {} /\ added # {}
  <2>1. pins' = pins \cup added /\ kind[n] # "switch"
      BY <1>1, <1>9
  <2>2. links' = links
      BY <1>1, <1>9 DEF Break
  <2>3. \A p \in added : /\ p.node = n /\ p.side = "in"
                         /\ \A q \in SideOf(pins, n, "in") : q.num < p.num
    <3> HIDE DEF added, next, current
    <3> QED BY <1>2, <1>4, <1>5
  <2>4. pins' \in SUBSET Pin
      BY DEF IInv, TypeOK
  <2>5. SideOf(pins, n, "in") \cup added # {}
      BY <1>9
  <2> HIDE DEF added, surplus
  <2> QED BY <2>1, <2>2, <2>3, <2>4, <2>5, PinsAppended
<1>10. CASE surplus = {} /\ added = {}
  <2>1. pins' = pins
      BY <1>1, <1>10
  <2>2. links' = links
      BY <1>1, <1>10 DEF Break
  <2> QED BY <2>1, <2>2, ViewUnchanged
<1> QED BY <1>8, <1>9, <1>10

\* set_enum_type: the names are those of the entries and of what is kept of the old.
LEMMA SetEnumView ==
    ASSUME IInv, PinsTyped, PinsTyped', IInv', NEW n \in nodes, NEW enum \in Enums,
           UNCHANGED <<nodes, kind>>, SetEnumType(n, enum)
    PROVE  View!Next
<1> DEFINE entries == [node : {n}, side : {"out"}, type : {"exec"}, num : enum]
           linked == {l[1] : l \in {k \in links : k[1] \in Outs(n) \ entries}}
           names == NamesIn(kind, pins', n, "out")
<1>1. PICK orphans \in SUBSET linked :
        /\ pins' = (pins \ Outs(n)) \cup entries \cup orphans
        /\ links' = Break(linked \ orphans)
    BY DEF SetEnumType
<1>2. kind[n] = "switch"
    BY DEF SetEnumType
<1>3. /\ \A p \in entries : p.node = n /\ p.side = "out" /\ p.type = "exec"
      /\ linked \subseteq Outs(n)
    OBVIOUS
<1>4. /\ SideOf(pins', n, "out") = entries \cup orphans
      /\ \A m, s : m # n \/ s # "out" => SideOf(pins', m, s) = SideOf(pins, m, s)
  <2> HIDE DEF entries, linked
  <2>1. \A m, s : m # n \/ s # "out" => SideOf(pins', m, s) = SideOf(pins, m, s)
      BY <1>1, <1>3 DEF SideOf, Outs
  <2>2. SideOf(pins', n, "out") = entries \cup orphans
      BY <1>1, <1>3 DEF SideOf, Outs
  <2> QED BY <2>1, <2>2
<1>5. Inputs' = Inputs /\ Outputs' = [Outputs EXCEPT ![n] = names]
  <2> QED BY <1>4, OneSide
<1>6. \A p : NameIn(kind, pins', p) = NameIn(kind, pins, p)
  <2>1. \A p : p.node # n \/ p.side # "out" => NameIn(kind, pins', p) = NameIn(kind, pins, p)
    <3> HIDE DEF entries, linked
    <3> QED BY <1>4 DEF NameIn
  <2> QED BY <1>2, <2>1 DEF NameIn
<1>7. names = {p.num : p \in entries \cup orphans}
  <2>1. \A p \in SideOf(pins', n, "out") : NameIn(kind, pins', p) = p.num
      BY <1>2 DEF NameIn, SideOf
  <2> HIDE DEF entries, linked
  <2> QED BY <1>4, <2>1 DEF NamesIn
<1>8. names \in SUBSET (0..MaxPin)
  <2>1. \A p \in entries \cup orphans : p \in pins'
      BY <1>1
  <2>2. \A p \in pins' : p.num \in 0..MaxPin
      BY DEF IInv, TypeOK, Pin
  <2> HIDE DEF entries, linked, names
  <2> QED BY <1>7, <2>1, <2>2
<1>9. \A l \in links : l \in links' <=> l[1] \notin linked \ orphans
  <2>1. \A l \in links : l[2] \notin linked
      BY <1>3, LinkEnds DEF Outs
  <2> HIDE DEF linked
  <2> QED BY <1>1, <2>1 DEF Break
<1>10. \A p \in Outs(n), q \in entries \cup orphans : p.num = q.num => p = q
  <2> SUFFICES ASSUME NEW p \in Outs(n), NEW q \in entries \cup orphans, p.num = q.num PROVE p = q
      OBVIOUS
  <2>1. p \in Pin /\ q \in Pin /\ p.node = n /\ p.side = "out" /\ q.node = n /\ q.side = "out"
      BY <1>1, <1>3 DEF IInv, TypeOK, Outs
  <2>2. p.type = "exec"
      BY <1>2, <2>1 DEF PinsTyped, Outs
  <2>3. q.type = "exec"
      BY <1>1, <1>2, <2>1 DEF PinsTyped
  <2> QED BY <2>1, <2>2, <2>3 DEF Pin
<1>11. \A l \in links : l \in links' <=> \/ WireIn(kind, pins, l).from # n
                                         \/ WireIn(kind, pins, l).out \in names
  <2> SUFFICES ASSUME NEW l \in links
               PROVE  l[1] \notin linked \ orphans <=> l[1].node # n \/ NameIn(kind, pins, l[1]) \in names
      BY <1>9 DEF WireIn
  <2>1. l[1].node = n <=> l[1] \in Outs(n)
      BY LinkEnds DEF Outs
  <2>2. l[1] \in Outs(n) => (l[1] \in linked <=> l[1] \notin entries)
      OBVIOUS
  <2>3. l[1] \in Outs(n) => NameIn(kind, pins, l[1]) = l[1].num
      BY <1>2, <2>1 DEF NameIn
  <2> HIDE DEF entries, linked, names
  <2>4. l[1] \in Outs(n) => (l[1].num \in names <=> l[1] \in entries \cup orphans)
      BY <1>7, <1>10
  <2> QED BY <1>3, <2>1, <2>2, <2>3, <2>4
<1> HIDE DEF entries, linked, names
<1>12. Wires' = {w \in Wires : w.from # n \/ w.out \in names}
  <2> DEFINE Stays(w) == w.from # n \/ w.out \in names
  <2>1. Wires = {WireIn(kind, pins, l) : l \in links} /\ Wires' = {WireIn(kind, pins', l) : l \in links'}
      BY ViewNow, ViewNext
  <2>2. \A l \in links : l \in links' <=> Stays(WireIn(kind, pins, l))
      BY <1>11
  <2>3. links' \subseteq links
      BY <1>1 DEF Break
  <2>4. \A l \in links : WireIn(kind, pins', l) = WireIn(kind, pins, l)
      BY <1>6 DEF WireIn
  <2> HIDE DEF Stays
  <2>5. Wires' = {w \in Wires : Stays(w)}
      BY <2>1, <2>2, <2>3, <2>4
  <2> QED BY <2>5 DEF Stays
<1>13. View!Retype(n)
    BY <1>5, <1>8, <1>12 DEF View!Retype
<1>14. DOMAIN Inputs = nodes
    BY ViewNow
<1> QED BY <1>5, <1>13, <1>14 DEF View!Next

LEMMA EditView ==
    ASSUME IInv, IInv', PinsTyped, PinsTyped', NEW id, EditNode(id)
    PROVE  View!Next \/ UNCHANGED View!wiringVars
<1>1. PICK n \in FindNodeById(id) :
        \/ AddExecutionPin(n)
        \/ AddArrayElementPin(n)
        \/ \E name \in 0..MaxPin :
            \E side \in {"in", "out"} :
                RemoveExecutionPin(n, side, name) \/ RemoveArrayElementPin(n, side, name)
        \/ \E count \in 0..MaxPin + 1 : SetNumArrayElements(n, count)
        \/ \E enum \in Enums : SetEnumType(n, enum)
    BY DEF EditNode
<1>2. n \in nodes /\ UNCHANGED <<nodes, kind>>
    BY DEF FindNodeById, Matching, EditNode
<1>3. \A count \in 0..MaxPin + 1 : count \in Nat
    BY Bounds
<1> QED BY <1>1, <1>2, <1>3, AddPinView, RemovePinView, SetNumView, SetEnumView

\* Names as a new side has them.
AtMostTwo(names) == \E i \in 0..2 : names = 0..i - 1

\* A new node's pins are named from zero on, at most two on a side.
LEMMA DefaultNames ==
    ASSUME NEW k, NEW ps, NEW ks, NEW n \in Node, NEW side \in {"in", "out"},
           ks[n] = k, SideOf(ps, n, side) = SideOf(DefaultPins(n, k), n, side)
    PROVE  AtMostTwo(NamesIn(ks, ps, n, side))
<1> DEFINE S == SideOf(ps, n, side)
<1>1. \A p \in S : /\ p \in Pin /\ p.num \in 0..1
                   /\ p.type = IF k = "array" THEN "wildcard" ELSE "exec"
  <2>1. \A p \in DefaultPins(n, k) :
          p \in Pin /\ p.num \in 0..1 /\ p.type = IF k = "array" THEN "wildcard" ELSE "exec"
      BY DEF DefaultPins
  <2> QED BY <2>1 DEF SideOf
<1>2. CASE k # "switch"
  <2>1. Numbered(S)
    <3>1. S \in SUBSET Pin /\ S = SideOf(S, n, side)
        BY <1>1 DEF SideOf
    <3>2. \A p \in S : p.node = n => p.type = IF k = "array" THEN "wildcard" ELSE "exec"
        BY <1>1
    <3> HIDE DEF S
    <3>3. Numbered(SideOf(S, n, side))
        BY <3>1, <3>2, SideNumbered
    <3> QED BY <3>1, <3>3
  <2>2. Cardinality(S) \in Nat /\ Cardinality(S) <= 2
    <3> HIDE DEF S
    <3> QED BY <1>1, <2>1, FewNumbered
  <2>3. NamesIn(ks, ps, n, side) = 0..Cardinality(S) - 1
      BY <1>2, <2>1, NamesInOrder
  <2> QED BY <2>2, <2>3 DEF AtMostTwo
<1>3. CASE k = "switch"
  <2> DEFINE in0 == [node |-> n, side |-> "in", type |-> "exec", num |-> 0]
  <2>1. in0 \in Pin
      BY Bounds DEF Pin
  <2>2. S = IF side = "in" THEN {in0} ELSE {}
      BY <1>3, <2>1 DEF SideOf, DefaultPins
  <2>3. NamesIn(ks, ps, n, side) = {p.num : p \in S}
      BY <1>3 DEF NamesIn, NameIn, SideOf
  <2>4. NamesIn(ks, ps, n, side) = IF side = "in" THEN {0} ELSE {}
    <3>1. in0.num = 0
        OBVIOUS
    <3> HIDE DEF in0, S
    <3> QED BY <2>2, <2>3, <3>1
  <2>5. 0..1 - 1 = {0} /\ 0..0 - 1 = {}
      OBVIOUS
  <2> QED BY <2>4, <2>5 DEF AtMostTwo
<1> QED BY <1>2, <1>3

\* The other nodes, of which the kind and the pins stay, keep their names.
LEMMA OthersKept ==
    ASSUME IInv, NEW ns,
           \A m \in ns : kind'[m] = kind[m],
           \A p : p.node \in ns => (p \in pins' <=> p \in pins)
    PROVE  /\ \A m \in ns : \A side : NamesIn(kind', pins', m, side) = NamesIn(kind, pins, m, side)
           /\ \A p : p.node \in ns => NameIn(kind', pins', p) = NameIn(kind, pins, p)
<1>1. \A m \in ns : \A side : SideOf(pins', m, side) = SideOf(pins, m, side)
    BY DEF SideOf
<1>2. \A m \in ns : \A side : NamesIn(kind', pins', m, side) = NamesIn(kind, pins, m, side)
    BY <1>1, SideKept
<1>3. \A p : p.node \in ns => NameIn(kind', pins', p) = NameIn(kind, pins, p)
    BY <1>1 DEF NameIn
<1> QED BY <1>2, <1>3

LEMMA PlaceView ==
    ASSUME IInv, PinsTyped, NEW k \in Kinds, NEW e \in Events \cup {NoEvent}, Place(k, e)
    PROVE  View!Next
<1> DEFINE n == made + 1
<1>1. /\ n \in Node /\ n \notin nodes /\ pins' \in SUBSET Pin /\ kind'[n] = k
      /\ \A m \in nodes : kind'[m] = kind[m]
    BY PlaceIInv
<1>2. nodes' = nodes \cup {n} /\ pins' = pins \cup DefaultPins(n, k) /\ links' = links
    BY DEF Place
<1>3. \A p \in DefaultPins(n, k) : p.node = n
    BY DEF DefaultPins
<1>4. \A p \in pins : p.node \in nodes
    BY DEF IInv, TypeOK
<1> HIDE DEF n
<1>5. \A side : SideOf(pins', n, side) = SideOf(DefaultPins(n, k), n, side)
    BY <1>1, <1>2, <1>4 DEF SideOf
<1>6. /\ \A m \in nodes : \A side : NamesIn(kind', pins', m, side) = NamesIn(kind, pins, m, side)
      /\ \A p : p.node \in nodes => NameIn(kind', pins', p) = NameIn(kind, pins, p)
  <2>1. \A p : p.node \in nodes => (p \in pins' <=> p \in pins)
      BY <1>1, <1>2, <1>3
  <2> QED BY <1>1, <2>1, OthersKept
<1>7. PICK i \in 0..2 : NamesIn(kind', pins', n, "in") = 0..i - 1
    BY <1>1, <1>5, DefaultNames DEF AtMostTwo
<1>8. PICK o \in 0..2 : NamesIn(kind', pins', n, "out") = 0..o - 1
    BY <1>1, <1>5, DefaultNames DEF AtMostTwo
<1>9. Inputs' = View!With(Inputs, n, 0..i - 1)
    BY <1>1, <1>2, <1>6, <1>7, ViewNow, ViewNext DEF View!With
<1>10. Outputs' = View!With(Outputs, n, 0..o - 1)
    BY <1>1, <1>2, <1>6, <1>8, ViewNow, ViewNext DEF View!With
<1>11. Wires' = Wires
  <2>1. \A l \in links : WireIn(kind', pins', l) = WireIn(kind, pins, l)
      BY <1>6, LinkEnds DEF WireIn
  <2>2. Wires = {WireIn(kind, pins, l) : l \in links} /\ Wires' = {WireIn(kind', pins', l) : l \in links}
      BY <1>2, ViewNow, ViewNext
  <2> QED BY <2>1, <2>2
<1>12. n \notin DOMAIN Inputs
    BY <1>1, ViewNow
<1>13. View!Add(n)
    BY <1>9, <1>10, <1>11, <1>12 DEF View!Add
<1> QED BY <1>1, <1>13 DEF View!Next, Node

LEMMA DeleteView ==
    ASSUME IInv, PinsTyped, NEW id, DeleteNode(id) PROVE View!Next
<1>1. PICK n \in FindNodeById(id) : RemoveNode(n)
    BY DEF DeleteNode
<1>2. n \in nodes
    BY DEF FindNodeById, Matching
<1>3. /\ nodes' = nodes \ {n} /\ pins' = {p \in pins : p.node # n}
      /\ links' = Break(Ins(n) \cup Outs(n)) /\ kind' = [kind EXCEPT ![n] = "event"]
    BY <1>1 DEF RemoveNode
<1>4. /\ \A m \in nodes' : \A side : NamesIn(kind', pins', m, side) = NamesIn(kind, pins, m, side)
      /\ \A p : p.node \in nodes' => NameIn(kind', pins', p) = NameIn(kind, pins, p)
  <2>1. \A m \in nodes' : kind'[m] = kind[m]
      BY <1>3 DEF IInv, TypeOK
  <2>2. \A p : p.node \in nodes' => (p \in pins' <=> p \in pins)
      BY <1>3
  <2> QED BY <2>1, <2>2, OthersKept
<1>5. Inputs' = [m \in DOMAIN Inputs \ {n} |-> Inputs[m]]
    BY <1>3, <1>4, ViewNow, ViewNext
<1>6. Outputs' = [m \in DOMAIN Outputs \ {n} |-> Outputs[m]]
    BY <1>3, <1>4, ViewNow, ViewNext
<1>7. \A l \in links : l \in links' <=> l[1].node # n /\ l[2].node # n
  <2>1. \A l \in links : /\ l[1] \in Ins(n) \cup Outs(n) <=> l[1].node = n
                         /\ l[2] \in Ins(n) \cup Outs(n) <=> l[2].node = n
      BY LinkEnds DEF Ins, Outs
  <2> QED BY <1>3, <2>1 DEF Break
<1>8. Wires' = {w \in Wires : w.from # n /\ w.to # n}
  <2> DEFINE Stays(w) == w.from # n /\ w.to # n
  <2>1. Wires = {WireIn(kind, pins, l) : l \in links} /\ Wires' = {WireIn(kind', pins', l) : l \in links'}
      BY ViewNow, ViewNext
  <2>2. \A l \in links : l \in links' <=> Stays(WireIn(kind, pins, l))
      BY <1>7 DEF WireIn
  <2>3. links' \subseteq links
      BY <1>3 DEF Break
  <2>4. \A l \in links' : WireIn(kind', pins', l) = WireIn(kind, pins, l)
    <3>1. \A l \in links' : l[1].node \in nodes' /\ l[2].node \in nodes'
        BY <1>3, <1>7, <2>3, LinkEnds
    <3> QED BY <1>4, <3>1 DEF WireIn
  <2> HIDE DEF Stays
  <2>5. Wires' = {w \in Wires : Stays(w)}
      BY <2>1, <2>2, <2>3, <2>4
  <2> QED BY <2>5 DEF Stays
<1>9. View!Delete(n)
    BY <1>5, <1>6, <1>8 DEF View!Delete
<1>10. n \in DOMAIN Inputs
    BY <1>2, ViewNow
<1> QED BY <1>9, <1>10 DEF View!Next

LEMMA ConnectView ==
    ASSUME IInv, NEW sourceId, NEW sourcePin, NEW targetId, NEW targetPin,
           ConnectNodes(sourceId, sourcePin, targetId, targetPin)
    PROVE  View!Next
<1>1. PICK n \in FindNodeById(sourceId), m \in FindNodeById(targetId) :
        \E from \in FindPinByName(n, sourcePin, "out"), to \in FindPinByName(m, targetPin, "in") :
            links' = links \cup {<<from, to>>}
    BY DEF ConnectNodes
<1>2. PICK from \in FindPinByName(n, sourcePin, "out"), to \in FindPinByName(m, targetPin, "in") :
        links' = links \cup {<<from, to>>}
    BY <1>1
<1>3. /\ n \in nodes /\ m \in nodes
      /\ from \in SideOf(pins, n, "out") /\ to \in SideOf(pins, m, "in")
      /\ from.node = n /\ to.node = m
    BY DEF FindNodeById, Matching, FindPinByName, Ins, Outs, SideOf
<1>4. UNCHANGED <<nodes, kind, pins>>
    BY DEF ConnectNodes
<1> DEFINE new == WireIn(kind, pins, <<from, to>>)
<1>5. Inputs' = Inputs /\ Outputs' = Outputs
    BY <1>4, ViewNow, ViewNext
<1>6. Wires' = Wires \cup {new}
    BY <1>2, <1>4, ViewNow, ViewNext
<1>7. /\ NameIn(kind, pins, from) \in Outputs[n] /\ NameIn(kind, pins, to) \in Inputs[m]
      /\ DOMAIN Inputs = nodes
    BY <1>3, ViewNow DEF NamesIn
<1>8. new = [from |-> n, out |-> NameIn(kind, pins, from), to |-> m, in |-> NameIn(kind, pins, to)]
    BY <1>3 DEF WireIn
<1> HIDE DEF new
<1>9. View!Connect(n, m)
    BY <1>6, <1>7, <1>8 DEF View!Connect
<1> QED BY <1>3, <1>5, <1>7, <1>9 DEF View!Next

LEMMA InitView == Init => View!Init /\ PinsTyped
<1> SUFFICES ASSUME Init PROVE View!Init /\ PinsTyped
    OBVIOUS
<1>1. nodes = {} /\ links = {} /\ pins = {}
    BY DEF Init
<1>2. Inputs = [n \in {} |-> {}] /\ Outputs = [n \in {} |-> {}] /\ Wires = {}
    BY <1>1, ViewNow
<1> QED BY <1>1, <1>2 DEF View!Init, PinsTyped

LEMMA NextView ==
    ASSUME IInv, IInv', PinsTyped, PinsTyped', [Next]_vars
    PROVE  [View!Next]_View!wiringVars
<1>1. ASSUME NEW k \in Kinds, NEW e \in Events \cup {NoEvent}, Place(k, e) PROVE View!Next
    BY <1>1, PlaceView
<1>2. ASSUME UNCHANGED <<nodes, kind, pins, links>> PROVE UNCHANGED View!wiringVars
    BY <1>2, ViewUnchanged
<1>3. "event" \in Kinds
    BY DEF Kinds
<1> QED BY <1>1, <1>2, <1>3, DeleteView, EditView, ConnectView
    DEF Next, vars, AddNode, CreateEventNode, AddEventNodeExisting, AddEventNodeNew

\* What a tool wired by name stays wired by name: the commands implement Wiring, for any
\* number of nodes, pins and links.
THEOREM WiredAsAsked == Spec => ImplementsWiring
<1>1. Init => View!Init /\ PinsTyped
    BY InitView
<1>2. IInv /\ PinsTyped /\ [Next]_vars => PinsTyped'
    BY TypedNext
<1>3. IInv /\ IInv' /\ PinsTyped /\ PinsTyped' /\ [Next]_vars => [View!Next]_View!wiringVars
    BY NextView
<1> QED BY <1>1, <1>2, <1>3, Inductive, PTL DEF Spec, ImplementsWiring, View!Spec

=============================================================================
