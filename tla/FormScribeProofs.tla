-------------------------- MODULE FormScribeProofs ---------------------------
(***************************************************************************)
(* Proofs about FormScribe, for any components, viewports, assets, parts.  *)
(***************************************************************************)
EXTENDS FormScribe, TLAPS

\* A component is in the list BoundDataAsset names and in no other.
ListIsBound ==
    \A a \in Assets, c \in Comps : delegates[a][c] = IF bound[c] = a THEN 1 ELSE 0

\* BoundDataAsset is FormData, but for a component that has not bound yet.
BoundIsForm ==
    \A c \in Comps :
        /\ life[c] = "none" => bound[c] = None
        /\ life[c] = "live" => bound[c] \in {None, formData[c]}
        /\ c \in registered => life[c] = "live" /\ bound[c] = formData[c]

\* A viewport is in the list of its asset while it is open.
ViewportListed ==
    \A v \in Viewports :
        /\ life[v] = "live" => formData[v] \in Assets
        /\ \A a \in Assets :
               delegates[a][v] = IF life[v] = "live" /\ formData[v] = a THEN 1 ELSE 0

IInv ==
    /\ TypeOK
    /\ ListIsBound
    /\ BoundIsForm
    /\ ViewportListed
    /\ ShowsItsAsset
    /\ NothingLeftBehind

-----------------------------------------------------------------------------
LEMMA InitIInv == Init => IInv
<1> SUFFICES ASSUME Init PROVE IInv
    OBVIOUS
<1>1. TypeOK
    BY DEF Init, TypeOK
<1>2. ListIsBound /\ BoundIsForm /\ ViewportListed /\ ShowsItsAsset /\ NothingLeftBehind
    BY FormAssumption
    DEF Init, FormAssumption, Viewers, ListIsBound, BoundIsForm, ViewportListed,
        ShowsItsAsset, NothingLeftBehind
<1> QED BY <1>1, <1>2 DEF IInv

\* What the parts of a component's FormData are.
LEMMA PartsOfType ==
    ASSUME TypeOK, NEW f \in Assets \cup {None}
    PROVE  PartsOf(f) \in SUBSET Parts
    BY DEF TypeOK, PartsOf

\* BindToDataAsset leaves the component in the list of the new asset alone, once,
\* and every other viewer where it was.
LEMMA RebindLists ==
    ASSUME IInv, NEW c \in Comps, NEW f \in Assets \cup {None}, Rebind(c, f)
    PROVE  /\ delegates' \in [Assets -> [Viewers -> 0..1]]
           /\ bound' \in [Comps -> Assets \cup {None}]
           /\ bound'[c] = f
           /\ \A d \in Comps : d # c => bound'[d] = bound[d]
           /\ \A a \in Assets, v \in Viewers : v # c => delegates'[a][v] = delegates[a][v]
           /\ \A a \in Assets : delegates'[a][c] = IF f = a THEN 1 ELSE 0
<1>1. \A a \in Assets : delegates[a][c] = IF bound[c] = a THEN 1 ELSE 0
    BY DEF IInv, ListIsBound
<1>2. c \in Viewers
    BY DEF Viewers
<1>3. \A a \in Assets, v \in Viewers : v # c => delegates'[a][v] = delegates[a][v]
    BY DEF Rebind
<1>4. \A a \in Assets : delegates'[a][c] = IF f = a THEN 1 ELSE 0
    BY <1>1, <1>2 DEF Rebind
<1>5. delegates' \in [Assets -> [Viewers -> 0..1]]
  <2>1. delegates' = [a \in Assets |-> [v \in Viewers |-> delegates'[a][v]]]
      BY DEF Rebind
  <2>2. \A a \in Assets, v \in Viewers : delegates'[a][v] \in 0..1
      BY <1>3, <1>4 DEF IInv, TypeOK
  <2> HIDE DEF Rebind
  <2> QED BY <2>1, <2>2
<1> QED BY <1>3, <1>4, <1>5 DEF Rebind, IInv, TypeOK

\* Every operation that gives a component a FormData, binds and rebuilds keeps
\* the invariant: SetFormData, PostEditChangeProperty and PostEditUndo.
LEMMA BindAndRebuildIInv ==
    ASSUME IInv, NEW c \in Comps, NEW f \in Assets \cup {None},
           life[c] = "live",
           saved' = [saved EXCEPT ![c] = formData[c]],
           formData' = [formData EXCEPT ![c] = f],
           Rebind(c, f), Rebuild(c, f),
           UNCHANGED <<parts, life, registered>>
    PROVE  IInv'
<1>0. c \in Viewers /\ c \notin Viewports
    BY FormAssumption DEF FormAssumption, Viewers
<1>1. TypeOK'
    BY RebindLists, PartsOfType, <1>0 DEF IInv, TypeOK, Rebuild
<1>2. ListIsBound'
    BY RebindLists DEF IInv, ListIsBound, Viewers
<1>3. formData'[c] = f /\ \A v \in Viewers : v # c => formData'[v] = formData[v]
    BY <1>0 DEF IInv, TypeOK
<1>4. BoundIsForm'
  <2>1. bound'[c] = f /\ \A d \in Comps : d # c => bound'[d] = bound[d]
      BY RebindLists
  <2>2. \A d \in Comps : d \in Viewers
      BY DEF Viewers
  <2> QED BY <1>3, <2>1, <2>2 DEF IInv, BoundIsForm
<1>5. ViewportListed'
  <2>1. \A a \in Assets, v \in Viewers : v # c => delegates'[a][v] = delegates[a][v]
      BY RebindLists
  <2>2. \A v \in Viewports : v \in Viewers /\ v # c
      BY <1>0 DEF Viewers
  <2> QED BY <1>3, <2>1, <2>2 DEF IInv, ViewportListed
<1>6. ShowsItsAsset' /\ NothingLeftBehind'
    BY <1>0 DEF IInv, TypeOK, ShowsItsAsset, NothingLeftBehind, Rebuild, PartsOf, Viewers
<1> QED BY <1>1, <1>2, <1>4, <1>5, <1>6 DEF IInv

LEMMA ConstructIInv ==
    ASSUME IInv, NEW c \in Comps, NEW f \in Assets \cup {None}, Construct(c, f)
    PROVE  IInv'
<1>0. c \in Viewers /\ c \notin Viewports
    BY FormAssumption DEF FormAssumption, Viewers
<1>1. TypeOK'
    BY <1>0 DEF IInv, TypeOK, Construct
<1>2. ListIsBound'
    BY DEF IInv, ListIsBound, Construct
<1>3. BoundIsForm'
    BY <1>0 DEF IInv, TypeOK, BoundIsForm, Construct, Viewers
<1>4. ViewportListed'
    BY <1>0 DEF IInv, TypeOK, ViewportListed, Construct, Viewers
<1>5. c \notin registered
    BY DEF IInv, BoundIsForm, Construct
<1>6. ShowsItsAsset' /\ NothingLeftBehind'
    BY <1>0, <1>5 DEF IInv, TypeOK, ShowsItsAsset, NothingLeftBehind, Construct, PartsOf, Viewers
<1> QED BY <1>1, <1>2, <1>3, <1>4, <1>6 DEF IInv

LEMMA PostLoadIInv ==
    ASSUME IInv, NEW c \in Comps, PostLoad(c)
    PROVE  IInv'
<1>0. c \in Viewers /\ c \notin Viewports /\ formData[c] \in Assets \cup {None}
    BY FormAssumption DEF FormAssumption, Viewers, IInv, TypeOK
<1>1. Rebind(c, formData[c])
    BY DEF PostLoad
<1>2. TypeOK'
    BY RebindLists, <1>0, <1>1 DEF IInv, TypeOK, PostLoad
<1>3. ListIsBound'
    BY RebindLists, <1>0, <1>1 DEF IInv, ListIsBound, Viewers
<1>4. BoundIsForm'
    BY RebindLists, <1>0, <1>1 DEF IInv, BoundIsForm, PostLoad
<1>5. ViewportListed'
    BY RebindLists, <1>0, <1>1 DEF IInv, ViewportListed, PostLoad, Viewers
<1>6. ShowsItsAsset' /\ NothingLeftBehind'
    BY DEF IInv, ShowsItsAsset, NothingLeftBehind, PostLoad, PartsOf
<1> QED BY <1>2, <1>3, <1>4, <1>5, <1>6 DEF IInv

LEMMA OnRegisterIInv ==
    ASSUME IInv, NEW c \in Comps, OnRegister(c)
    PROVE  IInv'
<1>0. c \in Viewers /\ c \notin Viewports /\ formData[c] \in Assets \cup {None}
    BY FormAssumption DEF FormAssumption, Viewers, IInv, TypeOK
<1>1. Rebind(c, formData[c])
    BY DEF OnRegister
<1>2. TypeOK'
  <2>1. PartsOf(formData[c]) \in SUBSET Parts
      BY PartsOfType, <1>0 DEF IInv
  <2> QED BY RebindLists, <1>0, <1>1, <2>1 DEF IInv, TypeOK, OnRegister
<1>3. ListIsBound'
    BY RebindLists, <1>0, <1>1 DEF IInv, ListIsBound, Viewers
<1>4. BoundIsForm'
    BY RebindLists, <1>0, <1>1 DEF IInv, BoundIsForm, OnRegister
<1>5. ViewportListed'
    BY RebindLists, <1>0, <1>1 DEF IInv, ViewportListed, OnRegister, Viewers
<1>6. ShowsItsAsset' /\ NothingLeftBehind'
    BY <1>0 DEF IInv, TypeOK, ShowsItsAsset, NothingLeftBehind, OnRegister, PartsOf, Viewers
<1> QED BY <1>2, <1>3, <1>4, <1>5, <1>6 DEF IInv

LEMMA OnUnregisterIInv ==
    ASSUME IInv, NEW c \in Comps, OnUnregister(c)
    PROVE  IInv'
<1>0. c \in Viewers /\ c \notin Viewports
    BY FormAssumption DEF FormAssumption, Viewers
<1>1. TypeOK'
    BY DEF IInv, TypeOK, OnUnregister
<1>2. ListIsBound' /\ BoundIsForm' /\ ViewportListed'
    BY DEF IInv, ListIsBound, BoundIsForm, ViewportListed, OnUnregister
<1>3. ShowsItsAsset' /\ NothingLeftBehind'
    BY <1>0 DEF IInv, TypeOK, ShowsItsAsset, NothingLeftBehind, OnUnregister, PartsOf, Viewers
<1> QED BY <1>1, <1>2, <1>3 DEF IInv

LEMMA OnComponentDestroyedIInv ==
    ASSUME IInv, NEW c \in Comps, OnComponentDestroyed(c)
    PROVE  IInv'
<1>0. c \in Viewers /\ c \notin Viewports
    BY FormAssumption DEF FormAssumption, Viewers
<1>1. TypeOK'
    BY DEF IInv, TypeOK, OnComponentDestroyed
<1>2. ListIsBound'
    BY DEF IInv, ListIsBound, OnComponentDestroyed
<1>3. BoundIsForm'
    BY <1>0 DEF IInv, TypeOK, BoundIsForm, OnComponentDestroyed, Viewers
<1>4. ViewportListed'
    BY <1>0 DEF IInv, TypeOK, ViewportListed, OnComponentDestroyed, Viewers
<1>5. ShowsItsAsset' /\ NothingLeftBehind'
    BY <1>0
    DEF IInv, TypeOK, ShowsItsAsset, NothingLeftBehind, OnComponentDestroyed, PartsOf, Viewers
<1> QED BY <1>1, <1>2, <1>3, <1>4, <1>5 DEF IInv

LEMMA OpenViewportIInv ==
    ASSUME IInv, NEW v \in Viewports, NEW a \in Assets, OpenViewport(v, a)
    PROVE  IInv'
<1>0. v \in Viewers /\ v \notin Comps /\ a # None
    BY FormAssumption DEF FormAssumption, Viewers
<1>1. \A b \in Assets : delegates[b][v] = 0
    BY DEF IInv, ViewportListed, OpenViewport
<1>2. /\ \A b \in Assets : delegates'[b][v] = IF b = a THEN 1 ELSE 0
      /\ \A b \in Assets, w \in Viewers : w # v => delegates'[b][w] = delegates[b][w]
      /\ delegates' \in [Assets -> [Viewers -> 0..1]]
    BY <1>0, <1>1 DEF IInv, TypeOK, OpenViewport
<1>3. TypeOK'
    BY <1>0, <1>2 DEF IInv, TypeOK, OpenViewport
<1>4. ListIsBound'
    BY <1>0, <1>2 DEF IInv, ListIsBound, OpenViewport, Viewers
<1>5. BoundIsForm'
    BY <1>0 DEF IInv, TypeOK, BoundIsForm, OpenViewport, Viewers
<1>6. ViewportListed'
    BY <1>0, <1>2 DEF IInv, TypeOK, ViewportListed, OpenViewport, Viewers
<1>7. ShowsItsAsset' /\ NothingLeftBehind'
    BY <1>0 DEF IInv, TypeOK, ShowsItsAsset, NothingLeftBehind, OpenViewport, PartsOf, Viewers
<1> QED BY <1>3, <1>4, <1>5, <1>6, <1>7 DEF IInv

LEMMA CloseViewportIInv ==
    ASSUME IInv, NEW v \in Viewports, CloseViewport(v)
    PROVE  IInv'
<1>0. v \in Viewers /\ v \notin Comps /\ formData[v] \in Assets
    BY FormAssumption DEF FormAssumption, Viewers, IInv, ViewportListed, CloseViewport
<1>1. \A b \in Assets : delegates[b][v] = IF formData[v] = b THEN 1 ELSE 0
    BY DEF IInv, ViewportListed, CloseViewport
<1>2. /\ \A b \in Assets : delegates'[b][v] = 0
      /\ \A b \in Assets, w \in Viewers : w # v => delegates'[b][w] = delegates[b][w]
      /\ delegates' \in [Assets -> [Viewers -> 0..1]]
    BY <1>0, <1>1 DEF IInv, TypeOK, CloseViewport
<1>3. TypeOK'
    BY <1>0, <1>2 DEF IInv, TypeOK, CloseViewport
<1>4. ListIsBound'
    BY <1>0, <1>2 DEF IInv, ListIsBound, CloseViewport, Viewers
<1>5. BoundIsForm'
    BY <1>0 DEF IInv, TypeOK, BoundIsForm, CloseViewport, Viewers
<1>6. ViewportListed'
    BY <1>0, <1>2 DEF IInv, TypeOK, ViewportListed, CloseViewport, Viewers
<1>7. ShowsItsAsset' /\ NothingLeftBehind'
    BY <1>0 DEF IInv, TypeOK, ShowsItsAsset, NothingLeftBehind, CloseViewport, PartsOf, Viewers
<1> QED BY <1>3, <1>4, <1>5, <1>6, <1>7 DEF IInv

\* Broadcast reaches exactly the live viewers in the list, and those point at
\* the asset that changed.
LEMMA CalledPointHere ==
    ASSUME IInv, NEW a \in Assets, NEW v \in Viewers
    PROVE  /\ v \in Called(a) => life[v] = "live" /\ formData[v] = a
           /\ life[v] = "live" /\ v \in registered \cup Viewports /\ formData[v] = a
                => v \in Called(a)
<1>1. CASE v \in Comps
  <2>1. delegates[a][v] = IF bound[v] = a THEN 1 ELSE 0
      BY <1>1 DEF IInv, ListIsBound
  <2>2. v \notin Viewports /\ a # None
      BY <1>1, FormAssumption DEF FormAssumption
  <2> QED BY <1>1, <2>1, <2>2 DEF IInv, BoundIsForm, Called
<1>2. CASE v \in Viewports
  <2>1. delegates[a][v] = IF life[v] = "live" /\ formData[v] = a THEN 1 ELSE 0
      BY <1>2 DEF IInv, ViewportListed
  <2>2. v \notin Comps
      BY <1>2, FormAssumption DEF FormAssumption
  <2> QED BY <1>2, <2>1, <2>2 DEF Called
<1> QED BY <1>1, <1>2 DEF Viewers

LEMMA EditAssetIInv ==
    ASSUME IInv, NEW a \in Assets, NEW p \in SUBSET Parts, EditAsset(a, p)
    PROVE  IInv'
<1>1. parts' \in [Assets -> SUBSET Parts]
    BY DEF IInv, TypeOK, EditAsset
<1>2. \A v \in Viewers : v \in Called(a) => meshes'[v] = parts'[a]
    BY CalledPointHere, FormAssumption DEF EditAsset, FormAssumption
<1>3. \A v \in Viewers : v \notin Called(a) => meshes'[v] = meshes[v] /\ shown'[v] = shown[v]
    BY DEF EditAsset
<1>4. \A v \in Viewers : v \in Called(a) =>
          shown'[v] = IF v \in registered \cup Viewports THEN meshes'[v] ELSE {}
    BY DEF EditAsset
<1>5. TypeOK'
  <2>1. meshes' = [v \in Viewers |-> meshes'[v]] /\ shown' = [v \in Viewers |-> shown'[v]]
      BY DEF EditAsset
  <2>2. \A v \in Viewers : meshes'[v] \in SUBSET Parts
      BY <1>1, <1>2, <1>3 DEF IInv, TypeOK
  <2>3. \A v \in Viewers : shown'[v] \in SUBSET Parts
      BY <1>3, <1>4, <2>2 DEF IInv, TypeOK
  <2>4. meshes' \in [Viewers -> SUBSET Parts] /\ shown' \in [Viewers -> SUBSET Parts]
      BY <2>1, <2>2, <2>3
  <2> QED BY <1>1, <2>4 DEF IInv, TypeOK, EditAsset
<1>6. ListIsBound' /\ BoundIsForm' /\ ViewportListed'
    BY DEF IInv, ListIsBound, BoundIsForm, ViewportListed, EditAsset
<1>7. ShowsItsAsset'
  <2> SUFFICES ASSUME NEW v \in Viewers, life[v] = "live", v \in registered \cup Viewports
               PROVE  meshes'[v] = PartsOf(formData[v])' /\ shown'[v] = meshes'[v]
      BY DEF ShowsItsAsset, EditAsset
  <2>1. formData' = formData
      BY DEF EditAsset
  <2>2. CASE v \in Called(a)
      BY <1>2, <1>4, <2>1, <2>2, CalledPointHere, FormAssumption DEF PartsOf, FormAssumption
  <2>3. CASE v \notin Called(a)
    <3>1. formData[v] # a
        BY <2>3, CalledPointHere
    <3>2. PartsOf(formData[v])' = PartsOf(formData[v])
        BY <2>1, <3>1 DEF PartsOf, EditAsset, IInv, TypeOK
    <3> QED BY <1>3, <2>3, <3>2 DEF IInv, ShowsItsAsset
  <2> QED BY <2>2, <2>3
<1>8. NothingLeftBehind'
  <2> SUFFICES ASSUME NEW v \in Viewers
               PROVE  /\ v \in Comps \ registered => shown'[v] = {}
                      /\ life[v] # "live" => meshes'[v] = {} /\ shown'[v] = {}
      BY DEF NothingLeftBehind, EditAsset
  <2>1. v \in Comps => v \notin Viewports
      BY FormAssumption DEF FormAssumption
  <2> QED BY <1>3, <1>4, <2>1, CalledPointHere DEF IInv, NothingLeftBehind
<1> QED BY <1>5, <1>6, <1>7, <1>8 DEF IInv

-----------------------------------------------------------------------------
LEMMA NextIInv == IInv /\ [Next]_vars => IInv'
<1> SUFFICES ASSUME IInv, [Next]_vars PROVE IInv'
    OBVIOUS
<1>1. ASSUME NEW c \in Comps, NEW f \in Assets \cup {None}, Construct(c, f) PROVE IInv'
    BY <1>1, ConstructIInv
<1>2. ASSUME NEW c \in Comps, NEW f \in Assets \cup {None}, SetFormData(c, f) PROVE IInv'
    BY <1>2, BindAndRebuildIInv DEF SetFormData
<1>3. ASSUME NEW c \in Comps, NEW f \in Assets \cup {None}, PostEditChangeProperty(c, f)
      PROVE  IInv'
    BY <1>3, BindAndRebuildIInv DEF PostEditChangeProperty
<1>4. ASSUME NEW c \in Comps, PostLoad(c) PROVE IInv'
    BY <1>4, PostLoadIInv
<1>5. ASSUME NEW c \in Comps, OnRegister(c) PROVE IInv'
    BY <1>5, OnRegisterIInv
<1>6. ASSUME NEW c \in Comps, OnUnregister(c) PROVE IInv'
    BY <1>6, OnUnregisterIInv
<1>7. ASSUME NEW c \in Comps, OnComponentDestroyed(c) PROVE IInv'
    BY <1>7, OnComponentDestroyedIInv
<1>8. ASSUME NEW c \in Comps, PostEditUndo(c) PROVE IInv'
  <2>1. saved[c] \in Assets \cup {None}
      BY DEF IInv, TypeOK
  <2> QED BY <1>8, <2>1, BindAndRebuildIInv DEF PostEditUndo
<1>9. ASSUME NEW v \in Viewports, NEW a \in Assets, OpenViewport(v, a) PROVE IInv'
    BY <1>9, OpenViewportIInv
<1>10. ASSUME NEW v \in Viewports, CloseViewport(v) PROVE IInv'
    BY <1>10, CloseViewportIInv
<1>11. ASSUME NEW a \in Assets, NEW p \in SUBSET Parts, EditAsset(a, p) PROVE IInv'
    BY <1>11, EditAssetIInv
<1>12. CASE UNCHANGED vars
    BY <1>12 DEF vars, IInv, TypeOK, ListIsBound, BoundIsForm, ViewportListed,
                 ShowsItsAsset, NothingLeftBehind, PartsOf
<1> QED BY <1>1, <1>2, <1>3, <1>4, <1>5, <1>6, <1>7, <1>8, <1>9, <1>10, <1>11, <1>12
        DEF Next

\* The invariant holds in every reachable state.
THEOREM Inductive == Spec => []IInv
<1> QED BY InitIInv, NextIInv, PTL DEF Spec

\* TypeOK: whatever is loaded, set, edited, undone, registered or destroyed, in
\* any order, no viewer is ever twice in an asset's list.
THEOREM BoundAtMostOnce == Spec => []TypeOK
<1>1. IInv => TypeOK
    BY DEF IInv
<1> QED BY <1>1, Inductive, PTL

\* ShowsItsAsset: a viewer on screen shows the parts of its asset in every state.
THEOREM ShowsTheAsset == Spec => []ShowsItsAsset
<1>1. IInv => ShowsItsAsset
    BY DEF IInv
<1> QED BY <1>1, Inductive, PTL

\* BoundOnceToItsAsset: a live viewer is in the list of its asset and no other.
THEOREM BoundToItsAsset == Spec => []BoundOnceToItsAsset
<1>1. IInv => BoundOnceToItsAsset
  <2> SUFFICES ASSUME IInv, NEW a \in Assets, NEW v \in Viewers, life[v] = "live"
               PROVE  /\ delegates[a][v] = 1 => formData[v] = a
                      /\ formData[v] = a /\ v \in registered \cup Viewports
                           => delegates[a][v] = 1
      BY DEF BoundOnceToItsAsset
  <2>1. CASE v \in Comps
    <3>1. delegates[a][v] = IF bound[v] = a THEN 1 ELSE 0
        BY <2>1 DEF IInv, ListIsBound
    <3>2. v \notin Viewports /\ a # None
        BY <2>1, FormAssumption DEF FormAssumption
    <3> QED BY <2>1, <3>1, <3>2 DEF IInv, BoundIsForm
  <2>2. CASE v \in Viewports
      BY <2>2 DEF IInv, ViewportListed
  <2> QED BY <2>1, <2>2 DEF Viewers
<1> QED BY <1>1, Inductive, PTL

\* NothingLeftBehind: no mesh of a component off screen or of a viewer that is gone.
THEOREM NothingStays == Spec => []NothingLeftBehind
<1>1. IInv => NothingLeftBehind
    BY DEF IInv
<1> QED BY <1>1, Inductive, PTL

\* NoDanglingViewport: no list holds the raw pointer of a closed viewport.
THEOREM ViewportsLeave == Spec => []NoDanglingViewport
<1>1. IInv => NoDanglingViewport
  <2> SUFFICES ASSUME IInv, NEW a \in Assets, NEW v \in Viewports, life[v] = "destroyed"
               PROVE  delegates[a][v] = 0
      BY DEF NoDanglingViewport
  <2> QED BY DEF IInv, ViewportListed
<1> QED BY <1>1, Inductive, PTL

-----------------------------------------------------------------------------
(***************************************************************************)
(* The viewers implement LiveView.                                         *)
(***************************************************************************)

\* What is shown is what LiveView draws.
LEMMA ScreenDrawn == IInv => shown = View!Drawn(parts, formData, ViewerState)
<1> SUFFICES ASSUME IInv PROVE shown = View!Drawn(parts, formData, ViewerState)
    OBVIOUS
<1>1. shown = [v \in Viewers |-> shown[v]]
    BY DEF IInv, TypeOK
<1>2. ASSUME NEW v \in Viewers
      PROVE  shown[v] = IF ViewerState[v] = "shown" /\ formData[v] # None
                        THEN parts[formData[v]] ELSE {}
  <2>1. CASE life[v] # "live"
      BY <2>1 DEF ViewerState, IInv, NothingLeftBehind, TypeOK
  <2>2. CASE life[v] = "live" /\ v \in registered \cup Viewports
      BY <2>2 DEF ViewerState, IInv, ShowsItsAsset, PartsOf
  <2>3. CASE life[v] = "live" /\ v \notin registered \cup Viewports
      BY <2>3 DEF ViewerState, IInv, NothingLeftBehind, Viewers
  <2> QED BY <2>1, <2>2, <2>3
<1>3. [v \in Viewers |-> shown[v]]
        = [v \in Viewers |-> IF ViewerState[v] = "shown" /\ formData[v] # None
                             THEN parts[formData[v]] ELSE {}]
    BY <1>2, Zenon
<1> QED BY <1>1, <1>3 DEF View!Drawn

\* The states of the viewers, one by one, before and after a step.
LEMMA StateOf ==
    /\ ViewerState = [v \in Viewers |-> ViewerState[v]]
    /\ ViewerState' = [v \in Viewers |-> ViewerState'[v]]
    /\ \A v \in Viewers :
        /\ ViewerState[v] = IF life[v] = "none" THEN "none"
                            ELSE IF life[v] = "destroyed" THEN "gone"
                            ELSE IF v \in registered \cup Viewports THEN "shown" ELSE "hidden"
        /\ ViewerState'[v] = IF life'[v] = "none" THEN "none"
                             ELSE IF life'[v] = "destroyed" THEN "gone"
                             ELSE IF v \in registered' \cup Viewports THEN "shown" ELSE "hidden"
    BY DEF ViewerState

\* A step that changes the state of one viewer.
LEMMA StateMoves ==
    ASSUME NEW c \in Viewers, NEW s, ViewerState'[c] = s,
           \A v \in Viewers : v # c => life'[v] = life[v] /\ (v \in registered' <=> v \in registered)
    PROVE  ViewerState' = [ViewerState EXCEPT ![c] = s]
<1>1. \A v \in Viewers : v # c => ViewerState'[v] = ViewerState[v]
    BY StateOf
<1> DEFINE t == [ViewerState EXCEPT ![c] = s]
<1>2. t = [v \in Viewers |-> t[v]] /\ \A v \in Viewers : t[v] = IF v = c THEN s ELSE ViewerState[v]
    BY StateOf
<1> HIDE DEF t
<1>3. \A v \in Viewers : ViewerState'[v] = t[v]
    BY <1>1, <1>2
<1>4. [v \in Viewers |-> ViewerState'[v]] = [v \in Viewers |-> t[v]]
    BY <1>3, Zenon
<1> QED BY <1>2, <1>4, StateOf DEF t

\* The states depend on the lives and the registrations alone.
LEMMA StateStays == UNCHANGED <<life, registered>> => ViewerState' = ViewerState
    BY DEF ViewerState

\* A component that is given an asset follows it, on screen or not.
LEMMA FollowView ==
    ASSUME IInv, NEW c \in Comps, NEW f, life[c] = "live",
           formData' = [formData EXCEPT ![c] = f],
           saved' = [saved EXCEPT ![c] = formData[c]],
           UNCHANGED <<parts, life, registered>>
    PROVE  View!Follow(c, f)
<1>1. ViewerState[c] \in {"hidden", "shown"}
    BY StateOf DEF Viewers
<1> QED BY <1>1, StateStays DEF View!Follow

\* The part of a step that LiveView's Next chooses; what is drawn follows from it.
Choice ==
    \/ \E a \in Assets, p \in SUBSET Parts : View!Edit(a, p)
    \/ \E v \in Viewers, f \in Assets \cup {None} : View!Open(v, f)
    \/ \E v \in Comps, f \in Assets \cup {None} : View!Follow(v, f)
    \/ \E v \in Comps : View!Follow(v, saved[v])
    \/ /\ \E v \in Viewers : View!Show(v) \/ View!Hide(v) \/ View!Close(v)
       /\ UNCHANGED <<parts, formData, saved>>

LEMMA ComponentView ==
    ASSUME IInv, NEW c \in Comps,
           \/ OnRegister(c) \/ OnUnregister(c) \/ OnComponentDestroyed(c) \/ PostEditUndo(c)
           \/ \E f \in Assets \cup {None} :
                Construct(c, f) \/ SetFormData(c, f) \/ PostEditChangeProperty(c, f)
    PROVE  Choice
<1>0. c \in Viewers /\ c \notin Viewports
    BY FormAssumption DEF FormAssumption, Viewers
<1>1. CASE OnRegister(c)
  <2>1. /\ life[c] = "live" /\ c \notin registered /\ registered' = registered \cup {c}
        /\ UNCHANGED <<parts, life, formData, saved>>
      BY <1>1 DEF OnRegister
  <2>2. ViewerState[c] = "hidden" /\ ViewerState'[c] = "shown"
      BY <1>0, <2>1, StateOf
  <2>3. ViewerState' = [ViewerState EXCEPT ![c] = "shown"]
      BY <1>0, <2>1, <2>2, StateMoves
  <2> QED BY <1>0, <2>1, <2>2, <2>3 DEF Choice, View!Show
<1>2. CASE OnUnregister(c)
  <2>1. /\ c \in registered /\ registered' = registered \ {c}
        /\ UNCHANGED <<parts, life, formData, saved>> /\ life[c] = "live"
      BY <1>2 DEF OnUnregister, IInv, BoundIsForm
  <2>2. ViewerState[c] = "shown" /\ ViewerState'[c] = "hidden"
      BY <1>0, <2>1, StateOf
  <2>3. ViewerState' = [ViewerState EXCEPT ![c] = "hidden"]
      BY <1>0, <2>1, <2>2, StateMoves
  <2> QED BY <1>0, <2>1, <2>2, <2>3 DEF Choice, View!Hide
<1>3. CASE OnComponentDestroyed(c)
  <2>1. /\ life[c] = "live" /\ life' = [life EXCEPT ![c] = "destroyed"]
        /\ registered' = registered \ {c}
        /\ UNCHANGED <<parts, formData, saved>>
      BY <1>3 DEF OnComponentDestroyed
  <2>2. \A v \in Viewers : life'[v] = IF v = c THEN "destroyed" ELSE life[v]
      BY <2>1 DEF IInv, TypeOK
  <2>3. ViewerState[c] \in {"hidden", "shown"} /\ ViewerState'[c] = "gone"
      BY <1>0, <2>1, <2>2, StateOf
  <2>4. ViewerState' = [ViewerState EXCEPT ![c] = "gone"]
      BY <1>0, <2>1, <2>2, <2>3, StateMoves
  <2> QED BY <1>0, <2>1, <2>3, <2>4 DEF Choice, View!Close
<1>4. CASE PostEditUndo(c)
  <2>1. View!Follow(c, saved[c])
      BY <1>4, FollowView DEF PostEditUndo
  <2> QED BY <2>1 DEF Choice
<1>5. ASSUME NEW f \in Assets \cup {None}, SetFormData(c, f) \/ PostEditChangeProperty(c, f)
      PROVE  Choice
  <2>1. View!Follow(c, f)
      BY <1>5, FollowView DEF SetFormData, PostEditChangeProperty
  <2> QED BY <2>1 DEF Choice
<1>6. ASSUME NEW f \in Assets \cup {None}, Construct(c, f)
      PROVE  Choice
  <2>1. /\ life[c] = "none" /\ life' = [life EXCEPT ![c] = "live"]
        /\ formData' = [formData EXCEPT ![c] = f] /\ saved' = [saved EXCEPT ![c] = f]
        /\ UNCHANGED <<parts, registered>> /\ c \notin registered
      BY <1>6 DEF Construct, IInv, BoundIsForm
  <2>2. \A v \in Viewers : life'[v] = IF v = c THEN "live" ELSE life[v]
      BY <2>1 DEF IInv, TypeOK
  <2>3. ViewerState[c] = "none" /\ ViewerState'[c] = "hidden"
      BY <1>0, <2>1, <2>2, StateOf
  <2>4. ViewerState' = [ViewerState EXCEPT ![c] = "hidden"]
      BY <1>0, <2>1, <2>2, <2>3, StateMoves
  <2>5. saved' = [u \in Comps |-> IF u = c THEN f ELSE saved[u]]
      BY <2>1 DEF IInv, TypeOK
  <2>6. View!Open(c, f)
      BY <2>1, <2>3, <2>4, <2>5 DEF View!Open
  <2> QED BY <1>0, <2>6 DEF Choice
<1> QED BY <1>1, <1>2, <1>3, <1>4, <1>5, <1>6

LEMMA ViewportView ==
    ASSUME IInv, NEW v \in Viewports,
           CloseViewport(v) \/ \E a \in Assets : OpenViewport(v, a)
    PROVE  Choice
<1>0. v \in Viewers /\ v \notin Comps
    BY FormAssumption DEF FormAssumption, Viewers
<1>1. CASE CloseViewport(v)
  <2>1. /\ life[v] = "live" /\ life' = [life EXCEPT ![v] = "destroyed"]
        /\ UNCHANGED <<parts, registered, formData, saved>>
      BY <1>1 DEF CloseViewport
  <2>2. \A w \in Viewers : life'[w] = IF w = v THEN "destroyed" ELSE life[w]
      BY <2>1 DEF IInv, TypeOK
  <2>3. ViewerState[v] = "shown" /\ ViewerState'[v] = "gone"
      BY <1>0, <2>1, <2>2, StateOf
  <2>4. ViewerState' = [ViewerState EXCEPT ![v] = "gone"]
      BY <1>0, <2>1, <2>2, <2>3, StateMoves
  <2> QED BY <1>0, <2>1, <2>3, <2>4 DEF Choice, View!Close
<1>2. ASSUME NEW a \in Assets, OpenViewport(v, a)
      PROVE  Choice
  <2>1. /\ life[v] = "none" /\ life' = [life EXCEPT ![v] = "live"]
        /\ formData' = [formData EXCEPT ![v] = a]
        /\ UNCHANGED <<parts, registered, saved>>
      BY <1>2 DEF OpenViewport
  <2>2. \A w \in Viewers : life'[w] = IF w = v THEN "live" ELSE life[w]
      BY <2>1 DEF IInv, TypeOK
  <2>3. ViewerState[v] = "none" /\ ViewerState'[v] = "shown"
      BY <1>0, <2>1, <2>2, StateOf
  <2>4. ViewerState' = [ViewerState EXCEPT ![v] = "shown"]
      BY <1>0, <2>1, <2>2, <2>3, StateMoves
  <2>5. saved' = [u \in Comps |-> IF u = v THEN a ELSE saved[u]]
      BY <1>0, <2>1 DEF IInv, TypeOK
  <2>6. View!Open(v, a)
      BY <1>0, <2>1, <2>3, <2>4, <2>5 DEF View!Open
  <2> QED BY <1>0, <2>6 DEF Choice
<1> QED BY <1>1, <1>2

LEMMA NextView == IInv /\ [Next]_vars => [View!Next]_View!viewVars
<1> SUFFICES ASSUME IInv, [Next]_vars PROVE [View!Next]_View!viewVars
    OBVIOUS
<1>1. shown' = View!Drawn(parts', formData', ViewerState')
  <2>1. IInv'
      BY NextIInv
  <2>2. (IInv => shown = View!Drawn(parts, formData, ViewerState))'
      BY ScreenDrawn, PTL
  <2> QED BY <2>1, <2>2
<1>2. Choice => View!Next
    BY <1>1 DEF Choice, View!Next
<1>3. ASSUME NEW c \in Comps,
             \/ OnRegister(c) \/ OnUnregister(c) \/ OnComponentDestroyed(c) \/ PostEditUndo(c)
             \/ \E f \in Assets \cup {None} :
                  Construct(c, f) \/ SetFormData(c, f) \/ PostEditChangeProperty(c, f)
      PROVE  Choice
    BY <1>3, ComponentView
<1>4. ASSUME NEW v \in Viewports, CloseViewport(v) \/ \E a \in Assets : OpenViewport(v, a)
      PROVE  Choice
    BY <1>4, ViewportView
<1>5. ASSUME NEW a \in Assets, NEW p \in SUBSET Parts, EditAsset(a, p)
      PROVE  Choice
  <2>1. View!Edit(a, p)
      BY <1>5, StateStays DEF EditAsset, View!Edit
  <2> QED BY <2>1 DEF Choice
<1>6. ASSUME NEW c \in Comps, PostLoad(c)
      PROVE  UNCHANGED View!viewVars
    BY <1>6, StateStays DEF PostLoad, View!viewVars
<1>7. CASE UNCHANGED vars
    BY <1>7, StateStays DEF vars, View!viewVars
<1> QED BY <1>2, <1>3, <1>4, <1>5, <1>6, <1>7 DEF Next

\* The components and previews are a LiveView, for any components, viewports, assets and
\* parts: whatever is loaded, edited, undone, hidden, shown and closed, in any order,
\* what is on screen is read from the assets.
THEOREM LiveViewImplemented == Spec => ImplementsLiveView
<1>1. Init => View!Init
  <2>1. Init => ViewerState = [v \in Viewers |-> "none"]
    <3> SUFFICES ASSUME Init PROVE ViewerState = [v \in Viewers |-> "none"]
        OBVIOUS
    <3>1. \A v \in Viewers : ViewerState[v] = "none"
        BY StateOf DEF Init
    <3> QED BY <3>1, StateOf, Zenon
  <2> QED BY <2>1 DEF Init, View!Init
<1>2. IInv /\ [Next]_vars => [View!Next]_View!viewVars
    BY NextView
<1> QED BY <1>1, <1>2, Inductive, PTL DEF Spec, ImplementsLiveView, View!Spec

=============================================================================
