----------------------------- MODULE FormScribe ------------------------------
(***************************************************************************)
(* The FormScribe plugin: components of actors (UFormScribeComponent) that *)
(* show the static meshes a data asset (UFormScribeDataAsset) lists, and   *)
(* the asset editor's preview (SFormScribeViewport) that shows them too.   *)
(*                                                                         *)
(* Everything runs on the game thread, one engine callback at a time; what *)
(* can go wrong is the order of the callbacks. The asset keeps a multicast *)
(* delegate, OnDataChanged, and each viewer must be in the list of the     *)
(* asset it shows, once, and in no other list, through loading, undo,      *)
(* re-registration, a change of asset and destruction. BoundDataAsset,     *)
(* which remembers the list to leave, is not a property: undo does not     *)
(* restore it.                                                             *)
(*                                                                         *)
(* A part is a member of Parts: one of the entries of StaticMeshParts that *)
(* has a mesh. Names, transforms and mobility are left out.                *)
(***************************************************************************)
EXTENDS Naturals

CONSTANTS
    Comps,      \* UFormScribeComponents
    Viewports,  \* SFormScribeViewports
    Assets,     \* UFormScribeDataAssets
    Parts,      \* parts with a mesh an asset may list
    None        \* a null pointer

ASSUME FormAssumption ==
    /\ Comps \cap Viewports = {}
    /\ None \notin Assets

VARIABLES
    parts,       \* StaticMeshParts of each asset
    delegates,   \* OnDataChanged: how often each viewer is in each asset's list
    life,        \* "none", "live" or "destroyed", of each viewer
    registered,  \* the components whose IsRegistered() holds
    formData,    \* FormData of each component, Asset of each viewport
    bound,       \* BoundDataAsset of each component
    saved,       \* the value of FormData an undo brings back
    meshes,      \* the parts each viewer has mesh components for
    shown        \* the viewers' mesh components that are registered themselves

vars == <<parts, delegates, life, registered, formData, bound, saved, meshes, shown>>

Viewers == Comps \cup Viewports

\* A viewer is in an asset's list at most once: BindToDataAsset leaves before it
\* joins, and a second entry would rebuild twice at each change.
TypeOK ==
    /\ parts \in [Assets -> SUBSET Parts]
    /\ delegates \in [Assets -> [Viewers -> 0..1]]
    /\ life \in [Viewers -> {"none", "live", "destroyed"}]
    /\ registered \subseteq Comps
    /\ formData \in [Viewers -> Assets \cup {None}]
    /\ bound \in [Comps -> Assets \cup {None}]
    /\ saved \in [Comps -> Assets \cup {None}]
    /\ meshes \in [Viewers -> SUBSET Parts]
    /\ shown \in [Viewers -> SUBSET Parts]

Init ==
    /\ parts \in [Assets -> SUBSET Parts]
    /\ delegates = [a \in Assets |-> [v \in Viewers |-> 0]]
    /\ life = [v \in Viewers |-> "none"]
    /\ registered = {}
    /\ formData = [v \in Viewers |-> None]
    /\ bound = [c \in Comps |-> None]
    /\ saved = [c \in Comps |-> None]
    /\ meshes = [v \in Viewers |-> {}]
    /\ shown = [v \in Viewers |-> {}]

-----------------------------------------------------------------------------
(***************************************************************************)
(* UFormScribeComponent.                                                   *)
(***************************************************************************)

\* What RebuildForm makes for FormData = f.
PartsOf(f) == IF f = None THEN {} ELSE parts[f]

\* Mutant of Rebind: BindToDataAsset without leaving the list it was in.
RebindAddOnly(c, f) ==
    /\ delegates' = IF f = None THEN delegates
                    ELSE [delegates EXCEPT ![f][c] = @ + 1]
    /\ bound' = [bound EXCEPT ![c] = f]

\* BindToDataAsset when FormData is f: out of the list of the asset it was bound
\* to, then into the list of f.
Rebind(c, f) ==
    /\ delegates' = [a \in Assets |-> [v \in Viewers |->
           IF v # c THEN delegates[a][v]
           ELSE IF a = f THEN (IF a = bound[c] THEN 0 ELSE delegates[a][c]) + 1
           ELSE IF a = bound[c] THEN 0 ELSE delegates[a][c]]]
    /\ bound' = [bound EXCEPT ![c] = f]

\* RebuildForm when FormData is f: the old mesh components are destroyed, and the
\* new ones registered if the component is.
Rebuild(c, f) ==
    /\ meshes' = [meshes EXCEPT ![c] = PartsOf(f)]
    /\ shown' = [shown EXCEPT ![c] = IF c \in registered THEN PartsOf(f) ELSE {}]

\* The component is constructed; a template may give it a FormData at once.
Construct(c, f) ==
    /\ life[c] = "none"
    /\ life' = [life EXCEPT ![c] = "live"]
    /\ formData' = [formData EXCEPT ![c] = f]
    /\ saved' = [saved EXCEPT ![c] = f]
    /\ UNCHANGED <<parts, delegates, registered, bound, meshes, shown>>

\* PostLoad binds and does not rebuild: nothing is shown before OnRegister.
PostLoad(c) ==
    /\ life[c] = "live"
    /\ c \notin registered
    /\ Rebind(c, formData[c])
    /\ UNCHANGED <<parts, life, registered, formData, saved, meshes, shown>>

\* Mutant of OnRegister: the mesh components kept since OnUnregister are registered
\* again.
OnRegisterKept(c) ==
    /\ life[c] = "live"
    /\ c \notin registered
    /\ registered' = registered \cup {c}
    /\ Rebind(c, formData[c])
    /\ shown' = [shown EXCEPT ![c] = meshes[c]]
    /\ UNCHANGED <<parts, life, formData, saved, meshes>>

\* OnRegister: the component is registered, then BindToDataAsset and RebuildForm.
OnRegister(c) ==
    /\ life[c] = "live"
    /\ c \notin registered
    /\ registered' = registered \cup {c}
    /\ Rebind(c, formData[c])
    /\ meshes' = [meshes EXCEPT ![c] = PartsOf(formData[c])]
    /\ shown' = [shown EXCEPT ![c] = PartsOf(formData[c])]
    /\ UNCHANGED <<parts, life, formData, saved>>

\* OnUnregister unregisters the mesh components and keeps them.
OnUnregister(c) ==
    /\ c \in registered
    /\ registered' = registered \ {c}
    /\ shown' = [shown EXCEPT ![c] = {}]
    /\ UNCHANGED <<parts, delegates, life, formData, bound, saved, meshes>>

\* DestroyComponent: OnUnregister, then OnComponentDestroyed destroys the mesh
\* components. The component stays in the asset's list.
OnComponentDestroyed(c) ==
    /\ life[c] = "live"
    /\ life' = [life EXCEPT ![c] = "destroyed"]
    /\ registered' = registered \ {c}
    /\ meshes' = [meshes EXCEPT ![c] = {}]
    /\ shown' = [shown EXCEPT ![c] = {}]
    /\ UNCHANGED <<parts, delegates, formData, bound, saved>>

\* Mutant of SetFormData: no BindToDataAsset.
SetFormDataUnbound(c, f) ==
    /\ life[c] = "live"
    /\ formData[c] # f
    /\ saved' = [saved EXCEPT ![c] = formData[c]]
    /\ formData' = [formData EXCEPT ![c] = f]
    /\ Rebuild(c, f)
    /\ UNCHANGED <<parts, delegates, bound, life, registered>>

\* SetFormData, which does nothing when the asset is the one it has.
SetFormData(c, f) ==
    /\ life[c] = "live"
    /\ formData[c] # f
    /\ saved' = [saved EXCEPT ![c] = formData[c]]
    /\ formData' = [formData EXCEPT ![c] = f]
    /\ Rebind(c, f)
    /\ Rebuild(c, f)
    /\ UNCHANGED <<parts, life, registered>>

\* PostEditChangeProperty, after the details panel set any property; FormData is
\* the one that matters. It binds and rebuilds even if FormData is what it was.
PostEditChangeProperty(c, f) ==
    /\ life[c] = "live"
    /\ saved' = [saved EXCEPT ![c] = formData[c]]
    /\ formData' = [formData EXCEPT ![c] = f]
    /\ Rebind(c, f)
    /\ Rebuild(c, f)
    /\ UNCHANGED <<parts, life, registered>>

\* Mutant of PostEditUndo: BindToDataAsset called only by SetFormData.
PostEditUndoUnbound(c) ==
    /\ life[c] = "live"
    /\ saved' = [saved EXCEPT ![c] = formData[c]]
    /\ formData' = [formData EXCEPT ![c] = saved[c]]
    /\ Rebuild(c, saved[c])
    /\ UNCHANGED <<parts, delegates, bound, life, registered>>

\* PostEditUndo: the transaction system has put back the FormData of before (and
\* a redo the one of after) without telling BoundDataAsset.
PostEditUndo(c) ==
    /\ life[c] = "live"
    /\ saved' = [saved EXCEPT ![c] = formData[c]]
    /\ formData' = [formData EXCEPT ![c] = saved[c]]
    /\ Rebind(c, saved[c])
    /\ Rebuild(c, saved[c])
    /\ UNCHANGED <<parts, life, registered>>

-----------------------------------------------------------------------------
(***************************************************************************)
(* SFormScribeViewport.                                                    *)
(***************************************************************************)

\* Construct: into the list of the asset, then RebuildPreview.
OpenViewport(v, a) ==
    /\ life[v] = "none"
    /\ life' = [life EXCEPT ![v] = "live"]
    /\ formData' = [formData EXCEPT ![v] = a]
    /\ delegates' = [delegates EXCEPT ![a][v] = @ + 1]
    /\ meshes' = [meshes EXCEPT ![v] = parts[a]]
    /\ shown' = [shown EXCEPT ![v] = parts[a]]
    /\ UNCHANGED <<parts, registered, bound, saved>>

\* Mutant of CloseViewport: the destructor does not leave the list.
CloseViewportBound(v) ==
    /\ life[v] = "live"
    /\ life' = [life EXCEPT ![v] = "destroyed"]
    /\ meshes' = [meshes EXCEPT ![v] = {}]
    /\ shown' = [shown EXCEPT ![v] = {}]
    /\ UNCHANGED <<parts, delegates, registered, formData, bound, saved>>

\* The destructor: out of the list, then ClearPreview.
CloseViewport(v) ==
    /\ life[v] = "live"
    /\ life' = [life EXCEPT ![v] = "destroyed"]
    /\ delegates' = [delegates EXCEPT ![formData[v]][v] = 0]
    /\ meshes' = [meshes EXCEPT ![v] = {}]
    /\ shown' = [shown EXCEPT ![v] = {}]
    /\ UNCHANGED <<parts, registered, formData, bound, saved>>

-----------------------------------------------------------------------------
(***************************************************************************)
(* UFormScribeDataAsset.                                                   *)
(***************************************************************************)

\* Mutant of Called: components are bound with AddRaw too.
CalledRaw(a) == {v \in Viewers : delegates[a][v] > 0}

\* Whom Broadcast calls: AddUObject skips components that were destroyed, AddRaw
\* calls a viewport whatever became of it.
Called(a) ==
    {v \in Viewers : delegates[a][v] > 0 /\ (v \in Comps => life[v] = "live")}

\* PostEditChangeProperty of the asset: Broadcast runs RebuildForm of every
\* component in the list and RebuildPreview of every viewport.
EditAsset(a, p) ==
    /\ parts' = [parts EXCEPT ![a] = p]
    /\ meshes' = [v \in Viewers |->
           IF v \notin Called(a) THEN meshes[v]
           ELSE IF formData[v] = None THEN {} ELSE parts'[formData[v]]]
    /\ shown' = [v \in Viewers |->
           IF v \notin Called(a) THEN shown[v]
           ELSE IF v \in registered \cup Viewports THEN meshes'[v] ELSE {}]
    /\ UNCHANGED <<delegates, life, registered, formData, bound, saved>>

Next ==
    \/ \E c \in Comps :
        \/ \E f \in Assets \cup {None} :
            \/ Construct(c, f)
            \/ SetFormData(c, f)
            \/ PostEditChangeProperty(c, f)
        \/ PostLoad(c)
        \/ OnRegister(c)
        \/ OnUnregister(c)
        \/ OnComponentDestroyed(c)
        \/ PostEditUndo(c)
    \/ \E v \in Viewports :
        \/ \E a \in Assets : OpenViewport(v, a)
        \/ CloseViewport(v)
    \/ \E a \in Assets, p \in SUBSET Parts : EditAsset(a, p)

Spec == Init /\ [][Next]_vars

-----------------------------------------------------------------------------
(***************************************************************************)
(* Properties.                                                             *)
(***************************************************************************)

\* A viewer on screen shows the parts of the asset it points at, all of them and
\* nothing else, in every state: each change of the asset, of FormData or of the
\* registration has reached its mesh components.
ShowsItsAsset ==
    \A v \in Viewers :
        life[v] = "live" /\ v \in registered \cup Viewports
            => meshes[v] = PartsOf(formData[v]) /\ shown[v] = meshes[v]

\* A live viewer is in the list of the asset it points at and in no other, so no
\* change is missed or mistaken for one of an asset it has left; only a component
\* that was never on screen may not have joined its list yet. (That it is there
\* once, and is not called twice, is part of TypeOK.)
BoundOnceToItsAsset ==
    \A a \in Assets, v \in Viewers : life[v] = "live" =>
        /\ delegates[a][v] = 1 => formData[v] = a
        /\ formData[v] = a /\ v \in registered \cup Viewports => delegates[a][v] = 1

\* A component that is off screen, and a viewer that is gone, has nothing on it.
NothingLeftBehind ==
    \A v \in Viewers :
        /\ v \in Comps \ registered => shown[v] = {}
        /\ life[v] # "live" => meshes[v] = {} /\ shown[v] = {}

\* The destructor of the preview runs: no list holds a raw pointer to a viewport
\* that is gone, which the next Broadcast would call.
NoDanglingViewport ==
    \A a \in Assets, v \in Viewports : life[v] = "destroyed" => delegates[a][v] = 0

-----------------------------------------------------------------------------
(***************************************************************************)
(* The components and previews implement LiveView.                         *)
(***************************************************************************)

\* A viewport is on screen while it is open, a component while it is registered.
ViewerState ==
    [v \in Viewers |->
        IF life[v] = "none" THEN "none"
        ELSE IF life[v] = "destroyed" THEN "gone"
        ELSE IF v \in registered \cup Viewports THEN "shown" ELSE "hidden"]

View == INSTANCE LiveView
            WITH Undoers <- Comps, content <- parts, follows <- formData,
                 before <- saved, state <- ViewerState, screen <- shown

\* Seen in the level and in the preview, every viewer reads its asset live: an edit
\* changes the viewers of that asset in the same step and no other, a component that
\* was hidden or was given its asset by an undo has caught up when it is shown, and
\* the lists of the delegates are in nobody's way.
ImplementsLiveView == View!Spec

=============================================================================
