----------------------------- MODULE CurveScribe -----------------------------
(***************************************************************************)
(* The CurveScribe plugin: scene components (UCurveScribeScene) that own   *)
(* control points and draw a curve through them, data assets               *)
(* (UCurveScribeDataAsset) that hold control points and the style of the   *)
(* curve (noise, tube scale), and the asset editor                         *)
(* (FCurveScribeDataAssetEditorToolkit) with its preview scene.            *)
(*                                                                         *)
(* A scene copies an asset's points only on request (LoadFromDataAsset);   *)
(* it reads the asset's style at each RebuildCurve and listens to          *)
(* OnDataChanged to know when. The preview copies everything at each       *)
(* broadcast. Everything runs on the game thread: what can go wrong is a   *)
(* change that does not reach a curve that depends on it.                  *)
(*                                                                         *)
(* A curve is a value of the ControlPoints array; those in Short have      *)
(* fewer than two points, and RebuildCurve does nothing for them. Where    *)
(* the points lie and the corridor are left out. The two random splines    *)
(* are offset by noise that the style determines or, in the styles of      *)
(* Unseeded, by what FRandRange draws anew at each rebuild. An edit in the *)
(* details panel and an undo unregister a registered component before and  *)
(* register it again after the change: that is the engine's PreEditChange  *)
(* and PostEditChangeProperty, which the code calls as Super.              *)
(***************************************************************************)
EXTENDS Naturals

CONSTANTS
    Scenes,    \* the UCurveScribeScenes of the level
    Preview,   \* the scene of the asset editor's preview actor
    Assets,    \* UCurveScribeDataAssets
    Curves,    \* values of a ControlPoints array
    Short,     \* those with fewer than two points
    Default,   \* the control points of a new scene
    Styles,    \* values of the other properties of an asset
    Unseeded,  \* those with bUseNoiseOffset off
    Draws,     \* what FRandRange draws for a rebuild
    MaxBindings,  \* a scene is counted that often in one asset's OnDataChanged
    NoAsset, NoCurve, NoStyle, NoDraw

ASSUME CurveAssumption ==
    /\ Preview \notin Scenes
    /\ Short \subseteq Curves
    /\ Default \in Curves \ Short
    /\ Unseeded \subseteq Styles
    /\ Draws # {}
    /\ MaxBindings \in Nat \ {0}
    /\ NoAsset \notin Assets /\ NoCurve \notin Curves /\ NoStyle \notin Styles
    /\ NoDraw \notin Draws

VARIABLES
    assetPoints,  \* ControlPoints of each asset
    style,        \* the other properties of each asset
    bindings,     \* how often each scene is in each asset's OnDataChanged, at
                  \* most MaxBindings
    toolkitIn,    \* the assets whose OnDataChanged holds the asset editor
    life,         \* "none", "live" or "destroyed", of each scene
    registered,   \* the scenes whose IsRegistered() holds
    curveData,    \* CurveData of each scene
    points,       \* ControlPoints of each scene
    built,        \* what the splines of each scene were last built from
    editing,      \* EditingAsset of the asset editor, if it is open
    unannounced   \* how the points of the asset being edited changed since its last
                  \* broadcast: by a drag under way, or by SaveToDataAsset (history)

assetVars == <<assetPoints, style>>
vars == <<assetVars, bindings, toolkitIn, life, registered, curveData, points, built,
          editing, unannounced>>

All == Scenes \cup {Preview}
Drawing == [points : Curves \cup {NoCurve}, style : Styles \cup {NoStyle},
            random : Draws \cup {NoDraw}]
NotBuilt == [points |-> NoCurve, style |-> NoStyle, random |-> NoDraw]
Reason == {"drag", "save"}

\* The types, and that the preview scene exists while the asset editor is open.
TypeOK ==
    /\ assetPoints \in [Assets -> Curves]
    /\ style \in [Assets -> Styles]
    /\ bindings \in [Assets -> [All -> 0..MaxBindings]]
    /\ toolkitIn \subseteq Assets
    /\ life \in [All -> {"none", "live", "destroyed"}]
    /\ registered \subseteq All
    /\ curveData \in [All -> Assets \cup {NoAsset}]
    /\ points \in [All -> Curves]
    /\ built \in [All -> Drawing]
    /\ editing \in Assets \cup {NoAsset}
    /\ unannounced \subseteq Reason
    /\ life[Preview] = "live" <=> editing # NoAsset

Init ==
    /\ assetPoints \in [Assets -> Curves]
    /\ style \in [Assets -> Styles]
    /\ bindings = [a \in Assets |-> [s \in All |-> 0]]
    /\ toolkitIn = {}
    /\ life = [s \in All |-> "none"]
    /\ registered = {}
    /\ curveData = [s \in All |-> NoAsset]
    /\ points = [s \in All |-> Default]
    /\ built = [s \in All |-> NotBuilt]
    /\ editing = NoAsset
    /\ unannounced = {}

-----------------------------------------------------------------------------
(***************************************************************************)
(* What the operations share.                                              *)
(***************************************************************************)

\* What RebuildCurve draws for points p, CurveData d and styles st when FRandRange
\* yields r. Without CurveData the random splines are noise.
Drawn(p, d, st, r) ==
    [points |-> p,
     style  |-> IF d = NoAsset THEN NoStyle ELSE st[d],
     random |-> IF d # NoAsset /\ st[d] \in Unseeded THEN r ELSE NoDraw]

\* RebuildCurve returns early for fewer than two points and leaves the splines.
Rebuilt(s, p, d, st, r) == IF p \in Short THEN built[s] ELSE Drawn(p, d, st, r)

\* BindToDataAsset: into the list once more. The line that leaves it first is the
\* tail of the comment above it.
Bind(s, d) ==
    bindings' = [a \in Assets |-> [t \in All |->
        IF a = d /\ t = s /\ bindings[a][t] < MaxBindings THEN bindings[a][t] + 1
        ELSE bindings[a][t]]]

\* Mutant of Register: BindToOwner without BindToDataAsset.
RegisterUnbound(s, p, d) ==
    /\ points' = [points EXCEPT ![s] = p]
    /\ curveData' = [curveData EXCEPT ![s] = d]
    /\ \E r \in Draws : built' = [built EXCEPT ![s] = Rebuilt(s, p, d, style, r)]
    /\ UNCHANGED bindings

\* OnRegister of a scene whose points are p and CurveData d by then: BindToOwner,
\* which is RebuildCurve and BindToDataAsset.
Register(s, p, d) ==
    /\ points' = [points EXCEPT ![s] = p]
    /\ curveData' = [curveData EXCEPT ![s] = d]
    /\ \E r \in Draws : built' = [built EXCEPT ![s] = Rebuilt(s, p, d, style, r)]
    /\ Bind(s, d)

\* The points of asset a change, by reason r, and no broadcast follows.
Unannounced(a, r) ==
    unannounced' = IF a = editing THEN unannounced \cup {r} ELSE unannounced

\* An operation that gives a scene the points p and ends in RebuildCurve.
SetPoints(s, p) ==
    /\ points' = [points EXCEPT ![s] = p]
    /\ \E r \in Draws :
           built' = [built EXCEPT ![s] = Rebuilt(s, p, curveData[s], style, r)]
    /\ UNCHANGED <<assetVars, bindings, toolkitIn, life, registered, curveData,
                   editing, unannounced>>

-----------------------------------------------------------------------------
(***************************************************************************)
(* Scenes.                                                                 *)
(***************************************************************************)

\* The constructor, then PostInitProperties, by when ControlPoints and CurveData are
\* the template's.
Construct(s, p, d) ==
    /\ life[s] = "none"
    /\ life' = [life EXCEPT ![s] = "live"]
    /\ curveData' = [curveData EXCEPT ![s] = d]
    /\ points' = [points EXCEPT ![s] = p]
    /\ Bind(s, d)
    /\ UNCHANGED <<assetVars, toolkitIn, registered, built, editing, unannounced>>

\* PostLoad, once the points and CurveData that were saved are back.
PostLoad(s, p, d) ==
    /\ life[s] = "live"
    /\ s \notin registered
    /\ points' = [points EXCEPT ![s] = p]
    /\ curveData' = [curveData EXCEPT ![s] = d]
    /\ Bind(s, d)
    /\ UNCHANGED <<assetVars, toolkitIn, life, registered, built, editing, unannounced>>

OnRegister(s) ==
    /\ life[s] = "live"
    /\ s \notin registered
    /\ registered' = registered \cup {s}
    /\ Register(s, points[s], curveData[s])
    /\ UNCHANGED <<assetVars, toolkitIn, life, editing, unannounced>>

\* The scene has no OnUnregister of its own: it keeps its bindings and splines.
Unregister(s) ==
    /\ s \in registered
    /\ registered' = registered \ {s}
    /\ UNCHANGED <<assetVars, bindings, toolkitIn, life, curveData, points, built,
                   editing, unannounced>>

Destroy(s) ==
    /\ life[s] = "live"
    /\ life' = [life EXCEPT ![s] = "destroyed"]
    /\ registered' = registered \ {s}
    /\ UNCHANGED <<assetVars, bindings, toolkitIn, curveData, points, built, editing,
                   unannounced>>

\* PostEditChangeProperty of a registered scene, whose ControlPoints or CurveData
\* the details panel changed: OnRegister again by way of Super, then RebuildCurve.
\* BindToDataAsset for a new CurveData is the tail of a comment too.
PostEditChangeProperty(s, p, d) ==
    /\ s \in registered
    /\ p = points[s] \/ d = curveData[s]
    /\ Register(s, p, d)
    /\ UNCHANGED <<assetVars, toolkitIn, life, registered, editing, unannounced>>

\* PostEditUndo, the scene's or its actor's: some earlier points and CurveData are
\* back, the component is registered again, and RebuildCurve runs.
PostEditUndo(s, p, d) ==
    /\ s \in registered
    /\ Register(s, p, d)
    /\ UNCHANGED <<assetVars, toolkitIn, life, registered, editing, unannounced>>

\* OnConstruction of the actor.
OnConstruction(s) ==
    /\ life[s] = "live"
    /\ SetPoints(s, points[s])

\* FillPointsToTarget and FillPointsRandomToTarget, from the details panel: at
\* least one point more than before.
FillPoints(s, p) ==
    /\ s \in registered
    /\ curveData[s] # NoAsset
    /\ p \notin Short
    /\ SetPoints(s, p)

\* RandomOffsetControlPoints, BakeTransformIntoControlPoints and a drag of a point
\* in the level (HandleInputDelta) move points and add none.
MovePoints(s, p) ==
    /\ s \in registered
    /\ p \in Short <=> points[s] \in Short
    /\ SetPoints(s, p)

LoadFromDataAsset(s) ==
    /\ s \in registered
    /\ curveData[s] # NoAsset
    /\ SetPoints(s, assetPoints[curveData[s]])

\* SaveToDataAsset writes the asset and broadcasts nothing.
SaveToDataAsset(s) ==
    /\ s \in registered
    /\ curveData[s] # NoAsset
    /\ assetPoints[curveData[s]] # points[s]
    /\ assetPoints' = [assetPoints EXCEPT ![curveData[s]] = points[s]]
    /\ Unannounced(curveData[s], "save")
    /\ UNCHANGED <<style, bindings, toolkitIn, life, registered, curveData, points,
                   built, editing>>

Scene(s) ==
    \/ \E p \in Curves, d \in Assets \cup {NoAsset} :
        \/ Construct(s, p, d)
        \/ PostLoad(s, p, d)
        \/ PostEditChangeProperty(s, p, d)
        \/ PostEditUndo(s, p, d)
    \/ OnRegister(s)
    \/ Unregister(s)
    \/ Destroy(s)
    \/ OnConstruction(s)
    \/ \E p \in Curves : FillPoints(s, p) \/ MovePoints(s, p)
    \/ LoadFromDataAsset(s)
    \/ SaveToDataAsset(s)

-----------------------------------------------------------------------------
(***************************************************************************)
(* Data assets and their editor.                                           *)
(***************************************************************************)

\* Mutant of SyncAssetToPreviewActor: the points are not copied.
SyncKeepingPoints(a, pts) == UNCHANGED points

\* SyncAssetToPreviewActor copies the asset, whose points are pts, to the preview.
SyncAssetToPreviewActor(a, pts) ==
    points' = IF a \in toolkitIn THEN [points EXCEPT ![Preview] = pts] ELSE points

\* OnDataChanged.Broadcast for an asset that has become pts and y: every live scene
\* in the list rebuilds, and the asset editor copies the asset and rebuilds.
Broadcast(a, pts, y) ==
    LET st == [style EXCEPT ![a] = y] IN
    /\ assetPoints' = [assetPoints EXCEPT ![a] = pts]
    /\ style' = st
    /\ SyncAssetToPreviewActor(a, pts)
    /\ \E draw \in [All -> Draws] : built' = [s \in All |->
           IF life[s] = "live" /\ (bindings[a][s] > 0 \/ (s = Preview /\ a \in toolkitIn))
           THEN Rebuilt(s, points'[s], curveData[s], st, draw[s]) ELSE built[s]]
    /\ unannounced' = IF a = editing THEN {} ELSE unannounced
    /\ UNCHANGED <<bindings, toolkitIn, life, registered, curveData, editing>>

\* PostEditChangeProperty of the asset for one of the other RealtimeProperties.
EditStyle(a, y) == Broadcast(a, assetPoints[a], y)

\* The same for ControlPoints, when the mouse is released or a value typed; an undo
\* of the asset is announced in the same way.
EditAssetPoints(a, pts) == Broadcast(a, pts, style[a])

\* The same while a value is dragged (Interactive): the broadcast is put off.
DragAssetPoints(a, pts) ==
    /\ pts # assetPoints[a]
    /\ assetPoints' = [assetPoints EXCEPT ![a] = pts]
    /\ Unannounced(a, "drag")
    /\ UNCHANGED <<style, bindings, toolkitIn, life, registered, curveData, points,
                   built, editing>>

\* InitEditor: a preview actor is spawned, its scene registered and given the
\* asset, and the asset editor joins the asset's list.
OpenToolkit(a) ==
    /\ editing = NoAsset
    /\ editing' = a
    /\ toolkitIn' = toolkitIn \cup {a}
    /\ life' = [life EXCEPT ![Preview] = "live"]
    /\ registered' = registered \cup {Preview}
    /\ points' = [points EXCEPT ![Preview] = assetPoints[a]]
    /\ curveData' = [curveData EXCEPT ![Preview] = a]
    /\ \E r \in Draws : built' = [built EXCEPT ![Preview] =
           IF assetPoints[a] \in Short THEN Drawn(Default, NoAsset, style, r)
           ELSE Drawn(assetPoints[a], a, style, r)]
    /\ UNCHANGED <<assetVars, bindings, unannounced>>

\* The preview actor and its scene are gone, and their weak bindings with them.
DestroyPreviewActor ==
    /\ life' = [life EXCEPT ![Preview] = "none"]
    /\ registered' = registered \ {Preview}
    /\ bindings' = [a \in Assets |-> [bindings[a] EXCEPT ![Preview] = 0]]
    /\ curveData' = [curveData EXCEPT ![Preview] = NoAsset]
    /\ points' = [points EXCEPT ![Preview] = Default]
    /\ built' = [built EXCEPT ![Preview] = NotBuilt]
    /\ unannounced' = {}

\* Mutant of CloseToolkit: the preview actor is left in its world.
CloseToolkitOnly ==
    /\ editing # NoAsset
    /\ editing' = NoAsset
    /\ toolkitIn' = toolkitIn \ {editing}
    /\ UNCHANGED <<assetVars, unannounced, life, registered, bindings, curveData, points,
                   built>>

\* Mutant of CloseToolkit: the destructor does not leave the list.
CloseToolkitBound ==
    /\ editing # NoAsset
    /\ editing' = NoAsset
    /\ DestroyPreviewActor
    /\ UNCHANGED <<assetVars, toolkitIn>>

\* The destructor of the asset editor.
CloseToolkit ==
    /\ editing # NoAsset
    /\ editing' = NoAsset
    /\ toolkitIn' = toolkitIn \ {editing}
    /\ DestroyPreviewActor
    /\ UNCHANGED assetVars

\* A point dragged in the asset editor's viewport: each delta moves it, adds none,
\* and broadcasts. Rows of the details panel are EditAssetPoints.
InputWidgetDelta(pts) ==
    /\ editing # NoAsset
    /\ pts \in Short <=> assetPoints[editing] \in Short
    /\ Broadcast(editing, pts, style[editing])

\* The engine registers the preview scene again, for instance after a recompile.
ReregisterPreview ==
    /\ Preview \in registered
    /\ Register(Preview, points[Preview], curveData[Preview])
    /\ UNCHANGED <<assetVars, toolkitIn, life, registered, editing, unannounced>>

Asset ==
    \/ \E a \in Assets :
        \/ OpenToolkit(a)
        \/ \E y \in Styles : EditStyle(a, y)
        \/ \E pts \in Curves : EditAssetPoints(a, pts) \/ DragAssetPoints(a, pts)
    \/ CloseToolkit
    \/ \E pts \in Curves : InputWidgetDelta(pts)
    \/ ReregisterPreview

Next == Asset \/ \E s \in Scenes : Scene(s)

Spec == Init /\ [][Next]_vars

-----------------------------------------------------------------------------
(***************************************************************************)
(* Properties.                                                             *)
(***************************************************************************)

\* A registered scene that has two points or more shows them in the style of its
\* data asset, with random splines of that style: every change of its points, its
\* CurveData, or the style, through whatever path, has reached RebuildCurve.
CurveIsCurrent ==
    \A s \in registered : points[s] \notin Short =>
        \E r \in Draws : built[s] = Drawn(points[s], curveData[s], style, r)

\* The preview shows the asset being edited, once a change is announced.
PreviewFollowsEdits ==
    editing # NoAsset /\ unannounced = {}
        => points[Preview] = assetPoints[editing] /\ curveData[Preview] = editing

\* The asset editor is in the list of the asset it edits, and once its destructor
\* ran no list holds its raw pointer, which the next broadcast would call.
ToolkitListens == toolkitIn = IF editing = NoAsset THEN {} ELSE {editing}

\* BindToDataAsset leaves the list before it joins it: a scene is called at most
\* once for each change.
NoDuplicateBinding ==
    \A a \in Assets, s \in All : bindings[a][s] <= 1

\* The preview shows the asset being edited, but while a value is being dragged.
PreviewFollowsAsset ==
    editing # NoAsset /\ "drag" \notin unannounced
        => points[Preview] = assetPoints[editing]

=============================================================================
