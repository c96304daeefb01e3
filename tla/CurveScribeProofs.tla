-------------------------- MODULE CurveScribeProofs --------------------------
(***************************************************************************)
(* Proofs about CurveScribe: for any scenes, assets, curves and styles.    *)
(***************************************************************************)
EXTENDS CurveScribe, TLAPS

\* A registered scene exists.
RegisteredLive == \A s \in registered : life[s] = "live"

\* A scene of the level is in the list of its asset from its construction on,
\* registered or not.
SceneListens ==
    \A s \in Scenes :
        life[s] = "live" /\ curveData[s] # NoAsset => bindings[curveData[s]][s] > 0

\* The preview draws the asset being edited.
PreviewHasAsset == editing # NoAsset => curveData[Preview] = editing

IInv ==
    /\ TypeOK
    /\ RegisteredLive
    /\ SceneListens
    /\ PreviewHasAsset
    /\ CurveIsCurrent
    /\ PreviewFollowsEdits
    /\ ToolkitListens

-----------------------------------------------------------------------------
(***************************************************************************)
(* What the operations share.                                              *)
(***************************************************************************)
LEMMA DrawnType ==
    ASSUME TypeOK, NEW p \in Curves, NEW d \in Assets \cup {NoAsset},
           NEW st \in [Assets -> Styles], NEW r \in Draws
    PROVE  Drawn(p, d, st, r) \in Drawing
    BY DEF Drawn, Drawing

LEMMA RebuiltType ==
    ASSUME TypeOK, NEW s \in All, NEW p \in Curves, NEW d \in Assets \cup {NoAsset},
           NEW st \in [Assets -> Styles], NEW r \in Draws
    PROVE  Rebuilt(s, p, d, st, r) \in Drawing
    BY DrawnType DEF Rebuilt, TypeOK

\* Whoever binds is in the list from then on, and nobody leaves one.
LEMMA BindJoins ==
    ASSUME TypeOK, NEW s \in All, NEW d \in Assets \cup {NoAsset}, Bind(s, d)
    PROVE  /\ bindings' \in [Assets -> [All -> 0..MaxBindings]]
           /\ \A a \in Assets, t \in All : bindings[a][t] > 0 => bindings'[a][t] > 0
           /\ d # NoAsset => bindings'[d][s] > 0
<1>1. \A a \in Assets, t \in All :
        /\ bindings[a][t] \in 0..MaxBindings
        /\ bindings'[a][t] = IF a = d /\ t = s /\ bindings[a][t] < MaxBindings THEN bindings[a][t] + 1
                             ELSE bindings[a][t]
    BY DEF Bind, TypeOK
<1>2. \A a \in Assets, t \in All : bindings'[a][t] \in 0..MaxBindings
    BY <1>1, CurveAssumption DEF CurveAssumption
<1>3. bindings' = [a \in Assets |-> [t \in All |-> bindings'[a][t]]]
    BY DEF Bind
<1>4. bindings' \in [Assets -> [All -> 0..MaxBindings]]
    BY <1>2, <1>3
<1>5. d # NoAsset => d \in Assets
    OBVIOUS
<1>6. MaxBindings > 0
    BY CurveAssumption DEF CurveAssumption
<1> QED BY <1>1, <1>4, <1>5, <1>6, CurveAssumption DEF CurveAssumption

\* A scene that is registered (again) is current and listens to its asset.
LEMMA RegisterKeeps ==
    ASSUME IInv, NEW s \in All, NEW p \in Curves, NEW d \in Assets \cup {NoAsset},
           Register(s, p, d), life[s] = "live",
           registered' = registered \cup {s},
           UNCHANGED <<assetVars, toolkitIn, life, editing, unannounced>>,
           s = Preview => p = points[s] /\ d = curveData[s]
    PROVE  IInv'
<1> PICK r \in Draws : built' = [built EXCEPT ![s] = Rebuilt(s, p, d, style, r)]
    BY DEF Register
<1>1. /\ points' = [points EXCEPT ![s] = p]
      /\ curveData' = [curveData EXCEPT ![s] = d]
      /\ built' = [built EXCEPT ![s] = Rebuilt(s, p, d, style, r)]
    BY DEF Register
<1>2. /\ bindings' \in [Assets -> [All -> 0..MaxBindings]]
      /\ \A a \in Assets, t \in All : bindings[a][t] > 0 => bindings'[a][t] > 0
      /\ d # NoAsset => bindings'[d][s] > 0
    BY BindJoins DEF IInv, Register
<1>3. Rebuilt(s, p, d, style, r) \in Drawing
    BY RebuiltType DEF IInv, TypeOK
<1>4. TypeOK'
    BY <1>1, <1>2, <1>3 DEF IInv, TypeOK, assetVars
<1>5. RegisteredLive'
    BY DEF IInv, RegisteredLive
<1>6. SceneListens'
  <2> SUFFICES ASSUME NEW t \in Scenes, life[t] = "live", curveData'[t] # NoAsset
               PROVE  bindings'[curveData'[t]][t] > 0
      BY DEF SceneListens
  <2>1. t \in All
      BY DEF All
  <2>2. CASE t = s
      BY <1>1, <1>2, <2>1, <2>2 DEF IInv, TypeOK
  <2>3. CASE t # s
    <3>1. curveData'[t] = curveData[t] /\ curveData[t] \in Assets
        BY <1>1, <2>1, <2>3 DEF IInv, TypeOK
    <3> QED BY <1>2, <2>1, <3>1 DEF IInv, SceneListens
  <2> QED BY <2>2, <2>3
<1>7. points'[Preview] = points[Preview] /\ curveData'[Preview] = curveData[Preview]
    BY <1>1 DEF IInv, TypeOK, All
<1>8. PreviewHasAsset' /\ PreviewFollowsEdits' /\ ToolkitListens'
    BY <1>7 DEF IInv, PreviewHasAsset, PreviewFollowsEdits, ToolkitListens, assetVars
<1>9. CurveIsCurrent'
    BY <1>1 DEF IInv, TypeOK, CurveIsCurrent, Rebuilt, assetVars
<1> QED BY <1>4, <1>5, <1>6, <1>8, <1>9 DEF IInv

LEMMA SetPointsKeeps ==
    ASSUME IInv, NEW s \in Scenes, NEW p \in Curves, SetPoints(s, p)
    PROVE  IInv'
<1>1. s \in All /\ s # Preview
    BY CurveAssumption DEF All, CurveAssumption
<1> PICK r \in Draws : built' = [built EXCEPT ![s] = Rebuilt(s, p, curveData[s], style, r)]
    BY DEF SetPoints
<1>2. /\ points' = [points EXCEPT ![s] = p]
      /\ built' = [built EXCEPT ![s] = Rebuilt(s, p, curveData[s], style, r)]
      /\ UNCHANGED <<assetPoints, style, bindings, toolkitIn, life, registered, curveData,
                     editing, unannounced>>
    BY DEF SetPoints, assetVars
<1>3. Rebuilt(s, p, curveData[s], style, r) \in Drawing
    BY <1>1, RebuiltType DEF IInv, TypeOK
<1>4. TypeOK'
    BY <1>2, <1>3 DEF IInv, TypeOK
<1>5. RegisteredLive' /\ SceneListens' /\ PreviewHasAsset' /\ ToolkitListens'
    BY <1>2 DEF IInv, RegisteredLive, SceneListens, PreviewHasAsset, ToolkitListens
<1>6. PreviewFollowsEdits'
    BY <1>1, <1>2 DEF IInv, TypeOK, PreviewFollowsEdits, All
<1>7. CurveIsCurrent'
    BY <1>2 DEF IInv, TypeOK, CurveIsCurrent, Rebuilt
<1> QED BY <1>4, <1>5, <1>6, <1>7 DEF IInv

\* The announcement of a change reaches every curve that depends on it: a scene that
\* is not called draws another asset or none.
LEMMA BroadcastKeeps ==
    ASSUME IInv, NEW a \in Assets, NEW pts \in Curves, NEW y \in Styles,
           Broadcast(a, pts, y)
    PROVE  IInv'
<1> DEFINE st == [style EXCEPT ![a] = y]
           Called(s) == life[s] = "live" /\ (bindings[a][s] > 0 \/ (s = Preview /\ a \in toolkitIn))
<1> PICK draw \in [All -> Draws] :
        built' = [s \in All |-> IF Called(s) THEN Rebuilt(s, points'[s], curveData[s], st, draw[s])
                               ELSE built[s]]
    BY DEF Broadcast
<1>1. /\ assetPoints' = [assetPoints EXCEPT ![a] = pts]
      /\ style' = st
      /\ points' = IF a \in toolkitIn THEN [points EXCEPT ![Preview] = pts] ELSE points
      /\ built' = [s \in All |-> IF Called(s) THEN Rebuilt(s, points'[s], curveData[s], st, draw[s])
                                 ELSE built[s]]
      /\ unannounced' = IF a = editing THEN {} ELSE unannounced
      /\ UNCHANGED <<bindings, toolkitIn, life, registered, curveData, editing>>
    BY DEF Broadcast, SyncAssetToPreviewActor
<1> HIDE DEF Called
<1>2. st \in [Assets -> Styles] /\ points' \in [All -> Curves]
    BY <1>1 DEF IInv, TypeOK
<1> HIDE DEF st
<1>3. \A s \in All : Rebuilt(s, points'[s], curveData[s], st, draw[s]) \in Drawing
  <2> TAKE s \in All
  <2>1. points'[s] \in Curves /\ curveData[s] \in Assets \cup {NoAsset}
      BY <1>2 DEF IInv, TypeOK
  <2> QED BY <1>2, <2>1, RebuiltType DEF IInv
<1>4. built' \in [All -> Drawing]
    BY <1>1, <1>3 DEF IInv, TypeOK
<1>5. TypeOK'
    BY <1>1, <1>2, <1>4 DEF IInv, TypeOK
<1>6. RegisteredLive' /\ SceneListens' /\ PreviewHasAsset' /\ ToolkitListens'
    BY <1>1 DEF IInv, RegisteredLive, SceneListens, PreviewHasAsset, ToolkitListens
<1>7. PreviewFollowsEdits'
  <2> SUFFICES ASSUME editing # NoAsset, unannounced' = {}
               PROVE  points'[Preview] = assetPoints'[editing] /\ curveData[Preview] = editing
      BY <1>1 DEF PreviewFollowsEdits
  <2>1. toolkitIn = {editing} /\ curveData[Preview] = editing /\ editing \in Assets
      BY DEF IInv, TypeOK, ToolkitListens, PreviewHasAsset
  <2>2. CASE a = editing
      BY <1>1, <2>1, <2>2 DEF IInv, TypeOK, All
  <2>3. CASE a # editing
      BY <1>1, <2>1, <2>3 DEF IInv, TypeOK, PreviewFollowsEdits
  <2> QED BY <2>1, <2>2, <2>3
<1>8. CurveIsCurrent'
  <2> SUFFICES ASSUME NEW s \in registered, points'[s] \notin Short
               PROVE  \E r \in Draws : built'[s] = Drawn(points'[s], curveData[s], st, r)
      BY <1>1 DEF CurveIsCurrent
  <2>1. s \in All /\ life[s] = "live"
      BY DEF IInv, TypeOK, RegisteredLive
  <2>2. CASE Called(s)
      BY <1>1, <2>1, <2>2 DEF Rebuilt
  <2>3. CASE ~Called(s)
    <3>1. curveData[s] # a
      <4>1. CASE s \in Scenes
          BY CurveAssumption, <2>1, <2>3, <4>1
          DEF CurveAssumption, IInv, SceneListens, Called
      <4>2. CASE s = Preview
        <5>1. editing # NoAsset
            BY <2>1, <4>2 DEF IInv, TypeOK
        <5>2. curveData[Preview] = editing /\ toolkitIn = {editing}
            BY <5>1 DEF IInv, PreviewHasAsset, ToolkitListens
        <5> QED BY <2>1, <2>3, <4>2, <5>2 DEF Called
      <4> QED BY <2>1, <4>1, <4>2 DEF All
    <3>2. points'[s] = points[s]
      <4>1. CASE s = Preview
          BY <1>1, <2>1, <2>3, <4>1 DEF Called
      <4>2. CASE s # Preview
          BY <1>1, <2>1, <4>2 DEF IInv, TypeOK
      <4> QED BY <4>1, <4>2
    <3>3. \A r \in Draws : Drawn(points[s], curveData[s], st, r) = Drawn(points[s], curveData[s], style, r)
        BY <2>1, <3>1 DEF Drawn, IInv, TypeOK, st
    <3> QED BY <1>1, <2>1, <2>3, <3>2, <3>3 DEF IInv, CurveIsCurrent
  <2> QED BY <2>2, <2>3
<1> QED BY <1>5, <1>6, <1>7, <1>8 DEF IInv

\* SaveToDataAsset and a drag change an asset's points and announce nothing: no
\* curve depends on them but the preview's, and that is what unannounced remembers.
LEMMA ChangeKeeps ==
    ASSUME IInv, NEW a \in Assets, NEW p \in Curves, NEW r \in Reason,
           assetPoints' = [assetPoints EXCEPT ![a] = p],
           Unannounced(a, r),
           UNCHANGED <<style, bindings, toolkitIn, life, registered, curveData, points,
                       built, editing>>
    PROVE  IInv'
<1>1. TypeOK'
    BY DEF IInv, TypeOK, Unannounced
<1>2. RegisteredLive' /\ SceneListens' /\ PreviewHasAsset' /\ ToolkitListens' /\ CurveIsCurrent'
    BY DEF IInv, RegisteredLive, SceneListens, PreviewHasAsset, ToolkitListens, CurveIsCurrent
<1>3. PreviewFollowsEdits'
  <2>1. CASE a = editing
      BY <2>1 DEF PreviewFollowsEdits, Unannounced
  <2>2. CASE a # editing
      BY <2>2 DEF IInv, TypeOK, PreviewFollowsEdits, Unannounced
  <2> QED BY <2>1, <2>2
<1> QED BY <1>1, <1>2, <1>3 DEF IInv

-----------------------------------------------------------------------------
(***************************************************************************)
(* The actions of a scene.                                                 *)
(***************************************************************************)

\* Construct and PostLoad: a scene that is not registered joins its asset's list.
LEMMA BindKeeps ==
    ASSUME IInv, NEW s \in Scenes, NEW p \in Curves, NEW d \in Assets \cup {NoAsset},
           s \notin registered, Bind(s, d),
           points' = [points EXCEPT ![s] = p],
           curveData' = [curveData EXCEPT ![s] = d],
           life' = [life EXCEPT ![s] = "live"],
           UNCHANGED <<assetVars, toolkitIn, registered, built, editing, unannounced>>
    PROVE  IInv'
<1>1. s \in All /\ s # Preview
    BY CurveAssumption DEF All, CurveAssumption
<1>2. /\ bindings' \in [Assets -> [All -> 0..MaxBindings]]
      /\ \A a \in Assets, t \in All : bindings[a][t] > 0 => bindings'[a][t] > 0
      /\ d # NoAsset => bindings'[d][s] > 0
    BY <1>1, BindJoins DEF IInv
<1>3. TypeOK'
    BY <1>1, <1>2 DEF IInv, TypeOK, assetVars
<1>4. RegisteredLive'
    BY DEF IInv, TypeOK, RegisteredLive
<1>5. SceneListens'
  <2> SUFFICES ASSUME NEW t \in Scenes, life'[t] = "live", curveData'[t] # NoAsset
               PROVE  bindings'[curveData'[t]][t] > 0
      BY DEF SceneListens
  <2>1. t \in All
      BY DEF All
  <2>2. CASE t = s
      BY <1>2, <2>1, <2>2 DEF IInv, TypeOK
  <2>3. CASE t # s
    <3>1. life[t] = "live" /\ curveData'[t] = curveData[t] /\ curveData[t] \in Assets
        BY <2>1, <2>3 DEF IInv, TypeOK
    <3> QED BY <1>2, <2>1, <3>1 DEF IInv, SceneListens
  <2> QED BY <2>2, <2>3
<1>6. PreviewHasAsset' /\ PreviewFollowsEdits' /\ ToolkitListens'
    BY <1>1 DEF IInv, TypeOK, PreviewHasAsset, PreviewFollowsEdits, ToolkitListens,
                assetVars, All
<1>7. CurveIsCurrent'
    BY DEF IInv, TypeOK, CurveIsCurrent, assetVars
<1> QED BY <1>3, <1>4, <1>5, <1>6, <1>7 DEF IInv

LEMMA LeaveKeeps ==
    ASSUME IInv, NEW s \in Scenes, Unregister(s) \/ Destroy(s)
    PROVE  IInv'
<1>1. s \in All /\ s # Preview
    BY CurveAssumption DEF All, CurveAssumption
<1>2. /\ registered' = registered \ {s}
      /\ life' = life \/ life' = [life EXCEPT ![s] = "destroyed"]
      /\ UNCHANGED <<assetPoints, style, bindings, toolkitIn, curveData, points, built,
                     editing, unannounced>>
    BY DEF Unregister, Destroy, assetVars
<1>3. TypeOK'
  <2>1. life' \in [All -> {"none", "live", "destroyed"}]
      BY <1>1, <1>2 DEF IInv, TypeOK
  <2>2. life'[Preview] = life[Preview]
      BY <1>1, <1>2 DEF IInv, TypeOK, All
  <2> QED BY <1>2, <2>1, <2>2 DEF IInv, TypeOK
<1>4. RegisteredLive'
    BY <1>1, <1>2 DEF IInv, TypeOK, RegisteredLive
<1>5. SceneListens'
  <2> SUFFICES ASSUME NEW t \in Scenes, life'[t] = "live"
               PROVE  life[t] = "live"
      BY <1>2 DEF IInv, SceneListens
  <2> QED BY <1>1, <1>2 DEF IInv, TypeOK, All
<1>6. PreviewHasAsset' /\ PreviewFollowsEdits' /\ ToolkitListens' /\ CurveIsCurrent'
    BY <1>2 DEF IInv, PreviewHasAsset, PreviewFollowsEdits, ToolkitListens, CurveIsCurrent
<1> QED BY <1>3, <1>4, <1>5, <1>6 DEF IInv

LEMMA SaveKeeps ==
    ASSUME IInv, NEW s \in Scenes, SaveToDataAsset(s)
    PROVE  IInv'
<1>1. s \in All /\ curveData[s] \in Assets /\ points[s] \in Curves
    BY DEF SaveToDataAsset, IInv, TypeOK, All
<1>2. /\ assetPoints' = [assetPoints EXCEPT ![curveData[s]] = points[s]]
      /\ Unannounced(curveData[s], "save")
      /\ UNCHANGED <<style, bindings, toolkitIn, life, registered, curveData, points,
                     built, editing>>
    BY DEF SaveToDataAsset
<1> QED BY <1>1, <1>2, ChangeKeeps DEF Reason

LEMMA SceneKeeps ==
    ASSUME IInv, NEW s \in Scenes, Scene(s)
    PROVE  IInv'
<1>1. s \in All /\ s # Preview /\ points[s] \in Curves /\ curveData[s] \in Assets \cup {NoAsset}
    BY CurveAssumption DEF All, CurveAssumption, IInv, TypeOK
<1>2. ASSUME NEW p \in Curves, NEW d \in Assets \cup {NoAsset}, Construct(s, p, d)
      PROVE  IInv'
  <2>1. s \notin registered
      BY <1>2 DEF Construct, IInv, RegisteredLive
  <2> QED BY <1>2, <2>1, BindKeeps DEF Construct
<1>3. ASSUME NEW p \in Curves, NEW d \in Assets \cup {NoAsset}, PostLoad(s, p, d)
      PROVE  IInv'
  <2>1. life' = [life EXCEPT ![s] = "live"]
      BY <1>1, <1>3 DEF PostLoad, IInv, TypeOK
  <2> QED BY <1>3, <2>1, BindKeeps DEF PostLoad
<1>4. ASSUME NEW p \in Curves, NEW d \in Assets \cup {NoAsset},
             PostEditChangeProperty(s, p, d) \/ PostEditUndo(s, p, d)
      PROVE  IInv'
  <2>1. /\ s \in registered /\ Register(s, p, d)
        /\ UNCHANGED <<assetVars, toolkitIn, life, registered, editing, unannounced>>
      BY <1>4 DEF PostEditChangeProperty, PostEditUndo
  <2>2. life[s] = "live" /\ registered' = registered \cup {s}
      BY <2>1 DEF IInv, RegisteredLive
  <2> QED BY <1>1, <2>1, <2>2, RegisterKeeps
<1>5. ASSUME OnRegister(s) PROVE IInv'
    BY <1>1, <1>5, RegisterKeeps DEF OnRegister
<1>6. ASSUME Unregister(s) \/ Destroy(s) PROVE IInv'
    BY <1>6, LeaveKeeps
<1>7. ASSUME OnConstruction(s) PROVE IInv'
    BY <1>1, <1>7, SetPointsKeeps DEF OnConstruction
<1>8. ASSUME NEW p \in Curves, FillPoints(s, p) \/ MovePoints(s, p) PROVE IInv'
    BY <1>8, SetPointsKeeps DEF FillPoints, MovePoints
<1>9. ASSUME LoadFromDataAsset(s) PROVE IInv'
  <2>1. assetPoints[curveData[s]] \in Curves
      BY <1>1, <1>9 DEF LoadFromDataAsset, IInv, TypeOK
  <2> QED BY <1>9, <2>1, SetPointsKeeps DEF LoadFromDataAsset
<1>10. ASSUME SaveToDataAsset(s) PROVE IInv'
    BY <1>10, SaveKeeps
<1> QED BY <1>2, <1>3, <1>4, <1>5, <1>6, <1>7, <1>8, <1>9, <1>10 DEF Scene

-----------------------------------------------------------------------------
(***************************************************************************)
(* The actions of assets and their editor.                                 *)
(***************************************************************************)
LEMMA OpenToolkitKeeps ==
    ASSUME IInv, NEW a \in Assets, OpenToolkit(a)
    PROVE  IInv'
<1> DEFINE drawn(r) == IF assetPoints[a] \in Short THEN Drawn(Default, NoAsset, style, r)
                       ELSE Drawn(assetPoints[a], a, style, r)
<1> PICK r \in Draws : built' = [built EXCEPT ![Preview] = drawn(r)]
    BY DEF OpenToolkit
<1> DEFINE drawing == drawn(r)
<1>1. /\ editing = NoAsset /\ editing' = a
      /\ toolkitIn' = toolkitIn \cup {a}
      /\ life' = [life EXCEPT ![Preview] = "live"]
      /\ registered' = registered \cup {Preview}
      /\ points' = [points EXCEPT ![Preview] = assetPoints[a]]
      /\ curveData' = [curveData EXCEPT ![Preview] = a]
      /\ built' = [built EXCEPT ![Preview] = drawing]
      /\ UNCHANGED <<assetPoints, style, bindings, unannounced>>
    BY DEF OpenToolkit, assetVars
<1>2. Preview \in All /\ a # NoAsset /\ Preview \notin Scenes /\ Default \in Curves
    BY CurveAssumption DEF All, CurveAssumption
<1>3. drawing \in Drawing /\ assetPoints[a] \in Curves
  <2>1. assetPoints[a] \in Curves /\ style \in [Assets -> Styles]
      BY DEF IInv, TypeOK
  <2>2. /\ Drawn(Default, NoAsset, style, r) \in Drawing
        /\ Drawn(assetPoints[a], a, style, r) \in Drawing
      BY <1>2, <2>1, DrawnType DEF IInv
  <2> QED BY <2>1, <2>2
<1>4. CurveIsCurrent'
  <2> SUFFICES ASSUME NEW s \in registered', points'[s] \notin Short
               PROVE  \E q \in Draws : built'[s] = Drawn(points'[s], curveData'[s], style, q)
      BY <1>1 DEF CurveIsCurrent
  <2>1. CASE s = Preview
      BY <1>1, <1>2, <2>1 DEF IInv, TypeOK
  <2>2. CASE s # Preview
      BY <1>1, <2>2 DEF IInv, TypeOK, CurveIsCurrent
  <2> QED BY <2>1, <2>2
<1> HIDE DEF drawing
<1>5. TypeOK'
  <2>1. points' \in [All -> Curves] /\ built' \in [All -> Drawing]
      BY <1>1, <1>2, <1>3 DEF IInv, TypeOK
  <2>2. curveData' \in [All -> Assets \cup {NoAsset}]
      BY <1>1, <1>2 DEF IInv, TypeOK
  <2>3. /\ life' \in [All -> {"none", "live", "destroyed"}]
        /\ life'[Preview] = "live"
      BY <1>1, <1>2 DEF IInv, TypeOK
  <2> QED BY <1>1, <1>2, <2>1, <2>2, <2>3 DEF IInv, TypeOK
<1>6. RegisteredLive'
    BY <1>1, <1>2 DEF IInv, TypeOK, RegisteredLive
<1>7. SceneListens'
    BY <1>1, <1>2 DEF IInv, TypeOK, SceneListens, All
<1>8. PreviewHasAsset' /\ PreviewFollowsEdits' /\ ToolkitListens'
    BY <1>1, <1>2 DEF IInv, TypeOK, PreviewHasAsset, PreviewFollowsEdits, ToolkitListens
<1> QED BY <1>4, <1>5, <1>6, <1>7, <1>8 DEF IInv

LEMMA CloseToolkitKeeps ==
    ASSUME IInv, CloseToolkit
    PROVE  IInv'
<1>1. /\ editing # NoAsset /\ editing' = NoAsset
      /\ toolkitIn' = toolkitIn \ {editing}
      /\ life' = [life EXCEPT ![Preview] = "none"]
      /\ registered' = registered \ {Preview}
      /\ bindings' = [a \in Assets |-> [bindings[a] EXCEPT ![Preview] = 0]]
      /\ curveData' = [curveData EXCEPT ![Preview] = NoAsset]
      /\ points' = [points EXCEPT ![Preview] = Default]
      /\ built' = [built EXCEPT ![Preview] = NotBuilt]
      /\ unannounced' = {}
      /\ UNCHANGED <<assetPoints, style>>
    BY DEF CloseToolkit, DestroyPreviewActor, assetVars
<1>2. Preview \in All /\ Preview \notin Scenes /\ Default \in Curves /\ NotBuilt \in Drawing
    BY CurveAssumption DEF All, CurveAssumption, NotBuilt, Drawing
<1> HIDE DEF NotBuilt
<1>3. bindings' \in [Assets -> [All -> 0..MaxBindings]]
  <2>1. \A a \in Assets : [bindings[a] EXCEPT ![Preview] = 0] \in [All -> 0..MaxBindings]
    <3> TAKE a \in Assets
    <3>1. bindings[a] \in [All -> 0..MaxBindings] /\ 0 \in 0..MaxBindings
        BY CurveAssumption DEF CurveAssumption, IInv, TypeOK
    <3> DEFINE list == bindings[a]
    <3> HIDE DEF list
    <3>2. list \in [All -> 0..MaxBindings]
        BY <3>1 DEF list
    <3>3. [list EXCEPT ![Preview] = 0] \in [All -> 0..MaxBindings]
        BY <3>1, <3>2
    <3> QED BY <3>3 DEF list
  <2> QED BY <1>1, <2>1
<1>4. TypeOK'
  <2>1. points' \in [All -> Curves] /\ built' \in [All -> Drawing]
      BY <1>1, <1>2 DEF IInv, TypeOK
  <2>2. curveData' \in [All -> Assets \cup {NoAsset}]
      BY <1>1, <1>2 DEF IInv, TypeOK
  <2>3. /\ life' \in [All -> {"none", "live", "destroyed"}]
        /\ life'[Preview] = "none"
      BY <1>1, <1>2 DEF IInv, TypeOK
  <2> QED BY <1>1, <1>2, <1>3, <2>1, <2>2, <2>3 DEF IInv, TypeOK
<1>5. RegisteredLive' /\ CurveIsCurrent'
    BY <1>1 DEF IInv, TypeOK, RegisteredLive, CurveIsCurrent
<1>6. SceneListens'
  <2> SUFFICES ASSUME NEW t \in Scenes, life'[t] = "live", curveData'[t] # NoAsset
               PROVE  bindings'[curveData'[t]][t] > 0
      BY DEF SceneListens
  <2>1. t \in All /\ t # Preview
      BY <1>2 DEF All
  <2>2. life[t] = "live" /\ curveData'[t] = curveData[t] /\ curveData[t] \in Assets
      BY <1>1, <2>1 DEF IInv, TypeOK
  <2>3. bindings'[curveData[t]][t] = bindings[curveData[t]][t]
      BY <1>1, <2>1, <2>2 DEF IInv, TypeOK
  <2> QED BY <2>2, <2>3 DEF IInv, SceneListens
<1>7. PreviewHasAsset' /\ PreviewFollowsEdits' /\ ToolkitListens'
    BY <1>1 DEF IInv, PreviewHasAsset, PreviewFollowsEdits, ToolkitListens
<1> QED BY <1>4, <1>5, <1>6, <1>7 DEF IInv

LEMMA ReregisterPreviewKeeps ==
    ASSUME IInv, ReregisterPreview
    PROVE  IInv'
<1>1. /\ Preview \in registered
      /\ Register(Preview, points[Preview], curveData[Preview])
      /\ UNCHANGED <<assetVars, toolkitIn, life, registered, editing, unannounced>>
    BY DEF ReregisterPreview
<1>2. /\ Preview \in All /\ life[Preview] = "live" /\ registered' = registered \cup {Preview}
      /\ points[Preview] \in Curves /\ curveData[Preview] \in Assets \cup {NoAsset}
    BY <1>1 DEF IInv, TypeOK, RegisteredLive, All
<1> QED BY <1>1, <1>2, RegisterKeeps

LEMMA AssetKeeps ==
    ASSUME IInv, Asset
    PROVE  IInv'
<1>1. ASSUME NEW a \in Assets, OpenToolkit(a) PROVE IInv'
    BY <1>1, OpenToolkitKeeps
<1>2. ASSUME NEW a \in Assets, NEW y \in Styles, EditStyle(a, y) PROVE IInv'
  <2>1. assetPoints[a] \in Curves
      BY DEF IInv, TypeOK
  <2> QED BY <1>2, <2>1, BroadcastKeeps DEF EditStyle
<1>3. ASSUME NEW a \in Assets, NEW pts \in Curves, EditAssetPoints(a, pts) PROVE IInv'
  <2>1. style[a] \in Styles
      BY DEF IInv, TypeOK
  <2> QED BY <1>3, <2>1, BroadcastKeeps DEF EditAssetPoints
<1>4. ASSUME NEW a \in Assets, NEW pts \in Curves, DragAssetPoints(a, pts) PROVE IInv'
    BY <1>4, ChangeKeeps DEF DragAssetPoints, Reason
<1>5. ASSUME CloseToolkit PROVE IInv'
    BY <1>5, CloseToolkitKeeps
<1>6. ASSUME NEW pts \in Curves, InputWidgetDelta(pts) PROVE IInv'
  <2>1. editing \in Assets /\ style[editing] \in Styles
      BY <1>6 DEF InputWidgetDelta, IInv, TypeOK
  <2> QED BY <1>6, <2>1, BroadcastKeeps DEF InputWidgetDelta
<1>7. ASSUME ReregisterPreview PROVE IInv'
    BY <1>7, ReregisterPreviewKeeps
<1> QED BY <1>1, <1>2, <1>3, <1>4, <1>5, <1>6, <1>7 DEF Asset

-----------------------------------------------------------------------------
(***************************************************************************)
(* The theorems.                                                           *)
(***************************************************************************)

\* The invariant holds throughout every behaviour: whichever of the scene's
\* callbacks, edits, saves and broadcasts come, and in whatever order.
THEOREM Inductive == Spec => []IInv
<1>1. Init => IInv
  <2> SUFFICES ASSUME Init PROVE IInv
      OBVIOUS
  <2>1. Default \in Curves /\ NotBuilt \in Drawing /\ 0 \in 0..MaxBindings
      BY CurveAssumption DEF CurveAssumption, NotBuilt, Drawing
  <2>2. TypeOK
    <3> HIDE DEF NotBuilt
    <3> QED BY <2>1 DEF Init, TypeOK, All
  <2>3. SceneListens
    <3> SUFFICES \A s \in Scenes : life[s] = "none"
        BY DEF SceneListens
    <3> QED BY DEF Init, All
  <2>4. RegisteredLive /\ PreviewHasAsset /\ CurveIsCurrent /\ PreviewFollowsEdits /\ ToolkitListens
      BY DEF Init, RegisteredLive, PreviewHasAsset, CurveIsCurrent, PreviewFollowsEdits,
             ToolkitListens
  <2> QED BY <2>2, <2>3, <2>4 DEF IInv
<1>2. IInv /\ [Next]_vars => IInv'
  <2> SUFFICES ASSUME IInv, [Next]_vars PROVE IInv'
      OBVIOUS
  <2>1. CASE Asset
      BY <2>1, AssetKeeps
  <2>2. ASSUME NEW s \in Scenes, Scene(s) PROVE IInv'
      BY <2>2, SceneKeeps
  <2>3. CASE UNCHANGED vars
      BY <2>3 DEF vars, assetVars, IInv, TypeOK, RegisteredLive, SceneListens, PreviewHasAsset,
                  CurveIsCurrent, PreviewFollowsEdits, ToolkitListens
  <2> QED BY <2>1, <2>2, <2>3 DEF Next
<1> QED BY <1>1, <1>2, PTL DEF Spec

\* Every variable keeps its type, and the preview scene lives exactly as long as the
\* asset editor.
THEOREM TypeCorrect == Spec => []TypeOK
<1>1. IInv => TypeOK
    BY DEF IInv
<1> QED BY <1>1, Inductive, PTL

\* A registered scene with two points or more shows them in its asset's style.
THEOREM CurvesAreCurrent == Spec => []CurveIsCurrent
<1>1. IInv => CurveIsCurrent
    BY DEF IInv
<1> QED BY <1>1, Inductive, PTL

\* The preview shows the asset being edited once a change is announced.
THEOREM PreviewIsCurrent == Spec => []PreviewFollowsEdits
<1>1. IInv => PreviewFollowsEdits
    BY DEF IInv
<1> QED BY <1>1, Inductive, PTL

\* The asset editor is in the list of the asset it edits and in no other.
THEOREM ToolkitBound == Spec => []ToolkitListens
<1>1. IInv => ToolkitListens
    BY DEF IInv
<1> QED BY <1>1, Inductive, PTL

=============================================================================
