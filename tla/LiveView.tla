------------------------------- MODULE LiveView -------------------------------
(***************************************************************************)
(* What FormScribe means to who looks at the level: there are no copies.   *)
(* A viewer follows an asset, and what it has on screen is, at every       *)
(* moment, what that asset holds at that moment. No list of listeners, no  *)
(* binding and no rebuilding shows through.                                *)
(***************************************************************************)
CONSTANTS
    Viewers,   \* whatever shows an asset
    Undoers,   \* the viewers whose choice of asset an undo takes back
    Assets,
    Parts,     \* what an asset may hold
    None       \* no asset

VARIABLES
    content,   \* the parts each asset holds
    follows,   \* the asset each viewer follows
    before,    \* the one an undo brings back
    state,     \* "none", "hidden", "shown" or "gone", of each viewer
    screen     \* what each viewer has on screen

viewVars == <<content, follows, before, state, screen>>

\* What is on screen when the assets hold c, the viewers follow f and are in state s.
Drawn(c, f, s) ==
    [v \in Viewers |-> IF s[v] = "shown" /\ f[v] # None THEN c[f[v]] ELSE {}]

Init ==
    /\ content \in [Assets -> SUBSET Parts]
    /\ follows = [v \in Viewers |-> None]
    /\ before = [v \in Undoers |-> None]
    /\ state = [v \in Viewers |-> "none"]
    /\ screen = [v \in Viewers |-> {}]

\* Someone changes an asset.
Edit(a, parts) ==
    /\ content' = [content EXCEPT ![a] = parts]
    /\ UNCHANGED <<follows, before, state>>

\* A viewer comes into being and follows f; one that can be undone has no other to
\* go back to.
Open(v, f) ==
    /\ state[v] = "none"
    /\ \/ v \in Undoers /\ state' = [state EXCEPT ![v] = "hidden"]
       \/ v \notin Undoers /\ state' = [state EXCEPT ![v] = "shown"]
    /\ follows' = [follows EXCEPT ![v] = f]
    /\ before' = [u \in Undoers |-> IF u = v THEN f ELSE before[u]]
    /\ UNCHANGED content

\* It is told to follow another asset, or the one it follows, and an undo brings
\* back the one of before.
Follow(v, f) ==
    /\ state[v] \in {"hidden", "shown"}
    /\ follows' = [follows EXCEPT ![v] = f]
    /\ before' = [before EXCEPT ![v] = follows[v]]
    /\ UNCHANGED <<content, state>>

\* It is shown or hidden, as often as the level likes; once gone it stays gone.
Show(v) == state[v] = "hidden" /\ state' = [state EXCEPT ![v] = "shown"]
Hide(v) == state[v] = "shown" /\ state' = [state EXCEPT ![v] = "hidden"]
Close(v) == state[v] \in {"hidden", "shown"} /\ state' = [state EXCEPT ![v] = "gone"]

Next ==
    /\ \/ \E a \in Assets, parts \in SUBSET Parts : Edit(a, parts)
       \/ \E v \in Viewers, f \in Assets \cup {None} : Open(v, f)
       \/ \E v \in Undoers, f \in Assets \cup {None} : Follow(v, f)
       \/ \E v \in Undoers : Follow(v, before[v])
       \/ /\ \E v \in Viewers : Show(v) \/ Hide(v) \/ Close(v)
          /\ UNCHANGED <<content, follows, before>>
    /\ screen' = Drawn(content', follows', state')

Spec == Init /\ [][Next]_viewVars

===============================================================================
