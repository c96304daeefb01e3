---------------------------- MODULE ActorDirectory ----------------------------
(***************************************************************************)
(* What the level commands promise to a tool, with no worlds, no engine    *)
(* names and no compiling: a directory of the actors it may speak of.      *)
(*                                                                         *)
(* Names are the only handles. A name is given to one actor, is gone when  *)
(* that actor is deleted, and nothing else a command, a play session or    *)
(* the collector does changes an entry, except that a Blueprint that gets  *)
(* a component gives it to all of its actors in the same step.             *)
(***************************************************************************)
CONSTANTS
    Names,       \* names an actor may have
    Blueprints,  \* paths of Blueprints
    Plain,       \* the class of an actor that is no Blueprint's
    Components   \* names of components

VARIABLES
    editor,   \* "up" or "down"
    designs,  \* components of each Blueprint that exists
    entries   \* what is known of the living actors, by name

vars == <<editor, designs, entries>>

Listed == {e.name : e \in entries}

Empty ==
    /\ designs = [b \in {} |-> {}]
    /\ entries = {}

Init == editor = "up" /\ Empty

-----------------------------------------------------------------------------
\* An actor appears under a name no living actor has. A Blueprint's actor has what
\* its Blueprint has.
Spawn(name, class, parts) ==
    /\ editor = "up"
    /\ name \notin Listed
    /\ class # Plain => class \in DOMAIN designs /\ parts = designs[class]
    /\ entries' = entries \cup {[name |-> name, class |-> class, parts |-> parts]}
    /\ UNCHANGED <<editor, designs>>

\* The actor of that name is gone, and no other.
Delete(name) ==
    /\ editor = "up"
    /\ name \in Listed
    /\ entries' = {e \in entries : e.name # name}
    /\ UNCHANGED <<editor, designs>>

Create(b) ==
    /\ editor = "up"
    /\ b \notin DOMAIN designs
    /\ designs' = [x \in DOMAIN designs \cup {b} |-> IF x = b THEN {} ELSE designs[x]]
    /\ UNCHANGED <<editor, entries>>

\* A Blueprint gets one component more, and each of its actors with it.
Extend(b, c) ==
    /\ editor = "up"
    /\ b \in DOMAIN designs
    /\ c \notin designs[b]
    /\ designs' = [designs EXCEPT ![b] = @ \cup {c}]
    /\ entries' = {IF e.class = b
                     THEN [name |-> e.name, class |-> b, parts |-> designs[b] \cup {c}]
                     ELSE e : e \in entries}
    /\ UNCHANGED editor

\* The engine ends the editor; what it held is lost when it is started again.
Fall ==
    /\ editor = "up"
    /\ editor' = "down"
    /\ UNCHANGED <<designs, entries>>

Restart ==
    /\ editor = "down"
    /\ editor' = "up"
    /\ Empty'

Next ==
    \/ \E name \in Names, class \in Blueprints \cup {Plain}, parts \in SUBSET Components :
           Spawn(name, class, parts)
    \/ \E name \in Names : Delete(name)
    \/ \E b \in Blueprints : Create(b)
    \/ \E b \in Blueprints, c \in Components : Extend(b, c)
    \/ Fall \/ Restart

Spec == Init /\ [][Next]_vars

=============================================================================
