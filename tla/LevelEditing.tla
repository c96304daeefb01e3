----------------------------- MODULE LevelEditing -----------------------------
(***************************************************************************)
(* The actors of a level and the Blueprints they are made from, as the     *)
(* editor and Blueprint commands of the MCP server edit them: spawn_actor, *)
(* spawn_blueprint_actor, delete_actor, create_blueprint,                  *)
(* add_component_to_blueprint and compile_blueprint.                       *)
(*                                                                         *)
(* Tools know actors by name. The commands look for a name in two places:  *)
(* the level being edited, or GWorld, which during a play session may be   *)
(* the copy that is played (a command's task can run inside its tick). A   *)
(* destroyed actor keeps its name until the engine collects it, and the    *)
(* engine stops the editor when an actor is to get a name that is taken.   *)
(*                                                                         *)
(* Left out: transforms, materials and the values of templates, which are  *)
(* written where the lookups here lead; the commands that only read;       *)
(* components that are not static meshes.                                  *)
(***************************************************************************)
EXTENDS Naturals, FiniteSets

CONSTANTS
    ToolNames,    \* names and labels tools choose
    EngineNames,  \* names the engine makes
    NoName,
    Blueprints,   \* paths of Blueprints
    Plain,        \* the class of an actor that is no Blueprint's
    Components,   \* names of components
    MaxActors     \* bound: actors made in a level

ASSUME ConstantsAssumption ==
    /\ ToolNames \cap EngineNames = {}
    /\ NoName \notin ToolNames \cup EngineNames
    /\ Plain \notin Blueprints
    /\ MaxActors \in Nat

VARIABLES
    editor,   \* "up", or "down" after a fatal error
    fatal,    \* name the engine stopped the editor over (history)
    script,   \* SimpleConstructionScript: components of the Blueprints that exist
    made,     \* actors made in the level so far
    actors,   \* actors of the level that is edited
    playing,  \* a play session is on
    copies,   \* actors of the world that is played
    taken,    \* names of destroyed actors of the level, not yet collected
    told      \* name a spawn command has answered with for each actor (history)

run   == <<editor, fatal>>
level == <<made, actors, taken, told>>
play  == <<playing, copies>>
vars  == <<run, script, level, play>>

Names == ToolNames \cup EngineNames
Actor == [id : 1..MaxActors, name : Names, label : Names,
          class : Blueprints \cup {Plain}, parts : SUBSET Components]

(***************************************************************************)
(* Type invariant.                                                         *)
(***************************************************************************)
TypeOK ==
    /\ editor \in {"up", "down"}
    /\ fatal \in Names \cup {NoName}
    /\ \E existing \in SUBSET Blueprints : script \in [existing -> SUBSET Components]
    /\ made \in 0..MaxActors
    /\ actors \subseteq Actor
    /\ \A a \in actors : a.id <= made /\ (a.class # Plain => a.name \in EngineNames)
    /\ playing \in BOOLEAN
    /\ copies \subseteq Actor
    /\ taken \subseteq Names
    /\ told \in [1..MaxActors -> Names \cup {NoName}]

NoActorTold == [i \in 1..MaxActors |-> NoName]
NoBlueprint == [b \in {} |-> {}]

Init ==
    /\ editor = "up"
    /\ fatal = NoName
    /\ script = NoBlueprint
    /\ made = 0
    /\ actors = {}
    /\ playing = FALSE
    /\ copies = {}
    /\ taken = {}
    /\ told = NoActorTold

-----------------------------------------------------------------------------
(***************************************************************************)
(* Lookups and the engine's naming.                                        *)
(***************************************************************************)

\* What GetAllActorsOfClass finds in a world under a name.
ByName(world, name) == {a \in world : a.name = name}

\* The worlds GWorld may be when a command runs.
GWorlds == IF playing THEN {actors, copies} ELSE {actors}

\* Names of objects in the level.
Used == {a.name : a \in actors} \cup taken

\* Mutant of Exists: looked for in GWorld.
ExistsInGWorld(name) == ByName(IF playing THEN copies ELSE actors, name) # {}

\* spawn_actor looks for the name among the actors of the level it spawns into.
Exists(name) == ByName(actors, name) # {}

\* Mutant of Spawn: the reply gives the label.
SpawnTellLabel(name, label, class, parts) ==
    /\ made' = made + 1
    /\ actors' = actors \cup {[id |-> made + 1, name |-> name, label |-> label,
                               class |-> class, parts |-> parts]}
    /\ told' = [told EXCEPT ![made + 1] = label]
    /\ UNCHANGED taken

\* An actor is made; the reply gives its GetName().
Spawn(name, label, class, parts) ==
    /\ made' = made + 1
    /\ actors' = actors \cup {[id |-> made + 1, name |-> name, label |-> label,
                               class |-> class, parts |-> parts]}
    /\ told' = [told EXCEPT ![made + 1] = name]
    /\ UNCHANGED taken

-----------------------------------------------------------------------------
(***************************************************************************)
(* The commands.                                                           *)
(***************************************************************************)

\* spawn_actor: refused if the level has an actor of that name. The spawn asks for
\* exactly that name. A mesh actor has a component, a light or a camera has none.
SpawnActor(name) ==
    /\ editor = "up"
    /\ made < MaxActors
    /\ ~Exists(name)
    /\ name \notin Used
    /\ \E parts \in {{}} \cup {{c} : c \in Components} : Spawn(name, name, Plain, parts)
    /\ UNCHANGED <<run, script, play>>

\* The name is taken in the level after all, and the spawn did not ask for another:
\* Required_Fatal, the default of FActorSpawnParameters.
SpawnActorFatal(name) ==
    /\ editor = "up"
    /\ ~Exists(name)
    /\ name \in Used
    /\ editor' = "down"
    /\ fatal' = name
    /\ UNCHANGED <<script, level, play>>

\* Mutant of SpawnBlueprintActor: the requested name is the actor's.
SpawnBlueprintActorNamed(b, label) ==
    /\ editor = "up"
    /\ made < MaxActors
    /\ b \in DOMAIN script
    /\ label \notin Used
    /\ Spawn(label, label, b, script[b])
    /\ UNCHANGED <<run, script, play>>

\* spawn_blueprint_actor: into the level being edited, under a name the engine
\* makes; the requested name becomes the label.
SpawnBlueprintActor(b, label) ==
    /\ editor = "up"
    /\ made < MaxActors
    /\ b \in DOMAIN script
    /\ \E name \in EngineNames \ Used : Spawn(name, label, b, script[b])
    /\ UNCHANGED <<run, script, play>>

\* delete_actor: the actor of that name in GWorld. Its name stays taken.
DeleteActor(name) ==
    /\ editor = "up"
    /\ \E world \in GWorlds : \E a \in ByName(world, name) :
        \/ /\ world = actors
           /\ actors' = actors \ {a}
           /\ taken' = taken \cup {name}
           /\ UNCHANGED copies
        \/ /\ playing
           /\ world = copies
           /\ copies' = copies \ {a}
           /\ UNCHANGED <<actors, taken>>
    /\ UNCHANGED <<run, script, made, told, playing>>

\* Mutant of CreateBlueprint: made again over the asset that exists.
CreateBlueprintAgain(b) ==
    /\ editor = "up"
    /\ script' = [x \in DOMAIN script \cup {b} |-> IF x = b THEN {} ELSE script[x]]
    /\ UNCHANGED <<run, level, play>>

\* create_blueprint: refused if the asset exists.
CreateBlueprint(b) ==
    /\ editor = "up"
    /\ b \notin DOMAIN script
    /\ script' = [x \in DOMAIN script \cup {b} |-> IF x = b THEN {} ELSE script[x]]
    /\ UNCHANGED <<run, level, play>>

\* Actors of a Blueprint are made anew from its class, in every world.
Reinstanced(world, b, parts) ==
    {IF a.class = b THEN [a EXCEPT !.parts = parts] ELSE a : a \in world}

\* CompileBlueprint, with the components the construction script has now.
Compiled(b, parts) ==
    /\ actors' = Reinstanced(actors, b, parts)
    /\ copies' = Reinstanced(copies, b, parts)

\* Mutant of AddComponent: not compiled.
AddComponentOnly(b, wanted) ==
    /\ editor = "up"
    /\ b \in DOMAIN script
    /\ \E name \in Components \ script[b] :
        /\ wanted \notin script[b] => name = wanted
        /\ script' = [script EXCEPT ![b] = @ \cup {name}]
    /\ UNCHANGED <<run, level, play>>

\* add_component_to_blueprint: CreateNode takes another name when the wanted one
\* names a component already. Then the Blueprint is compiled.
AddComponent(b, wanted) ==
    /\ editor = "up"
    /\ b \in DOMAIN script
    /\ \E name \in Components \ script[b] :
        /\ wanted \notin script[b] => name = wanted
        /\ script' = [script EXCEPT ![b] = @ \cup {name}]
        /\ Compiled(b, script[b] \cup {name})
    /\ UNCHANGED <<run, made, taken, told, playing>>

\* compile_blueprint.
CompileBlueprint(b) ==
    /\ editor = "up"
    /\ b \in DOMAIN script
    /\ Compiled(b, script[b])
    /\ UNCHANGED <<run, script, made, taken, told, playing>>

-----------------------------------------------------------------------------
(***************************************************************************)
(* The user and the engine.                                                *)
(***************************************************************************)

\* The level is copied, names included, and played.
BeginPlay ==
    /\ editor = "up"
    /\ ~playing
    /\ playing' = TRUE
    /\ copies' = actors
    /\ UNCHANGED <<run, script, level>>

EndPlay ==
    /\ editor = "up"
    /\ playing
    /\ playing' = FALSE
    /\ copies' = {}
    /\ UNCHANGED <<run, script, level>>

\* Destroyed actors are collected.
CollectGarbage ==
    /\ editor = "up"
    /\ taken # {}
    /\ taken' = {}
    /\ UNCHANGED <<run, script, made, actors, told, play>>

\* The user starts the editor again. Nothing the commands did was saved.
Restart ==
    /\ editor = "down"
    /\ editor' = "up"
    /\ fatal' = NoName
    /\ script' = NoBlueprint
    /\ made' = 0
    /\ actors' = {}
    /\ playing' = FALSE
    /\ copies' = {}
    /\ taken' = {}
    /\ told' = NoActorTold

Next ==
    \/ \E name \in Names : SpawnActor(name) \/ SpawnActorFatal(name) \/ DeleteActor(name)
    \/ \E b \in Blueprints, label \in ToolNames : SpawnBlueprintActor(b, label)
    \/ \E b \in Blueprints : CreateBlueprint(b) \/ CompileBlueprint(b)
    \/ \E b \in Blueprints, c \in Components : AddComponent(b, c)
    \/ BeginPlay \/ EndPlay \/ CollectGarbage \/ Restart

Spec == Init /\ [][Next]_vars

-----------------------------------------------------------------------------
(***************************************************************************)
(* Safety.                                                                 *)
(***************************************************************************)

\* The name a spawn command answered with leads to that actor as long as it lives:
\* whatever tools ask for, whatever the engine calls the actors of Blueprints, and
\* whatever is destroyed, collected and spawned again meanwhile, the name has not
\* passed to another actor of the level.
NamesReachTheirActor ==
    \A a \in actors : ByName(actors, told[a.id]) = {a}

\* Actors of a Blueprint, played ones too, have the components that its script has
\* when the command that changed it returns.
ActorsHaveTheirComponents ==
    \A a \in actors \cup copies : a.class # Plain => a.parts = script[a.class]

\* The lookup of spawn_actor and the engine's look at all objects of the level
\* disagree over destroyed actors only. When the editor ends, it ends over the name of
\* an actor that was made and destroyed and is not collected yet, and over no name a
\* living actor has, whichever world is played and whatever was spawned since.
DiesOfDestroyedNamesOnly ==
    editor = "down" =>
        /\ ByName(actors, fatal) = {}
        /\ fatal \in taken
        /\ \E i \in 1..made : told[i] = fatal /\ \A a \in actors : a.id # i

-----------------------------------------------------------------------------
(***************************************************************************)
(* What a tool sees of the level: under the name each living actor was     *)
(* announced with, its class and its components.                           *)
(***************************************************************************)
Directory == {[name |-> told[a.id], class |-> a.class, parts |-> a.parts] : a \in actors}

View == INSTANCE ActorDirectory WITH designs <- script, entries <- Directory

\* Through the names it was told, a tool sees no more than ActorDirectory allows: an
\* entry comes with a spawn, goes with the deletion of that name and changes with its
\* Blueprint only, all of that Blueprint's entries at once; compiling, playing, the
\* deletion of a played copy and the collector change nothing it sees.
ImplementsDirectory == View!Spec

=============================================================================
