-------------------------- MODULE LevelEditingProofs --------------------------
(***************************************************************************)
(* Proofs about LevelEditing: for any names, Blueprints, components and    *)
(* number of actors.                                                       *)
(***************************************************************************)
EXTENDS LevelEditing, TLAPS

\* Numbers and names tell the actors of the level apart, and the reply to each
\* spawn gave the name its actor still has.
Identity ==
    /\ \A a, x \in actors : a.id = x.id \/ a.name = x.name => a = x
    /\ \A a \in actors : told[a.id] = a.name

\* Actors are made from Blueprints that exist, with the components these have.
MadeFromScripts ==
    \A a \in actors \cup copies :
        a.class # Plain => a.class \in DOMAIN script /\ a.parts = script[a.class]

\* A name that a destroyed actor still has was that of an actor that was made, and is
\* no living actor's: no spawn gets it before it is collected.
NamesOfTheDead ==
    \A name \in taken :
        /\ \A a \in actors : a.name # name
        /\ \E i \in 1..made : told[i] = name /\ \A a \in actors : a.id # i

IInv ==
    /\ TypeOK
    /\ Identity
    /\ MadeFromScripts
    /\ NamesOfTheDead
    /\ DiesOfDestroyedNamesOnly

-----------------------------------------------------------------------------
\* Actors that are made anew keep all but their components.
LEMMA ReinstancedKeeps ==
    ASSUME NEW world \in SUBSET Actor, NEW b \in Blueprints, NEW parts \in SUBSET Components,
           NEW x \in Reinstanced(world, b, parts)
    PROVE  /\ x \in Actor
           /\ \E a \in world :
                /\ x.id = a.id /\ x.name = a.name /\ x.label = a.label /\ x.class = a.class
                /\ x.parts = IF a.class = b THEN parts ELSE a.parts
                /\ x = IF a.class = b THEN [a EXCEPT !.parts = parts] ELSE a
<1>1. PICK a \in world : x = IF a.class = b THEN [a EXCEPT !.parts = parts] ELSE a
    BY DEF Reinstanced
<1>2. a \in Actor
    OBVIOUS
<1>3. CASE a.class = b
    BY <1>1, <1>2, <1>3 DEF Actor
<1>4. CASE a.class # b
    BY <1>1, <1>2, <1>4
<1> QED BY <1>3, <1>4

LEMMA InitIInv == Init => IInv
<1> SUFFICES ASSUME Init PROVE IInv
    OBVIOUS
<1>1. script \in [{} -> SUBSET Components] /\ {} \in SUBSET Blueprints
    BY DEF Init, NoBlueprint
<1>2. TypeOK
  <2>1. playing \in BOOLEAN
      BY Zenon DEF Init
  <2>2. told \in [1..MaxActors -> Names \cup {NoName}]
      BY DEF Init, NoActorTold
  <2>3. made \in 0..MaxActors
      BY ConstantsAssumption DEF Init, ConstantsAssumption
  <2> QED BY <1>1, <2>1, <2>2, <2>3 DEF Init, TypeOK
<1>3. Identity /\ MadeFromScripts /\ NamesOfTheDead /\ DiesOfDestroyedNamesOnly
    BY DEF Init, Identity, MadeFromScripts, NamesOfTheDead, DiesOfDestroyedNamesOnly
<1> QED BY <1>2, <1>3 DEF IInv

\* Every actor that is made gets a number and a name no other has.
LEMMA SpawnIInv ==
    ASSUME IInv, NEW name \in Names, NEW label \in Names, NEW class \in Blueprints \cup {Plain},
           NEW parts \in SUBSET Components, editor = "up", made < MaxActors, name \notin Used,
           Spawn(name, label, class, parts), UNCHANGED <<editor, fatal, script, playing, copies>>,
           class # Plain => name \in EngineNames /\ class \in DOMAIN script /\ parts = script[class]
    PROVE  IInv'
<1> DEFINE new == [id |-> made + 1, name |-> name, label |-> label, class |-> class, parts |-> parts]
<1>1. /\ MaxActors \in Nat /\ made \in Nat /\ made + 1 \in 1..MaxActors
      /\ actors' = actors \cup {new} /\ made' = made + 1
      /\ told' = [told EXCEPT ![made + 1] = name] /\ taken' = taken
    BY ConstantsAssumption DEF ConstantsAssumption, IInv, TypeOK, Spawn
<1>2. new \in Actor /\ new.id = made + 1 /\ new.name = name /\ new.class = class /\ new.parts = parts
    BY <1>1 DEF Actor
<1> HIDE DEF new
<1>3. \A a \in actors : a.id \in Nat /\ a.id <= made /\ a.id \in 1..MaxActors /\ a.name # name
  <2>1. \A a \in actors : a \in Actor /\ a.id <= made
      BY DEF IInv, TypeOK
  <2> QED BY <2>1 DEF Actor, Used
<1>4. TypeOK'
    BY <1>1, <1>2, <1>3 DEF IInv, TypeOK
<1>5. Identity'
  <2>1. told'[made + 1] = name /\ \A a \in actors : told'[a.id] = told[a.id]
      BY <1>1, <1>3 DEF IInv, TypeOK
  <2>2. \A a \in actors : a.id # made + 1
      BY <1>1, <1>3
  <2> QED BY <1>1, <1>2, <1>3, <2>1, <2>2 DEF IInv, Identity
<1>6. MadeFromScripts'
    BY <1>1, <1>2 DEF IInv, MadeFromScripts
<1>7. NamesOfTheDead'
  <2> SUFFICES ASSUME NEW dead \in taken
               PROVE  /\ \A a \in actors' : a.name # dead
                      /\ \E i \in 1..made' : told'[i] = dead /\ \A a \in actors' : a.id # i
      BY <1>1 DEF NamesOfTheDead
  <2>1. PICK i \in 1..made : told[i] = dead /\ \A a \in actors : a.id # i
      BY DEF IInv, NamesOfTheDead
  <2>2. dead # name /\ \A a \in actors : a.name # dead
      BY DEF Used, IInv, NamesOfTheDead
  <2>3. i \in 1..made' /\ i # made + 1 /\ told'[i] = told[i]
      BY <1>1 DEF IInv, TypeOK
  <2> QED BY <1>1, <1>2, <2>1, <2>2, <2>3
<1>8. DiesOfDestroyedNamesOnly'
    BY DEF DiesOfDestroyedNamesOnly
<1> QED BY <1>4, <1>5, <1>6, <1>7, <1>8 DEF IInv

\* A compile leaves everyone who and where they are.
LEMMA CompiledIInv ==
    ASSUME IInv, editor = "up", NEW b \in Blueprints, b \in DOMAIN script',
           NEW parts \in SUBSET Components, Compiled(b, parts), parts = script'[b],
           \E existing \in SUBSET Blueprints : script' \in [existing -> SUBSET Components],
           \A x \in DOMAIN script : x \in DOMAIN script' /\ (x # b => script'[x] = script[x]),
           UNCHANGED <<editor, fatal, made, taken, told, playing>>
    PROVE  IInv'
<1>1. actors \in SUBSET Actor /\ copies \in SUBSET Actor
    BY DEF IInv, TypeOK
<1>2. actors' = Reinstanced(actors, b, parts) /\ copies' = Reinstanced(copies, b, parts)
    BY DEF Compiled
<1>3. \A x \in actors' \cup copies' : x \in Actor
    BY <1>1, <1>2, ReinstancedKeeps
<1>4. \A x \in actors' : \E a \in actors :
        /\ x.id = a.id /\ x.name = a.name /\ x.class = a.class
        /\ x = IF a.class = b THEN [a EXCEPT !.parts = parts] ELSE a
    BY <1>1, <1>2, ReinstancedKeeps
<1>5. \A x \in actors' \cup copies' : \E a \in actors \cup copies :
        x.class = a.class /\ x.parts = IF a.class = b THEN parts ELSE a.parts
  <2>1. ASSUME NEW x \in actors'
        PROVE  \E a \in actors : x.class = a.class /\ x.parts = IF a.class = b THEN parts ELSE a.parts
    <3>1. x \in Reinstanced(actors, b, parts)
        BY <1>2
    <3>2. PICK a \in actors :
            /\ x.id = a.id /\ x.name = a.name /\ x.label = a.label /\ x.class = a.class
            /\ x.parts = IF a.class = b THEN parts ELSE a.parts
            /\ x = IF a.class = b THEN [a EXCEPT !.parts = parts] ELSE a
        BY <1>1, <3>1, ReinstancedKeeps
    <3> QED BY <3>2
  <2>2. ASSUME NEW x \in copies'
        PROVE  \E a \in copies : x.class = a.class /\ x.parts = IF a.class = b THEN parts ELSE a.parts
    <3>1. x \in Reinstanced(copies, b, parts)
        BY <1>2
    <3>2. PICK a \in copies :
            /\ x.id = a.id /\ x.name = a.name /\ x.label = a.label /\ x.class = a.class
            /\ x.parts = IF a.class = b THEN parts ELSE a.parts
            /\ x = IF a.class = b THEN [a EXCEPT !.parts = parts] ELSE a
        BY <1>1, <3>1, ReinstancedKeeps
    <3> QED BY <3>2
  <2> QED BY <2>1, <2>2
<1>6. TypeOK'
    BY <1>3, <1>4 DEF IInv, TypeOK
<1>7. Identity'
    BY <1>4 DEF IInv, Identity
<1>8. MadeFromScripts'
    BY <1>5 DEF IInv, MadeFromScripts
<1>9. NamesOfTheDead'
    BY <1>4 DEF IInv, NamesOfTheDead
<1>10. DiesOfDestroyedNamesOnly'
    BY DEF DiesOfDestroyedNamesOnly
<1> QED BY <1>6, <1>7, <1>8, <1>9, <1>10 DEF IInv

LEMMA SpawnActorIInv == ASSUME NEW name \in Names PROVE IInv /\ SpawnActor(name) => IInv'
<1> SUFFICES ASSUME IInv, SpawnActor(name) PROVE IInv'
    OBVIOUS
<1>1. PICK parts \in {{}} \cup {{c} : c \in Components} : Spawn(name, name, Plain, parts)
    BY DEF SpawnActor, run
<1>2. parts \in SUBSET Components
    BY <1>1
<1>3. /\ editor = "up" /\ made < MaxActors /\ name \notin Used
      /\ UNCHANGED <<editor, fatal, script, playing, copies>>
    BY DEF SpawnActor, run, play
<1> QED BY <1>1, <1>2, <1>3, SpawnIInv

LEMMA SpawnBlueprintActorIInv ==
    ASSUME NEW b \in Blueprints, NEW label \in ToolNames
    PROVE  IInv /\ SpawnBlueprintActor(b, label) => IInv'
<1> SUFFICES ASSUME IInv, SpawnBlueprintActor(b, label) PROVE IInv'
    OBVIOUS
<1>1. PICK name \in EngineNames \ Used : Spawn(name, label, b, script[b])
    BY DEF SpawnBlueprintActor
<1>2. /\ name \in Names /\ label \in Names /\ b \in DOMAIN script
      /\ editor = "up" /\ made < MaxActors
      /\ UNCHANGED <<editor, fatal, script, playing, copies>>
    BY DEF SpawnBlueprintActor, run, play, Names
<1>3. script[b] \in SUBSET Components
    BY <1>2 DEF IInv, TypeOK
<1> QED BY <1>1, <1>2, <1>3, SpawnIInv

LEMMA DeleteActorIInv == ASSUME NEW name \in Names PROVE IInv /\ DeleteActor(name) => IInv'
<1> SUFFICES ASSUME IInv, DeleteActor(name) PROVE IInv'
    OBVIOUS
<1>1. /\ actors' \subseteq actors /\ copies' \subseteq copies
      /\ taken' \subseteq taken \cup {name}
      /\ editor = "up" /\ UNCHANGED <<editor, fatal, script, made, told, playing>>
    BY DEF DeleteActor, run
<1>2. TypeOK'
    BY <1>1 DEF IInv, TypeOK
<1>3. NamesOfTheDead'
  <2>1. CASE taken' = taken
      BY <1>1, <2>1 DEF IInv, NamesOfTheDead
  <2>2. CASE \E a \in ByName(actors, name) : actors' = actors \ {a} /\ taken' = taken \cup {name}
    <3>1. PICK a \in actors : a.name = name /\ actors' = actors \ {a} /\ taken' = taken \cup {name}
        BY <2>2 DEF ByName
    <3>2. a.id \in 1..made /\ told[a.id] = name
      <4>1. a \in Actor /\ a.id <= made /\ made \in Nat /\ MaxActors \in Nat
          BY ConstantsAssumption DEF ConstantsAssumption, IInv, TypeOK
      <4> QED BY <3>1, <4>1 DEF Actor, IInv, Identity
    <3>3. \A x \in actors' : x.id # a.id /\ x.name # name
        BY <3>1 DEF IInv, Identity
    <3> QED BY <1>1, <3>1, <3>2, <3>3 DEF IInv, NamesOfTheDead
  <2> QED BY <2>1, <2>2 DEF DeleteActor
<1>4. DiesOfDestroyedNamesOnly'
    BY <1>1 DEF DiesOfDestroyedNamesOnly
<1> QED BY <1>1, <1>2, <1>3, <1>4 DEF IInv, Identity, MadeFromScripts

LEMMA CreateBlueprintIInv == ASSUME NEW b \in Blueprints PROVE IInv /\ CreateBlueprint(b) => IInv'
<1> SUFFICES ASSUME IInv, CreateBlueprint(b) PROVE IInv'
    OBVIOUS
<1>1. /\ b \notin DOMAIN script
      /\ script' = [x \in DOMAIN script \cup {b} |-> IF x = b THEN {} ELSE script[x]]
      /\ UNCHANGED <<editor, fatal, made, actors, taken, told, playing, copies>>
    BY DEF CreateBlueprint, run, level, play
<1>2. DOMAIN script \subseteq Blueprints /\ script \in [DOMAIN script -> SUBSET Components]
    BY DEF IInv, TypeOK
<1>3. DOMAIN script' \subseteq Blueprints /\ script' \in [DOMAIN script' -> SUBSET Components]
    BY <1>1, <1>2
<1>4. TypeOK'
    BY <1>1, <1>3 DEF IInv, TypeOK
<1>5. NamesOfTheDead' /\ DiesOfDestroyedNamesOnly'
    BY <1>1 DEF IInv, NamesOfTheDead, DiesOfDestroyedNamesOnly, ByName
<1> QED BY <1>1, <1>4, <1>5 DEF IInv, Identity, MadeFromScripts

LEMMA AddComponentIInv ==
    ASSUME NEW b \in Blueprints, NEW wanted \in Components
    PROVE  IInv /\ AddComponent(b, wanted) => IInv'
<1> SUFFICES ASSUME IInv, AddComponent(b, wanted) PROVE IInv'
    OBVIOUS
<1>1. PICK name \in Components \ script[b] :
        /\ script' = [script EXCEPT ![b] = @ \cup {name}]
        /\ Compiled(b, script[b] \cup {name})
    BY DEF AddComponent
<1>2. editor = "up" /\ b \in DOMAIN script /\ UNCHANGED <<editor, fatal, made, taken, told, playing>>
    BY DEF AddComponent, run
<1>3. DOMAIN script \subseteq Blueprints /\ script \in [DOMAIN script -> SUBSET Components]
    BY DEF IInv, TypeOK
<1>4. /\ script' \in [DOMAIN script -> SUBSET Components]
      /\ script'[b] = script[b] \cup {name} /\ script[b] \cup {name} \in SUBSET Components
      /\ \A x \in DOMAIN script : x \in DOMAIN script' /\ (x # b => script'[x] = script[x])
    BY <1>1, <1>2, <1>3
<1> QED BY <1>1, <1>2, <1>3, <1>4, CompiledIInv

LEMMA CompileBlueprintIInv == ASSUME NEW b \in Blueprints PROVE IInv /\ CompileBlueprint(b) => IInv'
<1> SUFFICES ASSUME IInv, CompileBlueprint(b) PROVE IInv'
    OBVIOUS
<1>1. /\ editor = "up" /\ b \in DOMAIN script /\ Compiled(b, script[b])
      /\ UNCHANGED <<editor, fatal, script, made, taken, told, playing>>
    BY DEF CompileBlueprint, run
<1>2. /\ \E existing \in SUBSET Blueprints : script' \in [existing -> SUBSET Components]
      /\ script[b] \in SUBSET Components
    BY <1>1 DEF IInv, TypeOK
<1> QED BY <1>1, <1>2, CompiledIInv

LEMMA EditorIInv == IInv /\ (BeginPlay \/ EndPlay \/ CollectGarbage) => IInv'
<1> SUFFICES ASSUME IInv, BeginPlay \/ EndPlay \/ CollectGarbage PROVE IInv'
    OBVIOUS
<1>1. /\ editor = "up" /\ UNCHANGED <<editor, fatal, script, made, actors, told>>
      /\ copies' \in {copies, actors, {}} /\ taken' \in {taken, {}} /\ playing' \in BOOLEAN
    BY DEF BeginPlay, EndPlay, CollectGarbage, run, level, play, IInv, TypeOK
<1>2. TypeOK'
    BY <1>1 DEF IInv, TypeOK
<1>3. NamesOfTheDead' /\ DiesOfDestroyedNamesOnly'
    BY <1>1 DEF IInv, NamesOfTheDead, DiesOfDestroyedNamesOnly
<1> QED BY <1>1, <1>2, <1>3 DEF IInv, Identity, MadeFromScripts

\* The lookup found no living actor of the name, so it is that of a destroyed one.
LEMMA SpawnActorFatalIInv == ASSUME NEW name \in Names PROVE IInv /\ SpawnActorFatal(name) => IInv'
<1> SUFFICES ASSUME IInv, SpawnActorFatal(name) PROVE IInv'
    OBVIOUS
<1>1. /\ editor' = "down" /\ fatal' = name
      /\ UNCHANGED <<script, made, actors, taken, told, playing, copies>>
    BY DEF SpawnActorFatal, level, play
<1>2. TypeOK'
    BY <1>1 DEF IInv, TypeOK
<1>3. ByName(actors, name) = {} /\ name \in taken
    BY DEF SpawnActorFatal, Exists, ByName, Used
<1>4. DiesOfDestroyedNamesOnly'
    BY <1>1, <1>3 DEF IInv, NamesOfTheDead, DiesOfDestroyedNamesOnly, ByName
<1> QED BY <1>1, <1>2, <1>4 DEF IInv, Identity, MadeFromScripts, NamesOfTheDead

LEMMA RestartIInv == Restart => IInv'
<1> SUFFICES ASSUME Restart PROVE IInv'
    OBVIOUS
<1>1. script' \in [{} -> SUBSET Components] /\ {} \in SUBSET Blueprints
    BY DEF Restart, NoBlueprint
<1>2. TypeOK'
  <2>1. playing' \in BOOLEAN
      BY Zenon DEF Restart
  <2>2. told' \in [1..MaxActors -> Names \cup {NoName}]
      BY DEF Restart, NoActorTold
  <2>3. made' \in 0..MaxActors
      BY ConstantsAssumption DEF Restart, ConstantsAssumption
  <2> QED BY <1>1, <2>1, <2>2, <2>3 DEF Restart, TypeOK
<1>3. Identity' /\ MadeFromScripts' /\ NamesOfTheDead' /\ DiesOfDestroyedNamesOnly'
    BY DEF Restart, Identity, MadeFromScripts, NamesOfTheDead, DiesOfDestroyedNamesOnly
<1> QED BY <1>2, <1>3 DEF IInv

LEMMA NextIInv == IInv /\ [Next]_vars => IInv'
<1> SUFFICES ASSUME IInv, [Next]_vars PROVE IInv'
    OBVIOUS
<1>1. CASE UNCHANGED vars
    BY <1>1 DEF vars, run, level, play, IInv, TypeOK, Identity, MadeFromScripts, NamesOfTheDead,
                DiesOfDestroyedNamesOnly, ByName
<1>2. CASE \E name \in Names : SpawnActor(name) \/ SpawnActorFatal(name) \/ DeleteActor(name)
    BY <1>2, SpawnActorIInv, SpawnActorFatalIInv, DeleteActorIInv
<1>3. CASE \E b \in Blueprints, label \in ToolNames : SpawnBlueprintActor(b, label)
    BY <1>3, SpawnBlueprintActorIInv
<1>4. CASE \E b \in Blueprints : CreateBlueprint(b) \/ CompileBlueprint(b)
    BY <1>4, CreateBlueprintIInv, CompileBlueprintIInv
<1>5. CASE \E b \in Blueprints, c \in Components : AddComponent(b, c)
    BY <1>5, AddComponentIInv
<1> QED BY <1>1, <1>2, <1>3, <1>4, <1>5, EditorIInv, RestartIInv DEF Next

-----------------------------------------------------------------------------
(***************************************************************************)
(* The theorems.                                                           *)
(***************************************************************************)

\* The invariant holds throughout every behaviour.
THEOREM Inductive == Spec => []IInv
<1>1. Init => IInv
    BY InitIInv
<1>2. IInv /\ [Next]_vars => IInv'
    BY NextIInv
<1> QED BY <1>1, <1>2, PTL DEF Spec

\* Every variable keeps its type; actors of Blueprints only have names the engine made.
THEOREM TypeCorrect == Spec => []TypeOK
<1>1. IInv => TypeOK
    BY DEF IInv
<1> QED BY <1>1, Inductive, PTL

\* The name a spawn answered with leads to its actor, for as long as the actor lives.
THEOREM NamesReach == Spec => []NamesReachTheirActor
<1>1. IInv => NamesReachTheirActor
    BY DEF IInv, Identity, NamesReachTheirActor, ByName
<1> QED BY <1>1, Inductive, PTL

\* Every actor of a Blueprint, in the level or in play, has its components.
THEOREM ComponentsReach == Spec => []ActorsHaveTheirComponents
<1>1. IInv => ActorsHaveTheirComponents
    BY DEF IInv, MadeFromScripts, ActorsHaveTheirComponents
<1> QED BY <1>1, Inductive, PTL

\* When the editor ends, it ends over the name of an actor that was made and destroyed
\* and is not collected, and over no living actor's.
THEOREM FatalOnlyAfterDelete == Spec => []DiesOfDestroyedNamesOnly
<1>1. IInv => DiesOfDestroyedNamesOnly
    BY DEF IInv
<1> QED BY <1>1, Inductive, PTL

-----------------------------------------------------------------------------
(***************************************************************************)
(* The level implements the directory of the names it told.                *)
(***************************************************************************)

\* What a tool sees of one actor, under its name.
Entry(a) == [name |-> a.name, class |-> a.class, parts |-> a.parts]

LEMMA DirectoryByName == IInv => Directory = {Entry(a) : a \in actors}
    BY DEF IInv, Identity, Directory, Entry

\* Entries and actors are found by the same names.
LEMMA ListedNames == IInv => View!Listed = {a.name : a \in actors}
<1> SUFFICES ASSUME IInv PROVE View!Listed = {a.name : a \in actors}
    OBVIOUS
<1>1. View!Listed = {e.name : e \in {Entry(a) : a \in actors}}
    BY DirectoryByName DEF View!Listed
<1>2. \A a \in actors : Entry(a).name = a.name
    BY DEF Entry
<1> QED BY <1>1, <1>2, Zenon

LEMMA DirectoryInit == Init => View!Init
    BY DEF Init, View!Init, View!Empty, NoBlueprint, Directory

\* A spawn of either command, seen through the directory.
LEMMA SpawnSeen ==
    ASSUME IInv, IInv', editor = "up", NEW name \in Names, NEW label, NEW class \in Blueprints \cup {Plain},
           NEW parts \in SUBSET Components, name \notin Used,
           Spawn(name, label, class, parts), UNCHANGED <<editor, script>>,
           class # Plain => class \in DOMAIN script /\ parts = script[class]
    PROVE  View!Next
<1> DEFINE new == [id |-> made + 1, name |-> name, label |-> label, class |-> class, parts |-> parts]
<1>1. actors' = actors \cup {new}
    BY DEF Spawn
<1>2. Entry(new) = [name |-> name, class |-> class, parts |-> parts]
    BY DEF Entry
<1> HIDE DEF new
<1>3. Directory' = {Entry(a) : a \in actors'}
    BY DirectoryByName, IInv' DEF IInv, Identity, Directory, Entry
<1>4. Directory' = Directory \cup {[name |-> name, class |-> class, parts |-> parts]}
  <2>1. {Entry(a) : a \in actors'} = {Entry(a) : a \in actors} \cup {Entry(new)}
      BY <1>1, Zenon
  <2> QED BY <1>2, <1>3, <2>1, DirectoryByName
<1>5. name \notin View!Listed
    BY ListedNames DEF Used
<1>6. View!Spawn(name, class, parts)
    BY <1>4, <1>5 DEF View!Spawn
<1> QED BY <1>6 DEF View!Next

LEMMA DeleteSeen ==
    ASSUME IInv, IInv', NEW name \in Names, DeleteActor(name)
    PROVE  View!Next \/ UNCHANGED View!vars
<1>1. /\ editor = "up"
      /\ UNCHANGED <<editor, script, told>>
      /\ \/ UNCHANGED actors
         \/ \E a \in ByName(actors, name) : actors' = actors \ {a}
    BY DEF DeleteActor, run
<1>2. CASE UNCHANGED actors
  <2>1. Directory' = Directory
      BY <1>1, <1>2 DEF Directory
  <2> QED BY <1>1, <2>1 DEF View!vars
<1>3. CASE \E a \in ByName(actors, name) : actors' = actors \ {a}
  <2>1. PICK a \in actors : a.name = name /\ actors' = actors \ {a}
      BY <1>3 DEF ByName
  <2>2. actors' = {x \in actors : x.name # name}
      BY <2>1 DEF IInv, Identity
  <2>3. Directory' = {Entry(x) : x \in actors'}
      BY IInv' DEF IInv, Identity, Directory, Entry
  <2>4. \A x \in actors : Entry(x).name = x.name
      BY DEF Entry
  <2>5. {Entry(x) : x \in actors'} = {e \in {Entry(x) : x \in actors} : e.name # name}
      BY <2>2, <2>4, Zenon
  <2>6. Directory' = {e \in Directory : e.name # name}
      BY <2>3, <2>5, DirectoryByName
  <2>7. name \in View!Listed
      BY <2>1, ListedNames
  <2>8. View!Delete(name)
      BY <1>1, <2>6, <2>7 DEF View!Delete
  <2> QED BY <2>8 DEF View!Next
<1> QED BY <1>1, <1>2, <1>3

\* A compile shows what the script holds, in the entries of that Blueprint.
LEMMA CompiledSeen ==
    ASSUME IInv, IInv', NEW b \in Blueprints, NEW parts \in SUBSET Components,
           actors' = Reinstanced(actors, b, parts)
    PROVE  Directory' = {IF e.class = b THEN [name |-> e.name, class |-> b, parts |-> parts]
                                        ELSE e : e \in Directory}
<1> DEFINE anew(a) == IF a.class = b THEN [a EXCEPT !.parts = parts] ELSE a
           seen(e) == IF e.class = b THEN [name |-> e.name, class |-> b, parts |-> parts] ELSE e
<1>1. Directory' = {Entry(a) : a \in actors'}
    BY IInv' DEF IInv, Identity, Directory, Entry
<1>2. actors' = {anew(a) : a \in actors}
    BY DEF Reinstanced
<1>3. \A a \in actors : Entry(anew(a)) = seen(Entry(a))
  <2> TAKE a \in actors
  <2>1. a \in Actor
      BY DEF IInv, TypeOK
  <2>2. CASE a.class = b
      BY <2>1, <2>2 DEF Entry, Actor
  <2>3. CASE a.class # b
      BY <2>1, <2>3 DEF Entry, Actor
  <2> QED BY <2>2, <2>3
<1> HIDE DEF anew, seen
<1>4. Directory' = {seen(e) : e \in {Entry(a) : a \in actors}}
  <2>1. Directory' = {Entry(anew(a)) : a \in actors}
      BY <1>1, <1>2
  <2>2. Directory' = {seen(Entry(a)) : a \in actors}
      BY <1>3, <2>1
  <2> QED BY <2>2
<1>5. Directory' = {seen(e) : e \in Directory}
    BY <1>4, DirectoryByName
<1> QED BY <1>5 DEF seen

LEMMA AddComponentSeen ==
    ASSUME IInv, IInv', NEW b \in Blueprints, NEW wanted \in Components, AddComponent(b, wanted)
    PROVE  View!Next
<1>1. PICK c \in Components \ script[b] :
        /\ script' = [script EXCEPT ![b] = @ \cup {c}]
        /\ Compiled(b, script[b] \cup {c})
    BY DEF AddComponent, run
<1>2. editor = "up" /\ b \in DOMAIN script /\ UNCHANGED editor
    BY DEF AddComponent, run
<1>3. script[b] \cup {c} \in SUBSET Components
    BY <1>2 DEF IInv, TypeOK
<1>4. Directory' = {IF e.class = b THEN [name |-> e.name, class |-> b, parts |-> script[b] \cup {c}]
                                   ELSE e : e \in Directory}
    BY <1>1, <1>3, CompiledSeen DEF Compiled
<1>5. View!Extend(b, c)
    BY <1>1, <1>2, <1>4 DEF View!Extend
<1> QED BY <1>5 DEF View!Next

\* To compile again shows nothing: the actors have what the script holds.
LEMMA CompileSeen ==
    ASSUME IInv, NEW b \in Blueprints, CompileBlueprint(b)
    PROVE  UNCHANGED View!vars
<1>1. b \in DOMAIN script /\ actors' = Reinstanced(actors, b, script[b]) /\ UNCHANGED <<editor, script, told>>
    BY DEF CompileBlueprint, run, Compiled
<1>2. \A a \in actors : (IF a.class = b THEN [a EXCEPT !.parts = script[b]] ELSE a) = a
  <2> TAKE a \in actors
  <2>1. a \in Actor /\ (a.class = b => a.parts = script[b])
      BY ConstantsAssumption DEF ConstantsAssumption, IInv, TypeOK, MadeFromScripts
  <2> QED BY <2>1 DEF Actor
<1>3. actors' = actors
    BY <1>1, <1>2, Zenon DEF Reinstanced
<1>4. Directory' = Directory
    BY <1>1, <1>3 DEF Directory
<1> QED BY <1>1, <1>4 DEF View!vars

LEMMA DirectoryStep == IInv /\ IInv' /\ [Next]_vars => [View!Next]_View!vars
<1> SUFFICES ASSUME IInv, IInv', [Next]_vars PROVE View!Next \/ UNCHANGED View!vars
    OBVIOUS
<1>1. CASE UNCHANGED <<editor, script, actors, told>>
  <2>1. Directory' = Directory
      BY <1>1 DEF Directory
  <2> QED BY <1>1, <2>1 DEF View!vars
<1>2. ASSUME NEW name \in Names, SpawnActor(name) PROVE View!Next
  <2>1. PICK parts \in {{}} \cup {{c} : c \in Components} : Spawn(name, name, Plain, parts)
      BY <1>2 DEF SpawnActor, run
  <2>2. parts \in SUBSET Components
      BY <2>1
  <2>3. editor = "up" /\ name \notin Used /\ UNCHANGED <<editor, script>>
      BY <1>2 DEF SpawnActor, run
  <2> QED BY <2>1, <2>2, <2>3, SpawnSeen
<1>3. ASSUME NEW b \in Blueprints, NEW label \in ToolNames, SpawnBlueprintActor(b, label) PROVE View!Next
  <2>1. PICK name \in EngineNames \ Used : Spawn(name, label, b, script[b])
      BY <1>3 DEF SpawnBlueprintActor
  <2>2. name \in Names /\ b \in DOMAIN script /\ editor = "up" /\ UNCHANGED <<editor, script>>
      BY <1>3 DEF SpawnBlueprintActor, run, Names
  <2>3. script[b] \in SUBSET Components
      BY <2>2 DEF IInv, TypeOK
  <2> QED BY <2>1, <2>2, <2>3, SpawnSeen
<1>4. ASSUME NEW b \in Blueprints, CreateBlueprint(b) PROVE View!Next
  <2>1. Directory' = Directory
      BY <1>4 DEF CreateBlueprint, run, level, Directory
  <2>2. View!Create(b)
      BY <1>4, <2>1 DEF CreateBlueprint, run, View!Create
  <2> QED BY <2>2 DEF View!Next
<1>5. ASSUME NEW name \in Names, SpawnActorFatal(name) PROVE View!Next
  <2>1. Directory' = Directory
      BY <1>5 DEF SpawnActorFatal, level, Directory
  <2>2. View!Fall
      BY <1>5, <2>1 DEF SpawnActorFatal, View!Fall
  <2> QED BY <2>2 DEF View!Next
<1>6. CASE Restart
  <2>1. Directory' = {}
      BY <1>6 DEF Restart, Directory
  <2>2. View!Restart
      BY <1>6, <2>1 DEF Restart, NoBlueprint, View!Restart, View!Empty
  <2> QED BY <2>2 DEF View!Next
<1>7. CASE BeginPlay \/ EndPlay \/ CollectGarbage \/ UNCHANGED vars
    BY <1>1, <1>7 DEF BeginPlay, EndPlay, CollectGarbage, run, level, vars
<1> QED BY <1>2, <1>3, <1>4, <1>5, <1>6, <1>7, DeleteSeen, AddComponentSeen, CompileSeen DEF Next

\* Every behaviour of the level is, through the names it told, one of the directory:
\* the refinement needs the invariant, because a name that led to two actors would let
\* one deletion remove two entries, and a Blueprint whose actors lag behind its script
\* would show its component late.
THEOREM DirectoryImplemented == Spec => ImplementsDirectory
<1>1. Init => View!Init
    BY DirectoryInit
<1>2. IInv /\ IInv' /\ [Next]_vars => [View!Next]_View!vars
    BY DirectoryStep
<1> QED BY <1>1, <1>2, Inductive, PTL DEF Spec, ImplementsDirectory, View!Spec

=============================================================================
