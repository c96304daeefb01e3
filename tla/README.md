# ImprintFlux in TLA+

ImprintFlux is a set of Unreal Engine editor plugins in C++: an MCP server that
lets external tools drive the editor, two plugins that keep actors in step with
data assets, a tool for camera tracks and a runner for Python scripts. There are
no tests in the repository. This directory holds TLA+ modules of its core, TLC
configurations that check them on small instances, and TLAPS proofs.

    tlc -config McpServer_safety.cfg MCMcpServer.tla     a run
    tlapm McpServerProofs.tla                            the proofs of a module

`PROJECT.json` lists components, runs, mutants (for each checked property a
plausible bug in a mapped definition that breaks it), the source lines of each
definition, findings, hazards and theorems. Paths below are relative to
`src/Plugins/`.

## The system

| Part | State | Operations | Talks to |
|---|---|---|---|
| **MCP server** `UnrealMCP/.../EpicUnrealMCPBridge.cpp`, `MCPServerRunnable.cpp` | the subsystem's `bIsRunning` and listening socket; the thread's `bRunning` and `ClientSocket`; a promise per command | start, stop, accept, receive, execute, send | tools over TCP; the game thread through `AsyncTask` and a future |
| **Command handlers** `UnrealMCP/.../Commands/` | none of their own: the level's actors, Blueprints, their graphs, functions, variables | about forty commands, one task each | called by the server's tasks |
| **FormScribe** | per component `FormData`, `BoundDataAsset`, mesh components; per asset the parts and the delegate `OnDataChanged` | load, register, unregister, destroy, set, edit, undo; open and close the preview | delegate calls from asset to viewers |
| **CurveScribe** | per scene the control points, `CurveData`, splines and meshes; per asset the points, the style, `OnDataChanged`; the asset editor's preview scene | as above, and fill, offset, bake, load from and save to the asset, drag, in the level and in the asset editor | delegate calls; engine re-registration on edits |
| **Blender live link** `CurveScribe/.../FBlenderLiveLink.cpp`, `AlterMeshBridge.cpp` | handle of a shared-memory channel, the GUID | start, stop, tick | Blender through `AlterMesh.dll` |
| **Camera track tool** `CameraTrackTool/` | none of its own: level sequence assets | create, duplicate, shift keys | asset tools of the engine |
| **PythonHot** | none | a button that runs an editor object | debugpy, vendored, below its `Content` |

What is hard here:

- *Two threads and a queue.* The server thread blocks on a future that only the
  game thread fulfils; the game thread blocks in `Kill(true)` until the server
  thread ends.
- *A byte stream.* `Recv` returns what has arrived, `Send` sends what fits, and a
  connection can end anywhere.
- *Callbacks in an order the engine chooses.* Load, register, edit, undo, destroy
  and delegate calls interleave in many orders, and each must leave every curve and
  form equal to its asset and every delegate list free of the dead.
- *Commands that are repeated.* A tool that lost a reply sends the command again, and
  the names it gives may by then mean something else.

What makes each part correct: the server answers each command after it ran, once
and in order, and stops cleanly; a viewer always shows its asset and listens to it
alone; a curve is current after every change; each command reaches the object its
name means.

## The modules

| Module | What it is |
|---|---|
| `McpServer` | game thread, server thread, tools; safety and liveness |
| `CommandService` | what the server promises a tool, without threads, sockets or sessions |
| `McpServerProofs` | its inductive invariant: threads, promise, task, listener |
| `McpServerOrderProofs` | order of commands and responses, and the refinement of `CommandService` |
| `McpServerStreamProofs` | whole responses, and no tool hung up on, while no socket call fails |
| `LevelEditing` | actors and Blueprints: spawn, delete, components, play sessions, garbage |
| `ActorDirectory` | what the level is to a tool: actors by name, with what their Blueprints give them |
| `LevelEditingProofs` | its inductive invariant, four properties and the refinement of `ActorDirectory` |
| `BlueprintGraph` | nodes, pins and links of a graph and the commands that edit them |
| `Wiring` | what a graph is to a tool: nodes with named pins, and wires |
| `BlueprintGraphProofs` | its inductive invariant, four properties and the refinement of `Wiring` |
| `BlueprintFunctions` | the function commands and their three lookups of a name |
| `FunctionTable` | what the functions are to a tool: one table from names to contents |
| `BlueprintFunctionsProofs` | its inductive invariant, three properties and the refinement of `FunctionTable` |
| `FormScribe` | components, assets, preview viewport |
| `LiveView` | what FormScribe is to who looks: viewers that show what an asset holds now |
| `FormScribeProofs` | its inductive invariant, five properties and the refinement of `LiveView` |
| `CurveScribe`, `CurveScribeProofs` | scenes, assets, asset editor with its preview; proofs of four properties |
| `MC...` | symmetry sets and named constants for TLC |

Five modules implement an abstract specification: `McpServer` `CommandService`,
`LevelEditing` `ActorDirectory`, `BlueprintGraph` `Wiring`, `BlueprintFunctions`
`FunctionTable`, `FormScribe` `LiveView`. `CommandService` says what the other modules assume of
the server: commands arrive one at a time and in order. The command modules
(`LevelEditing`, `BlueprintGraph`, `BlueprintFunctions`) therefore have no server in them; one action is one command, or one thing the editor does in between.

### McpServer

Three kinds of actors interleave, one code step per action.

- The game thread: `StartSucceeds` and the two `StartFails...` are
  `Initialize`/`StartServer` with its early returns; `StopServer` is
  `Deinitialize` up to the wait inside `ServerThread->Kill(true)`, and
  `JoinServerThread` what follows once the thread has ended. Between the two
  `bridge = "joining"` and the game thread does nothing else. `RunTask` is the
  lambda given to `AsyncTask`.
- The server thread: `pc` is its place in `Run`. One action per test of `bRunning`,
  poll, accept, outcome of `Recv`, wait for the future and `Send`. The connection it
  held is closed only when the next `Accept` replaces `ClientSocket`.
- The tools are external: they connect while the listen queue has room, send up to
  `Window` unanswered commands, hang up at any time. A command is cut into up to
  `MaxSegments` segments; a `Recv` returns any number of them up to `RecvMax`, and
  what is not exactly one whole command is discarded, as in `Run`.

What a handler does is a success or an error; an exception is an error, as the
code's `catch` makes it. A command is "known" (routed), "unknown" (error reply) or
"untyped" (no `type`: no reply).

Safety: the open promise and the task queue always agree (`TaskHandshake`); no
task outlives the subsystem it captured (`TaskHasBridge`); the listening socket
outlives its thread (`ListenerOutlivesThread`); commands run once and in order
(`ExecutedOnceInOrder`); a reply is for a command of that connection that has run,
or an error (`RepliesFollowExecution`); parts of replies are in order without gaps,
even after a failed `Send` (`ReplyOrder`), and whole when no socket call fails
(`ResponseStreamIntact`); a live tool is never hung up on
(`NeverHangsUpOnLiveTool`). Two properties are the safety halves of what must happen:
`NoCommandLost` says where each command is that a tool on the line has sent, in a segment, in
work or answered; `StopWindsDown` says that, while the game thread waits in `Kill(true)`, each step of the
server thread brings it nearer to the end of `Run` (`StepsLeft`). Liveness:
`EveryCommandAnswered`, `PendingIsServed`, `StopTerminatesOutsideCommand`.

Two properties the code does not have:

- `StopTerminates` (run `mcp_stop`): stop while the thread is between its test of
  `bRunning` and `Future.Get()`, and both threads wait for each other for ever.
- `EveryCommandAnswered` when a command takes two segments (run `mcp_framing`):
  each piece fails to parse and is dropped.

`CommandService` knows three histories only: what was sent, what has run, and the
responses begun. `ImplementsService` maps them to `sent`, `executed` and the first parts
in `outbound`, so it says that threads, cutting, restarts and failed calls never show as
a command that runs late, twice or out of turn, or a response before its command.

### LevelEditing

An actor has a number that is never used again, an object name, a label, a class and
components; `actors` are those of the level, `copies` those of the world that is
played. `told` is the name a spawn answered with. `delete_actor` looks in `GWorld`, which
during a session is the one or the other by when the task runs (`GWorlds`); a spawn looks in
the level (`Exists`). `SpawnActor` asks for exactly the name it looked up, and the engine ends
the editor when an object has it all the same (`SpawnActorFatal`): a destroyed actor keeps
its name in `taken` until `CollectGarbage`. `fatal` records that name.
`DiesOfDestroyedNamesOnly` bounds the disagreement of the two looks: the name in `fatal` was told of
an actor that is destroyed and not collected, and no living actor has it. That `delete_actor`
followed by `spawn_actor` of the same name does end the editor is in the model, and not excluded. A Blueprint's actor gets a name from the
engine, and the requested one as its label. `AddComponent` ends in a compilation, which makes
every actor of the class anew in both worlds.

`ImplementsDirectory` maps the level to `ActorDirectory`, which has no worlds, no engine names and no
compiling: `Directory` is what a tool finds under each name it was told. An entry comes with a
spawn and goes with the deletion of its name, a component reaches a Blueprint and all entries of
its actors in one step, and play, compiling and collection are stutters.

### BlueprintGraph

Nodes are numbered as they are made. A pin is a node, a side, a type and the number in
its name; that is what the pin editors count and rename. `MakeLinkTo` bypasses the
schema, so a pin may have any number of links. `SetEnumType` and
`RemoveExecutionPin` replace or renumber pins that hold links. `remove_pin` finds a pin of either
side: on a MakeArray the output passes the guard that counts the inputs, loses its links
and goes to the engine's `RemoveInputPin`, out of that call's contract, so it may stay or go. `PinsNeverRunOut`
therefore speaks of an array's elements and a sequence's outputs, which the guards keep,
and not of an array's output or a sequence's "execute", which nothing keeps. `unset` are the nodes
whose `NodeGuid` was never made, which all have one id. `told` is the node
`add_event_node` last answered with.

`ImplementsWiring` maps the graph to `Wiring`: nodes, names of pins, wires. There, removing a
numbered pin moves the wires of the pins after it down by one, a new enum drops the wires of
the names that are gone, an array's output may lose its wires (`Unwire`) and stay, and nothing
else moves or cuts a wire.

### FormScribe

All on the game thread, one engine callback per action. `delegates[a][v]` counts how
often viewer `v` is in the list of asset `a`; `bound` is `BoundDataAsset`, which undo
does not restore; `saved` is what undo brings back. A part is any entry with a mesh.
`EditAsset` is the whole broadcast: every viewer in the list rebuilds, components
that were destroyed are skipped (`AddUObject` is weak), viewports are called whatever
became of them (`AddRaw`).

`ImplementsLiveView` maps it to `LiveView`, where a viewer follows an asset and what it has on screen is
a function of the assets: no lists, no `BoundDataAsset`, no rebuilding. A binding that is
lost or stale, a rebuild that is late or meshes that stay would each be a step of none.

### CurveScribe

`points` and `curveData` belong to the scene, `assetPoints` and `style` to the asset;
`built` is what the splines and meshes were last made of. A scene with fewer than two
points keeps the splines it has, as `RebuildCurve` returns early. An edit in the
details panel and an undo unregister the component, change it, and register it again:
that is the engine's `PreEditChange`/`PostEditChangeProperty` and the only reason a
scene is in its new asset's list, since the call that should bind it stands in a
comment (`CurveScribeScene.cpp:290`). The preview is one more scene, which follows
the asset at each broadcast. `unannounced` says which changes of the edited asset
have not been broadcast: a drag in progress, or a save.

In styles with `bUseNoiseOffset` off (`Unseeded`) each rebuild draws new offsets for its two random
splines; a drawing has the draw in it, every rebuild chooses one of `Draws`, and a curve is
current (`CurveIsCurrent`) when it is a drawing of its points and its asset's style under some
draw. A scene stays in the list of every asset it ever used, so a change of an asset it
has left rebuilds it too, which in those styles shows as other random splines.

Two properties the code does not have, each announced by a comment:
`NoDuplicateBinding` (`RemoveAll` is the tail of a comment line at :325) and
`PreviewFollowsAsset` (`SaveToDataAsset` broadcasts nothing).

### BlueprintFunctions

The list `functions` is `FunctionGraphs` in order; `items` is what each graph holds.
The three lookups differ. `FindFunctionGraph` (create, delete, rename) tries the exact
name, then the Blueprint's, then a part, each over the whole list; `FunctionGraph`
(parameters, nodes) tries the first two together, graph by graph; `GetGraph` (delete
and change nodes) takes the exact name only. That they agree for every existing name
(`LookupsAgree`) rests on the refusal of names that any lookup resolves. `asked`
remembers what a tool was told to have added. `SystemFunctionsStay` does not hold:
the guard of `delete_function` compares the text of the request with a label.

`ImplementsFunctionTable` maps the list and the items to `FunctionTable`: a command changes one entry, a
name in use is never taken, a rename takes the contents along, and a tool is told of an addition
only to the entry it went to. Which entry a partial name reaches is left open there.

## Runs and bounds

| Run | Bounds | Why they are enough |
|---|---|---|
| `mcp_safety` | 2 connections, 2 commands each, 2 segments, 2 parts, 2 sessions, faults | one tool served while another waits, a command glued to or cut from its neighbour, a reply cut short before the next, a restart with an old connection half open |
| `level_editing` | 2 names of tools and 2 of the engine, 2 Blueprints, 2 components, 3 actors | an actor in the level, its copy in play and a destroyed one that still has its name; a bystander Blueprint |
| `blueprint_graph` | 2 nodes, pins numbered to 3, 2 links, 2 events, 2 enums that share an entry | a pin between two others is removed while a second node is linked to it; a pin that stays has two links |
| `mcp_liveness` | 2 connections, whole segments, one session, no faults | the second tool must wait for the first; stop can come at every step |
| `mcp_stop` | the same with one command in flight | the deadlock needs one command |
| `mcp_framing` | 1 connection, 2 segments | the loss needs one cut |
| `form_scribe` | 2 components, 1 viewport, 2 assets, 2 parts | a component moves between two assets beside one that stays; undo goes back and forth |
| `curve_scribe` | 1 scene, the preview, 2 assets, 3 curves (one short), 2 styles (one `Unseeded`), 2 draws, `MaxBindings` 1 | a second scene shares no state with the first but the asset; the preview plays that part |
| `curve_scribe_binding`, `curve_scribe_save` | the same, `MaxBindings` 2 in the first | short counterexamples |
| `blueprint_functions` | 5 names, one a part of another, one the Blueprint's, up to 3 functions, one input, output and node | every pair of lookups can disagree on one of the names; the third function is the bystander |
| `blueprint_functions_system` | the same | one step |

`MaxCommands`, `MaxSessions`, `MaxFunctions`, `MaxActors`, `MaxNodes`, `MaxPin`, `MaxLinks` and `MaxBindings` are bounds of the model and no limits
of the code; `Window`, `RecvMax`, `ReplyParts` and `Backlog` stand for the tool's
habits, the buffer, the kernel's send buffer and `Listen(5)`. `CurveScribe` counts
a scene's entries in one list up to `MaxBindings`, because the real count grows without limit:
whether there is one decides who is called, two are needed to see a duplicate. The two runs
of `mcp_liveness` and `mcp_stop` leave faults out: a socket that fails for ever excuses
every promise. Symmetry is used in runs without liveness only; the refinements they check are
implications of safety, without fairness. Deadlock is not checked: a model
with every command sent, every viewer destroyed or every function present may stop.

## Fairness

Only `McpServer` has liveness. `WF(ServerThread)`: the operating system schedules
the thread, and each action is one step of its loop. `WF(RunTask)`: the editor's main
loop runs queued tasks as long as it is not inside `Kill`. `WF(JoinServerThread)`: `Kill`
returns when the thread has ended. Nothing is assumed of the tools, and nothing of
when the editor starts or stops. Weak fairness of the thread as a whole suffices:
at each `pc` the actions exclude each other but for what `Recv` and `Send` choose.

## Proofs

Every theorem holds for all constants that satisfy the named assumption of its module;
nothing else is assumed. All have one shape: an invariant `IInv` that holds at first and
is kept by each action, one lemma per action or per group that shares its work.

`McpServerProofs`: `TypeOK`, `TaskHandshake`, `TaskHasBridge`, `ListenerOutlivesThread`,
`StopWindsDown`, and `HungForGood`, which is about the deadlock of `mcp_stop`: from a state in which each
thread waits for the other (`Hung`) no step of anyone leads out. `IInv` adds

- `ThreadLocals`: `cmd`, `promise` and `partsSent` are set exactly at the places of
  `pc` where their C++ locals live. `TypeOK` is not inductive without it: the bound on
  `partsSent` needs to know that a command starts with zero.
- `ThreadLifetime`: a thread exists only under a subsystem that is up and running or
  joining, and its listener is open: what `JoinServerThread` establishes by waiting. While it
  joins `bRunning` is cleared, which is what `StopWindsDown` needs.

`McpServerOrderProofs`: `ExecutedOnceInOrder`, `RepliesFollowExecution`, `ReplyOrder`, and
`ImplementsService`. A command's number is compared with four places it may be in:

- `SegmentsOrdered`: what is on the way is in order, without gaps inside a command;
- `BehindSegments`: what has run, is worked on, or was answered is before all of it;
- `CommandIsLatest`: the command worked on is after those that ran, until it has run;
- `ResponseIsLatest`: and after those answered, until its response is begun; then the
  last part sent is `partsSent`.

Each loss of a chunk only removes from the first place, so order survives it.

`McpServerStreamProofs`: `ResponseStreamIntact`, from the assumption `~Faults` besides. The
stream to a tool that is there ends with a whole response, but between two `Send`s.
From the same assumption `NeverHangsUpOnLiveTool`, with `ServedHungUp`: the thread goes back
to poll only when its tool has hung up, and after `Stop` it does not poll.

Its last part proves `NoCommandLost`, from `~Faults`, `MaxSegments = 1` and one of `RecvMax = 1` and
`Window = 1`: a tool's command is one segment, and one `Recv` returns one, by its size or because the tool waits
for the answer. Both are needed, as `mcp_framing` shows for the first. `KeptInv` adds that a
connection nobody used is silent (`UnusedSilent`) and that a tool that waits has at most one segment on
the way (`AtMostOneSegment`).

`LevelEditingProofs`: `TypeOK`, `NamesReachTheirActor`, `ActorsHaveTheirComponents`,
`DiesOfDestroyedNamesOnly`. `Identity` says that numbers and names tell the actors of the level
apart and that a told name is still the actor's; `MadeFromScripts` that an actor's
Blueprint exists and has the actor's components. `NamesOfTheDead`, each taken name was told of an actor
made and gone, is what `DiesOfDestroyedNamesOnly` needs when the editor ends. `ImplementsDirectory` rests on both: a name that led to two
actors would let one deletion remove two entries (`DeleteSeen`), and an actor behind its
script would get a component late, in a compile that must show nothing (`CompileSeen`).

`BlueprintGraphProofs`: `TypeOK`, `LinksJoinLivePins`, `PinsNeverRunOut`, `EventKeepsItsNode`,
`ImplementsWiring`.
Each edit is brought to one form, the pins that go, those that come, and the links that
were cut (`Replaces`), and one lemma says that no link dangles after it. `Supplied` is
`PinsNeverRunOut` of any pins; `ToldIsFirst` is why an event keeps its node: node numbers
grow, and the lookup takes the first.

Its second half proves `ImplementsWiring`. A name that is a position is the rank of the pin's
number among those of its side (`Rank`). Ranks are ordered as the numbers are (`RankOrder`), are
0, 1, ... without a gap (`Ranks`), and those after a removed pin are one less (`RankRemove`). That
two pins of a side differ in their numbers needs `PinsTyped`: the type of a pin is that of its
node's kind. With it each edit is one step of `Wiring`: `PinRemoved`, `PinsAppended`,
`PinsTruncated` and `SetEnumView` for pins, `PlaceView` and `DeleteView` for nodes, `ConnectView`
for links, `RemovePinView` for what `remove_pin` does to an array's output; a `set_num_elements` that asks for what is there is a stutter.

`BlueprintFunctionsProofs`: `TypeOK` with the unique names, `LookupsAgree`, `ItemsWhereAsked`.
`LookupsAgree` is not inductive: a function with the Blueprint's name must be first in the
list (`BlueprintFirst`), which holds because create and rename refuse that name
as soon as there is any function. `ImplementsFunctionTable` follows from the unique names: `Appended` and
`Replaced` say what a change of the list and the items is in the table.

`FormScribeProofs`: from `FormAssumption`. That leaving and joining a list gives one
entry needs `ListIsBound` (a component is in the list of `BoundDataAsset` and in no other,
live or not), that a rebuild reaches the right viewers needs `BoundIsForm` (once
registered, `BoundDataAsset` is `FormData`), and the raw pointers need `ViewportListed`.
`ImplementsLiveView` follows: by the invariant the screen is `Drawn` of the assets before and after
each step, so only what a step does to the assets, the viewers' choices and states is left to show.

`CurveScribeProofs`: `TypeOK`, `CurveIsCurrent`, `PreviewFollowsEdits`, `ToolkitListens`. That a
broadcast reaches every curve of its style needs `SceneListens`: a live scene of the level is in its
asset's list from its construction on, registered or not. The preview is reached through
the asset editor instead (`PreviewHasAsset`).

Only model-checked: liveness (`EveryCommandAnswered`, `PendingIsServed`,
`StopTerminatesOutsideCommand`), which rests on fairness and `ENABLED` and is out of the
prover's reach; `NoCommandLost` and `StopWindsDown` are the parts of it that are proved. The properties that the code does not have are counterexamples of TLC.

## Assumptions, and what is not modelled

- The engine: a property edit and an undo unregister a registered component before
  and register it after; weak delegates skip destroyed objects; the accepted socket does
  not block in `Recv`; `FJsonSerializer::Deserialize` rejects anything after the object;
  a handler command ends.
- `bRunning` is a plain `bool` that two threads share. The model reads and writes it
  in single steps, since the loop calls engine functions between two reads.
- `HandleClientConnection` and `ProcessMessage` of the runnable are called by nothing, and
  `FCurveScribeDataAssetCustomization` is not registered (`CurveScribeEditor.cpp:63`): edits of an
  asset are those of its own panel and of the viewport.
- Assets are not deleted while in use, and one asset editor is open at a time.
- Geometry of curves, `RandomOffsetMinRadius`, the text of messages, logging, sleeps, and
  layout of details panels and tabs.
- Names of actors and functions are members of a set; that two of them are one
  but for case, or that one is a part of another, is a constant where code depends on it.

Not modelled, with the reason:

- Variables of a Blueprint, what `set_node_property` and the component commands write, and
  `set_actor_transform`: each looks an object up and writes a value from JSON into its fields.
- Materials, and commands that only read.
- The fields a reply holds besides names; the name of a component in the reply.
- Blender live link: the other side of its lock is `AlterMesh.dll`, which is not in the
  repository, and the live link itself only polls it.
- Camera track tool and sequence library: one pass over assets, each step a call of an
  engine service whose failures they report; two hazards of repeated calls are listed.
- PythonHot's `Content` is debugpy, vendored; its own code is a button. It is the largest part
  of the repository's lines and none of this program's logic.

## Where it could grow

1. Variables beside the nodes that read them: a rename by `set_blueprint_variable_properties`
   looks at no other name.
2. The camera tool's copies under repeated calls.
