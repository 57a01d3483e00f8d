# EcoCity: TLA+ specifications and proofs

EcoCity is a city-building game. A C++ engine (`src/game-engine`) keeps a city's
resources, offers the player one petition at a time, builds the accepted ones
and ends the game when a resource is used up or the emissions are too high. A
terminal UI (`src/eco_city_tmp_ui.py`) shows the state and sends the player's
answers over TCP; MongoDB keeps one save. This directory holds TLA+ modules of
the engine, the UI and the messages between them, TLC configurations that check
them on small instances, and proofs of the properties that matter most, checked
by TLAPS.

## 1. The system

| Component | State | Operations | Talks to |
|---|---|---|---|
| `PetitionManager`, `Petition`, `Building` | petition on offer, vector of petitions under construction (raw pointers), next id | `tick`, `acceptPetition`, `rejectPetition`, `generatePetition`, `restore*` | called by `GameService` and, at startup, by `main` |
| `ResourceManager`, `Resource` | value and change per tick ("delta") of five resources | `tick`, `applyEffect`, `canAfford`, `changeResourceValue`, `setDeltaForResourceType` | same |
| `City` | number of buildings of each type | `addBuilding` | same |
| building catalogue, `createBuilding` | constants | - | `PetitionManager`, `main` |
| `GameService` | next population goal; owns nothing else, holds pointers to the above | `tick` every 250 ms: read the player's action, build, apply, let resources move, scale, check the end | everything; one thread, the engine thread |
| `SocketServer` | listening and client socket, one-slot mailbox `pendingAction` under a mutex | listener thread: accept, receive, store; engine thread: `pollAction`, `sendGameState`, `stop` | UI over TCP |
| `MongoGameRepository` | five collections in MongoDB | `saveGame` (about thirty separate operations), `loadGame` | called on the engine thread, and by `main` at startup |
| `main` | - | construct, load, restore or save a new game, loop | everything |
| wire format (`api_types.proto`, the generated C++, the UI's own codec) | - | encode a state, decode it for the screen; encode a key, decode it for the mailbox | `GameService`, `SocketServer`, UI |
| terminal UI | last state received, the state drawn, connection | A, R, S, Q keys; a thread that connects, receives and reconnects | `SocketServer` |
| observability | log, metrics files | output only | - |

**What is hard here.** (a) A save is a sequence of deletes and inserts without a
transaction; a crash or a MongoDB error may fall between any two, and the next
start loads what is there. (b) A restart rebuilds every object from the
database, ids and counters included; what is not saved starts over. (c) Several
constructions complete in one tick, while the vector they are in is filtered.
(d) The listener thread writes the mailbox between any two steps of a tick. (e)
Values stop at 0 and at a maximum, the end of the game is a comparison with the
clamped value, milestones multiply deltas by doubles and truncate. (f) Sockets:
startup failure, disconnects, shutdown, with two threads and a UI that comes and
goes. (g) A message is bytes in a stream that arrives in pieces and may end
anywhere, written by one implementation of the format and read by another. (h)
An answer names no petition: between the screen the player sees and the petition
the engine answers lie a queue of states, a queue of keys, a one-slot mailbox and
perhaps a restart of the engine.

**What makes each component correct.**

- *PetitionManager*: ids are never reused and name one petition; each object has
  one owner; what is accepted is completed after its construction time, once,
  and nothing gets stuck or lost.
- *ResourceManager, scaling*: values stay in range; a building's effects reach
  the deltas exactly once; a milestone keeps up with the population and never
  makes the game easier.
- *GameService*: buildings come only from accepted petitions; every accepted
  petition is built; a game that cannot go on ends; a lost game is never saved;
  the components are used in the order they expect.
- *Persistence*: a completed save is exactly the state; a restore is the inverse
  of a save; a resumed game is a saved one, is alive, and its ids are fresh; what
  it was building gets built.
- *SocketServer*: it is a mailbox: actions reach the engine once and in order,
  and only a newer one replaces one that is waiting; a failure of the listener
  reaches the constructor's caller; the engine survives the UI; `stop()` returns.
- *Wire format*: what one end writes the other reads, at every size and sign, in
  chunks of any size; no message looks like the end of the connection; two
  actions are never blended.
- *UI and engine together*: an answer given to what the screen shows meets that
  petition; the screen catches up with the game; a key shows its effect.

## 2. The modules

| Module | Models | Remarks |
|---|---|---|
| `ResourceType` | `domain/ResourceType.hpp` | shared set of names |
| `ResourceManager` | `services/ResourceManager`, `domain/Resource` | operators the game composes; constants for initial values |
| `PopulationScaling` | arithmetic of `handlePopulationScaling` | integers only, the double's rounding included |
| `BuildingCatalog` | `domain/buildings` | the real numbers, used by `GameMessages` and `DocumentNames`; the game takes any catalogue |
| `PetitionManager` | `services/PetitionManager`, `Petition`, `Building` | with the caller's protocol, `PetitionSpec`: the abstract specification the game is shown to follow |
| `GameService` | `services/GameService`, `City`, the mailbox | composes the four above |
| `Persistence` | `MongoGameRepository`, `main.cpp` | extends `GameService` with the database, startup, crashes |
| `SaveHistory` | - | adds a history variable to `Persistence`: what a resumed game ought to be |
| `SaveAttempts` | - | the same with every game a save was begun with |
| `DocumentNames` | the names `MongoGameRepository` stores for types | that a load reads them back is a theorem of `PersistenceProofs` |
| `Mailbox` | what the server promises of the UI's actions | the abstract specification `SocketServer` implements and `PlayerSession` uses |
| `SocketServer` | `network/SocketServer`, the UI's `GameConnection` | engine, listener and UI; on its own, without the game |
| `WireFormat` | varints and fields, as `eco_city_tmp_ui.py` and protobuf write and read them | pure operators on sequences of bytes |
| `GameMessages` | `api_types.pb.h/.cc`, `buildGameState`, what `readPlayerInput` reads | extends `WireFormat` and the catalogue |
| `UICodec` | the UI's decoder and encoder, and what `render` shows | extends `WireFormat` |
| `Framing` | `sendBytes`, `receiveMessage`, `listenLoop`, the UI's `_recvall`, `_recv_loop`, `send_action` | composes the three above with the two byte streams |
| `PlayerSession` | the UI's main loop and connection thread, the mailbox, the engine's ticks and restarts | composes the UI with `Mailbox` and an abstraction of `GameService` and `Persistence` |
| `FoldProofs` | - | lemmas about sums over finite sets and about recursive functions, used by the next rows |
| `GameServiceProofs` (of `PetitionManager` too), `PersistenceProofs`, `MailboxProofs`, `SocketServerProofs`, `PlayerSessionProofs`, `FramingProofs`, `ScreenProofs` | - | theorems |
| `MC*` | - | values of the constants |

How they build on one another:

    PetitionManager, ResourceManager, PopulationScaling
        `- GameService -- Persistence -- SaveHistory, SaveAttempts
    WireFormat -- GameMessages, UICodec -- Framing
    Mailbox <- SocketServer (implements)
    Mailbox -- PlayerSession (uses)
    PetitionSpec <- GameService (implements)

Definitions whose comment begins with "Mutation:" are not part of any
specification. Each is a plausible bug of the definition that follows it, and
is there to show that the properties notice it.

### How the state corresponds to the code

**PetitionManager.** `currentPetition`, `underConstruction` and `nextPetitionId`
are the class's fields. The vector of pointers is a set of records whose `ref`
stands for the pointer; the vector's order has no effect but on the order of
database inserts, where creation order (`oid`) stands for it. A null
`currentPetition` cannot occur: every operation that clears it sets it again.
`completedConstructions` is the vector `tick()` returns until its caller has
gone through it. `phase` separates the restore at startup from play; it is the
only variable with no counterpart in memory (it is the position in `main`).
Constructing a petition draws a random type: `\E b \in BuildingTypes`.
`Building::buildTick` returns its effects, never empty for any type in the
catalogue, only in the step in which its count reaches 0.

**GameService.** `pc` is the position of the engine thread within `tick()`:

| `pc` | next | code |
|---|---|---|
| `poll` | `PollNothing`, `NoResponse`, `AcceptCurrent`, `AcceptTooExpensive`, `RejectCurrent` | `readPlayerInput`, GameService.cpp:144-172 |
| `save` | `SaveGame` (in `Persistence`: `saveGame`'s operations) | 174-181 |
| `build` | `BuildPetitions` | 69 |
| `apply` | `ApplyCompleted` for each construction, then `FinishTick` | 70-115 |
| `over` | - | `main.cpp:154` |

`ReceiveAction` is the listener thread storing a parsed `UIAction`; it may come
between any two of these steps, which is all the granularity the mutex leaves.
An action is an answer (none, accept, reject) with or without a save request.
In `AcceptTooExpensive` the exception skips the save request of the same
message, as in the code. `FinishTick` is one step because no other thread sees
what it computes: the resources' tick, `handlePopulationScaling` on the new
values and `checkGameOver`. `AcceptPetition` only happens while the model has
ids left (`MaxPetitionId`); to keep this bound from stopping the engine, the
player stops sending at the bound (`ReceiveAction`'s guard).

**PopulationScaling.** The code multiplies a `long long` by the doubles 1.2,
1.10 and `2 - 1.10` and truncates. 1.1 rounds up to the double, so its product
never falls short of a whole number. 1.2 rounds down, by a relative error too
small to survive the rounding of the product: where six fifths of a goal are a
whole number, the product is that number. In both cases integer division gives
the same result. `2 - 1.10` is 0.8999999999999999: where nine tenths of a delta are a
whole number, the product may round to just below it and lose one; `LosesOne`
says for which numbers. `MaxExponent` bounds the results it is accurate for
(below 2^27, about three hundred of the largest effect in the catalogue).

**Persistence.** `db` maps each of the five collections to its set of documents
for the one game id the program uses. `writing` is the collection `saveGame` has
cleared last. One action is one database operation: `UpsertGame`,
`ClearCollection`, `InsertDocument`. `SaveFails` and `LoadFails` are the
exceptions, possible before any operation (one that failed after it took effect
is the operation followed by the failure). `Crash` is possible everywhere.
`Boot` constructs every object anew and keeps only `db`. At startup `pc` goes
through `load`, then `restore` and `restorePetitions` or `firstSave`; `down` is
`main` returning 1. `loadGame` reads all collections before `restoreGame`
changes anything, and nobody else writes them, so restoring from `db` directly
is the same. What a missing document leaves as the constructor made it is
modelled for every collection. A query returns documents in no guaranteed
order, so petitions are restored in any. Left out: the cost in a petition document (it is the type's cost, as is
what `setBuildCost` restores), the effects in it (never read), the count of
`BUILDING_UNSPECIFIED` (always 0), and the conversion of amounts to doubles
(exact below 2^53; amounts are at most 10^9). Names of types are the types
themselves: `DocumentNames` has the strings and shows that nothing is lost.

**SocketServer.** `enginePc` goes through the constructor, the loop of `poll` and
`send`, and `stop()`; `listenerPc` through `listenLoop`. `running`, `serverFd`,
`clientFd` and `pendingAction` are the class's fields; `clientClosed` says that
`stop()` has closed `clientFd`, whose value stays. `connections` is what the
kernel keeps of the UI's connections, in order; only the first can be accepted.
A message is its number; a frame is received whole or not at all. Sockets are
those of Linux: closing a descriptor does not wake a thread blocked on it
(`AcceptConnection` and `ReceiveMessage` go on after `CloseServer` and
`CloseClient`), a listening socket completes connections nobody accepts, and the
second send to a connection the other end has closed raises SIGPIPE. Whether
SIGPIPE ends the process is the constant `SigPipeKills`: it does for the
engine started from a shell, not for process 1 of a container (the Dockerfile's
ENTRYPOINT). `clientFd` is written by the listener and read by the engine thread
without synchronisation. The write reaches the engine some time later
(`clientVisible`, `ClientFdArrives`; `SeenFd` is what the engine reads), at the
latest when the listener has released the mailbox's lock: until then the engine
sends nothing, and a `stop()` leaves the socket open although the listener may
be blocked in `recv` on it. `accept` failing for want of resources is left out; the
failure on a closed socket (`EnterAccept`) is not. `LeaveMain` is every way
out of `main` once the server exists.

**Mailbox.** `channel` holds the actions that have been sent and are not in the
slot yet, `slot` is `pendingAction`, `taken` a history. `SocketServer` maps its
state to it (`Unstored`: the message between parsing and the lock, then what is
in the connection): `Send` is `UISends`, `Store` is `StoreAction`, `Take` is
`PollAction` on a slot that is not empty; everything else stutters. A connection
the server never accepts delivers to nobody; what is sent on it is not in the
channel.

**WireFormat, GameMessages, UICodec.** A byte is a number, a message a sequence
of bytes. `Varint` is the encoder's loop written out for the lengths there are
(one to five bytes, ten for a negative number); `VarintEnd`, `Fields` and
`FieldAt` are the UI's decoder. The engine decodes actions with the same
operators: protobuf's own parser is external, and what it does differently
(rejecting a field that reaches past the end) is `WellFormed`. In `GameMessages`
a submessage that may be absent is a sequence of at most one, a map a function
on its keys; map entries are written in an order that is a parameter, since the
hash map's is not determined. Each message is modelled in the direction the
program sends it: sizes and serialisation of what the engine sends, parsing,
clearing, merging and copying of what it receives. `Screen` is the set of facts
`render` shows: names and numbers, not their layout.

**Framing.** The two directions share nothing, so a behaviour has one
(`direction`). `wire` holds the bytes under way. `Receive(n)` is one `recv` of
at most `n` bytes and returns any positive number of those that are there. The
engine sends header and payload in two calls, the UI in one. `CloseWriter` is
the end of the writer, which may take the bytes under way with it. States the
UI takes and actions the engine stores are kept as bytes (`delivered`) and
decoded where a property looks at them.

**PlayerSession.** `engine` is the position of the engine thread in a tick:
`poll` and `send` with nothing in between that the UI could tell apart from
them, `load` the time from the socket's being set up to the end of the restore,
`ending` the time `stop()` waits for the listener. The database is reduced to
the petition on offer in it (`savedOffer`); a save writes it, leaves it, or, if
it fails after the delete, loses it. `rx` is the connection thread's position in
`_run` and `_recv_loop`, `ui` the main loop's: `check` (is there anything to
draw), `render`, `assign` (`last_state = current_state`), `key` (`getch`).
`current` and `drawn` say whether the objects the loop's `current_state` and
`last_state` refer to are the one `conn.last_state` refers to now: the loop
compares identities. A petition is named by the key whose answer brought it up,
or by minus the run whose constructor drew it; no other detail of it matters.
What the key says is chosen when the engine reads it (nothing before depends on
it). The redraws while a flash message is on the screen are a free choice of the
loop, so no property relies on them. `keys` and `met` are history variables.
When the process ends, its variables are reset. Left out: the flash text, the
status line and `connected` (shown, never used but to guard sending), a second
start of the UI, games that end (as `EngineEnds`).

## 3. The runs

| Run | Module, configuration | Shows |
|---|---|---|
| `MCPetitionManager` | two building types, ids to 4 | the petition lifecycle, starting from every complete save |
| `MCGameService` | two types with construction times 3 and 2, ids to 4, milestones in the fifth and eighth tick | the game loop with the mailbox written at any time; `PetitionSpec` is implemented |
| `MCPersistence` | one type, ids to 2, two restarts, `SaveHistory` | saves, failures, crashes and restarts; an undisturbed save is resumed exactly |
| `MCLastingCity` | one type, ids to 3, one restart | constructions are finished in spite of failing saves, crashes and restarts |
| `ResumesOneSave` | one restart, `SaveAttempts` | *violated*: finding 1 |
| `ResumesWithItsGoal` | one restart, `SaveHistory` | *violated*: finding 2 |
| `MCSocketServer` | three messages, two connections, SIGPIPE kills | the threads of the connection implement `Mailbox`; the ends of its life |
| `FailureReachesCaller` | the same | *violated*: finding 3 |
| `EngineSurvivesUI` | the same | *violated*: finding 4 |
| `ProcessExits` | the same | *violated*: finding 5 |
| `MCFraming` | thirteen scripts of states, every sequence of three keys | messages through the two byte streams |
| `MCPlayerSession` | two keys, two runs of the engine, room for one state | from the key to the screen and back |

**Properties.** Every module has one type invariant (`PetitionTypeOK`,
`GameTypeOK`, `PersistTypeOK`, `SocketTypeOK`, `FramingTypeOK`, `SessionTypeOK`;
the second and third contain the ranges of the resources, `FramingTypeOK` that a
message is as long as `ByteSizeLong` says). The others:

- `NextIdIsFresh`, `IdsNameOnePetition`: ids, through restores in any order.
- `OneOwner`: no petition object is in two places (the destructor and `tick`
  would delete it twice).
- `NothingStuck`, `LeavesOnlyWhenComplete`, `CommittedOnlyByAccept`,
  `AcceptedIsBuilt`: from acceptance to the building, once and surely.
- `QueuedIsBuilt`: the same for petitions that a restart finds half done, and for
  a database that fails at every save: a save that is tried again until it
  succeeds would stop the city.
- `EffectsAppliedOnce`: until a milestone rescales them, the deltas are the
  initial ones plus the effects of the buildings that stand.
- `GoalAhead`, `MilestoneNeverEases`: milestones. `GoalAhead` is about games
  played from their start; finding 2 says what a resumed one may do.
- `UnmendedCityIsLost`: a city in which something is used up for good, or whose
  CO2 grows for good, is lost. Values are clamped at 0, so an end of the game
  at `< 0` would never come: with a PARK and no PLANT the small city has no
  energy, no CO2, and would go on for ever.
- `NeverSavesLostGame`, `NeverResumesLostGame`: no save can trap the player in
  a game that is over.
- `CompletedSaveIsExact`, `RestoreInvertsSave`, `ResumesTheLastSave`: saves.
- `ImplementsMailbox`, `PolledInOrder`, `StoredIsPolled`: the mailbox; an action
  in it is lost to a newer one and to nothing else.
- `ConstructorEnds`, `StopsOnceUILeft`: what does hold of the two ends of the
  connection's life.

- `ScreenShowsGame`, `KeysAreUnderstood`: the encoder of one end and the decoder
  of the other, through the stream, against what the game and the key mean.
- `PolledIsOneKey`: `CopyFrom` into a mailbox that still holds an action leaves
  nothing of the old one (a field with its default value would not be merged).
- `EndsOnlyWhenClosed`, `SentIsDelivered`: a length or a short `recv` never
  looks like the end of the connection, and no message waits for the next one.
- `UnhurriedAnswerMeetsItsPetition`: a player who waits until the screen shows
  the effect of every key sent before, in this run of the engine, answers the
  petition that is on the screen, whatever the threads, the mailbox and restarts
  do meanwhile. (A hurried answer may meet a petition never seen: the repository
  promises nothing there, and no property does.)
- `ScreenCatchesUp`: a state that arrives while the one before it is being drawn
  is drawn, although no later one may come.
- `KeyIsAnswered`: a key sent shows its effect, or is overtaken by a newer one,
  unless engine or UI end; in particular a blocked `send`, the listener and the
  UI's threads never wait for each other.

**Bounds, and why they suffice.**

- `MaxPetitionId`: petitions ever offered. With 4, three petitions can be
  accepted, enough for two to complete in the same tick while a third is under
  construction. Petitions interact only through ids and the counter.
- `MaxRestarts`: with 2, a save made after a restore is cut short and restored
  again. The `SaveHistory` runs need one save, one crash and one restore.
- The small city of `MCGameService` loses within ten ticks or so unless it gets
  both of its building types, and then lasts for ever (values and population
  reach the maximum, which closes the state space): `AcceptedIsBuilt` is not true
  merely because games end. Prices lie above and below the money at hand. The
  first milestone falls into the fifth tick: until then `EffectsAppliedOnce` sees
  three buildings, two of them completed in one tick, and the second milestone
  (the eighth tick) is still reached. The cities of `MCPersistence` and
  `MCSaveAttempts` last about four ticks.
- The city of `MCLastingCity` uses nothing up: its games end only with the
  process, so that `QueuedIsBuilt` is about the queue. Two petitions are in it,
  and in a save, at a time.
- `Listen` in `Persistence` lets the listener store an action only just before
  it is polled, and once. Nothing but `readPlayerInput` reads the mailbox, and
  it sees the last action only, so every behaviour of the rest of the state is
  still there; the unrestricted interleaving is checked in `MCGameService`.
- `MaxMessages`: with 3, a message can be in the mailbox, one between parsing and
  the lock, one in the connection. `MaxConnections`: the UI comes back once.
- `GameScripts` are at the numbers where an encoding changes: 0 (left out), 127
  and 128 (one and two bytes), 16384, the largest amount, every building of the
  catalogue with its negative effects, a state without a petition, and one state
  after another. `KeyScripts`: three keys, so that the mailbox may be overwritten
  by a different action twice. Every other number, game and sequence of keys is
  covered by the proofs.
- `MaxKeys`, `MaxRuns`: two keys may replace each other in the mailbox or be
  answered in different runs; a state of the first run may be on the screen in
  the second. `MaxFeed` is the number of states the two socket buffers hold: 1 is
  the strictest for deadlock, since `send` blocks soonest.

`CHECK_DEADLOCK FALSE` is set where the program really stops (the game is over,
`main` has returned, the bound on restarts is used up). `MCPetitionManager` is
checked for deadlock.

**Fairness.** In `SocketServer` both threads are weakly fair; the UI, the end
of the game and failures of the setup are not. In `Framing` the reader is fair,
and the engine between the two sends of one message; the writer need not write.
The third conjunct of `FairFramingSpec`, `[]<>(reader # "message")`, is weak
fairness of the step that takes a message, which is enabled as long as there is
one. In `PlayerSession` each of the four threads is weakly fair (engine,
listener, the UI's two), `StartGame` included; starting, ending and killing the
engine, and quitting the UI, are never assumed. `WF_vars(Engine)` and `WF_allVars(Main)`: the engine thread calls
`tick()` in a loop and waits for nothing but a short mutex, a sleep and the
database client, whose operations return or throw. The player, the listener,
failures, crashes and restarts are never assumed to happen, and failures may
happen at every save.

## 4. Findings

1. **A save cut short is resumed as a mixture** (`ResumesOneSave`).
   `main.cpp:28` says a restore continues the game "exactly where it was saved";
   after a crash or a MongoDB error inside `saveGame` the resources may be of one
   save, the petitions of another and the rest the constructor's defaults, and
   `loadGame` does not notice. If the part that is missing is the current
   petition, the one generated at construction keeps its id beside a restored
   petition with the same id, which `PetitionManager.cpp:133-134` means to
   prevent; the counter itself is fresh all the same (`NextIdIsFresh` passes).
2. **The population goal is not saved** (`ResumesWithItsGoal`). After a restart
   the first milestone is taken again: the deltas of water, energy, money and CO2
   are scaled a second time.
3. **A failed bind ends in std::terminate** (`FailureReachesCaller`). The
   constructor rethrows while its thread member is joinable; no caller can catch
   what `SocketServer.cpp:34-36` and `main.cpp:100` announce.
4. **The engine dies with the UI** (`EngineSurvivesUI`), by SIGPIPE, where
   `eco_city_tmp_ui.py:13` says that the backend keeps running.
5. **The process may not exit** (`ProcessExits`). `stop()` joins a listener that
   is blocked in `accept` or `recv`; with MongoDB unreachable and no UI
   `main`'s `return 1` waits for a UI to connect. `StopsOnceUILeft` passes: the
   end of the connection does end the process.

What holds in spite of 1: `NeverResumesLostGame`, `NextIdIsFresh`,
`RestoreInvertsSave` and `CompletedSaveIsExact` are checked, and proved, with
every crash and every failure allowed.

## 5. What is proved

The proofs are for every value of the constants that satisfies the named
assumptions: any building types, prices, effects, amounts and bounds.

**`GameServiceProofs`, the petition manager.** From `BuildTicksAssumption` (construction times are
positive) and `MaxPetitionIdAssumption`. The inductive invariant `PetitionInv`
adds to the checked invariants that `lastRef` bounds every `ref`, that ids of
petitions in service are distinct in both phases, and that, in play, the offer's
id is the largest; during the restore nothing is complete. Freshness alone is
not inductive, since a restored id may lie on either side of the counter: the
proof needs that both cases of `IdPast` end above it. Theorems: `PetitionTypeCorrect`,
`IdsAreFresh`, `IdsAreUnique`, `PetitionsOwnedOnce`, `NoPetitionIsStuck`,
`PetitionsLeaveComplete`.

**`GameServiceProofs`, the game.** `GameInv` joins `PetitionInv` (brought over by showing
that every step of the game is a step of `PetitionSpec` or leaves it unchanged:
`GameImplementsPetitions`), the type invariant, the milestone bound and "the
game is alive during a tick". `MilestonesKeepUp` needs `PopulationAssumption`:
no building changes the population, so its delta stays the initial one, at most a
fifth of any goal, and one scaling per tick suffices. It holds of the code's
constants: no entry of `Catalog` has a `POPULATION` effect, the population starts
at 1000000 and grows by 10000, the first goal is 1200000. `SavesAreAlive` needs
`StartAssumption`: the constructor's resources are those of a live game.
`MilestonesNeverEase` is a fact about truncation, by cases on the sign of the
delta, and needs no bound on it. `EffectsReachDeltasOnce` is about a sum over the
building types (`SumFunctionOnSet`): `FinishTick`, and each `ApplyCompleted`,
changes one summand, and a milestone ends the claim. `CommittedByAcceptOnly`
counts what is in the queue, what has completed and what stands: `BuildTick` and
`ApplyCompleted` move a building from one to the next, and only an accepted offer
adds one. The invariant behind both is `GameInv`, with `QueuesFinite`: two
petitions of a type stay two elements of a set because their ids differ.

**`PersistenceProofs`.** From all the assumptions above and
`MaxRestartsAssumption`, for any number of restarts. A crash may leave the
database as it is at any time, so the invariant (`PersistInv`) has to say what
every database is that can be found (`DatabaseOK`): documents of the right types,
one per resource, building type and offer, and resources of a game that can go
on, whichever saves they are of. That in turn needs that a save is only begun in a live
game (`AliveDuringTick`) and how far it has come (`SaveProgress`: which
collections are already those of the present state). `RestoreProgress` says the
same of a restore. `PetitionInv` is *not* part of it: a mixture of two saves may
hold equal ids, so `PetitionsOK` is what is left, types and the fresh counter.
Theorems: `PersistTypeCorrect`, `ResumedGamesAreAlive` (every resource comes from
some live state or from the constructor's), `RestoredIdsAreFresh`,
`SavesAreExact` (`SaveProgress` at its end), `RestoreIsInverse` (both directions of every collection;
`Core` forgets identities) and, with the history variable, `LastSaveIsResumed`,
whose invariant `LastSaveKept` says that the database stays the last complete
save until the first collection is cleared: `replace_one` on the games
collection does not change it.

**`MailboxProofs`, `SocketServerProofs`.** The mailbox hands over messages in
ascending order: what was taken is below the slot, the slot below the channel
(`MessagesTakenInOrder`). `SocketInv` says which connection the listener can
have, that it holds a message exactly when it is about to store it, and that no
message is ahead of those sent; with it every step of engine, listener and UI is
a step of the mailbox or stutters (`ServerIsMailbox`), and the order carries over
(`ActionsPolledInOrder`), for any number of messages and connections and both
values of `SigPipeKills`.

`PersistenceProofs` also has `LoadReadsWhatSaveWrites`, a finite statement about
`DocumentNames` proved by the SMT solver; TLC has nothing to explore there.

**`PlayerSessionProofs`.** From `SessionAssumption` (the bounds are natural
numbers), for any number of keys, runs and states under way. An unhurried answer
meets its petition because nothing can come between the screen and the engine:
the state on the screen was sent when the last key of this run had been polled,
or was overtaken in the mailbox by a later one, so the new key is the oldest one
pending, and the offer does not change until it is polled. `SessionInv` says that
of every state under way, displayed or received (`StatesAreTruthful`): one that
answers the last key polled, in this run, shows the petition on offer. It also
says that mailbox and connection hold keys of this run only
(`MailboxOfThisRun`), in order (`MailboxInv`, from `MailboxProofs`), that nothing
of a run has been seen before its game is loaded (`NothingSeenYet`), and that a
key pressed unhurriedly and still pending is the oldest pending one and saw what
is on offer now (`OldestMeetsItsPetition`). Without the clause about runs the
claim breaks at a restart, where the screen keeps an old offer. Theorems:
`SessionInvariant`, `SessionTypeCorrect`, `UnhurriedAnswersMeet`.

**`FramingProofs`.** From `GameScriptsAssumption` and `KeyScriptsAssumption`
(numbers are ints, keys are A, R and S), for any games and keys in any number.
In the order of the module:

- *Varints.* `Int32RoundTrip` and `VarintDelimitsItself`, for every 32-bit
  number, negative ones included, and whatever bytes follow.
- *Sizes.* `Takes(bytes, size)` goes from varints to fields, submessages, map
  entries and the whole state: what `_InternalSerialize` writes is as long as
  `ByteSizeLong` says, at most 625 bytes for any game of this catalogue, and the
  same in any order of the hash map's keys (`SizeInAnyOrder`: a sum over a set
  does not depend on the order of its members).
- *Keys.* `Fields` is unfolded along the positions where fields stand
  (`FieldsInTurn`), which gives what the engine's parser reads of a UI's bytes
  (`KeyIsUnderstood`) and that copying it over a used mailbox leaves nothing of
  what was there.
- *The stream.* `FramingInv`: there is a stream of bytes, the headers and payloads
  of all that was handed to the writer laid end to end (`Laid`), and a place in it
  (`StreamStands`) such that the reader's buffer is the part of a header or
  payload before that place, the wire is what follows, and `outgoing` what
  follows that. None of the checked properties is inductive without it: that
  a header has a legal length is known only because the four bytes in the buffer
  are those the writer put there, however `recv` cut them. When the writer closes,
  bytes may be missing at the end but never in the middle.

Theorems: `FramingInvariant`, `FramingTypeCorrect`, `OnlyClosingEnds`,
`KeysUnderstood`, `PolledOneKey`.

**`ScreenProofs`.** From the same assumptions: the UI shows the game it was
sent, for any games, any order of the maps and any `recv`. By `FramingInv` what
the reader delivers are bytes the engine may have written (`MaySend`) for the
game in that place. What remains is `GameIsShown`, that decoding such bytes gives
that game's screen:

- *Rows of items.* A message is a row of items, tag and content, and `Encodes`
  says that bytes are such a row wherever they stand. It holds of a varint field,
  of a submessage and of two rows one after the other (`OneEncodes`,
  `PartsEncode`, `RowEncodes`), so it holds of all the engine writes; a field
  that is 0 and left out is the empty row. A length of a submessage has to fit,
  which the `Takes` lemmas give.
- *The decoder.* `Fields` of such bytes are the items (`FieldsAreItems`), and
  `ParseEffect`, `ParseBuilding`, `ParsePetition`, `ParseEntry` and
  `ParseGameState` take them one by one (`EffectFold` and the other folds). What
  each holds after each item is stated and proved along the row, the innermost
  message first (`EffectRead`, `BuildingRead`, `PetitionRead`, `EntryRead`,
  `MapRead`, `GameStateRead`). A negative delta comes back by `Int32RoundTrip`.
- *Maps.* The engine writes a hash map's entries in any order. Every order names
  each key once (`OrderOfKeys`), so the entries, joined one by one, make the same
  map.
- *The screen.* What is read is `BuildGameState(game)`; `ScreenIsView` says that its
  screen is what the game means: the numbers the engine writes for resources and
  buildings are those the UI has names for, also for the entry the engine adds
  for no building, and the list of a building's effects holds each effect that
  is not 0.

Theorems: `GameIsShown`, `StatesShowTheGame`.

**Induction over data.** The library's induction theorems take a predicate as a
parameter, which the provers cannot instantiate. Where a proof needs induction
over numbers, sets or a recursive function, `FoldProofs`, `FramingProofs` and
`ScreenProofs` argue by a least counterexample: a nonempty set of natural numbers has a least
member (well-founded induction, stated for sets), so the set of those below which
a claim fails is empty (`NaturalsFrom0`, `UpToN`, `SubsetsByOne`,
`ForwardExists`).

**Model-checked only.** Liveness (`AcceptedIsBuilt`,
`UnmendedCityIsLost`, `QueuedIsBuilt`, `ConstructorEnds`, `StoredIsPolled`,
`StopsOnceUILeft`, `SentIsDelivered`, `ScreenCatchesUp`, `KeyIsAnswered`): TLAPS does not handle
fairness. Every invariant, every action property and both refinements the
passing runs check are theorems.

## 6. Not modelled

- Generated code the program never runs: parsing, merging and comparing a
  `GameState` in C++, encoding a `UIAction` in C++, arenas, reflection, unknown
  fields.
- Drawing: layout, colours, the status line and flash messages of the UI, and a
  second start of the UI.
- Logging, tracing, metrics files (`GameService`'s constructor may throw if it
  cannot open them, in which case `main` returns 1 as for a failed load), tests,
  build and deployment files.
- What a UI that comes back sees. `SocketServer` has its connection, which nobody
  accepts; the repository promises nothing about it, so no property does.
- Two engines on one database: the port both bind prevents it.

## 7. Plan

Done: `PetitionManager`, `GameService`, `Persistence`,
`SaveHistory`, `SaveAttempts`, `SocketServer`, `Mailbox`, `WireFormat`,
`GameMessages`, `UICodec`, `Framing`, `PlayerSession`, `DocumentNames`, and the
proofs above.

Left out: an abstract save of one atomic step, which `Persistence` would
implement as long as no save is cut short. `CompletedSaveIsExact`,
`RestoreInvertsSave` and `ResumesTheLastSave`, all proved, say what such a
refinement would be used for; that a save may be cut short is the first of the
findings.
