# DemoGame: specifications, model checking and proofs

DemoGame is an iOS application for Rock-Paper-Scissors-Lizard-Spock, alone
against a bot or between two devices that share documents of Cloud Firestore.
This directory holds TLA+ models of its logic, TLC configurations that check
them on small instances, and proofs for all instances that TLAPS checks.

The game is under `src/DemoGame/DemoGame/`. It has no server of its own: two
devices meet only in Firestore documents, and every rule of the multiplayer game
is code that each device runs for itself. What reaches those documents, and what
a device reads of them, is decided by the Firestore client that the repository
carries under `src/DemoGame/Pods/FirebaseFirestore/` (the path `core/src/` of the
table below is inside it); its ways of a write and of a read are modelled too.

## 1. The system

### Components, their state and operations

| Component | State | Operations | Module |
|---|---|---|---|
| Rules of the game (`gameEngine_SP`, `gameLogic`) | none | outcome of two fighters, written twice as nested switches | `GameRules` |
| Single-player match (`GameVC`, `SinglePlayerExtenstion`, `GameExtension`) | selections, scores, round, results, the three labels, dialog | select, Fight (bot, engine, end of match), layout pass, Rematch, Exit, tap beside the dialog | `SinglePlayer`, `FirstDecision` |
| Multiplayer queue (`MainMenuExtension` 236-440) | lobby and room documents; per device the snapshot, room, role, listener, pending writes, presented `GameVC` | read lobby, assign a seat, create or join a room, listen, present and configure `GameVC` | `Matchmaking`, `Pairing`, `MCMatchmaking` |
| Multiplayer match (`MultiplayerExtension`, `GameVC`) | input, room and player documents; per device selections, labels, pending writes, reads under way, screen listener | appear, select, Fight, submit or resolve, score, record wins and losses, screen update, dialog | `MultiplayerMatch`, `AtomicRounds` |
| Main menu, log-in, registration (`MainMenuVC`, `LogInVC`, `RegistrationVC` and their extensions) | text fields, log-ins and registrations under way, stored sign-in, player documents | choose a mode, check the stored sign-in, load the user, sign out; look a name up, compare, store; look a name up, write | `Accounts`, `MCAccounts` |
| Leaderboard (`LeaderboardVC`) | rows, the request under way | read all players, sort by wins | `Accounts` |
| Firestore client, writes (`core/src/remote/remote_store.cc`, `stream.cc`, `write_stream.cc`, `grpc_stream.cc`, `core/src/core/sync_engine.cc`, the mutation queues) | queue on disk, pipeline, write stream, credentials asked for, idle timer, completions | write, fill the pipeline, open, handshake, answer, fail, reject, back off, idle, disable, enable, restart, relaunch | `WritePipeline`, `OrderedWrites` |
| Firestore client, reads (`document_reference.cc`, `event_manager.cc`, `query_listener.cc`, `view.cc`, `remote_event.cc`, `online_state_tracker.cc`, `local_store.cc`) | listeners, view, cache, target, watch stream, online state, events on the main queue | get, listen, unlisten, open, fail, aggregate, raise a snapshot, time out, acknowledge | `DocumentListen`, `HonestReads` |
| Layout, sounds, alerts, JSON encoding, app delegates | no state of the game | - | not modelled |
| Other pods (rest of Firebase, gRPC, BoringSSL, Abseil, LevelDB, MaterialComponents) | - | - | not modelled |

### How they interact

The main menu presents `GameVC` directly for a single-player match. For a
multiplayer match it reads the lobby document (`multiplayerQueue`), decides on
that snapshot in the callback (`assignHostGuest`), writes its seat, creates or
joins the room, and waits behind the curtains for its listener to report the
room as *modified* (`listenForGuest`, `listenForHost`). Then it presents
`GameVC`, whose properties are filled in by the callback of one more read.

In `GameVC` both players read and write the same documents. Fight reads the
input document; whoever finds the other's input there resolves the round for
both: empties the inputs, reads the room, computes the point, writes three
numbers and, when the match is over, a winner, and updates the two players'
wins and losses by one read and one write each. The other device learns of it
through its screen listener, which reads the room again for each modification.

The log-in stores a name and a flag with the device; every `MainMenuVC` made
later reads them once and shows the menu or the log-in page. Registration reads
the document of a name and writes it if there is none.

Below all of this, `setData` and `updateData` append a batch to a queue on disk.
The client copies the oldest batches into a pipeline of ten, sends them on one
stream, and matches the answers to the pipeline by their order alone. A
`getDocument` is a listener that takes itself off at its first event, which it
waits for until the watch stream has brought the server's state or the client
believes to be offline. All of this runs on a worker queue; completions run on
the main queue.

### What is hard

- Everything after a Firestore call runs in a callback: state read before the
  call is used after it, and a second tap can start a second chain.
- No write is conditional and no transaction is used: read, decide, write.
- Documents are replaced (`setData`) and then completed by a second write.
- A listener tells the first report of a document (*added*) from later ones
  (*modified*) and acts only on the latter, so the order of network events
  decides what happens.
- Writes are queued by the client and survive the end of the application.
- A broken connection loses answers of writes that were applied; the client sends
  them again and takes the next answers to be about them.
- Streams, credentials and timers are asynchronous and may be answered for a
  start that is over.
- A document is listened to, dropped and listened to again within one stream,
  while changes and acknowledgements are under way.
- A UIKit layout pass rewrites the labels, and the code reads the winner's
  name from a label.

- Without a connection a read is answered from the client's cache, with no
  error and perhaps with a document of another day, or ends with an error that
  the callbacks only log. The game never asks which of these it got.

`PROJECT.json` lists each hazard at its line, with the properties about it.

### What makes each component correct

- Rules: both switches agree with each other and with the circle of the five.
- Single player: scores and round number agree over rematches, waved-away
  dialogs and draws; the dialog names the leader of a long enough match; the
  labels are never a mixture of two moments; no point after a verdict.
- Queue: a readable lobby whatever happens; until a device decides on an outdated
  lobby, players paired in the order in which they decide, every seat given once,
  a guest has a host, both get the same names, and the host of a joined room gets
  into the match.
- Match: until two resolutions overlap or one uses outdated numbers, a round is one
  step, though it is many reads and writes on two devices: the points, the winner,
  the win and the loss come together, but for those whose read failed; both
  players see the winner.
- Accounts: only a device told that a name was free comes to write it; the stored
  session is of the account whose password was compared, unless the fields
  changed meanwhile; the open page is that of the stored session.
- Leaderboard: rows in the order of wins, nobody twice.
- Writes: settled in order, each answer matched to its write, a write reported
  done is and stays applied, none forgotten, none rejected without a refusal.
- Reads: answered, once, with what the server had or a cached answer that says
  so, never without the device's own writes, never back to an older version.

## 2. The modules and the code

**`GameRules`** - the two switches as tables of the fighters each fighter
defeats, read by `Verdict` as the switch is (listed wins, draw, default), and the
circle (`Position`, `Precedes`) as the reference definition.

**`SinglePlayer`** - one action per handler of `GameVC` in this mode; they run on
the main thread to their end, so each is one step. `Fight` is `buttonClicked`
with `botEngine`, `gameEngine_SP`, `matchEnd_SP` and the dialog. `LayoutPass` is
`viewDidLayoutSubviews`, which may come at any time. `TapBeside` closes the
dialog without any button, which MaterialComponents allows and the code does
not forbid: the match then goes on with its scores.

**`FirstDecision`** - the abstract match: points one at a time, a verdict in the
step of the deciding point, none while a verdict stands, and a verdict that can
be waved away and repeated. `SinglePlayer` refines it (`MatchSpec`).

**`Matchmaking`** - devices that queue. `AssignHostGuest` is the whole callback of
the read (`assignHostGuest`, `connectToRoom`, `initializeHost` or
`initializeGuest`, with the listener it adds), which stores two writes;
`AssignTraps` is the same callback when a forced cast fails. `ApplyWrite` is the
server taking the next stored write of a device. `RoomAdded`, `RoomModified` are
the listener's reports, `TransitionData` the callback of the read that configures
`GameVC`, `GameAppears` its `viewDidAppear`. The read of the lobby is answered by
the server (`ServeLobby`), by the cache of a device that is offline
(`CachedLobby`), which `multiplayerQueue` does not tell apart, or by an error
(`ReadLobbyFails`); `Quit` ends the application at any moment. A cache holds a
lobby there once was (`lobbies`), or such a lobby with the write of an earlier
visit laid over it that is still stored (`CachedLobbies`). `OldRooms` lets the model start with rooms that earlier players filled,
since nothing ever deletes them.

**`Pairing`** - what the queue promises, with no lobby, document, write or listener
in it: who decides takes the first free seat, the first in a room as its host, and
keeps it; a player is shown the game when somebody sits opposite, a guest after its
host, and is told the names of both, once. `Matchmaking` refines it (`PairsInOrder`)
until a device decides on an outdated lobby. A seat counts from the callback that picks it
(`Given`), two documents and several writes before the other side can see it; an
application that ends keeps its seat, because its stored writes still come. That
the one opposite ever appears is not promised.

**`MultiplayerMatch`** - two devices in one room. `Fight(p)` is the tap;
`Serve(p, "fight")` the answer to its read; `FightCallback` the callback, with the
branches `Submit`, `Resolve` and `FightTraps` (a forced cast of a missing field);
`EngineCallback` is `gameLogic` with `roundScoreUpdate` and `updateHostWin` or
`updateGuestWin`; `StatCallback` one of the callbacks of the latter.
`ScreenUpdate` is the listener's read with `updateScreenElements` and
`callMatchEnd`, `MatchEndDialog` the last read and the dialog. Each read has
its error branch: `ReadFails` for those of a round and of the records,
`ScreenUpdateFails`, `DialogFails`. `ServeCached` answers a read from the cache of
a device that is offline, with anything else than the server would say that each
field once held (`former`) and that no pending write of the device covers; these
are more mixtures of old and new fields than one cached document can hold.
`unrecorded` counts the wins and losses whose reads ended with an error: the
callback returns, and nothing ever writes them.

**`AtomicRounds`** - the match between two players without devices, documents or
messages: a round is one step that gives a point or is a draw, and if it leaves the
match decided, names the leader and is one win and one loss. `MultiplayerMatch`
refines it (`RoundsAreAtomic`) until the match is disturbed, that is until two
rounds overlap or one is played on numbers that had changed. A win or loss that
is not recorded, because its read failed, is a step of its own (`MissWin`,
`MissLoss`). The mapping shows what
one player sees, the `Witness`, who is the player resolving a round (or the host,
when nobody is): that device sees its own writes from the callback of the engine
on, and the wins and losses it has still to read and write back are counted as
owed (`Record`).

**`Accounts`** - devices with their pages, text fields, stored sessions and
requests under way. `LogInAttempt` to `LogInCallback` are `logInAttempt` with its
read; `TypeBehindCurtains` is the keyboard, which nothing takes away while the
callback is awaited; `OpenMenu` is a `MainMenuVC` that is made, reads the stored
session and appears. `SignOut`, `Launch`, `LoadUserData`, `SignUp`,
`RegisterAttempt` to `RegisterCallback`, `OpenLeaderboard`, `UserData` and
`LeaveLeaderboard` are the functions of those names. `Answer` is what
`getDocument` may answer: the server's document, a cached one, or an error.
`edited` and `compared` are history. Wins are counted by `MultiplayerMatch`; here a
row of the leaderboard has any. That the process is killed between the two
values `logInAttempt` stores is not modelled.

**`WritePipeline`** - one device's write path. Each handler of the worker queue is
one action with all the calls it makes: `MutationResult` is
`OnWriteStreamMutationResult` with `HandleSuccessfulWrite`, `NotifyUser` and
`FillWritePipeline`; `CloseWithError` is `Stream::Close` with `OnWriteStreamClose`,
`HandleWriteError` or `HandleHandshakeError`, and the restart of the stream; the
others are named like the functions. `Relaunch` ends the process at any moment and
starts it from the disk, `RelaunchBeforeRemoval` in the middle of
`HandleSuccessfulWrite`. `ServerApplies`, `ServerRefuses` and `ConnectionLost` are the
environment.

**`OrderedWrites`** - what the write path promises: writes reach the server in
their order, an interruption can only make the server see a run of them again
from the oldest one on, and the oldest is settled when applied or refused.
`WritePipeline` refines it (`KeepsOrder`).

**`DocumentListen`** - one device's reads of one document. `GetDocument`, `RunTask`
and `Callback` are a read from its call to its completion over the two queues;
`Listen`, `StopListening`, `WatchChange` and the stream's actions are `RemoteStore`
with its `WatchChangeAggregator` and `OnlineStateTracker`; `Show` is the event
manager and the query listeners; `Write` and `Acknowledged` are the device's own
writes as the read path sees them. The variables under "history" of the module say
what was called and answered and when; the code does not keep them.

**`HonestReads`** - what `getDocument` promises its caller, with no queue, listener,
stream or cache in it: one answer; a version the server has had, never older than one
given before; the own writes made before the call, unless pending writes are shown
on top; and, if it is not said to be from the cache either, nothing older than what
the server had at the call. Reads that overlap share a view, so that for them
the last promise counts from the first call of the conversation (`asOf`).
`DocumentListen` refines it (`ReadsAreHonest`). Here a read is called by the game
and answered in the callback, two queues apart.

*The Firestore client in the game's modules* is kept to what the game relies on:
the writes of a device are applied in order, one at a time; its own reads and
listeners see them at once; reads are answered in any order, and their callbacks
run on the main thread in the order of the answers; an update of a missing
document is rejected. `View(doc, ws, f)` is a field as a device sees it: its last
pending write, or the document. `WritePipeline` and `DocumentListen` are where
these rules come from, and show what they leave out: after an interruption the
server may apply a run of writes a second time, so that an observer can see a
field go 2, 1, 2 (`OrderedWrites`, action `Forget`); and two overlapping reads of
one document by one device share a view, so that the second may be given what the
first was given (`Accounts` has this; `Matchmaking` and `MultiplayerMatch` let each
read be answered for itself).

*Assumptions about the environment of the client.* The server takes nothing of a
call that has ended for the client (a late effect of an abandoned call is not
modelled); it ends no call with status OK while writes wait (the assertion in
`OnWriteStreamClose` says it does not); it sends the first snapshot of a target
with the answer to its request. One user: the game never signs in to Firebase. The
states `Open` and `Healthy` of a stream are one, and the stream token is left out.
In `DocumentListen` own writes are applied once and acknowledged whether the
network is enabled or not; limbo resolution cannot be reached by reads of single
documents that nobody deletes; refused listens, existence filters, resume tokens
and the collection of the cache are left out.

*The documents the game starts from.* The lobby document is assumed to exist and
to be empty, or to be as earlier players left it. Nothing in the repository
creates it: on a project where it is missing, `snapshot?.data()` is nil
(`MainMenuExtension.swift` 279), every device stays behind the curtains, and no
room is ever opened. `ReadLobbyFails` is that branch, but no run has it for every
device and for good. The documents of both players exist, as registration wrote
them, with no wins and losses at the start. What a cache holds of a record is
what it was during this match: a copy older than the match is left out, and would
disturb it. A player who comes back later is a device of its own, whose cache
and stored writes are those of the earlier visits. While a stored write to the
lobby waits, the phone sees it over whatever it reads, which is among the answers
of `CachedLobby`. That the writes of the two are sent in order, being one
phone's, is not used: there the model has more orders than the program.

*Abstractions.* Fields of the three documents of a match are one function
`server`, since no property depends on which document a field is in, except
that `Appear` replaces the whole input document, as the code does. Reports
of a listener that come before its read is answered are taken together
(`redraw`), because the callback uses only the newest content; the two reads of
the room that follow (`updateScreenElements`, `callMatchEnd`) are one, as the
first only draws. Names are device identities. Frames, sounds and wording are left out.

*`outdated` and `disturbed`* are history variables that say when the promises of
the multiplayer modules end.

- `outdated` in `Matchmaking`: a device got a lobby that is not the newest, out of
  its cache (`CachedLobby`), or that another device was still to change
  (`ServeLobby` while one is `Deciding`). This excludes two orders of the reads
  of the lobby, and what follows from them: a read between another device's read
  and its write, and a read answered with an old lobby. `LobbyReadable` is
  promised even then.
- `disturbed` in `MultiplayerMatch`: a device began to resolve a round while one
  was being resolved, or the scores or a record it read were not those it would
  have got from the server (`Outdated`). Old *inputs* out of a cache do not count: they make one
  more round, which is a round like any other. A read that fails does not
  count either.

Nothing else is excluded: no order of writes, callbacks, taps and listener
reports, no failing read and no end of an application. Section 5 says
what the code does where the promises end.

Definitions named `Definition_Change` are variants of code definitions with a
plausible mistake; they occur in no specification and serve to see that each
property notices its mistake (`mutants` in `PROJECT.json`).

## 3. The runs

| Run | Instance | Shows |
|---|---|---|
| `single_player` | match ends from round 4, up to 7 rounds | types, scores, dialog, labels, the rules on all 25 pairs, and the refinement of `FirstDecision` |
| `matchmaking` | 3 devices, 4 rooms, 0 or 1 of them old, failures, cached lobbies | types, readable lobby (outdated or not); seats, names and the order of opening until a device decides on an outdated lobby, and the refinement of `Pairing` |
| `matchmaking_live` | 2 devices, 2 rooms, fair | the host of a joined room opens `GameVC` |
| `multiplayer` | matches from round 1, 3 taps in all, 1 read without the server, listener and rotation of the guest | types, the winner leads, wins and losses balance, and the refinement of `AtomicRounds` |
| `multiplayer_live` | matches from round 1, 2 taps in all, both listen and may rotate, fair | both players are shown the winner |
| `accounts` | 2 devices, one of which also logs in, 2 names, 2 passwords, 2 registrations, 1 restart | sessions, pages, the leaderboard, and that existing names are safe from everyone not told before that they are free |
| `write_pipeline` | 4 writes, pipeline of 3, 2 interruptions, 1 restart, fair | the safety of the write path, the refinement of `OrderedWrites`, and that every write settles |
| `document_listen` | 2 reads, 1 own write, versions up to 2, 1 interruption | what is raised is fresh, has own writes and never goes backwards; the assertions of the online state; the refinement of `HonestReads` |
| `document_listen_live` | the same with versions up to 1, fair | every read is answered |
| `guest_misses_room`, `input_missing`, `rejected_though_applied` | small instances | findings of section 5 |

### Bounds

- `single_player`: `MinRounds` is 10 in the code; 4 keeps the cases 10 has (a tie
  at the first possible end, 2-2; ends in later rounds; a dialog waved away and
  repeated by a draw) with every selection and every draw of the bot. `MaxRound`
  7 leaves three rounds after the first possible end.
- `matchmaking`: with three devices a room is filled and the third device opens
  the next one; two of them can decide on one lobby while the third holds a
  stored write, or a third device is given a lobby of any earlier moment out of
  its cache. `LastRoom` 3 is out of reach of three devices and one old room,
  so the bound never cuts a behaviour off. Devices are symmetric; the liveness
  run does not use symmetry.
- `multiplayer`: two taps, one by each player, play a round; with `MinRounds` 1 a
  round that is no draw decides the match, and the third tap plays a second round
  on it, on old inputs out of the cache: the match is decided a second
  time, after a dialog that was waved away or before any. Selections start as
  Rock, and taps choose Paper, so that both players can win, and draw. One read
  (`MaxFailures`) is answered from the cache or ends with an error, whichever it
  is. Only the guest's screen listener reports (`Watching`), since a listener
  changes nothing but its own player's screen, and the guest is the player who
  did not compute the winner as well as the one who did. TLC does not go on from
  a disturbed state (`CONSTRAINT Undisturbed`): a match never ceases to be disturbed,
  and all that the run checks but the types is promised until then; the types
  are proved for all states. What needs more taps, as a tie that a later round
  breaks, is left to the proofs, which bound nothing.
- `multiplayer_live`: a decision needs one round; both players listen, and both
  label states occur.
- `accounts`: one name registered by two devices and a second one to confuse it
  with; two passwords to compare; one restart reaches every page from a stored
  session. `Players` leaves one device without log-ins, since devices share
  nothing but the documents; `MaxWins` 1 gives equal and different rows.
- `write_pipeline`: `kMaxPendingWrites` is 10; 3 with four writes fills the
  pipeline and leaves a batch behind it. Two interruptions let a second failure
  meet what the first left behind. The proofs bound none of these numbers.
- `document_listen`: two reads overlap, or the second follows while the stream
  still has answers to the first, or before the first one's listener is removed; two versions let the own write come before or
  after another's. One interruption breaks the stream once at any moment; two of
  them, or three reads, exceed what can be checked in minutes.

`CHECK_DEADLOCK FALSE` is set where the system may stop: all devices seated or
dead, no taps left, or the bounded registrations, writes or reads done. The
single-player match never stops, and deadlock is checked there.

### Fairness

Weak fairness is assumed of each device's write queue, of the answer to each
kind of read and of each kind of callback: the network answers and the main
thread runs what is dispatched to it, which is what Firestore and UIKit give an
application with a connection. Nothing is assumed of what a user does (a
queueing tap, a selection, Fight, a dialog), nor of failures. Liveness is stated
for runs without failures, because the code has no timeout or retry that could
make it true with them.

The client has both. `WritePipeline` assumes that the worker queue runs what is
put on it, that a backoff ends, that credentials are answered (perhaps by an
error) and that a server that is reached takes the next request; `DocumentListen`
that the two queues run, that a timer fires, that a stream opens or fails, and
that the server answers what it was asked. Interruptions are bounded and never
forced. `EveryWriteSettles` is stated for a network that is enabled from some
point on, since nobody has to enable it. Without the fairness of the server a
read may wait for ever: see the last paragraph of section 5.

## 4. What is proved

All theorems hold for every value of the constants that satisfies the stated
assumptions, that is for any number of devices, rooms, rounds and taps.

**`SinglePlayerProofs`** - the switch is the circle (`SwitchIsCircle`), the two
engines agree (`EnginesAgree`), all four invariants, from the inductive
`IInv` (their conjunction: the sum needs the types, the dialog the sum), the
action property about points, and the refinement of `FirstDecision`
(`ImplementsFirstDecision`) by initial states (`MatchInit`) and steps
(`MatchStep`).

**`MatchmakingProofs`** - `QueueTypeCorrect`; `LobbyAlwaysReadable` from
`HostZero` (once a lobby exists, host0 is in it, and so in every snapshot, and
only a device that read the empty lobby replaces the document), which holds
*with* races, crashes and old caches; `SeatsExclusive` and `GuestAlwaysHasHost` from
`Structure`, the shape of a device's queue by its phase, and `UpToDate`: until a
device decides on an outdated lobby at most one device decides, its snapshot is the lobby, a pending
seat fits the lobby it will be written into, and each seat in the lobby is one
device's. Neither property is inductive by itself, as they say nothing of
seats decided but not yet written. `NamesAlwaysAgree` and `GuestAlwaysFollowsHost`
follow from `Paired` on top of these: a room that is there is of earlier players
(`Earlier`) or names exactly the devices that have its seats and is active only
when the guest is in it and the host has opened `GameVC` (`Owned`). `HostRoom` and
`GuestRoom` tie what a device was last shown of its room to the room on the server
and to the writes it has pending, so that a change shown to a host can only be its
guest coming, and one shown to a guest only its host's activation; `RoomWrites` says
which writes can be pending behind which. The strengthening is needed because the
names are read behind a device's own writes, at different moments on both sides.
`QueuePairsInOrder`, the refinement of `Pairing`, adds that the lobby says "guest"
only of rooms of earlier players and of rooms with both seats given
(`LobbyRecords`) - so the room at which the loop stops is the first that is not full,
whatever writes are still on their way - that the rooms of earlier players stay as they are
(`ClosedKept`), and that `GameVC` gets its data once (`ToldOnce`). The callback that
picks a seat is then a step `Take`, a report that presents `GameVC` a step `Show`, the
read that configures it a step `Tell`, and every other step of documents, writes and
failures changes nothing the players see (`Unnoticed`). `GuestAlwaysHasHost` is
part of it; no run checks it beside the refinement.

**`MultiplayerMatchProofs`** - about the write queues first: what a device sees is
its newest pending write (`ViewOfNewest`), which new writes replace
(`NewerReplace`) or leave (`OthersKeep`), and which a write reaching the server
does not change for its device (`AppliedSeenAsBefore`). `MatchTypeCorrect`
follows from `Types`, which adds to `TypeOK` that each queue has a newest write
of each field it writes (the `CHOOSE` of `View` is defined). `MatchScoresAddUp`
and `WinnerAlwaysLeads` follow from `OneAtATime`: while the match is not
disturbed, at most one player resolves (`Alone`), each score read on the way
adds up (`AnswersAddUp`), and each player whose opponent is not resolving sees a
consistent room. The strengthening is needed because the scores reach the
server one by one: the document is inconsistent in the middle, and only the
resolving device's view, which has all its writes at once, carries the invariant
to the end of the resolution, when both views are the document.
`StatsAlwaysBalance` follows from `OneDecision` on top of it: each record is read
and written back by a callback of its own, so that in between the players'
documents need not balance. What balances is `Record`, the number a player sees
plus the one it still owes; a read that fails moves what was owed to `unrecorded`. `Staged` says that a resolution is at one of its
stages and makes each read once, and `FreshRecords` that an answer still holds the
number its reader sees. `MatchRoundsAreAtomic`, the refinement of `AtomicRounds`,
adds `FreshScores` to both: the scores that the engine's callback was given are
still those its device sees. With that (`RoundInv`) the callback of the engine is a
round of `AtomicRounds`, and every other step changes nothing of what the witness
sees. The witness itself changes only where a resolution begins or ends, and there
both players see the documents as the server has them. `MatchScoresAddUp`, that
points and round number agree in these views, is a theorem only: no run checks it
beside the refinement.

**`WritePipelineProofs`** - all eight invariants of `WritePipeline` and its
refinement of `OrderedWrites`, for any number of writes, size of the pipeline,
interruptions and restarts. The invariant `IInv` joins what is said of three
places a write is in. `QueueIsRun`: the queue is a run of consecutive numbers that
ends with the last write made. `PipelineIsOldestPart`: the pipeline is its prefix.
`WireIsPipeline`: what is on the wire before the handshake is the handshake alone,
and afterwards the answers and the requests are, one after the other, the
pipeline, or a part of it once the call has ended. From these the front of the
pipeline is the batch an answer is about. `AnsweredIsApplied` says that the writes
with an answer under way are applied and that the server's document is no older
than any of them or than any settled write; `OutcomesInOrder` that the numbers below the queue
are those with an outcome; `RefusedIsNext` that a refused write is the one after
the answers, which gives `RejectionHasCause`. `TimerAndNetwork` and
`CredentialsAreOfThisStart` carry the stream. None of the eight is inductive alone:
a batch is removed because of an answer whose meaning lies in the order of
everything sent before. Most steps are reduced to a few lemmas about refilling
(`NextBatch`, `Refilled`) and about a queue that loses its head.

**`AccountsProofs`** - the types and four invariants or action properties of
`Accounts`. `SessionsAlwaysAuthentic` and `PageAlwaysOfTheSession` follow from
`SessionInv`, which adds that a device has one log-in attempt at a time
(`OneAttempt`) and that an open menu is of the stored session (`MenuOfSession`):
the properties themselves say nothing of an attempt whose answer is awaited.
`BoardAlwaysRanked` needs that a board that waits for players has no rows
(`AskedIsEmpty`), so that a name is added at most once however often the board is
opened. `ExistingNamesStaySafe` needs `KnownInv`: a password that was read is in
the cache or is the device's own write on its way, so that no listener answers
"missing" for an account that exists. The `CHOOSE` of a newest own write is defined
because the numbers of writes have a greatest element (`Greatest`).

**`DocumentListenProofs`** - all invariants of `DocumentListen` and its refinement of
`HonestReads`, for any number of reads, writes, failures and switches of the network. `ReadPathTypes` and
`TrackerNeverAsserts` come from `Store`, which adds `Wire`: a stream that is not
open carries nothing, and the requests the client still counts as outstanding are
those on their way plus the answers on their way. `OneAnswer` follows from `Once`:
a muted read has its answer, and nobody else has one. `CallbacksInOrder` follows
from `Ordered`: along the main queue versions only grow, from the newest one
answered to what the view shows, which is no newer than the cache. `OwnWritesSeen`
follows from `OwnWrites`, which says of every place a read can be answered from
(the queue of tasks, the view, the main queue) that the own writes it lacks are in
the version it has. `FreshFromServer` is the longest: `FreshReads` says of each
state of the stream which requests and answers can be under way (`Turns`,
`LastWatch`), what the last of them will bring (`Brings`), and that a target is
current only when the document is at least what the server had when the view was
opened (`Current`). Without it the changes of an earlier listen could not be told from
those that are awaited.
That listeners are raised in one order (`OrderExists`) defines the `CHOOSE` in
`InOrder`. `ReadsKeepTheirPromise`, the refinement of `HonestReads`, joins these facts,
which are about events, to the calls. It needs to know that a read called while none
is under way does not join a view opened for an earlier one. `Conversation` says why:
a listener that had its callback has its removal queued (`Leaving`), additions come in
the order of the calls and know nothing of later reads (`Queued`), so that the
listeners of a view that is too old all leave before the next one is added
(`Departs`), and what is raised for a read under way is of a view no older than its
conversation (`Promised`). `OneAnswer`, that a read is answered at most once, is
part of the promise; no run checks it beside the refinement.

The inductive invariants were checked with TLC on the instances of section 3
before they were proved.

**Only model-checked:** all liveness (`HostEventuallyOpens`, `WinnerAnnounced`,
`EveryWriteSettles`, `EveryReadAnswers`), which is out of reach of the prover
used; every safety property of a passing run is proved. No module uses recursion.

## 5. Findings

Each is the counterexample of a run, with its line in `PROJECT.json`.

1. `guest_misses_room` - the host opens its seat in the lobby before it creates
   the room; a guest that comes in between updates a document that is not there,
   its name is lost, and both wait for ever.
2. `input_missing` - the second player's `initializeInputRoom` removes
   `hostInputCheck` and adds it by a second write; a guest that presses Fight in
   between meets a forced cast of a missing field.
3. `rejected_though_applied` - the server applies a write and refuses the one
   behind it; the sending of a third fails before the client has read the answer
   to the first, which drops the answer and keeps the refusal. The client then
   rejects the front of its pipeline, a write that was applied, and sends the
   refused one again.

The qualifications of the passing properties stand for further behaviours, which
the models contain and which appear as counterexamples when a qualification is
taken away.

`~outdated` in `Matchmaking`: two devices that read one lobby take one seat; and a
device that is offline takes the seat its cache shows, so that the host of a room
long taken replaces the document of the two who play in it, and the names and
the order in which `GameVC` opens are no longer theirs. `outdated` in
`HostEventuallyOpens`, and its restriction to hosts: a guest whose
first snapshot of the room already holds the host's answer gets it as *added*, and
stays behind the curtains. The state `blank` of `GameVC`: it is presented while
the read that configures it is under way, and may appear without a game mode.

`~disturbed` in `MultiplayerMatch`: two Fights that overlap can both resolve, and
count a round twice or lose one; scores or a record out of a cache are incremented
and written over newer ones. (Both players may also both submit and wait for
another tap, which disturbs nothing.) `unrecorded` in `StatsBalance`: a device that
is offline has its own player's document in its cache but not the opponent's;
the win is written, the read for the loss ends with an error, and the match is
at rest with a win and no loss. The labels in `WinnerLeads`: after a layout
pass the winner is announced as "Player 1". The engine's callback reads the selections of the
moment it runs, so that a tap in between can make the point and the fighters shown
disagree. `~edited` in `Accounts`: a device can be signed in under a name typed
behind the curtains. `MayOverwrite`: of two devices told that a name is free, the
second to register it replaces the account of the first. The fairness of the server in `DocumentListen`: when the
last listener goes, `StopListening` makes the online state Unknown without a
timer, and a read that follows while the stream is still starting waits for as
long as the server is silent.

## 6. Not modelled, and the plan

Not modelled: layout arithmetic, sounds, the rules video, alerts and logs, JSON
encoding of flat structures, and application delegates, which hold no state a
property relates.

`Pods/` holds nearly all of the repository's lines: Firebase, gRPC, BoringSSL,
Abseil, LevelDB, nanopb and MaterialComponents, with tables, certificates,
generated protocol code and public headers. They are libraries at fixed versions.
Modelled of them is what the game's correctness depends on and its authors
cannot see: the order, loss and repetition of writes, and the freshness of reads.
The cryptography, the transport, the storage engine and the widgets could be
models of their own, but no behaviour of the game depends on more of them than
the environment assumptions of section 2. By lines of code the mapped share of the
repository is therefore small, and stays so.

Of the Firestore client these parts are left out because the game never reaches
them: transactions, deletes, transforms, queries with filters (the leaderboard
reads a whole collection), bundles, several tabs, limbo resolution, changes of
the user.

Next:

1. `Session`: a composition of `Matchmaking` and `MultiplayerMatch` for one room,
   with `GameVC` appearing blank or late.
2. A match over `OrderedWrites` in place of a queue that is never repeated: what
   of `ScoresAddUp` an observer keeps when writes are seen again.
