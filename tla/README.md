# DelayDeck, modelled in TLA+

DelayDeck delays a live stream: an OBS plugin (C++/Qt, `src/apps/obs-plugin`)
starts a local relay engine (Go, `src/apps/relay-engine`) and tells it over HTTP
when to delay the stream, return to live or throw the buffered part away.  OBS
publishes to the engine over RTMP; the engine publishes to the platform.  This
directory holds TLA+ modules of the engine and of the plugin, the TLC
configurations that check them on small instances, and TLAPS proofs.  The
modules form two groups that meet in `EngineStatus`, what the engine tells its
clients: the engine's are `EngineStates`, `RelayMachine`, `RelaySession`,
`DelayRing` and `DelayController`, all others are the plugin's.

## Inventory

| component | state it keeps | operations | talks to | what makes it correct |
| --- | --- | --- | --- | --- |
| State machine (`internal/state`) | state, connection flags, `transitionPending`, `transitionEpoch`, target delay, slate message, last error; all under `m.mu` | control requests `EnableDelay`, `ReturnLive`, `DumpBuffer`, `SafeHold`; session calls `ConnectInput/Output`, `DisconnectSession`, `PrepareNewSession`, `MarkError`; a goroutine per accepted operation | coordinator (calls), event hub (listener) | claims and messages always have an owner, operations end, an ended session's goroutine changes nothing |
| Forwarding coordinator (`ingest/coordinator.go`) | current pipeline, session of the operation | `SetPipeline`, `ClearPipeline`, `Begin*`, `Run*`, `CompleteEnableDelay`, `ResumePassthrough` | pipeline | an operation works on the pipeline it began on, or on none |
| Ingest server (`ingest/rtmp_server.go`) | per connection: pipeline, publisher, `sessionActive` | `OnPublish`, `OnFCUnpublish`, `OnDeleteStream`, media callbacks, `OnClose`, `endSession` | machine, coordinator, pipeline, publisher | every callback returns; a session is ended once, by its own connection |
| Pipeline, controller (`ingest/pipeline.go`, `scheduler/controller.go`) | output policy, ring, drain goroutine, `slateBuffersInput` | `Push`, the drain tick, the policy changes, `Stop` | ring, timeline, publisher, machine (metrics, errors) | the policy matches the state; frames leave in order, none before its delay |
| Ring (`buffer/ring.go`) | frames, used bytes | `Push`, `PeekOldest`, `PopOldest`, `Clear`, `DropUntilVideoKeyframe` | controller | bytes account for frames, FIFO, never over capacity |
| Output timeline (`scheduler/timeline.go`) | last source and output time of two tracks | `mapSource` | controller | output time never runs backwards |
| Publisher (`output`) | one RTMP connection | `ConnectPublisher`, writes | platform | errors are reported |
| HTTP API, event hub (`api`) | subscriber channels | control handlers, `Publish`, `Subscribe` | machine, clients | a slow or leaving client does not stop the engine |
| Process supervisor (`relay/relay-process.cpp`) | `state_`, `intentional_stop_`, `pending_restart_`, the kill timer, the session token | start, restart (a stop, then a start), QProcess signals, shutdown | engine process, dock | every stop ends and is followed by the start asked for; a timer never kills the next relay |
| Settings, credentials (`config`) | URL per scene collection, stream key in three places | load, save, read and write a key | OBS, Windows | no replaced key comes back; a relay runs with what was saved |
| Setup dialog (`config/setup-dialog.cpp`, `obs/streaming-setup.cpp`) | its fields | check, ask, save, point OBS at the relay | settings, OBS, supervisor | what was checked before the question still holds after it |
| Relay client (`relay/relay-client.cpp`) | link state, `accepting_traffic_`, requests under way | health poll, then status; control posts; suspend and resume | HTTP API, dock | a reply of a relay that is gone changes nothing |
| Event socket (`relay/relay-event-socket.cpp`) | socket, read buffer, handshake | open, handshake, frames, close; the client's reconnection | event hub | a client with a link hears the relay's changes |
| Dock (`dock/delaydeck-dock.cpp`) | last status and its time, toggle, automatic delay | status, link, process and stream changes, clicks and questions | all of the plugin | an old status never replaces a newer one; the delay is asked for once in a stream |
| Slate scenes (`obs/slate-scene-controller.cpp`) | the scene it controls and the one before | status, clear | dock, OBS | the operator's scene comes back |
| Preflight, guard (`preflight`) | `block_next_stream_` | check in a nested event loop, queued stop | OBS, engine, dock | a failed check stops its own stream and no other |
| Slate emitter, media, rtmpcompat, other dialogs | - | - | - | pure data or user interface; not modelled |

Hard behaviours: every method of the machine takes and releases `m.mu` several
times, so operations, session changes and errors interleave between the
sections; goroutines of an operation sleep (`--transition-ms`, one-second
ticks) and may wake up in a later session; the coordinator forgets its pipeline
when any connection closes; a handler waits for a drain goroutine that itself
calls the machine.  The plugin runs on one thread, but dialogs and the preflight
run event loops of their own in the middle of a handler, replies come in any
order and after the relay they were sent to is gone, and OBS, the operator and
Windows go on meanwhile.  `hazards` in `PROJECT.json` lists them at their lines.

## Modules

* `EngineStates` - the states, `canTransition` as a set of triples, and the
  connection flags a state implies.  No variables.
* `RelayMachine` - `machine.go` and `operator_display.go`.  One variable per
  field; one action per section that holds `m.mu`.  A thread `t \in Ops` is a
  control request and then the goroutine it starts: `pc[t]` is the next section
  (`enter`, `begin`, `spawn` in the handler; `start` ... `release` in the
  goroutine), `kind[t]` which of the three operations, whose differences are the
  operators `Source`, `Working`, `Aborted`, `Held`, `Goal`, `Done` and
  `AfterCheck`.  A thread `c \in Callers` is an ingest goroutine inside
  `DisconnectSession` or `MarkError`.  What the coordinator answers is left open.
* `RelaySession` - `RelayMachine` with the real coordinator, the publish
  handler of each connection and the output policy of each pipeline.  It
  EXTENDS the machine, so its control requests are the machine's actions with
  the coordinator's lock sections (`BeginLookup`, `BeginAct`, `BeginBind`,
  `RunLookup`, ...) in the places `RelayMachine` left open.  A handler's
  `hpc` walks through `endSession` (`take`, `clear`, `stop`, `end`) and
  `OnPublish` (`reset`, `prepare`, `dial`, `input`, `output`, `make`,
  `install`).  `MachineSpec` states that the composition refines the machine.
  `began` is a history variable, which no step reads: the session and the epoch in which
  an operation found its pipeline.  An epoch does not say whose a goroutine is, since it is
  read after `Begin*` has returned (`Spawn`); `began` does.
* `DelayRing` - `buffer/ring.go`: the FIFO of frames with its byte count.
* `DelayController` - EXTENDS the ring with one pipeline, frame by frame:
  `scheduler/controller.go` and `ingest/pipeline.go`.  `push` is the ingest
  goroutine inside `Controller.Push` (`act`, `flag`, `buffer`, `write`), `drain` the
  goroutine of `Controller.run` (`peek`, `pop`, `write`), and `todo` the locked
  sections the operation has still to run.  The calls of the controller and
  the pipeline (`BeginSlateHold`, `RunEnableDelayFill`, ...) are sequences of section
  names, put together by `EnableDelay`, `ReturnLive` and `DumpBuffer` as the
  sequences of `machine.go` call them; one action runs each kind of section.

The plugin:

* `RelayLife` - what supervising the relay promises: one variable for the state
  that the dock is told, one for the number of session tokens.
* `RelayProcess` - `relay-process.cpp` field by field; implements `RelayLife`
  (`LifeSteps`).  On Windows, the platform of the plugin, `QProcess::start` reports
  its outcome before it returns, so `startRelay` is one step; `terminate` has no
  effect on a console process without a window, so a stop waits for the kill timer
  or for the relay to end by itself.
* `KeyRegister` - what saving and reading the stream key promise, as one register
  with outages.  `CredentialStore` - the credential manager, the entry of an older
  version and the DPAPI file, with every write that may fail half way; implements
  `KeyRegister` (`RegisterSteps`).
* `RelaySettings` - EXTENDS `RelayProcess` and `CredentialStore` with the URL that each
  scene collection keeps, the setup dialog and `syncManagedRelayStartup`.  `dialog` is
  the question that is open; everything else may happen before it is answered.
  `used` and `drifted` are history: the destination the relay was started with and
  whether it changed in a way that restarts no relay.
* `EngineStatus` - the engine as `GET /v1/status` shows it: the phases of an operation,
  each with state, slate message and pending flag, in the order the sequences of
  `machine.go` take them.  `stamp` is `updatedAt` in milliseconds.  Left out are
  STARTING and INGESTING, which a poll can hardly meet, the moment before a message is
  published, roll-backs, and the safe-hold request, which the plugin never makes.  In
  `Dock` the engine's session begins only while OBS streams.
* `RelayClient` - the link and the requests: `polls[s]` is a health-then-status chain,
  `controls` the control requests, each with the session it was sent to.
* `SlateScene` - `slate-scene-controller.cpp`; `home` is the scene of the show the
  operator chose last, `left` that the slate was forgotten while it was on.
* `StreamingGuard` - a stream of OBS with its frontend events, the preflight's nested
  loop (`frames`), `block_next_stream_` and what `QTimer::singleShot(0)` has queued.
* `Dock` - EXTENDS the three: one action is the whole handling of a signal or a click,
  up to a question or a nested loop.  It uses `RelayLife` (INSTANCE) for the relay
  process, which `RelaySettings` shows `RelayProcess` to implement, and `EngineStatus`
  for the engine.
* `RelayEventSocket` - the event socket, the part of the client that opens and closes
  it, and the relay's route and handler at the other end.

`MC*` modules are instances for TLC; `*_proofs` modules hold theorems.

Abstractions: times are gone (a sleep is a place where others run); messages
and countdowns are one bit; metrics are left out, they feed no decision here;
a pipeline is named by the publish that made it, which also stands for its
`sessionID`; two epoch checks with only a sleep between them are one.  go-rtmp
is external: it runs a connection's callbacks one at a time, calls `OnClose`
for any connection, and leaves one open whose `OnPublish` failed.

In `DelayController` a frame is a keyframe or not, of an age, behind a gap or not;
payloads, timestamps and the two tracks are left out, and so are empty
frames, which `Push` ignores.  `slateBuffersInput` is written without the lock that
`Push` reads it under: until the next section that takes the lock (`racy`), a
read returns either value.  Time is a `Tick` that ages the frames, saturating.  A tick
is a good part of the delay, so it happens while goroutines sleep, wait or write,
never between two adjacent sections of one call; for the same reason `Sleep` waits for
the goroutines that are about to act on an older policy.  A write may block across
ticks and policy changes.  `hole`, `gop` and `fresh` are history: what was lost since
the last buffered frame, the frames since a keyframe, and whether the
delayed output has begun.

In the plugin, a change of one millisecond with the one before it is possible only
where the engine's code puts nothing between them (`Hasty`).  A health reply is
delivered when it is made: later delivery is the same as a later request, or a lost
one.  Only the presence of an error text would matter, and only to the display.

`Lingering` is the one assumption about time in the session modules.  `ConnectPublisher` in `OnPublish`
is a handshake with a remote server.  With `Lingering = FALSE` every goroutine of the
old session has ended when it returns; with `TRUE` those that sleep may still
sleep.  Between sleeps a goroutine runs for microseconds, so nothing else is
still there.

## Runs

| run | instance | shows |
| --- | --- | --- |
| `machine` | 2 operations, 1 caller, 1 session end, any coordinator | claims and slate messages have an owner, flags follow the state, pending transitions and working states end |
| `session_orderly` | 1 connection, 2 publishes, 2 operations, `Lingering = FALSE` | the reported state and the actual output agree; an error has its message; a working state excludes requests; an ended session's operation moves nothing; the composition implements `RelayMachine` |
| `session_lingering` | the same, `Lingering = TRUE` | a goroutine that was given the epoch its operation began in never steers the output of the next session |
| `session_probe` | 2 connections, 1 publish, 1 operation, delay from the start | every callback of the ingest server returns |
| `controller` | one pipeline, a ring of 3 bytes, keyframes of 2, delay from the start | the delayed output is complete, in time and begins with a keyframe; the drain leaves nothing behind; bytes account for frames; every operation ends |
| `settings` | 2 keys, 1 URL, 2 collections, 4 events | the supervisor's flags agree with the process, a running relay has the saved destination or the change is one no restart follows, a crash of OBS loses nothing but what OBS owes a save of, no key that was replaced comes back, the service of OBS stays during a stream, a restart ends; both refinements |
| `dock` | 2 scenes, 2 polls, 8 budgets | no link to a relay that does not run, the automatic delay once in a stream, a queued stop meets its own stream and does stop it, the operator's scene comes back, the dock catches up with the engine |
| `stale_moves` | as `session_lingering` | finding: the last sleep of a sequence is not followed by an epoch check |
| `stale_release` | as `session_lingering` | finding: the deferred release is unconditional |
| `probe_clears` | as `session_probe`, no delay at start | finding: a connection that never published clears the pipeline |
| `switch_gap` | as `controller`, no delay at start | finding: input is lost between two sections of `BeginDelayedOutput` |
| `events_unheard` | 3 messages on the wire, 2 breaks | finding: the request line of the event socket has no question mark, so the relay answers 404 |

Bounds.  `MaxEpoch` bounds the sessions that end in `machine`: one end is enough
for a stale goroutine, and a stale goroutine acts the same on every later epoch;
in the session runs `MaxPublish` bounds them and `MaxEpoch` is out of reach.  Two
operations are an old one and one that runs now, or two that race; a third
has nothing left to race with, since the claim admits one per session.  Two
publishes are a session and its successor.  Connections are interchangeable until
one publishes, so `Publishers` lets one of them publish and the others open and
close; the policy of a stopped pipeline decides nothing and is forgotten.  One delay suffices: its value is only
compared with zero.  In `controller` one tick is the delay and `MaxLag` one tick more;
`MaxGop` = 1 and three bytes hold a keyframe with a frame before or after it, so the ring
overflows, the drop finds frames before the keyframe, and two frames follow each other in
the output.  `Ops` are interchangeable, so the safety runs use symmetry.

In `settings`, `MaxEvents` bounds what the operator, OBS and Windows do on their own
(dialogs, collections, outages, streams, ends of OBS); four are, for instance, a setup, a
stream that starts during its question, an outage, and a crash.  Two keys are an old and a new one, two
collections one with an entry and one without; a second URL behaves as a second
key does.  In `dock` each record of `MCBudgets` says how often the relay starts, streams
start, the operator clicks or switches scenes, the engine fails or a stranger
answers on its port, how many polls overlap, and how many changes share a
millisecond.  Each budget is generous in one thing and has one or none of the others, since all
together are far beyond a check of minutes: two starts let a reply outlive its
relay, two streams a flag outlive its stream, two polls replies overtake each other.
Both slate scenes are configured and exist.  The operator switches between scenes of
the show, never to a slate by hand.  What is queued with a zero timer runs before
the operator does something, but may run after replies and other events.  The
operator and OBS may stop at any time, so `settings` and `dock` do not check deadlock.

Fairness.  A goroutine that can run is run by Go's scheduler (weak fairness of
each operation, handler and caller).  The `Run*` calls return: the slates after
three seconds, the fill and the drain as long as OBS sends media and the platform
takes it - the session runs assume that, and `controller` shows it (`OperationEnds`)
under `ControllerAssumption`: between two keyframes no more frames come than fit in the
ring beside one.  Without it the ring can fill up before the first keyframe, and
`RunEnableDelayFill` never returns.  `isCancelled` ends them with the session.  Time is
strongly fair in `controller`: frames do not arrive infinitely fast.
`StopPipeline` waits for a goroutine that `select`s between its ticker and
`stopCh`; Go chooses at random, so strong fairness.  Nobody has to ask, publish or
close.

In the plugin: queued calls run, timers fire, a killed process ends (`settings`); polls and
control requests are answered or lost, OBS delivers the events it owes, a relay that
runs begins to listen and a relay being stopped is followed by the next (`dock`; the
last is `RestartEnds` of `settings`).  Nobody has to click, stream or end anything.  `DockCatchesUp` says `<>[]` since every budget
runs out: once things have calmed down.  In `RelayEventSocket` the steps of a handshake are strongly
fair: on the loopback interface they take far less than the 3 s between two polls, each of which
opens the socket anew.

The findings.  The first four need timing that a test would hardly hit: `stale_moves`
a publish within the last 50 ms of an operation plus a safe-hold request,
`stale_release` an operation started within a second of a reconnect, `probe_clears`
any connect-and-close on the ingest port during an operation,
`switch_gap` a frame within the microseconds between two statements.  `NoSilentGap`
excepts that one window and holds.  `events_unheard` needs no timing: `QUrl::query`
returns the query without its question mark, so no subscription ever succeeds and the
dock learns of changes by its three-second poll alone.  With `<<"?">>` between path
and query in `Target` the same instance satisfies `EventsHeard` (340 states).

What the models show besides, where no run calls it a violation:

* `EnableDelay` reads the epoch for its goroutine (machine.go:238) after `BeginEnableDelay` has
  returned.  A session that ends in between leaves the goroutine with the next session's epoch.
  If it is still in its first sleep (50 ms by default) when the next session has its pipeline and
  an operation has bound the coordinator to it, every check lets it pass: it enters SAFE_HOLD
  in that operation's place, and its `RunEnableDelayFill` and `CompleteEnableDelay` act on the next
  session's pipeline, as a call left over from an old session should not
  (coordinator_test.go:56).  This is the exception `StaleNeverSteers` names: without
  `opEpoch[t] = began[t].epoch` TLC finds that trace in the instance `session_lingering`, in 44 states.
* `clear` forgets the scene before the slate when the link is lost in a transition
  (`left` in `SlateHome`): the slate stays on until the operator leaves it, and the next
  status takes the slate itself for the scene to restore.  A switch by hand in a
  transition is given up by one status and overridden by the one after it.
* `autoTriggered` is set when the request is posted: if it is refused or lost, or the
  relay restarts in mid-stream, the stream stays live while the toggle shows the delay.
* `handleControlReply` asks neither for traffic nor for a link: a late answer of an
  earlier relay is shown, and may take the slate scene, while the link is down.
* The key is global and the URL belongs to a collection, so a switch of collections, or a
  save that fails half way, pairs an old one with a new one until the next restart
  (`drifted` in `RelayUsesSaved`); `saveDestination` runs after the question without asking
  again whether a stream has started.
* A second start that finds no binary changes no state and leaves the dock at Idle
  (`DockFollows`).
* A relay that OBS left behind when it crashed keeps the port: the dock shows AuthFailed.

## Proofs

Every invariant and every safety action property of the passing runs is also a theorem,
and so are the three refinements.  What follows names, for each module of proofs, the
theorems, what they assume and the invariant they rest on.  A theorem about `RelaySession`
may have a hypothesis on its constants; all others hold under the named assumptions
of the modules (`MachineAssumption`, `ControllerAssumption`, ...), which say what the
configuration of the program guarantees.

`RelayMachine_proofs` proves, for any sets of requests, callers and delays and any
number of sessions (only `MachineAssumption`):

* `TypeCorrect`: `Spec => []TypeOK`, the invariant the others rest on;
* `FlagsFollowState`: `Spec => []ConnectionFlags`.  The one hard case is a
  transition to SAFE_HOLD, which keeps the flags: lemma `ApplyFlags` shows from
  the table that all of them start where both ends are up;
* `ClaimHasOwner`: `Spec => []NoOrphanPending` and `SlateHasOwner`:
  `Spec => []NoOrphanSlate`.  Both are inductive with `TypeOK`: a thread
  leaves the labels at which it owes a release only by releasing, and lemma
  `MoveStays` covers the moves inside.

`StepCases` lists the actions once; each invariant has one step per action.

`RelaySession_proofs` proves, for any number of connections, publishes and requests,

* `SessionImplementsMachine`: `SessionSpec => MachineSpec`.  Each action of the composition
  contains one of the machine or leaves its variables alone; `SessionAssumption` makes the
  connections and the drain goroutines callers of the machine, and no two of them the
  same.  No invariant is needed, and the four theorems above hold of the engine;
* `SessionTypeCorrect`: `SessionSpec => []SessionTypeOK`;
* `ErrorIsExplained`: with one publisher (`OnePublisher`), `[]ErrorHasMessage`.  `StartInv` says that
  the state is READY while `OnPublish` prepares a session, which keeps its clearing of
  the last error apart from every ERROR; `MessageInv` adds the callers that have left a message
  and have not yet failed;
* `StaleKeepsOut`: with one publisher, `StaleNeverSteers`, also when goroutines linger.  `StaleInv`
  says that each epoch check stands between a sleep and the next call of the coordinator, so
  what steers has the present epoch; `BeganInv` that an epoch belongs to one session, so what
  began in the present epoch began in the session that is live or is being ended (`Owns`).  It
  rests on `StreamInv`, that `DisconnectSession` finds a session to end wherever a pipeline was,
  and so never leaves the epoch as it is, and on `CallInv`, where the coordinator is in a call.
  A goroutine that was given a later epoch than its operation began in is excepted, and has to
  be, as told above;

`SessionOutput_proofs` proves what needs `Orderly` (one publisher, `Lingering = FALSE`) or `Alone`
(the same with one connection):

* `DelayIsNamed` (`DelayedHasTarget`), `WorkIsClaimed` (`WorkingIsPending`) and `EndedStandsStill`
  (`EndedNeverMoves`).  `DriveInv` says that an operation is where the state says or its session is
  over, and that one operation at a time is under way; `QuietInv` that none is while a new
  session is set up.  `ClaimInv` is the promise about the claim while a session streams and nobody
  is ending it (`Era`), and `EraInv` says that all that is under way then began in its epoch: here,
  without lingering goroutines, one that was given a later epoch is covered too;
* `DelayedIsDelayed` (`DelayedMeansDelayed`) and `RealtimeIsLive` (`RealtimeMeansLive`) from `PolicyInv`:
  what the policy of the current pipeline is at the places of an operation before its first and
  after its last call, where the state is about to catch up with it.

The hypotheses are needed.  TLC finds with two publishers that `DelayedHasTarget`, `ErrorHasMessage`,
`WorkingIsPending` and `StaleNeverSteers` fail; with lingering goroutines that `DelayedHasTarget`,
`WorkingIsPending` and `EndedNeverMoves` do (see the runs `stale_release` and `stale_moves`);
with a second connection, which only connects and closes, that `DelayedMeansDelayed`
(`probe_clears`) and `RealtimeMeansLive` do.  OBS is the one publisher this program is built for; the
engine itself refuses neither a second publisher nor a second connection.

`DelayRing_proofs` holds lemmas about the operators of the ring: `Bytes` of a sequence that is
split, extended or shortened, the first keyframe, and that push, pop, drop and
clear keep `Accounted`.  `Bytes` counts frames and keyframes instead of folding over the
sequence, so that these are facts about cardinalities.

`DelayController_proofs` proves, for any capacity, delay and frames,

* `LiveLeavesRingEmpty`: `ControllerSpec => []LiveAfterBuffer`.  It is inductive with
  `PushShape` (Push stands at `flag` or `buffer` only under the slate's policy, so the
  push that ends a drain is never the one that fills the ring); the lemmas show that
  nothing but Push can make an empty ring non-empty.  It is about the ring alone: the one
  frame that the drain goroutine has popped and still writes may go out after the live one;
* `RealtimeLeavesNothing`: `ControllerSpec => []RealtimeIsEmpty`.  The property speaks of the
  end of an operation, so the invariant `EmptyInv` says of each place in the three
  sequences what holds there: `todo` is the rest of one of them from its `n`-th section
  (`Left`), with a promise for `n` (`EnableStage`, `LiveStage`).  `Calm`, that no frame is on
  its way into the ring because of the slate, is lost when EnableDelay begins to buffer and
  regained at its last sleep, which waits for every push that read an older policy; ReturnLive and DumpBuffer
  need it, or a push begun under the slate would fill the ring after it was cleared;
* `ControllerTypeCorrect` and `BytesAreAccounted`: `[]ControllerTypeOK` and `[]Accounted`, proved together
  (`TypeInv`), since the bytes in use stay within the capacity only as long as they are those of
  the frames.

`DelayOutput_proofs` proves what the delayed output promises, for any capacity, delay and lag:
`DelayIsKept` (`NeverEarly`), `KeyframeComesFirst` (`StartsAtKeyframe`) and `NothingIsLost`
(`NoSilentGap`).  The peek and the pop of one pass are two critical sections, and an operation
may empty and refill the ring between them; that no frame leaves early then rests on the
whole sequence of EnableDelay.  The invariant `OutputInv` was checked by TLC on two instances
(a delay of one tick from the start, and of two ticks with none) before it was proved.  `StageInv` gives each of
the fifteen places of EnableDelay a promise (`FillStage`) about

* the policy, the flag and who may read a former value of it (`FillControl`);
* what Push may have read (`FillPush`): before `clear` nothing is on its way into the ring
  or the output is delayed already; from the first sleep on every frame goes into it;
* the ring and the drain goroutine (`FillRing`): from `clear` on nothing in the ring is older than a
  pass that is still under way (`OldPass`), so such a pass pops nothing, and the sleep outlasts its
  pops; nothing is missing from the second frame on (`Joined`); after the fill there is a keyframe,
  after the drop it comes first (`KeyFirst`).

Then `Delayed` holds until the next operation: a frame about to be popped was found due and is still the
first (`Ready`), and nothing is missing (`Whole`).  `DelayInv` and `KeyInv` are about every delayed output, also
one that an operation has begun to end.

`RelaySettings_proofs` proves, for any keys, URLs, collections and number of events,

* `Supervision`: `Spec => []SupervisorSound`, and with it the type invariant `SettingsTyped`;
* `ImplementsLife` and `ImplementsRegister`: the two refinements, step by step;
* `ServiceFixed`, an action property that follows from the guards of the two actions that
  change the service;
* `DockFollowsAlways`, `SetupSurvivesAlways` and `UsesSaved`, each inductive with
  `TypeInv` (`SettingsTypeOK` and `SupervisorSound`): that a relay is Running exactly with a process
  is what makes `Remember` the only place where it becomes so.

`Dock_proofs` proves, for any scenes, polls and budgets,

* `SlateComesHome`: `Spec => []SlateHome`.  `SlateInv` adds what the controller will do: while the
  slate is on, the scene to restore is home, or the operator has already left it;
* `LinkNeedsProcess`: `Spec => []ConnectedRuns`, inductive once it is said that traffic flows
  exactly while the relay runs and that without it the link is down;
* `GuardStopsItsOwn`: `Spec => []GuardSpares`.  `GuardInv` says that a check under way is alone
  and belongs to a stream that has not connected, whatever questions are opened in
  and around its loop, and that nothing is queued until the stream is live;
* `AutoAtMostOnce`: `Spec => []AutoOnce`, inductive with `GuardInv`, since the end of a check must
  not be the beginning of a stream whose flag is still reset;
* `DockTypeCorrect`: `Spec => []DockTypeOK`, in groups of variables.  Requests are sent to a session
  that exists because the link needs a process that runs (`LinkInv`, `RunInv`); what was sent or
  stamped before keeps its type because the counters only grow (`Grows`); the scene a slate
  restores is a scene (`SlateTypeInv`); and at most two loops are nested, since there is at most
  one question (`LoopInv`) and at most one check (`GuardInv`).  `DockAssumption` types the budgets.

Each has a lemma that says what any step may do to the few variables it is about
(`SlateSteps`, `LinkSteps`, `GuardSteps`, `AutoSteps`, `ClientTypes`).

Only model-checked: the liveness properties (`PendingEnds`, `WorkEnds`, `HandlerReturns`,
`OperationEnds`, `RestartEnds`, `DockCatchesUp`, `BlockedStreamEnds`): TLAPS cannot do fairness here.
The runs that end in a violation show what no theorem says.

## Not modelled

* Output timeline (`scheduler/timeline.go`): arithmetic on 32-bit timestamps, one track at a time
  under one goroutine; nothing else looks at its result.
* The event hub's channels: a publication that blocks on a full channel with the read lock held
  while the subscriber waits for the write lock, and the order of two publications.  The plugin never gets a
  subscription (`events_unheard`), so there is no subscriber in this program; once there is one,
  these are the next thing to model.
* `ResumeLive`, `ResumeDelayed` and the mock paths without a coordinator: only tests take them;
  their transitions are in the table.  Metrics of the status.
* Slate emitter (nothing calls it), media bytes, RTMP and FLV encoding, `rtmpcompat`, URL parsing:
  pure data.  go-rtmp, QProcess, QNetworkAccessManager and OBS are external and modelled by how
  they are used.
* Dock: labels, the countdown, error texts, the delay spin box, the scene selectors, and the
  dock's own settings (`dock-settings.cpp`), which change on a switch of the scene collection; with them in
  `Dock` the states are beyond a check of minutes.  `notifyObsStopDiscardedDelay` only shows a box.
* A relay that is not managed (`DELAYDECK_MANAGED_RELAY` off), and the link state NoToken, which a
  managed relay never causes.
* Preflight's look at the settings of OBS, a free choice in `PreflightReturns`, and the dialog of a failure.
* `clearDestination`, which nothing calls; presets, the about dialog, the check for releases,
  path lookup, locale: no state whose order matters.
