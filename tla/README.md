# Woosh navigation visualization: a TLA+ verification project

The repository shows and records what a navigating robot does. It has two
programs that do the same job:

- the **Woosh viewer** (Rust, `operator/woosh_viewer/src`): a desktop program
  with an operator panel, a control client and a data service built in;
- the **Rerun sidecar** (Python, `src/`): a process beside the robot's existing
  WebViz server that mirrors its stream into Rerun and records its tasks. The
  same package has the parts with which the robot's own service does this without
  a sidecar: a state hub, and a `RerunSink` that runs Rerun in a process of its own.

Both programs read one WebSocket of a robot (`/viz/ws`: a greeting, a snapshot, then
updates), derive from it which navigation task is running, show map, camera and
dynamic map, and write one recording per task. The robot itself is not part of
the repository; the modules model it from what the code sends to it and reads
from it.

## Parts of the system

| Part | State | Operations | Interacts with |
|---|---|---|---|
| Native data service (`native_sidecar.rs`) | six cells shared by two threads: settings, stop, reconnect, connected, last message, status | start, reconfigure, stop, the worker's connect / read / publish / reconnect | the panel (shared cells), the robot (WebSocket, HTTP), a local Rerun server |
| `SidecarManager` (`main.rs`) | the service, if any | restart, poll_exit, stop, Drop | owns the service; called on the egui thread |
| Operator panel (`main.rs`) | pending commands, online, live, navigation_running, recording_enabled | one frame: copy status, drain results, poll status, buttons, checkbox, change of connection | the control client's channel, the service's cells |
| Connection settings (`main.rs`) | command line, `woosh-viewer.toml`, the form | start, edit, connect, reload, save | give client, service and live URL their values |
| Control client (`control_client.rs`) | endpoint, generation, a channel | dispatch (one thread per command), try_recv, set_endpoint | the robot's HTTP control API |
| Navigation logger (`native_sidecar.rs`) | active task, its directory and recording, cached map, last image | log_message, prepare / start / finish recording, update_settings, refresh_map, log_images, log_dynamic_map | the worker thread; the live stream; the file system |
| Replay list (`main.rs`, `native_sidecar.rs`) | rows, marked row, confirmation, source label | load, open, go live, delete | the Rerun viewer; the directories the logger writes |
| Observer (`rerun_sidecar.py`) | the hub's active task, the map | handle_message and its handlers, update_map, shutdown | replay store, Rerun runtime, image fetcher |
| WebViz consumer (`rerun_sidecar.py`) | connection, map signature | connect and reconnect, read, poll the map | the observer; the robot |
| Image fetcher (`rerun_sidecar.py`) | newest pending image per stream, what was published | schedule, download, publish, shutdown; a thread | fed by the observer, feeds the runtime |
| Rerun runtime (`rerun_sink.py`) | a bounded queue, active task, recording stream | publish, start_task, finish_task, shutdown; a worker thread | fed by the observer, the fetcher, or the pipe |
| `RerunSink` (`rerun_sink.py`) | a bounded queue, a writer thread, the worker process | the same calls, sent through a pipe; status | called by the state hub; its process holds a runtime |
| State hub (`state_hub.py`) | active task, aggregated state | start and finalize a task, publish, broadcast | store and sink, called outside its lock |
| Replay store (`replay_store.py`) | registry of tasks, finalizer queue and counter, directories | start_task, store_frame, finalize_task(_async), prune, wait, shutdown; a finalizer thread | hub or observer; the Rerun worker writes into the same directories |
| Control API (`rerun_sidecar.py`) | none of its own | forward requests to the robot; the map request also updates the observer's map | observer, robot |

What is hard here: two threads over relaxed atomics and separate locks, command
results and a WebSocket that report the same fact in any order, streams that
break and miss the end of a task, caches that do not know whose URL they hold,
values that are compared under a lock and sent after it, queues that drop,
threads and processes that end while others still call, directories that are
written while they are pruned or deleted, and a disk that refuses.
`PROJECT.json` lists each hazard at its line with the properties that would catch
it, or the reason why none does.

## Modules

| Module | Models | Checked by | Proofs |
|---|---|---|---|
| `NativeSidecar` | the service's worker and the egui thread's calls, one step per access to a shared cell | `MCNativeSidecar` | `NativeSidecarProofs` |
| `OperatorPanel` | panel, control client, and the service reduced to what the panel reads | `MCOperatorPanel` | `OperatorPanelProofs` |
| `RecordingSwitch` | the recording checkbox and its three writers, command threads, the robot's flag | `MCRecordingSwitch` | `RecordingPanelProofs` |
| `ConnectionSettings` | command line, file and form, and the three places that use them | `MCConnectionSettings` | `ConnectionSettingsProofs` |
| `TaskRecorder` | abstract: what a recorder of tasks promises | through the two below | |
| `TaskRecording` | which recording the viewer writes, and the list that deletes recordings | `MCTaskRecording` | `TaskRecordingProofs` |
| `LiveView` | the logger's map and image caches, the screen and the recording | `MCLiveView` | `LiveDataProofs` |
| `ReplayPanel` | rows, label and Rerun viewer against the directories being written | `MCReplayPanel` | `RecordingPanelProofs` |
| `OccupancyMask` | the decoders of the dynamic map, Rust beside Python | `MCOccupancyMask` | `LiveDataProofs` |
| `ObservedNavigation` | the Python observer, its queue and the Rerun worker | `MCObservedNavigation` | `ObserverProofs` |
| `ObservedMap` | the consumer's map poll and the control API's map request | `MCObservedMap` | `ObserverProofs` |
| `ReplayFinalizer` | the replay store's registry, finalizer thread, wait and shutdown | `MCReplayFinalizer` | `ReplayFinalizerProofs` |

How the modules fit together. `OperatorPanel` and `RecordingSwitch` reduce the
service to the messages it holds and the cells the panel reads. What they take from
`NativeSidecar`: at most one message of an earlier connection can still be
published (`AtMostOneStaleMessage`), and a change of connection may leave the worker
with the previous robot (the run `lost_reconnect`, `ReconnectLost` in
`OperatorPanel`). `ConnectionSettings` is about the settings only, not about the worker
that follows them. `TaskRecording` and `ObservedNavigation` both implement
`TaskRecorder`. `LiveView` takes from `TaskRecording` only that a recording is open or
not. `ObservedNavigation` sets a directory's status in the step
in which the task is finished; that every finished task is written exactly once
is `FinalizedOnce` and `TakenIsFinalized` of `ReplayFinalizer`.

`RecordingSwitch`, `OccupancyMask` and `ObservedMap` have no run in `PROJECT.json`: what
matters of them is safety, and it is proved for every value of their constants. Their
MC modules and configurations check the same formulas on small instances
(`tlc -config MCObservedMap.cfg MCObservedMap`, for instance), and there also the liveness
properties `SwitchSettles` and `MapCatchesUp`, which the prover cannot take.

### NativeSidecar

Variables: the six cells; `pc`, `active` and `message` for the worker
(`run_worker`, `consume_websocket`); `ui`, `wanted`, `uiNext` for the egui
thread; `foreign` for another process on the Rerun port; two histories.
`reconfigure` is five steps because it writes five cells, one after the other,
with no lock held over all of them; `Restart` is its first (the settings lock),
`CfgConnected` ... `CfgReconnect` the others. The worker's loop is split at every
cell it reads or writes. A navigation's eight active status names are one,
`"processing"`, next to `"accepted"`, which the viewer writes itself.

Properties: the two writers of the status agree (`RunningMatchesTask`); a
service that is down never reads as connected although `connected` has writers
on both threads (`DownIsNotConnected`); a switch of robot is pending until
served unless the worker erased it (`SwitchIsPending`); the previous robot gets
at most one more message into the status (`AtMostOneStaleMessage`). Liveness:
joins on the egui thread return (`JoinReturns`), a switch is served
(`ReconfigureServed`), a dead worker is noticed (`FailureIsNoticed`).

Fairness: `FairSpec` schedules the worker's local steps and what the egui thread
does by itself. Socket calls have timeouts (connect 3 s, read 1 s), so they
return. The HTTP requests of the worker (`ureq` with its default agent) have
none: nothing is assumed of them, and the liveness properties except a worker
that stays in one for ever (`StuckInHttp`). `AnsweredSpec` adds that the robot
answers; the violation run uses it, so the counterexample does not depend on a
hanging request.

### OperatorPanel

One frame is `CopyStatus`, any number of `DrainResult`, `PollStatus`, then a
click or `EndFrame`. A command thread is an entry of `request` until it reports
to `results`. A command may be carried out and its reply lost (`Execute`, then
`ReplyErr`), or the robot gets to it when the client no longer waits (`late`,
`ExecuteLate`); a dry run is answered like a navigation and moves nothing. A change of
connection (`ApplyConnection`) keeps a running service, which may miss it
(`ReconnectLost`: `source`, the robot it streams, stays), or replaces it, and the new one
may not start or die later (`ServiceFails`); `CopyStatus` drops a dead one.
`PendingHasCommand` and `SingleFlight` are the two sides of the
pending set; `SettledAgreement` says what is shown once nothing is on its way, with the
exceptions of the code: a result was applied that the robot's state had outrun (the
case that `StopGreyWhenIdle` shows) or that was a dry run's (`wrong`), or the service
streams another robot than commands go to (`source # endpoint`). There is no liveness here: nothing in the code bounds
how long a robot takes to say something, and no property needs it.

### RecordingSwitch

The checkbox `recording_enabled` is overwritten by the published status in every
frame, then by each result of the frame, and a click flips what is shown; there
is no pending set to keep a second click out. `Click` sends a command that a
thread of its own carries out (`Handle`) and reports (`Report`, which may say
nothing because the request or its answer was lost). After the socket's five seconds
the thread reports an error although the robot may still handle the request
(`TimeOut`; `waits` is then false). `wish` remembers the last
click and whether it is `alone`: no other command that sets the flag was under
way, not even a timed-out one, and nobody else has changed it. `LastClickCounts`: a click that is alone
decides the robot's flag whatever overwrote the box meanwhile.
`PublishedIsTheRobots`: with all messages read the status has the robot's flag.
`SwitchSettles` (liveness): the box comes to show the flag. Fairness: the worker
reads, frames are drawn, and threads report or time out because their sockets have
timeouts; that a robot handles a request is not assumed.

### ConnectionSettings

A robot address is a text: an address, perhaps padded with blanks, or nothing,
or something that is no host. `Start` reads file and flags as `ViewerConfig::parse`
does and ends with an error where `main` does; `Connect`, `Reload`, `EditForm`,
`ToggleSave` are the form; `ServiceFails` is a worker that died. The file is written in
two halves (`fs::write` empties it first), so a save may fail before, leave an
empty file or a first part of the text (`Torn`), and the process may end in between
(`CrashWhileSaving`). The client, the settings of the service and the live URL name one
robot and one port (`ConnectionInv`: `OneRobot` and `LiveUrlIsServed`; whether the worker
follows its settings is `NativeSidecar`'s question); what the
viewer saved never locks the next start out (`NeverLocksItselfOut`: the
unflagged start is `Accepted`); what it saves is what it uses (`SavedIsUsed`). The
exceptions the properties name are the code's: a URL of `--rerun-url` or of the file
stays until the first connection, a start gives the client the untrimmed text, and a
write that is cut short within a line leaves a file that the next start refuses.

### TaskRecorder and TaskRecording

`TaskRecorder` is the abstract specification: recordings are numbered in the order they are
begun, at most one is being written, always the newest, what it holds grows
only while it is that one, and afterwards it can only be lost as a whole; the
task being recorded is not begun again. Both programs are shown to implement it
(`IsTaskRecorder`):

| `TaskRecorder` | `TaskRecording` (viewer) | `ObservedNavigation` (sidecar) |
|---|---|---|
| `task` | the logger's `task` | the observer's active task |
| `current` | `dir` | the registry's directory of the active task, or 0 |
| `count` | `used` | the number of directories made |
| `content` | the origins of a recording's data | the status with which the directory was closed |
| `Lose` | a deletion | never taken |

In `TaskRecording` a message that carries a task is three steps, because the panel's
thread and the end of the process see the disk in between:
`prepare_task_recording`, which starts a recording (with its failures) or writes the
status to `task.json` (`TaskStatus`, `Snapshot`); the log of the message
(`LogTask`); and `finish_task_recording` with the status document (`FinishTask`).
`hand` says where the logger is. `recordings` are the directories; what
`recording.rrd` holds is the set of origins (robot, task) of its messages, the
robots whose map it has and the robots of its status documents. The document
(`WithDocument`) is drawn from the shared status (`shown`: whose it is), which a new
task does not reset and a change of robot does (`Reconfigure`); so a recording may
show an earlier task's goal and path, and `OneRobotOneTask` says so: messages
are of one task, documents of one robot. `FinishedIsFrozen`: once `task.json` says the
task is over, only the message in hand is still recorded, and if the process ends
before, nothing is. The robot's work is known only while the stream is up. Left out: a
failing write of `task.json`, two starts within one millisecond that share a
directory name, and the two map revisions in the status document.

### LiveView

Two robots use the same URLs and may have the same metadata, so neither the map's
signature nor an image's identity says whose it is; the logger keeps one of each
(`signature`, `identity`) to decide what is downloaded at all. `live` is what is on the screen, `rec`
what the recording has. `CachedIsShown`: an image that will not be asked for
again is on the screen and is this robot's. `OneRobotOnScreen`: pose and image are
the present robot's from the switch on. Metadata and image of a map are two requests,
and the robot may change its map between them (`NewMap(i)`, image `i` under older
metadata). `PosesFitTheMap`: poses are drawn with the
scale of the map shown or of an earlier one, whose metadata the next refresh
finds changed, unless the last new metadata came without an image
(`missed`); a robot that goes back to earlier metadata is left out, as in `TornIsReplaced`
of `ObservedMap`. `RecordingHasTheImage`: the recording has the image on the screen, but
for one that was shown before the recording began, which the cache keeps out of
it. There is no liveness: neither a failed image nor a failed map is asked for again
by the viewer (the map's signature is kept although its image did not arrive, and an image
comes with the robot's next announcement only), so nothing guarantees that a
failed download is made up for. All the properties are proved.

### ReplayPanel

The Rerun viewer (`view`), the label over it (`label`) and the marked row
(`selected`, a task id) are kept apart, as are the list and the disk. A row's id is
that of `task.json`, or else the directory's name, and `task.json` is written in two
halves by the service's thread. Each property names its exceptions.
`PanelStaysTrue`: a reload refused by an invalid form clears mark and label and opens nothing
(`RefuseReload`), and a deletion that fails half way leaves a row without a recording,
with the error shown. `DeletionIsExact`: two recordings of one task have one mark, and
a `task.json` unreadable in one of two listings gives one recording two ids.

### OccupancyMask

The same message goes through `apply_runs` (machine words, saturating addition,
missing or negative numbers read as zero) and `_log_dynamic_map` (unbounded
integers, an exception at a run that is no pair). One run filled in is one step
of the program it belongs to. `ViewerDrawsTheRuns` and `SidecarDrawsTheRuns` compare each mask with
`Picture`, a definition that knows no order and no arithmetic beyond the run
itself; `DecodersAgree` compares what the two have drawn. A run is a pair of
integers or cut short; numbers that are no integers are not among the inputs.

### ObservedNavigation

A message is a sequence of parts; a snapshot has a status, data and the
remembered events, as `_handle_snapshot` takes them apart. `obs` has the
observer's active task, the registry, the directories and the queue; `runtime`
is the worker of `_RerunRuntime`. Starting a task may fail in two places:
`start_task` of the store raises after the old task was superseded, which ends the
connection (`StoreFails`), and `_start_task_stream` raises after it has set the active
task, or recordings are not saved at all (`Outcomes`, `refused`): that task then has
no recording. The worker keeps its last plan over a change of task (`plan`) and
draws it on camera frames (`CameraFrame`), into the new task's recording as well; `kept`
remembers which plan a recording began with. The robot announces a task by its status and
by events in either order, repeats the status while it runs and in every snapshot, and runs each id once. The real queue holds at least
eight entries; `QueueSize` is a parameter and 3 in the run, which makes it full
with few messages and changes nothing else. `obs.lost` records that a start or
a finish was dropped; `SinkFollowsObserver` and `OneTaskPerRecording` are claims
for the other case, and hold up to that loss. `SinkFollowsObserver` excepts the
recording that was refused, `OneTaskPerRecording` the plan kept from before. A Rerun
call that raises while it logs one message loses that message only and is left out.

### ObservedMap

`update_map` compares and stores under a lock and sends after releasing it, and it
is called by two threads: the consumer's poll (`PollMetadata`, `GetImage`,
`PollUpdate`, `PollSend`) and requests of the control API (`ApiGet`, `ApiUpdate`,
`ApiSend`), which bring no image. Metadata and image are two requests to the robot, and the robot may
change its map between them (`Torn`). `late` is set when a map is sent out of order;
each property is a claim for the other case. `PartialIsRetried`: a map on
screen without its image is not filed as fetched. `TornIsReplaced`: a map drawn with
another map's image is not taken for the robot's - for a robot that does not go
back to an earlier map (`~MapsReturn`). `MapCatchesUp` (liveness): once the robot
stays on a map it is drawn with its image. Fairness: polls go on while the consumer is
connected, a download ends one way or the other, a request that was answered
runs to its end; the failures of the robot's HTTP server are bounded by
`MaxFailures`, and the liveness property is about what is done after the last one.

### ReplayFinalizer

Every critical section and every queue call is a step; callers are any threads.
`late` has the jobs that were queued behind the `None` of `shutdown` by a caller
that had already passed `_ensure_finalize_worker`: they are counted as pending
and never run. `TakenIsFinalized` shows that this is the only way to lose a
task. Fairness: the finalizer and each begun call go on; `wait` and `join` have
timeouts in every call of the repository.

## Runs

| Run | Instance | Result |
|---|---|---|
| `native_sidecar` | 2 robots, 2 ports; no other bound | about 239,000 states, all properties hold |
| `lost_reconnect` | the same, `AnsweredSpec` | `ReconfigureTakesEffect` violated |
| `operator_panel` | 2 robots, 2 command threads, 2 acts of the operator (clicks, and at most 1 change of connection), 2 unread messages | about 1.5 million states, all hold |
| `stop_relit`, `stop_not_grey` | the same | `StopStaysStopped`, `StopGreyWhenIdle` violated |
| `connection_settings` | 2 robots, 2 ports, every flag and file | about 85,000 states, all hold |
| `task_recording` | 2 robots, 2 task ids used by both, 2 directories | about 1.1 million states, all hold |
| `live_view` | 2 robots, 3 versions of map and image | about 163,000 states, all hold |
| `replay_panel` | 2 tasks, 3 directories | about 564,000 states, all hold |
| `observed_navigation` | 2 tasks, queue of 3, 1 unread message, 3 directories | about 1.3 million states, all hold |
| `attach_splits` | the same | `RecordsFromSnapshot` violated |
| `replay_finalizer` | 2 callers, 2 tasks, 3 starts | about 13,000 states, all hold |

Why the bounds are enough:

- Two robots are one that is left and one that is entered; two ports give both
  branches of `restart`.
- Two command threads give every order of two results, and the status poll
  competes with a button for them; one change of connection, with a click before
  or after it and the polls and refreshes that need none, gives every result that
  arrives in the wrong generation; two clicks are a navigate and the stop of it.
  (All four properties of this run are proved for every bound as well.)
- Two task ids shared by two robots give equal and different ids on a switch; two
  directories are one finished and one in progress; the replay panel has a third
  so that two recordings of one task stand beside one of another.
- Three versions are a map that is cached, the one whose metadata are read and the one
  whose image arrives.
- A queue of three is full while it holds a start, a finish and data. One unread
  WebSocket message lets the robot act while the observer is still handling the
  parts of the snapshot before it.
- Two callers are the consumer and the shutdown; three starts give a second start
  of a registered id while another task is in the finalizer.

Every action of a module with a run fires in a passing one. Deadlock is not checked where the system may
stop: after the window is closed, after shutdown, or when a bound of the model is
used up.

## What the violation runs show

1. `lost_reconnect`: the worker copies the settings and then clears the reconnect
   flag. A reconfigure between the two is lost, and the service stays with the
   previous robot until that stream breaks.
2. `stop_relit`: a message read before the stop is published after the stop's
   result, and the stop button is lit again.
3. `stop_not_grey`: a navigate result that is drained after the robot has already
   said it is idle lights the stop button for a navigation that is over.
4. `attach_splits`: the events repeated by a snapshot are handled as new ones. An
   old `task_received` supersedes the task that the snapshot has just started to
   record, and the old task's end then ends recording altogether.

Each checks one sentence of the changelog or the documentation, quoted in
`PROJECT.json`.

## Proofs

Eight modules hold proofs, each for every value of the constants of the modules it
is about, under the assumptions named there (`EndpointsAssumption`,
`ObserverAssumption`, ...: sets not empty or finite, bounds natural numbers,
markers not among the values). Those of `OccupancyMask` and `ObservedMap` are
hypotheses of the theorems (`ASSUME MaskAssumption PROVE ...`), `RecordingSwitch`
needs none. With them every invariant, every action property and every
refinement that a passing run checks is a theorem. Most rest on an inductive
invariant that says more than the property; there is one lemma for the initial
states, one or more for the steps, with one step per action, and the theorems
follow with PTL.

- **NativeSidecarProofs**: `IInv == TypeOK /\ RunningMatchesTask /\ DownInv /\
  SwitchIsPending /\ StaleInv`. Nothing in `DownIsNotConnected` keeps a worker from
  walking into `backoff` with `connected` set; `DownInv` adds that it leaves an open
  stream without an error only because a flag was set, and that a set flag keeps it
  out of the backoff. `StaleInv` adds that the count is zero while `reconfigure` is
  under way, and that a worker that has published one stale message cannot be
  reading another, because the pending request stops it at its next test.
- **OperatorPanelProofs**: `PendingFlies` (each pending kind has a command of this
  generation among the threads or the results), `OneFlies` (exactly one, in one of the
  two places) and `NoneAhead` (no command is from a generation still to come, which is
  what a change of connection relies on) give `TypeOK`, `PendingHasCommand` and
  `SingleFlight`. `SettledAgreement` speaks of a moment when everything has been read;
  `AgreeInv` adds where the robot's last word is before that: on an open
  WebSocket the last message (on the wire, in the worker's hand or published) tells
  the present state of the robot it comes from (`Heard`), unless a result overtook it
  or was a dry run's, and the commands of this generation are all for the present
  robot (`OfThisRobot`).
- **RecordingPanelProofs**: of `RecordingSwitch`, `WireInv` (the last message on the
  wire is the robot's flag) for `PublishedIsTheRobots`, and `AloneInv` (while a click is
  alone, no other setting command can still reach the robot, its own timed-out one included) for `LastClickCounts`. Of
  `ReplayPanel`, `PanelInv` for `TypeOK`, `PanelStaysTrue` and `DeletionIsExact`: rows, the
  row to delete and the mark are copies of the disk from earlier moments, and
  every id among them is still its directory's name or the task it was made for.
- **ConnectionSettingsProofs**: `ConnectionInv` is inductive. `NeverLocksItselfOut` is about a
  file left by an earlier run; `WrittenOK` says what the viewer leaves (an empty file,
  the settings of a connection, or a part of them). `SavedIsUsed` holds of every step.
- **TaskRecordingProofs**: `RecInv` with `Shape` (the logger's three fields are there
  together and the directory is the newest), `Unmade` (directories not made are
  empty), `AllPure` (what a directory may hold) and `Current` (the recording in progress is that of
  the logger's robot and task); `Unfinished` (a recording in progress whose `task.json`
  is terminal is about to be closed) for `FinishedIsFrozen`, and `Stream` (while a
  recording is open or the stream live, the status is the present robot's) for the
  documents. Proved: the type invariant, the three safety
  invariants, the two action properties, and `ImplementsRecorder`: every step of the logger
  is a step of `TaskRecorder` or a stutter under the mapping above.
- **LiveDataProofs**: of `LiveView`, `SignatureInv` says what a signature stands for also
  while the stream is down, which a new connection with unchanged metadata relies
  on; all its safety properties are proved. Of `OccupancyMask`, `Loop`, the loop
  invariant of both programs (after the first `done` runs a cell is occupied if one
  of them is an occupied run that covers it, else inflated if ...), and `Agree` for
  the program that finishes first: for words, masks and runs of any size each mask
  is the picture of the message, and the two programs agree.
- **ObserverProofs**: of `ObservedNavigation`, the five invariants and the
  refinement of `TaskRecorder`, from `ObserverInv`, the conjunction of
  `RobotInv` (one task at a time, and the event log holds what was said),
  `StreamInv` (the parts not handled yet, on the wire or in hand, are what a
  robot says in that order, and once they are handled no task is active but the
  one that runs), `SinkInv` (the queue leads the Rerun worker to the active task, in its
  directory or refused, unless a command was dropped; directories hold their own task's
  data and the plan they began with; those the queue has yet to begin are empty),
  `RecordedInv` (with no old task in the replay, the pending parts leave the
  running task active) and `HistoryInv`. The operators of the observer are functions
  of its record, so most lemmas are about them. Of `ObservedMap`, `Owing` for
  `PartialIsRetried`; `TornIsReplaced` under `~MapsReturn` from `Forward` (no image is
  older than its metadata or newer than the robot's map), `StillKnown` (a torn map is
  the one `update_map` has stored, or a thread is about to replace it) and
  `NotTaken` (its signature is behind the robot, or a request replaces it).
- **ReplayFinalizerProofs**: `Held` and `Working` (who has a directory in hand at which
  line), `Exact` (the counter, with lemmas on how a count over a function or a
  queue changes), `Tracked` (each directory is in exactly one place). Proved: `TypeOK`,
  `PendingIsExact`, `FinalizedOnce`.

`SinkFollowsObserver` is stated with a fold over the whole queue, and what a
recursive function computes cannot be proved here by induction on its argument.
The proof does not need it: `Leads` in `SinkInv` carries that a run of the queue exists from
every place in it, and that every run - with starts that fail and plans that are
kept - ends at the active task; a command put at the back
extends the runs, one taken from the front shifts them.

Only model-checked: the liveness properties, since the prover does not handle
fairness or ENABLED. They are `JoinReturns`, `ReconfigureServed` and `FailureIsNoticed`
of `NativeSidecar`, `TakenIsFinalized` and `ShutdownEndsWorker` of
`ReplayFinalizer`, `SwitchSettles` of
`RecordingSwitch` and `MapCatchesUp` of `ObservedMap`. No module declares a
RECURSIVE operator.

## Not modelled

- Fonts, layout, styles, the viewer's blueprint, and which Rerun entity gets which
  point, colour or label: nothing depends on them.
- Where the configuration file lies on each platform; the limits of fifty and
  thirty rows of the replay lists.
- `RerunSink`: the queue, the writer thread, the pipe and the worker process that stand
  before the runtime when the robot's own service records, and the state hub
  whose calls reach the sink outside the hub's lock. Only the robot's own service
  calls them, and it is not part of the repository: in which order and from which
  threads would be a guess. The shutdown of the runtime is left out with them.
- The image fetcher: `ObservedNavigation` takes an image as published when it is announced.
- `store_frame`, the files of a finalization and the pruning of the replay store:
  a job of `ReplayFinalizer` stands for the whole of it. `append_event` and the
  reading calls change no state that another part decides on.
- The control API apart from the map request: it forwards to the robot or reads.
- Two things the robot could do: go back to map metadata it served before (`LiveView`), and send a snapshot without a field
  whose old value the status then keeps (the map revisions).
- The delays between attempts to connect and between polls.
- Message models, packaging, launch scripts: no state.

## Plan

1. A module of the image fetcher (newest image per stream, published by a thread
   of its own) composed with `ObservedNavigation`: which task's recording an
   image gets into.
2. A module of the replay store's directories: frames, the two files of a
   finalization and the pruning, against the Rerun worker that writes the same
   directories. `ReplayFinalizer` gives the order of the jobs.
3. A module of `RerunSink`: queue, writer, pipe and process, with `ObservedNavigation`'s
   runtime at the end; what survives a process that ends by itself.
4. Each of these with its inductive invariant, proved beside the module it is
   composed with.
