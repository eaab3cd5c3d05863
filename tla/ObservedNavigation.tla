------------------------ MODULE ObservedNavigation ------------------------
(***************************************************************************)
(* The Python sidecar's observer (ObservedNavigation in rerun_sidecar.py): *)
(* it reads an existing WebViz stream and derives from it which task is    *)
(* being recorded.  Its decisions reach the Rerun worker (_RerunRuntime in *)
(* rerun_sink.py) through a bounded queue that drops its oldest entry when *)
(* it is full, so the two may disagree about the task.                     *)
(*                                                                         *)
(* A message is handled part by part: a snapshot is a task status, data,   *)
(* and the events the robot remembers.  The robot is not part of the       *)
(* repository; what it sends is modelled from what the observer reads.     *)
(***************************************************************************)
EXTENDS Naturals, Sequences, SequencesExt

CONSTANTS Tasks,          \* task ids; the robot runs each at most once
          None,           \* no task
          QueueSize,      \* size of the Rerun queue
          MaxStream,      \* bound on unread WebSocket messages
          MaxRecordings   \* bound on task directories made

ASSUME ObserverAssumption ==
    /\ None \notin Tasks
    /\ QueueSize \in Nat \ {0} /\ MaxStream \in Nat \ {0} /\ MaxRecordings \in Nat

VARIABLES
    up,        \* the WebSocket is open; the process is running
    stream,    \* messages the observer has not read
    parts,     \* what is left of the message it is handling
    obs,       \* the observer's decisions and the queue they go to
    runtime,   \* the Rerun worker: its active task, its recording, its last plan
    robot,     \* external: the robot's task and the events it remembers
    replayed,  \* history: remembered events were handled on this connection
    attached   \* history: the recording that got this connection's snapshot

vars == <<up, stream, parts, obs, runtime, robot, replayed, attached>>

(* What one part says.  "received" and "completed" are events; the others  *)
(* but "data" are task statuses.                                           *)
Kinds == {"running", "ended", "idle", "data", "snapshot", "received", "completed"}
Part == [kind : Kinds, task : Tasks \cup {None}]
Say(kind, t) == [kind |-> kind, task |-> t]

Command == [op : {"start", "finish", "data", "note", "stop"}, task : Tasks \cup {None},
            rec : 0..MaxRecordings]

(* A task directory: meta is its task_meta.json, others the tasks, but its *)
(* own, that the robot was running when it sent something that is in       *)
(* recording.rrd, and kept that of the plan the Rerun worker had when the  *)
(* recording began (both are history).                                     *)
Recording == [task : Tasks, meta : {"open", "completed", "superseded", "sidecar_stopped"},
              others : SUBSET Tasks, kept : Tasks \cup {None}]

(* refused: task is active without a recording, as its start has failed    *)
(* half way, or recordings are not saved at all.  plan is the task of      *)
(* _latest_planner, None as well for the plan of an idle robot.            *)
Runtime == [task : Tasks \cup {None}, rec : 0..MaxRecordings, refused : BOOLEAN,
            plan : Tasks \cup {None}]

(* active is VisualizationStateHub._active_task_id, dirs the registry of   *)
(* ReplayStore, recs the directories it made, lost whether the full queue  *)
(* dropped a start or a finish.                                            *)
Observer == [active : Tasks \cup {None}, dirs : [Tasks -> 0..MaxRecordings],
             recs : Seq(Recording), queue : Seq(Command), lost : BOOLEAN]

TypeOK ==
    /\ up \in {"down", "up", "stopped"}
    /\ stream \in Seq(Seq(Part)) /\ Len(stream) <= MaxStream
    /\ parts \in Seq(Part)
    /\ obs \in Observer
    /\ Len(obs.queue) <= QueueSize /\ Len(obs.recs) <= MaxRecordings
    /\ runtime \in Runtime
    /\ robot \in [task : Tasks \cup {None}, busy : BOOLEAN, ended : SUBSET Tasks,
                  events : Seq(Part)]
    /\ replayed \in BOOLEAN
    /\ attached \in 0..MaxRecordings

----------------------------------------------------------------------------
(* The queue to the Rerun worker                                           *)

(* Mutated form: the queue grows. *)
Room_Always(q) == q

(* _enqueue: a full queue gives up its oldest entry. *)
Room(q) == IF Len(q) < QueueSize THEN q ELSE Tail(q)

Enqueue(o, op, t, rec) ==
    LET full == Len(o.queue) = QueueSize
        drops == full /\ Head(o.queue).op \in {"start", "finish"}
    IN [o EXCEPT !.queue = Append(Room(@), [op |-> op, task |-> t, rec |-> rec]),
                 !.lost = @ \/ drops]

----------------------------------------------------------------------------
(* The observer: one part of a message.                                    *)

(* Mutated form: the Rerun worker is not told. *)
FinishSink_Omitted(o, t) == o

FinishSink(o, t) == Enqueue(o, "finish", t, 0)

(* _finish_task: nothing for a task that is not the active one. *)
FinishTask(o, t, status) ==
    IF t = None \/ o.active # t THEN o
    ELSE [FinishSink(o, t) EXCEPT !.active = None,
                                  !.recs[o.dirs[t]].meta = status,
                                  !.dirs[t] = 0]

(* Mutated form: the task that is replaced is not finished. *)
Superseded_NotFinished(o) == o

Superseded(o) ==
    IF o.active = None THEN o ELSE FinishTask(o, o.active, "superseded")

(* Mutated form: only an observer that records nothing starts a task. *)
Starts_WhenIdle(o, t) == o.active = None

(* Mutated form: every status of a running task starts a recording. *)
Starts_Always(o, t) == TRUE

Starts(o, t) == o.active # t

NewRecording(t) == [task |-> t, meta |-> "open", others |-> {}, kept |-> None]

(* _ensure_task: start_task of the store, of the hub and of the sink. *)
EnsureTask(o, t) ==
    IF ~Starts(o, t) THEN o
    ELSE LET s == Superseded(o)
             n == Len(s.recs) + 1
         IN Enqueue([s EXCEPT !.active = t,
                              !.dirs[t] = n,
                              !.recs = Append(@, NewRecording(t))],
                    "start", t, n)

Publish(o, op, t) == Enqueue(o, op, t, 0)

(* _handle_task_status, _handle_event, and the handlers of data.  A status *)
(* ends a task when it is terminal itself or idle with a terminal          *)
(* result_status.                                                          *)
Handled(o, p) ==
    CASE p.kind = "running"   -> Publish(EnsureTask(o, p.task), "note", None)
      [] p.kind = "ended"     -> FinishTask(Publish(o, "note", None), p.task, "completed")
      [] p.kind = "received"  -> Publish(EnsureTask(o, p.task), "note", None)
      [] p.kind = "completed" -> FinishTask(Publish(o, "note", None), p.task, "completed")
      [] p.kind = "idle"      -> Publish(o, "note", None)
      [] OTHER                -> Publish(o, "data", p.task)

(* The next message of the stream. *)
ReadMessage ==
    /\ up = "up" /\ parts = <<>> /\ stream # <<>>
    /\ parts' = Head(stream)
    /\ stream' = Tail(stream)
    /\ UNCHANGED <<up, obs, runtime, robot, replayed, attached>>

HandlePart ==
    LET p == Head(parts)
        o == Handled(obs, p)
    IN
    /\ parts # <<>> /\ Len(o.recs) <= MaxRecordings
    /\ obs' = o
    /\ parts' = Tail(parts)
    /\ replayed' = (replayed \/ (p.kind = "received" /\ Len(parts) > 1))
    /\ attached' = IF p.kind = "snapshot" /\ p.task # None THEN o.dirs[p.task]
                   ELSE IF p.kind = "ended" THEN 0 ELSE attached
    /\ UNCHANGED <<up, stream, runtime, robot>>

(* The store cannot make the directory of a new task: what was being       *)
(* recorded is over, the task is not begun, and the exception ends the     *)
(* connection.                                                             *)
StoreFails ==
    /\ parts # <<>> /\ Head(parts).kind \in {"running", "received"}
    /\ Starts(obs, Head(parts).task)
    /\ obs' = Superseded(obs)
    /\ up' = "down" /\ stream' = <<>> /\ parts' = <<>>
    /\ UNCHANGED <<runtime, robot, replayed, attached>>

(* ObservedNavigation.shutdown, once the consumer thread is over. *)
Shutdown ==
    /\ up # "stopped" /\ parts = <<>>
    /\ up' = "stopped" /\ stream' = <<>>
    /\ obs' = Publish(FinishTask(obs, obs.active, "sidecar_stopped"), "stop", None)
    /\ UNCHANGED <<parts, runtime, robot, replayed, attached>>

----------------------------------------------------------------------------
(* The Rerun worker (_run)                                                 *)

(* A start, a finish of the active task, or the end. *)
Applied(rt, cmd) ==
    CASE cmd.op = "start" -> [rt EXCEPT !.task = cmd.task, !.rec = cmd.rec, !.refused = FALSE]
      [] cmd.op = "finish" /\ cmd.task = rt.task ->
            [rt EXCEPT !.task = None, !.rec = 0, !.refused = FALSE]
      [] cmd.op = "stop" -> [rt EXCEPT !.rec = 0]
      [] OTHER -> rt

(* _start_task_stream has set the active task when it raises, or returns   *)
(* for want of save_rrd; and data may be the plan that is kept from then   *)
(* on, whatever task starts or ends.                                       *)
Outcomes(rt, cmd) ==
    LET a == Applied(rt, cmd) IN
    {a} \cup (IF cmd.op = "start" THEN {[a EXCEPT !.rec = 0, !.refused = TRUE]} ELSE {})
        \cup (IF cmd.op = "data" THEN {[a EXCEPT !.plan = cmd.task]} ELSE {})

(* rec with something the robot sent while it ran t, or no task. *)
Logged(rec, t) == [rec EXCEPT !.others = @ \cup ({t} \ {None, rec.task})]

(* Data go to the recording of the moment, which the observer does not see. *)
RunCommand ==
    LET cmd == Head(obs.queue) IN
    /\ obs.queue # <<>>
    /\ runtime' \in Outcomes(runtime, cmd)
    /\ obs' = [obs EXCEPT
          !.queue = Tail(@),
          !.recs = IF cmd.op = "data" /\ runtime.rec # 0
                   THEN [obs.recs EXCEPT ![runtime.rec] = Logged(@, cmd.task)]
                   ELSE IF cmd.op = "start"
                   THEN [obs.recs EXCEPT ![cmd.rec].kept = runtime.plan]
                   ELSE @]
    /\ UNCHANGED <<up, stream, parts, robot, replayed, attached>>

(* A camera frame (rgb_navdp), which comes from a thread of its own at any *)
(* time: the last plan is drawn on it, into the recording of the moment.   *)
CameraFrame ==
    /\ runtime.rec # 0 /\ runtime.plan # None
    /\ obs' = [obs EXCEPT !.recs[runtime.rec] = Logged(@, runtime.plan)]
    /\ UNCHANGED <<up, stream, parts, runtime, robot, replayed, attached>>

----------------------------------------------------------------------------
(* The stream and the robot                                                *)

Status == IF robot.busy THEN Say("running", robot.task)
          ELSE IF robot.task = None THEN Say("idle", None)
          ELSE Say("ended", robot.task)

Running == IF robot.busy THEN robot.task ELSE None

Connect ==
    /\ up = "down" /\ parts = <<>>
    /\ up' = "up"
    /\ stream' = <<<<Status, Say("snapshot", Running)>> \o robot.events>>
    /\ replayed' = FALSE /\ attached' = 0
    /\ UNCHANGED <<parts, obs, runtime, robot>>

Disconnect ==
    /\ up = "up" /\ parts = <<>>
    /\ up' = "down" /\ stream' = <<>>
    /\ UNCHANGED <<parts, obs, runtime, robot, replayed, attached>>

Send(p) ==
    IF up = "up" THEN Len(stream) < MaxStream /\ stream' = Append(stream, <<p>>)
    ELSE UNCHANGED stream

Heard(kind) == {e.task : e \in {x \in ToSet(robot.events) : x.kind = kind}}

(* Every task that was announced by an event, but t, was ended by one. *)
Announced(t) == Heard("received") \ Heard("completed") \subseteq {t}

RobotStep == UNCHANGED <<up, parts, obs, runtime, replayed, attached>>

RobotRuns(t) ==
    /\ ~robot.busy /\ t \notin robot.ended /\ Announced(t)
    /\ robot' = [robot EXCEPT !.task = t, !.busy = TRUE]
    /\ Send(Say("running", t))
    /\ RobotStep

RobotEnds ==
    /\ robot.busy
    /\ robot' = [robot EXCEPT !.busy = FALSE, !.ended = @ \cup {robot.task}]
    /\ Send(Say("ended", robot.task))
    /\ RobotStep

RobotLogs(kind, t) ==
    /\ robot' = [robot EXCEPT !.events = Append(@, Say(kind, t))]
    /\ Send(Say(kind, t))
    /\ RobotStep

(* The event task_received, before or after the first status of the task. *)
RobotReceives(t) ==
    /\ t \notin Heard("received") \cup robot.ended /\ Announced(t)
    /\ robot.busy => robot.task = t
    /\ RobotLogs("received", t)

RobotCompletes(t) ==
    /\ t \in robot.ended \cap (Heard("received") \ Heard("completed"))
    /\ RobotLogs("completed", t)

(* A pose, goal, plan or dynamic map (images are downloaded by a thread of *)
(* their own); or the status of the running task once more (that of an     *)
(* ended one is repeated by every snapshot).                               *)
RobotReports ==
    /\ up = "up"
    /\ Send(Say("data", Running)) \/ (robot.busy /\ Send(Status))
    /\ UNCHANGED robot
    /\ RobotStep

----------------------------------------------------------------------------

Init ==
    /\ up = "down" /\ stream = <<>> /\ parts = <<>>
    /\ obs = [active |-> None, dirs |-> [t \in Tasks |-> 0], recs |-> <<>>,
              queue |-> <<>>, lost |-> FALSE]
    /\ runtime = [task |-> None, rec |-> 0, refused |-> FALSE, plan |-> None]
    /\ robot = [task |-> None, busy |-> FALSE, ended |-> {}, events |-> <<>>]
    /\ replayed = FALSE /\ attached = 0

Robot ==
    \/ \E t \in Tasks : RobotRuns(t) \/ RobotReceives(t) \/ RobotCompletes(t)
    \/ RobotEnds \/ RobotReports

Next ==
    \/ ReadMessage \/ HandlePart \/ StoreFails \/ Shutdown \/ RunCommand \/ CameraFrame
    \/ Connect \/ Disconnect \/ Robot

Spec == Init /\ [][Next]_vars

----------------------------------------------------------------------------
(* Safety                                                                  *)

(* What the Rerun worker records once it has run every command queued.     *)
CaughtUp ==
    LET after[i \in 0..Len(obs.queue)] ==
            IF i = 0 THEN runtime ELSE Applied(after[i - 1], obs.queue[i])
    IN after[Len(obs.queue)]

(* When the Rerun worker has caught up it records the observer's active    *)
(* task, into the directory of that task's replay entry - unless the full  *)
(* queue dropped a start or a finish, or the worker could not (or may not) *)
(* open that recording: then the task goes unrecorded to its end, and the  *)
(* next one is recorded again.                                             *)
SinkFollowsObserver ==
    obs.lost \/ up = "stopped" \/
    /\ CaughtUp.task = obs.active
    /\ CaughtUp.rec = IF obs.active = None \/ CaughtUp.refused THEN 0
                      ELSE obs.dirs[obs.active]

(* Every directory but the active task's has its task_meta.json: none is   *)
(* left open, whatever supersedes, repeats, reconnects or stops.           *)
OnlyTheActiveIsOpen ==
    \A i \in DOMAIN obs.recs :
        obs.recs[i].meta = "open" <=>
            obs.active = obs.recs[i].task /\ obs.dirs[obs.active] = i

(* No recording holds what the robot sent while it ran another task -      *)
(* unless the full queue dropped a start or a finish, and but for the plan *)
(* that the worker had when the recording began, which it draws on camera  *)
(* frames until it gets another.  The frames themselves are not part of    *)
(* this: another thread downloads and publishes them later.                *)
OneTaskPerRecording ==
    obs.lost \/
    \A i \in DOMAIN obs.recs :
        obs.recs[i].others \subseteq {obs.recs[i].kept}

(* All that was sent has been handled. *)
Settled == up = "up" /\ stream = <<>> /\ parts = <<>>

(* The task the robot runs is the one being recorded, also when earlier    *)
(* ends were missed - unless this connection's snapshot replayed events.   *)
RunningTaskIsRecorded ==
    Settled /\ robot.busy /\ ~replayed => obs.active = robot.task

(* The documentation's promise (docs/rerun_sidecar.md:107): attached       *)
(* during an active task, the recording starts from the initial snapshot;  *)
(* so the recording in progress is the one the snapshot went to.           *)
RecordsFromSnapshot ==
    Settled /\ robot.busy /\ attached # 0 => obs.dirs[robot.task] = attached

----------------------------------------------------------------------------
(* The abstract specification: the observer is a recorder of tasks, which  *)
(* gives each of its directories one entry, its status at the end.         *)

Endings == {"completed", "superseded", "sidecar_stopped"}

Ending(i) == IF i \in DOMAIN obs.recs THEN {obs.recs[i].meta} \cap Endings ELSE {}

Recorder == INSTANCE TaskRecorder WITH
    Slots   <- 1..MaxRecordings,
    Items   <- Endings,
    task    <- obs.active,
    current <- IF obs.active = None THEN 0 ELSE obs.dirs[obs.active],
    count   <- Len(obs.recs),
    content <- [i \in 1..MaxRecordings |-> Ending(i)]

(* The observer keeps the promise of TaskRecorder: a directory gets its    *)
(* end while it is the active one, once, and no task that is being         *)
(* recorded is started again by a repeated status or event.                *)
IsTaskRecorder == Recorder!Spec
=============================================================================
