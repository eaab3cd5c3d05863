--------------------------- MODULE TaskRecording ---------------------------
(***************************************************************************)
(* The task recordings of the Woosh viewer: NavigationLogger in            *)
(* native_sidecar.rs decides from the robot's messages which recording.rrd *)
(* and task.json it writes, and the panel lists and deletes the            *)
(* directories that hold them.                                             *)
(*                                                                         *)
(* The logger belongs to one thread.  It handles a message that carries a  *)
(* task in three steps - task.json and a new directory, the message        *)
(* itself, the end of the recording - between which the panel may delete   *)
(* and the process may end; the other actors are the robot, the stream     *)
(* that breaks and the file system that refuses.  A robot works on tasks   *)
(* whether the viewer listens or not: the snapshot that starts a stream    *)
(* may tell of any task.  A WebSocket delivers in order, so a message      *)
(* arrives in the step in which the robot's work changes; while the logger *)
(* has one in hand the robot is held still, as the next would only wait.   *)
(***************************************************************************)
EXTENDS Naturals

CONSTANTS Robots,         \* robot endpoints
          Tasks,          \* task ids, which two robots may both use
          None,           \* no robot, or no task
          MaxRecordings   \* bound on task directories made

ASSUME RecordingAssumption ==
    /\ Robots # {} /\ Tasks # {}
    /\ None \notin Robots /\ None \notin Tasks
    /\ MaxRecordings \in Nat \ {0}

VARIABLES
    settings,    \* NavigationLogger::settings
    conn,        \* the stream: down, open and not yet read, or read
    task,        \* active_task_id
    dir,         \* active_task_dir; 0 for none
    open,        \* task_rec is there
    signed,      \* map_signature is that of a map of settings, not empty
    mapImage,    \* map_image: the robot it came from
    hand,        \* the message with a task in hand: none, to be logged, or logged
    shown,       \* NativeStatusSnapshot: the robot whose pose, goal, mode or path
                 \* the status holds (any one of them), None when it is empty
    recordings,  \* the task directories, in the order they were made
    used,        \* how many of them were made
    work,        \* external: what the robot of the stream works on
    failed       \* history: the last start_task_recording failed

logger == <<settings, conn, task, dir, open, signed, mapImage, hand>>
disk   == <<recordings, used>>
vars   == <<logger, shown, disk, work, failed>>

(* The three kinds of status that prepare_task_recording tells apart:      *)
(* active, terminal, and neither ("idle", "error", any other name).        *)
Status == {"processing", "completed", "idle"}
Active(s) == s = "processing"
Terminal(s) == s = "completed"

Idle == [task |-> None, status |-> "idle"]
Work == [task : Tasks, status : Status] \cup {Idle}

(* What the robot was doing when it sent a message. *)
Origins == Robots \X (Tasks \cup {None})
Origin(r, w) == <<r, IF Active(w.status) THEN w.task ELSE None>>

(* robot, task, data, maps and docs are history: for whom a directory was  *)
(* made, and the origins of what recording.rrd holds - docs of the status  *)
(* documents.                                                              *)
Recording == [robot : Robots \cup {None}, task : Tasks \cup {None},
              dir : BOOLEAN, rrd : BOOLEAN, meta : Status \cup {"none"},
              data : SUBSET Origins, maps : SUBSET Robots, docs : SUBSET Robots]

Unused == [robot |-> None, task |-> None, dir |-> FALSE, rrd |-> FALSE,
           meta |-> "none", data |-> {}, maps |-> {}, docs |-> {}]

TypeOK ==
    /\ settings \in Robots
    /\ conn \in {"down", "open", "live"}
    /\ task \in Tasks \cup {None}
    /\ dir \in 0..MaxRecordings
    /\ open \in BOOLEAN
    /\ signed \in BOOLEAN
    /\ mapImage \in Robots \cup {None}
    /\ hand \in {"none", "log", "finish"}
    /\ shown \in Robots \cup {None}
    /\ recordings \in [1..MaxRecordings -> Recording]
    /\ used \in 0..MaxRecordings
    /\ work \in Work
    /\ failed \in BOOLEAN

----------------------------------------------------------------------------
(* The logger and one message.                                             *)

(* write_task_metadata: fs::write makes no directory. *)
WriteMetadata(d, s) ==
    [recordings EXCEPT ![d].meta = IF recordings[d].dir THEN s ELSE @]

(* The data of one message, into recording d of rs if it is still there. *)
LogTo(rs, d, o) == [rs EXCEPT ![d].data = IF rs[d].rrd THEN @ \cup {o} ELSE @]

(* NavigationLogger::log: into the recording in progress, if there is one. *)
Logged == IF open THEN LogTo(recordings, dir, Origin(settings, work)) ELSE recordings

(* log_status_document, when the status holds what robot r sent: it is     *)
(* left out when the document is the last one again.                       *)
WithDocument(rs, r) ==
    {rs} \cup (IF open /\ rs[dir].rrd
              THEN {[rs EXCEPT ![dir].docs = @ \cup ({r} \ {None})]} ELSE {})

Cleared == task' = None /\ dir' = 0 /\ open' = FALSE

(* Mutated form: the directory is named after the task alone. *)
Slot_ByTask(t) ==
    IF \E d \in 1..used : recordings[d].task = t
    THEN CHOOSE d \in 1..used : recordings[d].task = t
    ELSE used + 1

(* The directory that a start makes.  Its name has the millisecond of the  *)
(* start, so it is never an old one.                                       *)
Slot(t) == used + 1

(* Mutated form: the cached map is not written to the new recording. *)
MapsAtStart_Omitted == {}

(* Mutated form: nobody asks whether there is a cached map. *)
MapsAtStart_Unasked == {mapImage}

(* start_task_recording writes the map that refresh_map has cached. *)
MapsAtStart == {mapImage} \ {None}

(* finish_task_recording, then start_task_recording: create_dir_all or     *)
(* save may fail, and then nothing is active.                              *)
StartRecording(w) ==
    LET d == Slot(w.task)
        made(rrd) == [robot |-> settings, task |-> w.task, dir |-> TRUE, rrd |-> rrd,
                      meta |-> IF rrd THEN w.status ELSE "none",
                      data |-> {}, docs |-> {},
                      maps |-> IF rrd THEN MapsAtStart ELSE {}]
    IN
    /\ used < MaxRecordings
    /\ \/ Cleared /\ failed' = TRUE /\ UNCHANGED disk
       \/ /\ Cleared /\ failed' = TRUE
          /\ recordings' = [recordings EXCEPT ![d] = made(FALSE)]
          /\ used' = used + 1
       \/ /\ task' = w.task /\ dir' = d /\ open' = TRUE /\ failed' = FALSE
          /\ recordings' = [recordings EXCEPT ![d] = made(TRUE)]
          /\ used' = used + 1

(* Mutated form: only a logger that records nothing starts a recording. *)
Starts_WhenIdle(w) == Active(w.status) /\ w.task # None /\ task = None

(* A task that is active and not the one being recorded. *)
Starts(w) == Active(w.status) /\ w.task # None /\ task # w.task

(* Mutated form: the terminal status finishes nothing. *)
Finishes_Never(w) == FALSE

Finishes(w) == Terminal(w.status) /\ task = w.task

(* log_message for a task_status, or for the task of a snapshot, begins    *)
(* with prepare_task_recording, which starts a recording or writes the     *)
(* status - also a terminal one - to task.json.                            *)
PrepareTaskRecording(w) ==
    /\ hand = "none" /\ hand' = "log"
    /\ \/ Starts(w) /\ StartRecording(w)
       \/ /\ ~Starts(w)
          /\ recordings' = IF open /\ task = w.task
                           THEN WriteMetadata(dir, w.status) ELSE recordings
          /\ UNCHANGED <<task, dir, open, used, failed>>

(* The robot begins a task, ends one or goes idle, and says so.            *)
TaskStatus(w) ==
    /\ conn = "live"
    /\ work' = w
    /\ PrepareTaskRecording(w)
    /\ UNCHANGED <<settings, conn, signed, mapImage, shown>>

(* The first message of a connection that carries a task, whatever the     *)
(* robot has done meanwhile.  It overwrites the status, before it is       *)
(* logged.                                                                 *)
Snapshot(w) ==
    /\ conn = "open"
    /\ conn' = "live"
    /\ work' = w
    /\ shown' \in {settings, None}
    /\ PrepareTaskRecording(w)
    /\ UNCHANGED <<settings, signed, mapImage>>

(* log_message goes on: the message itself is recorded. *)
LogTask ==
    /\ hand = "log" /\ hand' = "finish"
    /\ recordings' = Logged
    /\ UNCHANGED <<settings, conn, task, dir, open, signed, mapImage, shown, used, work,
                   failed>>

(* And ends: finish_task_recording when the status was terminal, and the   *)
(* status document, for which the recording is then closed.                *)
FinishTask ==
    /\ hand = "finish" /\ hand' = "none"
    /\ IF Finishes(work)
       THEN Cleared /\ UNCHANGED recordings
       ELSE recordings' \in WithDocument(recordings, shown)
            /\ UNCHANGED <<task, dir, open>>
    /\ UNCHANGED <<settings, conn, signed, mapImage, shown, used, work, failed>>

(* A pose, goal, plan, image, dynamic map or event, which may set or clear *)
(* the field of the status; then the status document.                      *)
LogData ==
    /\ conn = "live" /\ hand = "none"
    /\ shown' \in {shown, settings, None}
    /\ recordings' \in WithDocument(Logged, shown')
    /\ UNCHANGED <<logger, used, work, failed>>

(* The greeting, before the snapshot, of a stream that was broken while a  *)
(* task was recorded: nothing to log but the status as it was left.        *)
Greeting ==
    /\ conn = "open" /\ open
    /\ recordings' \in WithDocument(recordings, shown)
    /\ UNCHANGED <<logger, shown, used, work, failed>>

----------------------------------------------------------------------------
(* The connection and the map.                                             *)

(* refresh_map got metadata that differ from the last.  Their signature is *)
(* kept whether or not the image arrives.                                  *)
NewMap ==
    /\ signed' = TRUE
    /\ \/ UNCHANGED <<mapImage, recordings>>
       \/ /\ mapImage' = settings
          /\ recordings' =
               IF open /\ recordings[dir].rrd
               THEN [recordings EXCEPT ![dir].maps = @ \cup {settings}] ELSE recordings

(* The metadata are the ones of the last call. *)
SameMap == signed /\ UNCHANGED <<signed, mapImage, recordings>>

(* The WebSocket opens; the first refresh_map must succeed. *)
Connect ==
    /\ conn = "down"
    /\ conn' = "open"
    /\ NewMap \/ SameMap
    /\ UNCHANGED <<settings, task, dir, open, hand, shown, used, work, failed>>

(* The refresh every five seconds, when it brings something new. *)
RefreshMap ==
    /\ conn = "live" /\ hand = "none"
    /\ NewMap
    /\ UNCHANGED <<settings, conn, task, dir, open, hand, shown, used, work, failed>>

(* The stream fails, or a reconnect request ends it: the recording stays,  *)
(* and of the robot's work nothing is known.                               *)
Disconnect ==
    /\ conn # "down" /\ hand = "none"
    /\ conn' = "down" /\ work' = Idle
    /\ UNCHANGED <<settings, task, dir, open, signed, mapImage, hand, shown, disk, failed>>

ForgetMap == signed' = FALSE /\ mapImage' = None

(* Mutated form: the recording goes on with the new robot. *)
ForgetTask_Kept == UNCHANGED <<task, dir, open>>

ForgetTask == Cleared

(* update_settings with another endpoint; with the same one it resets     *)
(* nothing.  The status is not the logger's.                               *)
UpdateSettings(r) ==
    /\ conn = "down" /\ r # settings
    /\ settings' = r
    /\ ForgetTask /\ ForgetMap
    /\ UNCHANGED <<conn, hand, shown, disk, work, failed>>

(* The panel's thread resets the status (NativeSidecar::reconfigure). *)
Reconfigure ==
    /\ shown' = None
    /\ UNCHANGED <<logger, disk, work, failed>>

(* The worker ends, and with it the logger - also in the middle of a       *)
(* message, when the process is killed; a later one starts afresh.         *)
RestartService(r) ==
    /\ settings' = r /\ conn' = "down" /\ work' = Idle
    /\ Cleared /\ signed' = FALSE /\ mapImage' = None
    /\ hand' = "none" /\ shown' = None
    /\ UNCHANGED <<disk, failed>>

----------------------------------------------------------------------------
(* The panel: replay_tasks_in and delete_replay_task.                      *)

Listed(d) == recordings[d].dir /\ recordings[d].rrd

(* remove_dir_all, also of the directory being recorded to.  When it fails *)
(* half way the directory is still there, with or without task.json.       *)
DeleteReplayTask(d) ==
    LET rec == recordings[d] IN
    /\ Listed(d)
    /\ \/ recordings' = [recordings EXCEPT ![d] = Unused]
       \/ \E m \in {rec.meta, "none"} :
             recordings' = [recordings EXCEPT ![d] = [rec EXCEPT !.meta = m, !.rrd = FALSE,
                                                                 !.data = {}, !.maps = {},
                                                                 !.docs = {}]]
       \/ recordings' = [recordings EXCEPT ![d].meta = "none"]
    /\ UNCHANGED <<logger, shown, used, work, failed>>

----------------------------------------------------------------------------

Init ==
    /\ settings \in Robots /\ conn = "down"
    /\ task = None /\ dir = 0 /\ open = FALSE
    /\ signed = FALSE /\ mapImage = None /\ hand = "none" /\ shown = None
    /\ recordings = [d \in 1..MaxRecordings |-> Unused] /\ used = 0
    /\ work = Idle
    /\ failed = FALSE

Next ==
    \/ \E w \in Work : TaskStatus(w) \/ Snapshot(w)
    \/ LogTask \/ FinishTask \/ LogData \/ Greeting
    \/ Connect \/ RefreshMap \/ Disconnect \/ Reconfigure
    \/ \E r \in Robots : UpdateSettings(r) \/ RestartService(r)
    \/ \E d \in 1..used : DeleteReplayTask(d)

Spec == Init /\ [][Next]_vars

----------------------------------------------------------------------------
(* Safety                                                                  *)

(* A recording holds the data, the map and the status of one robot, and no *)
(* message that robot sent while it was running another task - whatever    *)
(* ends, switches and failures the stream saw or missed.  (The status      *)
(* document is drawn from a cell that a new task does not clear: it may    *)
(* still show this robot's goal, mode and path from before the task.  Its  *)
(* two map revisions, which not every snapshot replaces, are left out.)    *)
OneRobotOneTask ==
    \A d \in 1..used :
        LET rec == recordings[d] IN
        /\ rec.data \subseteq {rec.robot} \X {rec.task, None}
        /\ rec.maps \subseteq {rec.robot} /\ rec.docs \subseteq {rec.robot}

(* Once the viewer listens to a robot that is running a task, that task is *)
(* being recorded, unless the file system refused.                         *)
RunningTaskIsRecorded ==
    conn = "live" /\ Active(work.status) /\ ~failed =>
        open /\ task = work.task

(* The recording in progress has the map that the live view has, whether   *)
(* it was fetched before the task began or after.                          *)
RecordingHasTheMap ==
    open /\ recordings[dir].rrd => recordings[dir].maps = {mapImage} \ {None}

(* The logger is still handling the message that ended the task. *)
Finishing(d) == dir = d /\ hand # "none"

(* When task.json says the task is over, the logger has one message left   *)
(* to record; once it has, or has died before it could, neither file is    *)
(* ever written again.                                                     *)
FinishedIsFrozen ==
    [][\A d \in 1..used :
          Terminal(recordings[d].meta) /\ ~Finishing(d) /\ Listed(d)' =>
              /\ recordings'[d].data = recordings[d].data
              /\ recordings'[d].maps = recordings[d].maps
              /\ recordings'[d].docs = recordings[d].docs
              /\ recordings'[d].meta \in {recordings[d].meta, "none"}]_vars

(* A task that left the list of replays, deleted or half deleted, does not *)
(* come back, not even when it was the one being recorded.                 *)
DeletedStaysDeleted ==
    [][\A d \in 1..used : ~Listed(d) => ~Listed(d)']_vars

----------------------------------------------------------------------------
(* The abstract specification: the logger is a recorder of tasks.          *)

Recorder == INSTANCE TaskRecorder WITH
    Slots   <- 1..MaxRecordings,
    Items   <- Origins,
    current <- dir,
    count   <- used,
    content <- [d \in 1..MaxRecordings |-> recordings[d].data]

(* The logger keeps the promise of TaskRecorder: one recording at a time,  *)
(* the newest, is written; none is reopened, and none mixes with another.  *)
IsTaskRecorder == Recorder!Spec
=============================================================================
