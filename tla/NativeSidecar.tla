--------------------------- MODULE NativeSidecar ---------------------------
(***************************************************************************)
(* The data service built into the Woosh viewer (native_sidecar.rs) and    *)
(* the manager that owns it (SidecarManager in main.rs).  Two threads meet *)
(* here and share six cells:                                               *)
(*                                                                         *)
(*   - the egui thread starts, reconfigures, polls and stops the service;  *)
(*   - the "woosh-native-sidecar" thread serves Rerun, connects to the     *)
(*     robot's WebSocket, publishes what it receives and reconnects.       *)
(*                                                                         *)
(* settings and status are mutexes, the other four cells are relaxed       *)
(* atomics, so every access is a step of its own and the two threads       *)
(* interleave between any two of them.  Time is abstracted: a deadline may *)
(* pass whenever the code waits for one.  The retry delay is a duration    *)
(* and has no other effect, so it is left out.                             *)
(***************************************************************************)
EXTENDS Naturals, FiniteSets

CONSTANTS Robots,   \* robot endpoints (robot_ip and robot_port together)
          Ports,    \* local Rerun ports
          NoRobot   \* "nothing received": last_message_ms = 0, a default status

ASSUME EndpointsAssumption == Robots # {} /\ Ports # {} /\ NoRobot \notin Robots

VARIABLES
    settings,     \* Arc<Mutex<NativeSidecarSettings>>
    stop,         \* Arc<AtomicBool>
    reconnect,    \* Arc<AtomicBool>
    connected,    \* Arc<AtomicBool>
    lastMessage,  \* Arc<AtomicU64>: the robot whose message stamped it
    status,       \* Arc<Mutex<NativeStatusSnapshot>>
    pc,           \* where the worker thread is; "none" when there is no worker
    active,       \* active_settings, the worker's own copy
    message,      \* the message the worker has read and not yet published
    ui,           \* where the egui thread is in restart, start or stop
    wanted,       \* the settings that restart is applying
    uiNext,       \* where the egui thread goes once join returns
    foreign,      \* another process listens on the Rerun port of this worker
    dropped,      \* history: the worker has erased an unserved reconnect request
    stale         \* history: other robots' messages published since reconfigure returned

shared == <<settings, stop, reconnect, connected, lastMessage, status>>
worker == <<pc, active, message>>
panel  == <<ui, wanted, uiNext, foreign>>
hist   == <<dropped, stale>>
vars   == <<shared, worker, panel, hist>>

Settings == [robot : Robots, port : Ports]

(* The eight active status names of the robot are one here, "processing"; *)
(* "accepted" and "stopped" are also written by the viewer itself.        *)
ActiveTaskStatus == {"accepted", "processing"}
TaskStatus == ActiveTaskStatus \cup {"idle", "completed", "stopped"}

(* What a text message says of the task; "none" is a message without one: *)
(* pose_update, planner_update, dynamic_map_update, ...                   *)
Content == {"none", "idle", "processing", "completed"}

DefaultStatus == [task |-> "idle", running |-> FALSE, from |-> NoRobot]

(* Phases of the egui thread.  "cfg..." are the stores of reconfigure that *)
(* follow the release of the settings lock.                                *)
Configuring == {"cfgConnected", "cfgLast", "cfgStatus", "cfgReconnect"}
UiPhases == Configuring \cup {"idle", "join", "spawn", "probe", "closed"}

(* Phases of the worker.  Streaming: a WebSocket to active.robot is open.  *)
Streaming == {"setConnected", "refresh", "loop", "recv", "storeLast", "storeStatus",
              "log", "poll"}
WorkerPhases == Streaming \cup
    {"none", "serve", "failed", "top", "read", "clear", "connect", "ok", "err", "after",
     "backoff", "exit", "done"}

(* ureq calls carry no timeout: the worker may stay in one of these for ever. *)
HttpWait == {"refresh", "log", "poll"}

(* JoinHandle::is_finished *)
Finished == pc \in {"failed", "done"}

TypeOK ==
    /\ settings \in Settings /\ active \in Settings /\ wanted \in Settings
    /\ stop \in BOOLEAN /\ reconnect \in BOOLEAN /\ connected \in BOOLEAN
    /\ lastMessage \in Robots \cup {NoRobot}
    /\ status \in [task : TaskStatus, running : BOOLEAN, from : Robots \cup {NoRobot}]
    /\ pc \in WorkerPhases
    /\ message \in Content
    /\ ui \in UiPhases
    /\ uiNext \in {"idle", "spawn", "closed"}
    /\ foreign \in BOOLEAN
    /\ dropped \in BOOLEAN
    /\ stale \in {0, 1, 2}

----------------------------------------------------------------------------
(* The worker thread: run_worker and consume_websocket.                    *)

(* serve_grpc binds the local Rerun port, which another process may hold. *)
Serve ==
    /\ pc = "serve"
    /\ pc' = IF foreign THEN "failed" ELSE "top"
    /\ UNCHANGED <<shared, active, message, panel, hist>>

(* while !stop *)
TestStop ==
    /\ pc = "top"
    /\ pc' = IF stop THEN "exit" ELSE "read"
    /\ UNCHANGED <<shared, active, message, panel, hist>>

ReadSettings ==
    /\ pc = "read"
    /\ active' = settings
    /\ pc' = "clear"
    /\ UNCHANGED <<shared, message, panel, hist>>

(* The store does not ask whether the flag was set after the settings were *)
(* copied; dropped records that it was.                                    *)
ClearReconnect ==
    /\ pc = "clear"
    /\ reconnect' = FALSE
    /\ dropped' = (dropped \/ (reconnect /\ active # settings))
    /\ pc' = "connect"
    /\ UNCHANGED <<settings, stop, connected, lastMessage, status, active, message,
                   panel, stale>>

(* Name resolution, TCP connect and WebSocket handshake: each may fail. *)
Connect ==
    /\ pc = "connect"
    /\ pc' \in {"setConnected", "err"}
    /\ UNCHANGED <<shared, active, message, panel, hist>>

StoreConnected ==
    /\ pc = "setConnected"
    /\ connected' = TRUE
    /\ pc' = "refresh"
    /\ UNCHANGED <<settings, stop, reconnect, lastMessage, status, active, message,
                   panel, hist>>

(* The first refresh_map of a connection: its failure ends the connection. *)
RefreshMap ==
    /\ pc = "refresh"
    /\ pc' \in {"loop", "err"}
    /\ UNCHANGED <<shared, active, message, panel, hist>>

(* Mutated form: the receive loop watches stop alone. *)
TestFlags_IgnoresReconnect ==
    /\ pc = "loop"
    /\ pc' = IF stop THEN "ok" ELSE "recv"
    /\ UNCHANGED <<shared, active, message, panel, hist>>

(* Mutated form: the receive loop watches reconnect alone. *)
TestFlags_IgnoresStop ==
    /\ pc = "loop"
    /\ pc' = IF reconnect THEN "ok" ELSE "recv"
    /\ UNCHANGED <<shared, active, message, panel, hist>>

(* while !stop && !reconnect; leaving the loop closes the socket. *)
TestFlags ==
    /\ pc = "loop"
    /\ pc' = IF stop \/ reconnect THEN "ok" ELSE "recv"
    /\ UNCHANGED <<shared, active, message, panel, hist>>

(* websocket.read: a text message, nothing for the worker (a ping, a       *)
(* binary frame, the one second timeout), or an error (a close frame, bad  *)
(* JSON, an I/O error).                                                    *)
ReadSocket ==
    /\ pc = "recv"
    /\ \/ \E c \in Content : message' = c /\ pc' = "storeLast"
       \/ pc' \in {"poll", "err"} /\ UNCHANGED message
    /\ UNCHANGED <<shared, active, panel, hist>>

StoreLastMessage ==
    /\ pc = "storeLast"
    /\ lastMessage' = active.robot
    /\ pc' = "storeStatus"
    /\ UNCHANGED <<settings, stop, reconnect, connected, status, active, message, panel,
                   hist>>

(* update_native_status.  A message with a task replaces its status and    *)
(* derives navigation_running from it; the other messages leave both.      *)
StatusAfter(s, c, r) ==
    IF c = "none" THEN [s EXCEPT !.from = r]
    ELSE [task |-> c, running |-> c \in ActiveTaskStatus, from |-> r]

(* A message of another robot than the configured one, published once      *)
(* reconfigure has returned.  The count saturates at 2.                    *)
StaleAfter ==
    IF active.robot # settings.robot /\ ui \notin Configuring /\ stale < 2
    THEN stale + 1 ELSE stale

UpdateNativeStatus ==
    /\ pc = "storeStatus"
    /\ status' = StatusAfter(status, message, active.robot)
    /\ stale' = StaleAfter
    /\ message' = "none"
    /\ pc' = "log"
    /\ UNCHANGED <<settings, stop, reconnect, connected, lastMessage, active, panel,
                   dropped>>

(* logger.log_message, which downloads announced images, and               *)
(* log_status_document: neither touches a shared cell.                     *)
LogMessage ==
    /\ pc = "log"
    /\ pc' = "poll"
    /\ UNCHANGED <<shared, active, message, panel, hist>>

(* refresh_map every five seconds; its result is ignored. *)
PollMap ==
    /\ pc = "poll"
    /\ pc' = "loop"
    /\ UNCHANGED <<shared, active, message, panel, hist>>

(* Mutated form: a broken stream leaves connected as it was. *)
StreamFailed_KeepsConnected ==
    /\ pc = "err"
    /\ pc' = "after"
    /\ UNCHANGED <<shared, active, message, panel, hist>>

(* The Err arm of run_worker's match. *)
StreamFailed ==
    /\ pc = "err"
    /\ connected' = FALSE
    /\ pc' = "after"
    /\ UNCHANGED <<settings, stop, reconnect, lastMessage, status, active, message,
                   panel, hist>>

(* The Ok arms: stop breaks out of the loop, anything else falls through;  *)
(* connected keeps its value.                                              *)
StreamLeft ==
    /\ pc = "ok"
    /\ pc' = IF stop THEN "exit" ELSE "after"
    /\ UNCHANGED <<shared, active, message, panel, hist>>

(* A pending reconnect request starts over at once. *)
Decide ==
    /\ pc = "after"
    /\ pc' = IF reconnect THEN "top" ELSE "backoff"
    /\ UNCHANGED <<shared, active, message, panel, hist>>

(* The wait ends on stop, on reconnect or when the deadline passes. *)
Backoff ==
    /\ pc = "backoff"
    /\ pc' = "top"
    /\ UNCHANGED <<shared, active, message, panel, hist>>

Exit ==
    /\ pc = "exit"
    /\ connected' = FALSE
    /\ pc' = "done"
    /\ UNCHANGED <<settings, stop, reconnect, lastMessage, status, active, message,
                   panel, hist>>

WorkerHttp == RefreshMap \/ LogMessage \/ PollMap

WorkerLocal ==
    \/ Serve \/ TestStop \/ ReadSettings \/ ClearReconnect \/ Connect
    \/ StoreConnected \/ TestFlags \/ ReadSocket \/ StoreLastMessage
    \/ UpdateNativeStatus \/ StreamFailed \/ StreamLeft \/ Decide \/ Backoff \/ Exit

----------------------------------------------------------------------------
(* The egui thread: SidecarManager and the methods of NativeSidecar.       *)

(* SidecarManager::restart: a running worker on the same local port is     *)
(* reconfigured in place (reconfigure takes the settings lock and writes   *)
(* under it); otherwise the worker, if any, is stopped and a new one       *)
(* started.                                                                *)
Restart(s) ==
    /\ ui = "idle"
    /\ wanted' = s
    /\ \/ /\ pc # "none" /\ ~Finished /\ settings.port = s.port
          /\ settings' = s
          /\ dropped' = FALSE /\ stale' = 0
          /\ ui' = "cfgConnected"
          /\ UNCHANGED <<stop, uiNext>>
       \/ /\ pc # "none" /\ (Finished \/ settings.port # s.port)
          /\ stop' = TRUE
          /\ ui' = "join" /\ uiNext' = "spawn"
          /\ UNCHANGED <<settings, hist>>
       \/ /\ pc = "none"
          /\ ui' = "spawn"
          /\ UNCHANGED <<settings, stop, uiNext, hist>>
    /\ UNCHANGED <<reconnect, connected, lastMessage, status, worker, foreign>>

CfgConnected ==
    /\ ui = "cfgConnected"
    /\ connected' = FALSE
    /\ ui' = "cfgLast"
    /\ UNCHANGED <<settings, stop, reconnect, lastMessage, status, worker, wanted,
                   uiNext, foreign, hist>>

CfgLastMessage ==
    /\ ui = "cfgLast"
    /\ lastMessage' = NoRobot
    /\ ui' = "cfgStatus"
    /\ UNCHANGED <<settings, stop, reconnect, connected, status, worker, wanted,
                   uiNext, foreign, hist>>

CfgStatus ==
    /\ ui = "cfgStatus"
    /\ status' = DefaultStatus
    /\ ui' = "cfgReconnect"
    /\ UNCHANGED <<settings, stop, reconnect, connected, lastMessage, worker, wanted,
                   uiNext, foreign, hist>>

(* Mutated form: reconfigure returns without asking for the reconnect. *)
CfgReconnect_Omitted ==
    /\ ui = "cfgReconnect"
    /\ ui' = "idle"
    /\ UNCHANGED <<shared, worker, wanted, uiNext, foreign, hist>>

CfgReconnect ==
    /\ ui = "cfgReconnect"
    /\ reconnect' = TRUE
    /\ ui' = "idle"
    /\ UNCHANGED <<settings, stop, connected, lastMessage, status, worker, wanted,
                   uiNext, foreign, hist>>

(* NativeSidecar::start up to the spawn: all cells are new.  Whether some  *)
(* other process holds the port is up to the environment.                  *)
Spawn ==
    /\ ui = "spawn"
    /\ settings' = wanted /\ active' = wanted
    /\ stop' = FALSE /\ reconnect' = FALSE /\ connected' = FALSE
    /\ lastMessage' = NoRobot /\ status' = DefaultStatus
    /\ pc' = "serve" /\ message' = "none"
    /\ foreign' \in BOOLEAN
    /\ dropped' = FALSE /\ stale' = 0
    /\ ui' = "probe"
    /\ UNCHANGED <<wanted, uiNext>>

Listening == foreign \/ pc \notin {"serve", "failed"}

(* start returns as soon as anything accepts a connection on the port. *)
ProbeAccepted ==
    /\ ui = "probe" /\ Listening
    /\ ui' = "idle"
    /\ UNCHANGED <<shared, worker, wanted, uiNext, foreign, hist>>

(* poll_error found the worker's error, or three seconds have passed. *)
ProbeGaveUp ==
    /\ ui = "probe"
    /\ pc \in {"serve", "failed"}
    /\ stop' = TRUE
    /\ ui' = "join" /\ uiNext' = "idle"
    /\ UNCHANGED <<settings, reconnect, connected, lastMessage, status, worker, wanted,
                   foreign, hist>>

(* thread.join() in NativeSidecar::stop returns once the worker is over. *)
Joined ==
    /\ ui = "join" /\ Finished
    /\ pc' = "none"
    /\ ui' = uiNext
    /\ UNCHANGED <<shared, active, message, wanted, uiNext, foreign, hist>>

(* Mutated form: the error is read and the dead worker is kept. *)
PollExit_KeepsWorker ==
    /\ ui = "idle" /\ pc = "failed"
    /\ UNCHANGED vars

(* SidecarManager::poll_exit: the worker's error is taken and the worker   *)
(* dropped, which joins a thread that has already finished.                *)
PollExit ==
    /\ ui = "idle" /\ pc = "failed"
    /\ stop' = TRUE
    /\ pc' = "none"
    /\ UNCHANGED <<settings, reconnect, connected, lastMessage, status, active, message,
                   panel, hist>>

(* Mutated form: a status name that no table of active names knows. *)
ControlStatus_UnknownName(s, b) ==
    [s EXCEPT !.running = b,
              !.task = IF s.running = b THEN @
                       ELSE IF b THEN "starting" ELSE "stopped"]

(* Mutated form: only navigation_running is written. *)
ControlStatus_FlagOnly(s, b) == [s EXCEPT !.running = b]

(* The status set_navigation_running_from_control leaves. *)
ControlStatus(s, b) ==
    [s EXCEPT !.running = b,
              !.task = IF s.running = b THEN @
                       ELSE IF b THEN "accepted" ELSE "stopped"]

SetNavigationRunningFromControl(b) ==
    /\ ui = "idle" /\ pc # "none"
    /\ status' = ControlStatus(status, b)
    /\ UNCHANGED <<settings, stop, reconnect, connected, lastMessage, worker, panel,
                   hist>>

(* Drop of SidecarManager when the window closes. *)
Close ==
    /\ ui = "idle"
    /\ IF pc = "none"
       THEN ui' = "closed" /\ UNCHANGED <<stop, uiNext>>
       ELSE stop' = TRUE /\ ui' = "join" /\ uiNext' = "closed"
    /\ UNCHANGED <<settings, reconnect, connected, lastMessage, status, worker, wanted,
                   foreign, hist>>

(* What the egui thread does on its own, without an operator. *)
UiStep ==
    \/ CfgConnected \/ CfgLastMessage \/ CfgStatus \/ CfgReconnect
    \/ Spawn \/ ProbeAccepted \/ ProbeGaveUp \/ Joined \/ PollExit

Operator ==
    \/ \E s \in Settings : Restart(s)
    \/ \E b \in BOOLEAN : SetNavigationRunningFromControl(b)
    \/ Close

----------------------------------------------------------------------------

(* ControlPanel::new with no worker yet; restart builds the first one. *)
Init ==
    /\ settings \in Settings /\ active = settings /\ wanted = settings
    /\ stop = FALSE /\ reconnect = FALSE /\ connected = FALSE
    /\ lastMessage = NoRobot /\ status = DefaultStatus
    /\ pc = "none" /\ message = "none"
    /\ ui = "idle" /\ uiNext = "idle" /\ foreign = FALSE
    /\ dropped = FALSE /\ stale = 0

Next == WorkerLocal \/ WorkerHttp \/ UiStep \/ Operator

Spec == Init /\ [][Next]_vars

(* Both threads are scheduled.  Every blocking call of the worker has a    *)
(* timeout or returns, except its HTTP requests: nothing is assumed of     *)
(* those.                                                                  *)
FairSpec == Spec /\ WF_vars(WorkerLocal) /\ WF_vars(UiStep)

(* The same with a robot whose HTTP server answers every request. *)
AnsweredSpec == FairSpec /\ WF_vars(WorkerHttp)

----------------------------------------------------------------------------
(* Safety                                                                  *)

(* navigation_running and task_status have two writers (the worker under   *)
(* update_native_status, the panel under set_navigation_running_from_      *)
(* control): whichever wrote last, the two fields agree.                   *)
RunningMatchesTask == status.running <=> (status.task \in ActiveTaskStatus)

(* A service that waits to retry, or is over, never reads as connected:    *)
(* the panel's "connected" light needs an open stream or a switch between  *)
(* two.                                                                    *)
DownIsNotConnected == connected => pc \notin {"serve", "failed", "backoff", "done"}

(* When the worker's endpoint is not the configured one, the request that  *)
(* will make it switch is pending or about to be stored - unless the       *)
(* worker has erased it.  So erasing it is the only way to keep streaming  *)
(* from the previous robot.                                                *)
SwitchIsPending ==
    pc # "none" /\ active # settings =>
        reconnect \/ ui \in Configuring \/ dropped

(* Once reconfigure has returned, at most one message of the previous      *)
(* robot (the one the worker was already reading) still reaches the        *)
(* status, unless the request was erased.                                  *)
AtMostOneStaleMessage == stale <= 1 \/ dropped

----------------------------------------------------------------------------
(* Liveness                                                                *)

StuckInHttp == <>[](pc \in HttpWait)

(* restart, start and the window's close all join the worker on the egui   *)
(* thread: the wait always ends, unless a robot leaves one of the worker's *)
(* HTTP requests unanswered for ever.                                      *)
JoinReturns == StuckInHttp \/ []<>(ui # "join")

(* A settings change reaches the worker unless the request was erased, the *)
(* settings change again, or the service is stopped.                       *)
ReconfigureServed ==
    StuckInHttp \/
    \A r \in Robots :
        (ui = "idle" /\ pc # "none" /\ settings.robot = r)
          ~> (active.robot = r \/ settings.robot # r \/ dropped \/ stop)

(* A worker that could not serve is noticed and dropped, even when a       *)
(* foreign listener made start believe it was up.                          *)
FailureIsNoticed == (pc = "failed") ~> (pc # "failed")

(* The changelog's promise (CHANGELOG.md:19): after the robot address is   *)
(* changed the service disconnects from the old stream and connects to the *)
(* new address.                                                            *)
ReconfigureTakesEffect ==
    \A r \in Robots :
        (ui = "idle" /\ pc # "none" /\ settings.robot = r)
          ~> (active.robot = r \/ settings.robot # r \/ stop)
=============================================================================
