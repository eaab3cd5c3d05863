------------------------ MODULE NativeSidecarProofs ------------------------
(***************************************************************************)
(* Theorems about NativeSidecar, for every set of robots and ports.  None  *)
(* of the invariants below TypeOK and RunningMatchesTask is inductive as   *)
(* it stands: DownInv and StaleInv add what the worker knows at each phase *)
(* between leaving the stream and deciding what to do next.                *)
(***************************************************************************)
EXTENDS NativeSidecar, TLAPS

(* connected survives leaving the stream only when a flag made it leave,   *)
(* and a flag, once set, keeps the worker out of backoff.                  *)
DownInv ==
    /\ connected => pc \notin {"none", "serve", "failed", "backoff", "done"}
    /\ connected /\ pc = "ok" => stop \/ reconnect
    /\ connected /\ pc = "after" => reconnect

(* The count restarts with each reconfiguration, and after the first stale *)
(* message the worker reads another one only if the request was erased.    *)
StaleInv ==
    /\ ui \in Configuring => stale = 0
    /\ stale <= 1 \/ dropped
    /\ stale >= 1 /\ ~dropped /\ pc \in {"recv", "storeLast", "storeStatus"}
         => active.robot = settings.robot

IInv == TypeOK /\ RunningMatchesTask /\ DownInv /\ SwitchIsPending /\ StaleInv

USE DEF Settings, ActiveTaskStatus, TaskStatus, Content, DefaultStatus, Configuring,
        UiPhases, Streaming, WorkerPhases, Finished

----------------------------------------------------------------------------

LEMMA InitInv == Init => IInv
<1> SUFFICES ASSUME Init PROVE IInv
  OBVIOUS
<1> USE DEF Init
<1>1. TypeOK
  <2>1. /\ settings \in Settings /\ active \in Settings /\ wanted \in Settings
        /\ lastMessage \in Robots \cup {NoRobot}
    OBVIOUS
  <2>2. /\ stop \in BOOLEAN /\ reconnect \in BOOLEAN /\ connected \in BOOLEAN
        /\ foreign \in BOOLEAN /\ dropped \in BOOLEAN
    OBVIOUS
  <2>3. status \in [task : TaskStatus, running : BOOLEAN, from : Robots \cup {NoRobot}]
    OBVIOUS
  <2>4. /\ pc \in WorkerPhases /\ message \in Content /\ ui \in UiPhases
        /\ uiNext \in {"idle", "spawn", "closed"} /\ stale \in {0, 1, 2}
    OBVIOUS
  <2> QED
    BY <2>1, <2>2, <2>3, <2>4, Zenon DEF TypeOK
<1>2. RunningMatchesTask /\ DownInv /\ SwitchIsPending /\ StaleInv
  BY DEF RunningMatchesTask, DownInv, SwitchIsPending, StaleInv
<1> QED
  BY <1>1, <1>2 DEF IInv

(* A status update of either writer is a status, and the two fields agree  *)
(* after it if they agreed before.                                         *)
StatusRecord == [task : TaskStatus, running : BOOLEAN, from : Robots \cup {NoRobot}]
Agrees(s) == s.running <=> (s.task \in ActiveTaskStatus)

LEMMA MessageUpdate ==
  ASSUME NEW s \in StatusRecord, NEW c \in Content, NEW r \in Robots
  PROVE  /\ StatusAfter(s, c, r) \in StatusRecord
         /\ Agrees(s) => Agrees(StatusAfter(s, c, r))
<1>1. StatusAfter(s, c, r) \in StatusRecord
  BY DEF StatusAfter, StatusRecord
<1>2. Agrees(s) => Agrees(StatusAfter(s, c, r))
  BY DEF StatusAfter, StatusRecord, Agrees
<1> QED
  BY <1>1, <1>2

LEMMA ControlUpdate ==
  ASSUME NEW s \in StatusRecord, NEW b \in BOOLEAN
  PROVE  /\ ControlStatus(s, b) \in StatusRecord
         /\ Agrees(s) => Agrees(ControlStatus(s, b))
<1>1. ControlStatus(s, b) \in StatusRecord
  BY DEF ControlStatus, StatusRecord
<1>2. Agrees(s) => Agrees(ControlStatus(s, b))
  BY DEF ControlStatus, StatusRecord, Agrees
<1> QED
  BY <1>1, <1>2

(* TypeOK in two halves, because the two provers divide the work: Zenon    *)
(* for the flags, SMT for the other cells.                                 *)
FlagsOK ==
    /\ stop \in BOOLEAN /\ reconnect \in BOOLEAN /\ connected \in BOOLEAN
    /\ foreign \in BOOLEAN /\ dropped \in BOOLEAN

CellsOK ==
    /\ settings \in Settings /\ active \in Settings /\ wanted \in Settings
    /\ lastMessage \in Robots \cup {NoRobot}
    /\ status \in StatusRecord
    /\ pc \in WorkerPhases
    /\ message \in Content
    /\ ui \in UiPhases
    /\ uiNext \in {"idle", "spawn", "closed"}
    /\ stale \in {0, 1, 2}

LEMMA TypeHalves == TypeOK <=> FlagsOK /\ CellsOK
  BY Zenon DEF TypeOK, FlagsOK, CellsOK, StatusRecord

LEMMA FlagsStep == FlagsOK /\ [Next]_vars => FlagsOK'
<1> SUFFICES ASSUME FlagsOK, [Next]_vars
             PROVE  FlagsOK'
  OBVIOUS
<1> USE DEF FlagsOK, vars, shared, worker, panel, hist
<1>1. CASE UNCHANGED vars
  BY <1>1, Zenon
<1>2. CASE WorkerHttp
  BY <1>2, Zenon DEF WorkerHttp, RefreshMap, LogMessage, PollMap
<1>3. CASE WorkerLocal
  <2>1. CASE Serve \/ TestStop \/ ReadSettings \/ ClearReconnect \/ Connect
    BY <2>1, Zenon DEF Serve, TestStop, ReadSettings, ClearReconnect, Connect
  <2>2. CASE StoreConnected \/ TestFlags \/ ReadSocket \/ StoreLastMessage
    BY <2>2, Zenon DEF StoreConnected, TestFlags, ReadSocket, StoreLastMessage
  <2>3. CASE UpdateNativeStatus \/ StreamFailed
    BY <2>3, Zenon DEF UpdateNativeStatus, StreamFailed
  <2>4. CASE StreamLeft \/ Decide \/ Backoff \/ Exit
    BY <2>4, Zenon DEF StreamLeft, Decide, Backoff, Exit
  <2> QED
    BY <1>3, <2>1, <2>2, <2>3, <2>4 DEF WorkerLocal
<1>4. CASE UiStep
  <2>1. CASE CfgConnected \/ CfgLastMessage \/ CfgStatus \/ CfgReconnect
    BY <2>1, Zenon DEF CfgConnected, CfgLastMessage, CfgStatus, CfgReconnect
  <2>2. CASE Spawn
    BY <2>2, Zenon DEF Spawn
  <2>3. CASE ProbeAccepted \/ ProbeGaveUp \/ Joined \/ PollExit
    BY <2>3, Zenon DEF ProbeAccepted, ProbeGaveUp, Joined, PollExit
  <2> QED
    BY <1>4, <2>1, <2>2, <2>3 DEF UiStep
<1>5. CASE Operator
  <2>1. ASSUME NEW s \in Settings, Restart(s)
        PROVE  FlagsOK'
    BY <2>1, Zenon DEF Restart
  <2>2. ASSUME NEW b \in BOOLEAN, SetNavigationRunningFromControl(b)
        PROVE  FlagsOK'
    BY <2>2, Zenon DEF SetNavigationRunningFromControl
  <2>3. CASE Close
    <3>1. stop' = stop \/ stop' = TRUE
      BY <2>3, Zenon DEF Close
    <3> QED
      BY <2>3, <3>1, Zenon DEF Close
  <2> QED
    BY <1>5, <2>1, <2>2, <2>3 DEF Operator
<1> QED
  BY <1>1, <1>2, <1>3, <1>4, <1>5 DEF Next

LEMMA CellsStep == CellsOK /\ [Next]_vars => CellsOK'
<1> SUFFICES ASSUME CellsOK, [Next]_vars
             PROVE  CellsOK'
  OBVIOUS
<1> USE DEF CellsOK, vars, shared, worker, panel, hist
<1>1. CASE UNCHANGED vars
  BY <1>1
<1>2. CASE WorkerHttp
  BY <1>2 DEF WorkerHttp, RefreshMap, LogMessage, PollMap
<1>3. CASE WorkerLocal
  <2>1. CASE Serve \/ TestStop \/ ReadSettings \/ ClearReconnect \/ Connect
    BY <2>1 DEF Serve, TestStop, ReadSettings, ClearReconnect, Connect
  <2>2. CASE StoreConnected \/ TestFlags \/ ReadSocket \/ StoreLastMessage
    BY <2>2 DEF StoreConnected, TestFlags, ReadSocket, StoreLastMessage
  <2>3. CASE UpdateNativeStatus
    <3>1. status' \in StatusRecord
      BY <2>3, MessageUpdate DEF UpdateNativeStatus
    <3>2. stale' \in {0, 1, 2}
      BY <2>3 DEF UpdateNativeStatus, StaleAfter
    <3> QED
      BY <2>3, <3>1, <3>2 DEF UpdateNativeStatus
  <2>4. CASE StreamFailed \/ StreamLeft \/ Decide \/ Backoff \/ Exit
    BY <2>4 DEF StreamFailed, StreamLeft, Decide, Backoff, Exit
  <2> QED
    BY <1>3, <2>1, <2>2, <2>3, <2>4 DEF WorkerLocal
<1>4. CASE UiStep
  <2>1. CASE CfgConnected \/ CfgLastMessage \/ CfgReconnect
    BY <2>1 DEF CfgConnected, CfgLastMessage, CfgReconnect
  <2>2. CASE Spawn \/ CfgStatus
    <3>1. DefaultStatus \in StatusRecord
      BY DEF StatusRecord
    <3>2. CASE Spawn
      BY <3>1, <3>2 DEF Spawn
    <3>3. CASE CfgStatus
      BY <3>1, <3>3 DEF CfgStatus
    <3> QED
      BY <2>2, <3>2, <3>3
  <2>3. CASE ProbeAccepted \/ ProbeGaveUp \/ Joined \/ PollExit
    BY <2>3 DEF ProbeAccepted, ProbeGaveUp, Joined, PollExit
  <2> QED
    BY <1>4, <2>1, <2>2, <2>3 DEF UiStep
<1>5. CASE Operator
  <2>1. ASSUME NEW s \in Settings, Restart(s)
        PROVE  CellsOK'
    BY <2>1 DEF Restart
  <2>2. ASSUME NEW b \in BOOLEAN, SetNavigationRunningFromControl(b)
        PROVE  CellsOK'
    <3>1. status' \in StatusRecord
      BY <2>2, ControlUpdate DEF SetNavigationRunningFromControl
    <3> QED
      BY <2>2, <3>1 DEF SetNavigationRunningFromControl
  <2>3. CASE Close
    BY <2>3 DEF Close
  <2> QED
    BY <1>5, <2>1, <2>2, <2>3 DEF Operator
<1> QED
  BY <1>1, <1>2, <1>3, <1>4, <1>5 DEF Next

LEMMA TypeStep == TypeOK /\ [Next]_vars => TypeOK'
<1>1. TypeOK' <=> FlagsOK' /\ CellsOK'
  BY TypeHalves, PTL
<1> QED
  BY <1>1, TypeHalves, FlagsStep, CellsStep

(* Four steps write the status: the worker's update, the panel's, and the  *)
(* two resets to the default.                                              *)
LEMMA RunningStep == TypeOK /\ RunningMatchesTask /\ [Next]_vars => RunningMatchesTask'
<1> SUFFICES ASSUME TypeOK, RunningMatchesTask, [Next]_vars
             PROVE  RunningMatchesTask'
  OBVIOUS
<1>1. status \in StatusRecord /\ Agrees(status)
  BY DEF TypeOK, StatusRecord, RunningMatchesTask, Agrees
<1>2. CASE UpdateNativeStatus
  BY <1>1, <1>2, MessageUpdate
     DEF UpdateNativeStatus, TypeOK, RunningMatchesTask, Agrees
<1>3. ASSUME NEW b \in BOOLEAN, SetNavigationRunningFromControl(b)
      PROVE  RunningMatchesTask'
  BY <1>1, <1>3, ControlUpdate
     DEF SetNavigationRunningFromControl, RunningMatchesTask, Agrees
<1>4. CASE CfgStatus \/ Spawn
  BY <1>4 DEF CfgStatus, Spawn, RunningMatchesTask
<1>5. CASE UNCHANGED status
  BY <1>5 DEF RunningMatchesTask
<1>6. UNCHANGED status \/ UpdateNativeStatus \/ CfgStatus \/ Spawn
        \/ \E b \in BOOLEAN : SetNavigationRunningFromControl(b)
  <2> USE DEF vars, shared
  <2>1. CASE WorkerLocal
    BY <2>1 DEF WorkerLocal, Serve, TestStop, ReadSettings, ClearReconnect, Connect,
                StoreConnected, TestFlags, ReadSocket, StoreLastMessage, StreamFailed,
                StreamLeft, Decide, Backoff, Exit
  <2>2. CASE WorkerHttp
    BY <2>2 DEF WorkerHttp, RefreshMap, LogMessage, PollMap
  <2>3. CASE UiStep
    BY <2>3 DEF UiStep, CfgConnected, CfgLastMessage, CfgReconnect, ProbeAccepted,
                ProbeGaveUp, Joined, PollExit
  <2>4. CASE Operator
    BY <2>4 DEF Operator, Restart, Close
  <2>5. CASE UNCHANGED vars
    BY <2>5
  <2> QED
    BY <2>1, <2>2, <2>3, <2>4, <2>5 DEF Next
<1> QED
  BY <1>2, <1>3, <1>4, <1>5, <1>6

(* Every action but the ones named in a step leaves the variables of       *)
(* DownInv alone or moves pc between phases it says nothing about.         *)
LEMMA DownStep == TypeOK /\ DownInv /\ [Next]_vars => DownInv'
<1> SUFFICES ASSUME TypeOK, DownInv, [Next]_vars
             PROVE  DownInv'
  OBVIOUS
<1> USE DEF TypeOK, DownInv, vars, shared, worker, panel, hist
<1>1. CASE UNCHANGED vars
  BY <1>1
<1>2. CASE WorkerHttp
  BY <1>2 DEF WorkerHttp, RefreshMap, LogMessage, PollMap
<1>3. CASE WorkerLocal
  <2>1. CASE TestFlags \/ StreamLeft \/ Decide \/ StreamFailed \/ Exit
    BY <2>1 DEF TestFlags, StreamLeft, Decide, StreamFailed, Exit
  <2>2. CASE ClearReconnect \/ StoreConnected \/ Backoff \/ Serve \/ TestStop
    BY <2>2 DEF ClearReconnect, StoreConnected, Backoff, Serve, TestStop
  <2>3. CASE ReadSettings \/ Connect \/ ReadSocket \/ StoreLastMessage
    BY <2>3 DEF ReadSettings, Connect, ReadSocket, StoreLastMessage
  <2>4. CASE UpdateNativeStatus
    BY <2>4 DEF UpdateNativeStatus
  <2> QED
    BY <1>3, <2>1, <2>2, <2>3, <2>4 DEF WorkerLocal
<1>4. CASE UiStep
  <2>1. CASE CfgConnected \/ CfgLastMessage \/ CfgStatus \/ CfgReconnect
    BY <2>1 DEF CfgConnected, CfgLastMessage, CfgStatus, CfgReconnect
  <2>2. CASE Spawn
    BY <2>2 DEF Spawn
  <2>3. CASE ProbeAccepted \/ ProbeGaveUp \/ Joined \/ PollExit
    BY <2>3 DEF ProbeAccepted, ProbeGaveUp, Joined, PollExit
  <2> QED
    BY <1>4, <2>1, <2>2, <2>3 DEF UiStep
<1>5. CASE Operator
  <2>1. ASSUME NEW s \in Settings, Restart(s)
        PROVE  DownInv'
    BY <2>1 DEF Restart
  <2>2. ASSUME NEW b \in BOOLEAN, SetNavigationRunningFromControl(b)
        PROVE  DownInv'
    BY <2>2 DEF SetNavigationRunningFromControl
  <2>3. CASE Close
    BY <2>3 DEF Close
  <2> QED
    BY <1>5, <2>1, <2>2, <2>3 DEF Operator
<1> QED
  BY <1>1, <1>2, <1>3, <1>4, <1>5 DEF Next

(* The request is erased in one place, and that step records it. *)
LEMMA SwitchStep == TypeOK /\ SwitchIsPending /\ [Next]_vars => SwitchIsPending'
<1> SUFFICES ASSUME TypeOK, SwitchIsPending, [Next]_vars
             PROVE  SwitchIsPending'
  OBVIOUS
<1> USE DEF TypeOK, SwitchIsPending, vars, shared, worker, panel, hist
<1>1. CASE UNCHANGED vars
  BY <1>1
<1>2. CASE ClearReconnect
  BY <1>2 DEF ClearReconnect
<1>3. CASE ReadSettings
  BY <1>3 DEF ReadSettings
<1>4. CASE WorkerHttp
  BY <1>4 DEF WorkerHttp, RefreshMap, LogMessage, PollMap
<1>5. CASE WorkerLocal /\ ~ClearReconnect /\ ~ReadSettings
  <2>1. CASE Serve \/ TestStop \/ Connect \/ StoreConnected \/ TestFlags \/ ReadSocket
    BY <2>1 DEF Serve, TestStop, Connect, StoreConnected, TestFlags, ReadSocket
  <2>2. CASE StoreLastMessage \/ UpdateNativeStatus \/ StreamFailed
    BY <2>2 DEF StoreLastMessage, UpdateNativeStatus, StreamFailed
  <2>3. CASE StreamLeft \/ Decide \/ Backoff \/ Exit
    BY <2>3 DEF StreamLeft, Decide, Backoff, Exit
  <2> QED
    BY <1>5, <2>1, <2>2, <2>3 DEF WorkerLocal
<1>6. CASE UiStep
  <2>1. CASE CfgConnected \/ CfgLastMessage \/ CfgStatus \/ CfgReconnect
    BY <2>1 DEF CfgConnected, CfgLastMessage, CfgStatus, CfgReconnect
  <2>2. CASE Spawn
    BY <2>2 DEF Spawn
  <2>3. CASE ProbeAccepted \/ ProbeGaveUp \/ Joined \/ PollExit
    BY <2>3 DEF ProbeAccepted, ProbeGaveUp, Joined, PollExit
  <2> QED
    BY <1>6, <2>1, <2>2, <2>3 DEF UiStep
<1>7. CASE Operator
  <2>1. ASSUME NEW s \in Settings, Restart(s)
        PROVE  SwitchIsPending'
    BY <2>1 DEF Restart
  <2>2. ASSUME NEW b \in BOOLEAN, SetNavigationRunningFromControl(b)
        PROVE  SwitchIsPending'
    BY <2>2 DEF SetNavigationRunningFromControl
  <2>3. CASE Close
    BY <2>3 DEF Close
  <2> QED
    BY <1>7, <2>1, <2>2, <2>3 DEF Operator
<1> QED
  BY <1>1, <1>2, <1>3, <1>4, <1>5, <1>6, <1>7 DEF Next

(* To read a second message of the previous robot the worker must pass     *)
(* TestFlags with reconnect clear, and SwitchIsPending then says that the  *)
(* request was erased.                                                     *)
LEMMA StaleStep == TypeOK /\ SwitchIsPending /\ StaleInv /\ [Next]_vars => StaleInv'
<1> SUFFICES ASSUME TypeOK, SwitchIsPending, StaleInv, [Next]_vars
             PROVE  StaleInv'
  OBVIOUS
<1> USE DEF TypeOK, StaleInv, vars, shared, worker, panel, hist
<1>1. CASE UNCHANGED vars
  BY <1>1
<1>2. CASE TestFlags
  BY <1>2 DEF TestFlags, SwitchIsPending
<1>3. CASE UpdateNativeStatus
  BY <1>3 DEF UpdateNativeStatus, StaleAfter
<1>4. CASE WorkerHttp
  BY <1>4 DEF WorkerHttp, RefreshMap, LogMessage, PollMap
<1>5. CASE WorkerLocal /\ ~TestFlags /\ ~UpdateNativeStatus
  <2>1. CASE Serve \/ TestStop \/ Connect \/ StoreConnected \/ ReadSocket
    BY <2>1 DEF Serve, TestStop, Connect, StoreConnected, ReadSocket
  <2>2. CASE ReadSettings \/ ClearReconnect \/ StoreLastMessage \/ StreamFailed
    BY <2>2 DEF ReadSettings, ClearReconnect, StoreLastMessage, StreamFailed
  <2>3. CASE StreamLeft \/ Decide \/ Backoff \/ Exit
    BY <2>3 DEF StreamLeft, Decide, Backoff, Exit
  <2> QED
    BY <1>5, <2>1, <2>2, <2>3 DEF WorkerLocal
<1>6. CASE UiStep
  <2>1. CASE CfgConnected \/ CfgLastMessage \/ CfgStatus \/ CfgReconnect
    BY <2>1 DEF CfgConnected, CfgLastMessage, CfgStatus, CfgReconnect
  <2>2. CASE Spawn
    BY <2>2 DEF Spawn
  <2>3. CASE ProbeAccepted \/ ProbeGaveUp \/ Joined \/ PollExit
    BY <2>3 DEF ProbeAccepted, ProbeGaveUp, Joined, PollExit
  <2> QED
    BY <1>6, <2>1, <2>2, <2>3 DEF UiStep
<1>7. CASE Operator
  <2>1. ASSUME NEW s \in Settings, Restart(s)
        PROVE  StaleInv'
    BY <2>1 DEF Restart
  <2>2. ASSUME NEW b \in BOOLEAN, SetNavigationRunningFromControl(b)
        PROVE  StaleInv'
    BY <2>2 DEF SetNavigationRunningFromControl
  <2>3. CASE Close
    BY <2>3 DEF Close
  <2> QED
    BY <1>7, <2>1, <2>2, <2>3 DEF Operator
<1> QED
  BY <1>1, <1>2, <1>3, <1>4, <1>5, <1>6, <1>7 DEF Next

----------------------------------------------------------------------------

(* IInv holds throughout every behaviour of the service. *)
THEOREM Inductive == Spec => []IInv
<1>1. IInv /\ [Next]_vars => IInv'
  BY TypeStep, RunningStep, DownStep, SwitchStep, StaleStep DEF IInv
<1> QED
  BY InitInv, <1>1, PTL DEF Spec

(* Every cell always holds a value of its type (struct NativeSidecar). *)
THEOREM TypeCorrect == Spec => []TypeOK
<1>1. IInv => TypeOK
  BY DEF IInv
<1> QED
  BY Inductive, <1>1, PTL

(* The two writers of NativeStatusSnapshot keep navigation_running and     *)
(* task_status in agreement.                                               *)
THEOREM RunningAgrees == Spec => []RunningMatchesTask
<1>1. IInv => RunningMatchesTask
  BY DEF IInv
<1> QED
  BY Inductive, <1>1, PTL

(* A service in backoff, failed or over never reads as connected. *)
THEOREM DownReadsDown == Spec => []DownIsNotConnected
<1>1. IInv => DownIsNotConnected
  BY DEF IInv, DownInv, DownIsNotConnected
<1> QED
  BY Inductive, <1>1, PTL

(* The worker's store to reconnect (native_sidecar.rs:263) is the only way *)
(* a settings change can be lost.                                          *)
THEOREM OnlyTheEraseLosesASwitch == Spec => []SwitchIsPending
<1>1. IInv => SwitchIsPending
  BY DEF IInv
<1> QED
  BY Inductive, <1>1, PTL

(* At most one message of the previous robot follows a reconfiguration     *)
(* whose request is not erased.                                            *)
THEOREM BoundedStaleness == Spec => []AtMostOneStaleMessage
<1>1. IInv => AtMostOneStaleMessage
  BY DEF IInv, StaleInv, AtMostOneStaleMessage
<1> QED
  BY Inductive, <1>1, PTL
=============================================================================
