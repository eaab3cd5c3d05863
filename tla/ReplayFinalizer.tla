-------------------------- MODULE ReplayFinalizer --------------------------
(***************************************************************************)
(* How a replay task is closed (ReplayStore in replay_store.py): a thread  *)
(* takes the task out of the registry and hands it to the finalizer        *)
(* thread, which writes task_meta.json.  The store is shared: the sidecar  *)
(* consumes messages on one thread and shuts down on another (which waits  *)
(* only three seconds for the first), and the robot's service calls it     *)
(* from several.                                                           *)
(*                                                                         *)
(* Every step is one critical section or one call on the queue; between    *)
(* two of them any other thread may run.                                   *)
(***************************************************************************)
EXTENDS Naturals, Sequences, FiniteSets

CONSTANTS Callers,    \* threads that call the store
          Tasks,      \* task ids
          MaxStarts   \* bound on start_task

ASSUME FinalizerAssumption ==
    /\ Callers # {} /\ Tasks # {}
    /\ IsFiniteSet(Callers) /\ IsFiniteSet(Tasks)
    /\ MaxStarts \in Nat

VARIABLES
    tasks,      \* _tasks: the directory of each task id, 0 for none
    starts,     \* directories made so far; they are numbered in that order
    queue,      \* _finalize_queue; 0 is the None of shutdown
    worker,     \* the finalizer thread
    job,        \* the directory it is working on, 0 for none
    pending,    \* _pending_finalizations
    shutdown,   \* _finalize_shutdown
    pc,         \* where each caller is
    item,       \* the directory each caller took out of the registry
    completed,  \* directories whose completion is set, or finalized by their caller
    orphans,    \* history: directories whose entry a second start replaced
    late        \* history: directories queued behind the None of shutdown

store    == <<tasks, starts>>
finalizer == <<queue, worker, job, pending>>
caller   == <<pc, item>>
hist     == <<orphans, late>>
vars     == <<store, finalizer, shutdown, caller, completed, hist>>

Dirs == 1..MaxStarts

CallerPhases == {"idle", "ensure", "count", "put", "inline", "wait", "join"}
WorkerPhases == {"none", "get", "run", "done", "dead"}

TypeOK ==
    /\ tasks \in [Tasks -> Dirs \cup {0}]
    /\ starts \in 0..MaxStarts
    /\ queue \in Seq(Dirs \cup {0})
    /\ worker \in WorkerPhases
    /\ job \in Dirs \cup {0}
    /\ pending \in Nat
    /\ shutdown \in BOOLEAN
    /\ pc \in [Callers -> CallerPhases]
    /\ item \in [Callers -> Dirs \cup {0}]
    /\ completed \subseteq Dirs
    /\ orphans \subseteq Dirs
    /\ late \subseteq Dirs

Goes(c, from, to) == pc[c] = from /\ pc' = [pc EXCEPT ![c] = to]

----------------------------------------------------------------------------
(* Callers                                                                 *)

(* start_task: a second start of a registered id replaces its entry. *)
StartTask(c, t) ==
    /\ pc[c] = "idle" /\ starts < MaxStarts
    /\ starts' = starts + 1
    /\ tasks' = [tasks EXCEPT ![t] = starts']
    /\ orphans' = orphans \cup ({tasks[t]} \ {0})
    /\ UNCHANGED <<finalizer, shutdown, caller, completed, late>>

(* Mutated form: the entry is read and stays registered. *)
Unregistered_Not(t) == tasks

(* _tasks.pop(task_id) *)
Unregistered(t) == [tasks EXCEPT ![t] = 0]

(* finalize_task_async and finalize_task begin alike; an unknown task is   *)
(* nobody's to finalize and the call returns.                              *)
TakeTask(c, t) ==
    /\ tasks[t] # 0
    /\ Goes(c, "idle", "ensure") \/ Goes(c, "idle", "inline")
    /\ tasks' = Unregistered(t)
    /\ item' = [item EXCEPT ![c] = tasks[t]]
    /\ UNCHANGED <<starts, finalizer, shutdown, completed, hist>>

(* Mutated form: the job is queued and not counted. *)
AfterEnsure_Uncounted == "put"

AfterEnsure == "count"

(* _ensure_finalize_worker: no worker after shutdown, and the first job    *)
(* starts it.                                                              *)
EnsureFinalizeWorker(c) ==
    /\ IF shutdown
       THEN Goes(c, "ensure", "inline") /\ UNCHANGED worker
       ELSE /\ Goes(c, "ensure", AfterEnsure)
            /\ worker' = IF worker \in {"none", "dead"} THEN "get" ELSE worker
    /\ UNCHANGED <<store, queue, job, pending, shutdown, item, completed, hist>>

(* _finalize_task_info on the caller's thread.  It may raise; finalize_    *)
(* task_async sets the completion all the same.                            *)
FinalizeInline(c) ==
    /\ Goes(c, "inline", "idle")
    /\ completed' = completed \cup {item[c]}
    /\ item' = [item EXCEPT ![c] = 0]
    /\ UNCHANGED <<store, finalizer, shutdown, hist>>

CountPending(c) ==
    /\ Goes(c, "count", "put")
    /\ pending' = pending + 1
    /\ UNCHANGED <<store, queue, worker, job, shutdown, item, completed, hist>>

PutJob(c) ==
    /\ Goes(c, "put", "idle")
    /\ queue' = Append(queue, item[c])
    /\ item' = [item EXCEPT ![c] = 0]
    /\ late' = IF shutdown THEN late \cup {item[c]} ELSE late
    /\ UNCHANGED <<store, worker, job, pending, shutdown, completed, orphans>>

(* wait_for_pending_finalizations *)
Wait(c) ==
    /\ Goes(c, "idle", "wait")
    /\ UNCHANGED <<store, finalizer, shutdown, item, completed, hist>>

Waited(c) ==
    /\ pending = 0
    /\ Goes(c, "wait", "idle")
    /\ UNCHANGED <<store, finalizer, shutdown, item, completed, hist>>

WaitTimedOut(c) ==
    /\ pending # 0
    /\ Goes(c, "wait", "idle")
    /\ UNCHANGED <<store, finalizer, shutdown, item, completed, hist>>

(* Mutated form: the flag is set and the worker is not told. *)
Told_Nobody == queue

(* The queue with shutdown's None at its end. *)
Told == Append(queue, 0)

(* ReplayStore.shutdown, up to its join. *)
Shutdown(c) ==
    /\ shutdown' = TRUE
    /\ IF worker = "none"
       THEN pc[c] = "idle" /\ UNCHANGED <<pc, queue>>
       ELSE /\ Goes(c, "idle", "join")
            /\ queue' = IF shutdown THEN queue ELSE Told
    /\ UNCHANGED <<store, worker, job, pending, item, completed, hist>>

(* worker.join(timeout) returns, with the worker over or with its time up. *)
Joined(c) ==
    /\ Goes(c, "join", "idle")
    /\ UNCHANGED <<store, finalizer, shutdown, item, completed, hist>>

----------------------------------------------------------------------------
(* The finalizer thread                                                    *)

(* Mutated form: the worker leaves as soon as it sees the flag. *)
Leaves_AtTheFlag == shutdown

Leaves == Head(queue) = 0

GetJob ==
    /\ worker = "get" /\ queue # <<>>
    /\ queue' = Tail(queue)
    /\ IF Leaves
       THEN worker' = "dead" /\ UNCHANGED job
       ELSE worker' = "run" /\ job' = Head(queue)
    /\ UNCHANGED <<store, pending, shutdown, caller, completed, hist>>

(* Mutated form: a job that failed is not counted down. *)
AfterRun_SkipsOnFailure == {"done", "get"}

(* _finalize_task_info may fail; what follows is in its finally. *)
AfterRun == {"done"}

FinalizeJob ==
    /\ worker = "run"
    /\ worker' \in AfterRun
    /\ completed' = completed \cup {job}
    /\ job' = 0
    /\ UNCHANGED <<store, queue, pending, shutdown, caller, hist>>

CountDone ==
    /\ worker = "done"
    /\ worker' = "get"
    /\ pending' = pending - 1
    /\ UNCHANGED <<store, queue, job, shutdown, caller, completed, hist>>

----------------------------------------------------------------------------

Init ==
    /\ tasks = [t \in Tasks |-> 0] /\ starts = 0
    /\ queue = <<>> /\ worker = "none" /\ job = 0 /\ pending = 0
    /\ shutdown = FALSE
    /\ pc = [c \in Callers |-> "idle"] /\ item = [c \in Callers |-> 0]
    /\ completed = {} /\ orphans = {} /\ late = {}

(* A call goes on by itself once it has begun. *)
Continues(c) ==
    \/ EnsureFinalizeWorker(c) \/ FinalizeInline(c) \/ CountPending(c) \/ PutJob(c)
    \/ Waited(c) \/ WaitTimedOut(c) \/ Joined(c)

Begins(c) ==
    \/ \E t \in Tasks : StartTask(c, t) \/ TakeTask(c, t)
    \/ Wait(c) \/ Shutdown(c)

Finalizes == GetJob \/ FinalizeJob \/ CountDone

Next == Finalizes \/ \E c \in Callers : Begins(c) \/ Continues(c)

Spec == Init /\ [][Next]_vars

(* Every thread that is not blocked runs; wait and join have timeouts. *)
FairSpec == Spec /\ WF_vars(Finalizes) /\ \A c \in Callers : WF_vars(Continues(c))

----------------------------------------------------------------------------
(* Safety                                                                  *)

Jobs == {i \in DOMAIN queue : queue[i] # 0}

(* _pending_finalizations is the number of jobs that somebody is about to  *)
(* queue, that are queued, and that the worker has not counted down: so    *)
(* wait_for_pending_finalizations neither returns early nor waits for      *)
(* nothing.                                                                *)
PendingIsExact ==
    pending = Cardinality({c \in Callers : pc[c] = "put"}) + Cardinality(Jobs)
              + (IF worker \in {"run", "done"} THEN 1 ELSE 0)

(* Where a directory is between start_task and the end of its finalization. *)
Holders(d) ==
    Cardinality({t \in Tasks : tasks[t] = d}) + Cardinality({c \in Callers : item[c] = d})
    + Cardinality({i \in DOMAIN queue : queue[i] = d})
    + (IF job = d THEN 1 ELSE 0) + (IF d \in completed THEN 1 ELSE 0)

(* A task is finalized once, whoever calls and however often, and none is  *)
(* dropped on its way - but for those that a second start_task of the same *)
(* id orphaned.                                                            *)
FinalizedOnce ==
    \A d \in 1..starts : Holders(d) = IF d \in orphans THEN 0 ELSE 1

----------------------------------------------------------------------------
(* Liveness                                                                *)

(* A task that was taken out of the registry is finalized, even when       *)
(* shutdown comes in between - unless its own job was queued behind the    *)
(* None, by a caller that was already past _ensure_finalize_worker.        *)
TakenIsFinalized ==
    \A d \in Dirs :
        (\E c \in Callers : item[c] = d) ~> (d \in completed \cup late)

(* After shutdown the finalizer thread ends: the None reaches it behind     *)
(* whatever backlog there is.                                              *)
ShutdownEndsWorker == (shutdown /\ worker # "none") ~> (worker = "dead")
=============================================================================
