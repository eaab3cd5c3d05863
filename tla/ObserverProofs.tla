--------------------------- MODULE ObserverProofs ---------------------------
(***************************************************************************)
(* Proofs about the two models of the Python sidecar's consumer side:      *)
(* ObservedNavigation (its recordings) and, at the end, ObservedMap (its   *)
(* map).                                                                   *)
(*                                                                         *)
(* ObservedNavigation, for any number of tasks, any queue and any number   *)
(* of connections.  ObserverInv is its inductive invariant.  Its parts:    *)
(*    RobotInv     the robot ends a task before it runs the next, and its  *)
(*                 log holds what it said;                                 *)
(*    StreamInv    the parts the observer has not handled (Pending) are    *)
(*                 what a robot says, and with all of them handled no task *)
(*                 is active but the one the robot runs;                   *)
(*    SinkInv      the queue of the Rerun worker leads it to the active    *)
(*                 task's recording (Leads), or to none if the worker has  *)
(*                 refused it, unless a command was dropped; and every     *)
(*                 recording holds what is of its own task, or of the plan *)
(*                 kept when it began (Pure): what the queue has yet to    *)
(*                 begin is untouched, and later than what is recorded;    *)
(*    RecordedInv  with no old task to replay, the parts leave the task    *)
(*                 the robot runs active;                                  *)
(*    HistoryInv   the bounds of the other variables.                      *)
(* The operators of the observer are pure functions of its record, so most *)
(* lemmas are about them and only the last ones are about actions.         *)
(*                                                                         *)
(* ObservedMap, for any maps, requests and failures: PartialIsRetried      *)
(* holds of any robot; TornIsReplaced needs a robot that never goes back   *)
(* to an earlier map.                                                      *)
(***************************************************************************)
EXTENDS ObservedNavigation, ObservedMap, SequenceTheorems, TLAPS

-----------------------------------------------------------------------------
(* ObservedNavigation: the operators of the observer                       *)

(* The directory of the active task, and how directories, active task and  *)
(* registry hang together: only the active task has a directory, which is  *)
(* its own, and exactly that one has no ending yet.                        *)
DirOf(o) == IF o.active = None THEN 0 ELSE o.dirs[o.active]

Registry(o) ==
    /\ \A t \in Tasks : t # o.active => o.dirs[t] = 0
    /\ o.active # None =>
          /\ o.dirs[o.active] \in 1..Len(o.recs)
          /\ o.recs[o.dirs[o.active]].task = o.active
    /\ \A i \in 1..Len(o.recs) : o.recs[i].meta = "open" <=> i = DirOf(o)

Good(o) == o \in Observer /\ Len(o.queue) <= QueueSize /\ Registry(o)

Ops == {"start", "finish", "data", "note", "stop"}
Tell(op, t, rec) == [op |-> op, task |-> t, rec |-> rec]

(* Which commands a full queue may give up without a trace in `lost'. *)
Drops(q) == Len(q) = QueueSize /\ Head(q).op \in {"start", "finish"}

----------------------------------------------------------------------------
(* What the observer's operators do.                                       *)

LEMMA CommandIs ==
  ASSUME NEW op \in Ops, NEW t \in Tasks \cup {None}, NEW rec \in 0..MaxRecordings
  PROVE  Tell(op, t, rec) \in Command
BY DEF Ops, Tell, Command

LEMMA RoomIs ==
  ASSUME NEW q \in Seq(Command), Len(q) <= QueueSize
  PROVE  Room(q) \in Seq(Command) /\ Len(Room(q)) < QueueSize
<1>1. QueueSize \in Nat \ {0} /\ Len(q) \in Nat
  BY ObserverAssumption, LenProperties
<1>2. CASE Len(q) < QueueSize BY <1>2 DEF Room
<1>3. CASE ~(Len(q) < QueueSize)
  <2>1. q # <<>> BY <1>1, <1>3, EmptySeq
  <2>2. Tail(q) \in Seq(Command) /\ Len(Tail(q)) = Len(q) - 1 BY <2>1, HeadTailProperties
  <2>q. QED BY <1>1, <1>3, <2>2 DEF Room
<1>q. QED BY <1>2, <1>3

(* Enqueue changes the queue and says whether it gave up a decision. *)
LEMMA EnqueueIs ==
  ASSUME NEW o \in Observer, Len(o.queue) <= QueueSize, NEW op \in Ops,
         NEW t \in Tasks \cup {None}, NEW rec \in 0..MaxRecordings
  PROVE  LET e == Enqueue(o, op, t, rec) IN
         /\ e \in Observer /\ Len(e.queue) <= QueueSize
         /\ e.active = o.active /\ e.dirs = o.dirs /\ e.recs = o.recs
         /\ e.queue = Append(Room(o.queue), Tell(op, t, rec))
         /\ e.lost <=> (o.lost \/ Drops(o.queue))
<1> DEFINE e == Enqueue(o, op, t, rec)
<1>1. o.queue \in Seq(Command) /\ o.lost \in BOOLEAN BY DEF Observer
<1>2. Tell(op, t, rec) \in Command BY CommandIs
<1>3. Room(o.queue) \in Seq(Command) /\ Len(Room(o.queue)) < QueueSize BY <1>1, RoomIs
<1>4. /\ Append(Room(o.queue), Tell(op, t, rec)) \in Seq(Command)
      /\ Len(Append(Room(o.queue), Tell(op, t, rec))) = Len(Room(o.queue)) + 1
  BY <1>2, <1>3, AppendProperties
<1>5. e = [o EXCEPT !.queue = Append(Room(o.queue), Tell(op, t, rec)),
                    !.lost = o.lost \/ Drops(o.queue)]
  BY DEF Enqueue, Tell, Drops
<1>6. (o.lost \/ Drops(o.queue)) \in BOOLEAN OBVIOUS
<1>7. /\ e.active = o.active /\ e.dirs = o.dirs /\ e.recs = o.recs
      /\ e.queue = Append(Room(o.queue), Tell(op, t, rec))
      /\ e.lost = (o.lost \/ Drops(o.queue))
      /\ e \in Observer
  BY <1>4, <1>5, <1>6 DEF Observer
<1>8. Len(e.queue) <= QueueSize
  BY <1>3, <1>4, <1>7, ObserverAssumption, LenProperties
<1>q. QED BY <1>7, <1>8

LEMMA GoodEnqueue ==
  ASSUME NEW o, Good(o), NEW op \in Ops, NEW t \in Tasks \cup {None},
         NEW rec \in 0..MaxRecordings
  PROVE  Good(Enqueue(o, op, t, rec))
<1> DEFINE e == Enqueue(o, op, t, rec)
<1>1. /\ e \in Observer /\ Len(e.queue) <= QueueSize
      /\ e.active = o.active /\ e.dirs = o.dirs /\ e.recs = o.recs
  BY EnqueueIs DEF Good
<1> HIDE DEF e
<1>2. Good(e) BY <1>1 DEF Good, Registry, DirOf
<1>q. QED BY <1>2 DEF e

(* _finish_task for the active task: its directory gets its ending, and    *)
(* nothing is active. *)
LEMMA FinishTaskIs ==
  ASSUME NEW o, Good(o), o.active # None, NEW status \in Endings
  PROVE  LET e == FinishTask(o, o.active, status) IN
         /\ Good(e)
         /\ e.active = None
         /\ Len(e.recs) = Len(o.recs)
         /\ \A i \in 1..Len(o.recs) :
               e.recs[i] = IF i = DirOf(o) THEN [o.recs[i] EXCEPT !.meta = status]
                           ELSE o.recs[i]
         /\ e.queue = Append(Room(o.queue), Tell("finish", o.active, 0))
         /\ e.lost <=> (o.lost \/ Drops(o.queue))
<1> DEFINE s == FinishSink(o, o.active)
           d == DirOf(o)
           e == FinishTask(o, o.active, status)
<1>1. /\ s \in Observer /\ Len(s.queue) <= QueueSize
      /\ s.active = o.active /\ s.dirs = o.dirs /\ s.recs = o.recs
      /\ s.queue = Append(Room(o.queue), Tell("finish", o.active, 0))
      /\ s.lost <=> (o.lost \/ Drops(o.queue))
  <2>1. o \in Observer /\ Len(o.queue) <= QueueSize /\ o.active \in Tasks \cup {None}
        /\ "finish" \in Ops /\ 0 \in 0..MaxRecordings
    BY ObserverAssumption DEF Good, Observer, Ops
  <2>q. QED BY <2>1, EnqueueIs DEF FinishSink
<1>2. o.active \in Tasks /\ d = o.dirs[o.active] /\ d \in 1..Len(o.recs)
  BY DEF Good, Observer, Registry, DirOf
<1>3. e = [s EXCEPT !.active = None, !.recs[d].meta = status, !.dirs[o.active] = 0]
  BY <1>2 DEF FinishTask
<1>4. /\ e.active = None /\ e.dirs = [o.dirs EXCEPT ![o.active] = 0]
      /\ e.recs = [o.recs EXCEPT ![d].meta = status]
      /\ e.queue = s.queue /\ e.lost = s.lost
  BY <1>1, <1>3 DEF Observer
<1>5. o.recs \in Seq(Recording) /\ o.recs[d] \in Recording
  BY <1>2, ElementOfSeq DEF Good, Observer
<1>6. [o.recs[d] EXCEPT !.meta = status] \in Recording
  BY <1>5 DEF Recording, Endings
<1>7. /\ e.recs \in Seq(Recording) /\ Len(e.recs) = Len(o.recs)
      /\ \A i \in 1..Len(o.recs) :
            e.recs[i] = IF i = d THEN [o.recs[d] EXCEPT !.meta = status] ELSE o.recs[i]
  <2>1. e.recs = [o.recs EXCEPT ![d] = [o.recs[d] EXCEPT !.meta = status]]
    BY <1>4
  <2> DEFINE new == [o.recs[d] EXCEPT !.meta = status]
  <2>2. d \in 1..Len(o.recs) /\ new \in Recording BY <1>2, <1>6
  <2>3. e.recs = [o.recs EXCEPT ![d] = new] BY <2>1
  <2> HIDE DEF new, d, e
  <2>4. /\ e.recs \in Seq(Recording) /\ Len(e.recs) = Len(o.recs)
        /\ \A i \in 1..Len(o.recs) : e.recs[i] = IF i = d THEN new ELSE o.recs[i]
    BY <1>5, <2>2, <2>3, ExceptSeq
  <2>q. QED BY <2>4 DEF new
<1>8. e \in Observer
  <2>1. e.dirs \in [Tasks -> 0..MaxRecordings]
    BY <1>2, <1>4, ObserverAssumption DEF Good, Observer
  <2>q. QED BY <1>1, <1>3, <1>4, <1>7, <2>1 DEF Observer
<1>9. Registry(e)
  <2>1. \A t \in Tasks : e.dirs[t] = 0
    BY <1>2, <1>4 DEF Good, Registry, Observer
  <2>2. ASSUME NEW i \in 1..Len(e.recs)
        PROVE  e.recs[i].meta = "open" <=> i = DirOf(e)
    <3>1. DirOf(e) = 0 /\ i # 0
      <4>1. DirOf(e) = 0 BY <1>4 DEF DirOf
      <4>2. Len(e.recs) = Len(o.recs) /\ Len(o.recs) \in Nat BY <1>5, <1>7, LenProperties
      <4> HIDE DEF e
      <4>q. QED BY <4>1, <4>2
    <3>2. CASE i = d
      <4>1. e.recs[i].meta = status BY <1>5, <1>7, <3>2 DEF Recording
      <4>q. QED BY <3>1, <4>1 DEF Endings
    <3>3. CASE i # d
      <4>1. e.recs[i] = o.recs[i] BY <1>7, <3>3
      <4>q. QED BY <1>7, <3>1, <3>3, <4>1 DEF Good, Registry
    <3>q. QED BY <3>2, <3>3
  <2>q. QED BY <1>4, <2>1, <2>2 DEF Registry
<1>q. QED BY <1>1, <1>4, <1>7, <1>8, <1>9 DEF Good

(* The registry does not point past the directories that were made. *)
LEMMA DirOfIs ==
  ASSUME NEW o, Good(o)
  PROVE  DirOf(o) \in 0..Len(o.recs) /\ DirOf(o) \in 0..MaxRecordings /\ Len(o.recs) \in Nat
         /\ (DirOf(o) = 0 <=> o.active = None)
<1>1. o.recs \in Seq(Recording) BY DEF Good, Observer
<1>2. Len(o.recs) \in Nat BY <1>1, LenProperties
<1>q. QED BY <1>2, ObserverAssumption DEF Good, Registry, DirOf, Observer

(* What superseding leaves: nothing active, and the directory ended. *)
(* The same recording, but perhaps for its ending. *)
Alike(r, s) == r.task = s.task /\ r.others = s.others /\ r.kept = s.kept

LEMMA SupersededIs ==
  ASSUME NEW o, Good(o)
  PROVE  LET s == Superseded(o) IN
         /\ Good(s)
         /\ s.active = None
         /\ Len(s.recs) = Len(o.recs)
         /\ \A i \in 1..Len(o.recs) :
               /\ Alike(s.recs[i], o.recs[i])
               /\ i # DirOf(o) => s.recs[i] = o.recs[i]
<1>1. CASE o.active = None BY <1>1 DEF Superseded, Alike
<1>2. CASE o.active # None
  <2> DEFINE s == Superseded(o)
  <2>1. /\ s = FinishTask(o, o.active, "superseded")
        /\ Good(s) /\ s.active = None
        /\ Len(s.recs) = Len(o.recs)
        /\ \A i \in 1..Len(o.recs) :
               s.recs[i] = IF i = DirOf(o) THEN [o.recs[i] EXCEPT !.meta = "superseded"]
                           ELSE o.recs[i]
    BY <1>2, FinishTaskIs DEF Superseded, Endings
  <2>2. \A i \in 1..Len(o.recs) : o.recs[i] \in Recording
    BY ElementOfSeq DEF Good, Observer
  <2>3. \A i \in 1..Len(o.recs) :
               /\ Alike(s.recs[i], o.recs[i])
               /\ i # DirOf(o) => s.recs[i] = o.recs[i]
    BY <2>1, <2>2 DEF Recording, Alike
  <2>q. QED BY <2>1, <2>3
<1>q. QED BY <1>1, <1>2

Opened(s, t) == [s EXCEPT !.active = t, !.dirs[t] = Len(s.recs) + 1,
                          !.recs = Append(@, NewRecording(t))]

LEMMA OpenedIs ==
  ASSUME NEW s, Good(s), s.active = None, NEW t \in Tasks, Len(s.recs) < MaxRecordings
  PROVE  LET b == Opened(s, t)
             n == Len(s.recs) + 1 IN
         /\ Good(b)
         /\ b.active = t /\ DirOf(b) = n /\ n \in 1..MaxRecordings
         /\ b.queue = s.queue /\ b.lost = s.lost
         /\ Len(b.recs) = n /\ b.recs[n] = NewRecording(t)
         /\ \A i \in 1..Len(s.recs) : b.recs[i] = s.recs[i]
<1> DEFINE b == Opened(s, t)
           n == Len(s.recs) + 1
<1>1. NewRecording(t) \in Recording BY DEF NewRecording, Recording
<1>2. s.recs \in Seq(Recording) BY DEF Good, Observer
<1>3. /\ Append(s.recs, NewRecording(t)) \in Seq(Recording)
      /\ Len(Append(s.recs, NewRecording(t))) = n
      /\ \A i \in 1..Len(s.recs) : Append(s.recs, NewRecording(t))[i] = s.recs[i]
      /\ Append(s.recs, NewRecording(t))[n] = NewRecording(t)
  BY <1>1, <1>2, AppendProperties
<1>4. n \in 1..MaxRecordings BY <1>2, ObserverAssumption, LenProperties
<1>5. /\ b.active = t /\ b.dirs = [s.dirs EXCEPT ![t] = n]
      /\ b.recs = Append(s.recs, NewRecording(t))
      /\ b.queue = s.queue /\ b.lost = s.lost
      /\ b \in Observer
  <2>1. s \in Observer /\ [s.dirs EXCEPT ![t] = n] \in [Tasks -> 0..MaxRecordings]
    BY <1>4 DEF Good, Observer
  <2>q. QED BY <1>3, <2>1 DEF Opened, Observer
<1>6. DirOf(b) = n
  BY <1>5, ObserverAssumption DEF DirOf, Good, Observer
<1>7. Registry(b)
  <2>1. \A u \in Tasks : u # b.active => b.dirs[u] = 0
    BY <1>5, ObserverAssumption DEF Good, Registry, Observer
  <2>2. b.dirs[b.active] = n /\ n \in 1..Len(b.recs) /\ b.recs[n].task = t
    BY <1>2, <1>3, <1>5, <1>6, ObserverAssumption, LenProperties DEF DirOf, NewRecording
  <2>3. ASSUME NEW i \in 1..Len(b.recs)
        PROVE  b.recs[i].meta = "open" <=> i = DirOf(b)
    <3>1. CASE i = n BY <1>3, <1>5, <1>6, <3>1 DEF NewRecording
    <3>2. CASE i # n
      <4>1. i \in 1..Len(s.recs) BY <1>2, <1>3, <1>5, <3>2, LenProperties
      <4>2. b.recs[i] = s.recs[i] BY <1>3, <1>5, <4>1
      <4>3. ~(s.recs[i].meta = "open") BY <4>1, DirOfIs DEF Good, Registry
      <4>q. QED BY <1>6, <3>2, <4>2, <4>3
    <3>q. QED BY <3>1, <3>2
  <2>q. QED BY <1>5, <2>1, <2>2, <2>3 DEF Registry
<1>q. QED BY <1>2, <1>3, <1>4, <1>5, <1>6, <1>7 DEF Good

(* _ensure_task, for a task that is not the active one. *)
LEMMA EnsureTaskIs ==
  ASSUME NEW o, Good(o), NEW t \in Tasks, Starts(o, t), Len(o.recs) < MaxRecordings
  PROVE  LET s == Superseded(o)
             b == Opened(s, t)
             n == Len(o.recs) + 1
             e == EnsureTask(o, t) IN
         /\ Good(s) /\ s.active = None /\ Len(s.recs) = Len(o.recs)
         /\ Good(b) /\ b.active = t /\ DirOf(b) = n /\ b.queue = s.queue
         /\ n \in 1..MaxRecordings
         /\ e = Enqueue(b, "start", t, n)
         /\ Good(e) /\ e.active = t /\ DirOf(e) = n
         /\ Len(e.recs) = n /\ e.recs[n] = NewRecording(t)
         /\ e.recs = b.recs
         /\ \A i \in 1..Len(o.recs) :
               /\ Alike(e.recs[i], o.recs[i])
               /\ i # DirOf(o) => e.recs[i] = o.recs[i]
<1> DEFINE s == Superseded(o)
           b == Opened(s, t)
           n == Len(o.recs) + 1
           e == EnsureTask(o, t)
<1>1. /\ Good(s) /\ s.active = None /\ Len(s.recs) = Len(o.recs)
      /\ \A i \in 1..Len(o.recs) :
               /\ Alike(s.recs[i], o.recs[i])
               /\ i # DirOf(o) => s.recs[i] = o.recs[i]
  BY SupersededIs
<1>2. /\ Good(b) /\ b.active = t /\ DirOf(b) = n /\ n \in 1..MaxRecordings
      /\ b.queue = s.queue /\ b.lost = s.lost
      /\ Len(b.recs) = n /\ b.recs[n] = NewRecording(t)
      /\ \A i \in 1..Len(o.recs) : b.recs[i] = s.recs[i]
  <2> HIDE DEF s
  <2>q. QED BY <1>1, OpenedIs
<1>3. e = Enqueue(b, "start", t, n)
  BY <1>1 DEF EnsureTask, Opened
<1>4. /\ Good(e) /\ e.active = b.active /\ e.dirs = b.dirs /\ e.recs = b.recs
  <2>1. "start" \in Ops /\ t \in Tasks \cup {None} /\ n \in 0..MaxRecordings
    BY <1>2 DEF Ops
  <2>2. b \in Observer /\ Len(b.queue) <= QueueSize BY <1>2 DEF Good
  <2> HIDE DEF b, n
  <2>q. QED BY <1>2, <1>3, <2>1, <2>2, GoodEnqueue, EnqueueIs
<1> HIDE DEF s, b, e
<1>5. DirOf(e) = n BY <1>2, <1>4 DEF DirOf
<1>6. /\ e.active = t /\ Len(e.recs) = n /\ e.recs[n] = NewRecording(t)
      /\ \A i \in 1..Len(o.recs) :
               /\ Alike(e.recs[i], o.recs[i])
               /\ i # DirOf(o) => e.recs[i] = o.recs[i]
  BY <1>1, <1>2, <1>4
<1>q. QED BY <1>1, <1>2, <1>3, <1>4, <1>5, <1>6 DEF s, b, e

(* The worker as the queue means it to be: an ideal one, whose starts      *)
(* never fail, at task and recording; the real one is there as well, or    *)
(* has refused the recording of the same task.                             *)
Aim(goal, c) ==
    CASE c.op = "start" -> [task |-> c.task, rec |-> c.rec]
      [] c.op = "finish" /\ c.task = goal.task -> [task |-> None, rec |-> 0]
      [] c.op = "stop" -> [task |-> goal.task, rec |-> 0]
      [] OTHER -> goal

Reaches(x, goal) ==
    x \in Runtime /\ x.task = goal.task /\ x.rec = IF x.refused THEN 0 ELSE goal.rec

LEMMA AppliedIs ==
  ASSUME NEW x \in Runtime, NEW c \in Command
  PROVE  /\ Applied(x, c) \in Runtime
         /\ Applied(x, c).plan = x.plan
         /\ c.op = "start" => /\ Applied(x, c).task = c.task /\ Applied(x, c).rec = c.rec
                              /\ ~Applied(x, c).refused
         /\ c.op = "finish" /\ c.task = x.task =>
              Applied(x, c).task = None /\ Applied(x, c).rec = 0 /\ ~Applied(x, c).refused
         /\ c.op = "stop" => /\ Applied(x, c).task = x.task /\ Applied(x, c).rec = 0
                             /\ Applied(x, c).refused = x.refused
         /\ c.op \notin {"start", "stop"} /\ ~(c.op = "finish" /\ c.task = x.task) =>
              Applied(x, c) = x
<1> DEFINE a == Applied(x, c)
<1>0. 0 \in 0..MaxRecordings /\ c.task \in Tasks \cup {None} /\ c.rec \in 0..MaxRecordings
  BY ObserverAssumption DEF Command
<1>1. CASE c.op = "start"
  <2>1. a = [x EXCEPT !.task = c.task, !.rec = c.rec, !.refused = FALSE]
    BY <1>1 DEF Applied
  <2> HIDE DEF a
  <2>q. QED BY <1>0, <1>1, <2>1 DEF Runtime, a
<1>2. CASE c.op = "finish" /\ c.task = x.task
  <2>1. a = [x EXCEPT !.task = None, !.rec = 0, !.refused = FALSE]
    BY <1>2 DEF Applied
  <2> HIDE DEF a
  <2>q. QED BY <1>0, <1>2, <2>1 DEF Runtime, a
<1>3. CASE c.op = "stop"
  <2>1. a = [x EXCEPT !.rec = 0] BY <1>3 DEF Applied
  <2> HIDE DEF a
  <2>q. QED BY <1>0, <1>3, <2>1 DEF Runtime, a
<1>4. CASE c.op \notin {"start", "stop"} /\ ~(c.op = "finish" /\ c.task = x.task)
  <2>1. a = x BY <1>4 DEF Applied
  <2> HIDE DEF a
  <2>q. QED BY <1>4, <2>1 DEF a
<1>q. QED BY <1>1, <1>2, <1>3, <1>4

(* What a command may do: what is meant, a refusal, or another plan.       *)
LEMMA OutcomeIs ==
  ASSUME NEW x \in Runtime, NEW c \in Command, NEW y \in Outcomes(x, c)
  PROVE  /\ y \in Runtime
         /\ y.rec \in {0, x.rec} \/ (c.op = "start" /\ y.rec = c.rec)
         /\ y.plan = x.plan \/ (c.op = "data" /\ y.plan = c.task)
         /\ c.op = "data" => y.rec = x.rec
<1> DEFINE a == Applied(x, c)
<1>1. /\ a \in Runtime /\ a.plan = x.plan
      /\ a.rec \in {0, x.rec} \/ (c.op = "start" /\ a.rec = c.rec)
      /\ c.op = "data" => a = x
  BY AppliedIs
<1>2. 0 \in 0..MaxRecordings /\ c.task \in Tasks \cup {None}
  BY ObserverAssumption DEF Command
<1>3. \/ y = a
      \/ c.op = "start" /\ y = [a EXCEPT !.rec = 0, !.refused = TRUE]
      \/ c.op = "data" /\ y = [a EXCEPT !.plan = c.task]
  BY DEF Outcomes
<1> HIDE DEF a
<1>4. CASE y = a BY <1>1, <1>4
<1>5. CASE c.op = "start" /\ y = [a EXCEPT !.rec = 0, !.refused = TRUE]
  BY <1>1, <1>2, <1>5 DEF Runtime
<1>6. CASE c.op = "data" /\ y = [a EXCEPT !.plan = c.task]
  BY <1>1, <1>2, <1>6 DEF Runtime
<1>q. QED BY <1>3, <1>4, <1>5, <1>6

LEMMA ReachesNext ==
  ASSUME NEW goal, NEW x, Reaches(x, goal), NEW c \in Command, NEW y \in Outcomes(x, c)
  PROVE  Reaches(y, Aim(goal, c))
<1> DEFINE a == Applied(x, c)
           g == Aim(goal, c)
<1>1. x \in Runtime /\ x.task = goal.task /\ (x.rec = IF x.refused THEN 0 ELSE goal.rec)
  BY DEF Reaches
<1>2. /\ a \in Runtime /\ a.task = g.task /\ (a.rec = IF a.refused THEN 0 ELSE g.rec)
      /\ c.op = "data" => g = goal
      /\ c.op = "start" => g.task = c.task
  <2>1. CASE c.op = "start" BY <1>1, <2>1, AppliedIs DEF Aim
  <2>2. CASE c.op = "finish" /\ c.task = x.task BY <1>1, <2>2, AppliedIs DEF Aim
  <2>3. CASE c.op = "stop" BY <1>1, <2>3, AppliedIs DEF Aim
  <2>4. CASE c.op \notin {"start", "stop"} /\ ~(c.op = "finish" /\ c.task = x.task)
    <3>1. a = x BY <1>1, <2>4, AppliedIs
    <3>2. g = goal BY <1>1, <2>4 DEF Aim
    <3> HIDE DEF a, g
    <3>q. QED BY <1>1, <2>4, <3>1, <3>2
  <2>q. QED BY <2>1, <2>2, <2>3, <2>4
<1>3. \/ y = a
      \/ c.op = "start" /\ y = [a EXCEPT !.rec = 0, !.refused = TRUE]
      \/ c.op = "data" /\ y = [a EXCEPT !.plan = c.task]
  BY DEF Outcomes
<1>4. 0 \in 0..MaxRecordings /\ c.task \in Tasks \cup {None}
  BY ObserverAssumption DEF Command
<1> HIDE DEF a, g
<1>5. CASE y = a BY <1>2, <1>5 DEF Reaches, g
<1>6. CASE c.op = "start" /\ y = [a EXCEPT !.rec = 0, !.refused = TRUE]
  BY <1>2, <1>4, <1>6 DEF Reaches, Runtime, g
<1>7. CASE c.op = "data" /\ y = [a EXCEPT !.plan = c.task]
  BY <1>2, <1>4, <1>7 DEF Reaches, Runtime, g
<1>q. QED BY <1>3, <1>5, <1>6, <1>7

(* f is what the worker may hold after each command of the queue. *)
Runs(f, rt, q) == f[0] = rt /\ \A i \in 1..Len(q) : f[i] \in Outcomes(f[i - 1], q[i])

(* From any place in the queue and whatever the worker holds there, there  *)
(* is a way on on which no start fails.                                    *)
Onward(f, q, k) == \A i \in (k + 1)..Len(q) : f[i] = Applied(f[i - 1], q[i])

Walks(q) == \A k \in 0..Len(q), x \in Runtime : \E f : f[k] = x /\ Onward(f, q, k)

(* The data among the commands meet a directory of their own task. *)
Belongs(f, q, recs) ==
    \A i \in 1..Len(q) :
        q[i].op = "data" /\ f[i - 1].rec # 0 =>
            /\ f[i - 1].rec \in 1..Len(recs)
            /\ q[i].task \in {recs[f[i - 1].rec].task, None}

(* Recording n, in which nothing is yet, begins after rec and after those  *)
(* that the queue begins.                                                  *)
Behind(q, recs, rec, n) ==
    /\ rec < n /\ n <= Len(recs) /\ recs[n].others = {}
    /\ \A i \in 1..Len(q) : q[i].op = "start" => q[i].rec < n

(* The recordings that the queue begins: later than rec, one later than    *)
(* the other, with nothing in them yet.                                    *)
Waiting(q, recs, rec) ==
    /\ rec <= Len(recs)
    /\ \A i \in 1..Len(q) : q[i].op = "start" =>
          rec < q[i].rec /\ q[i].rec <= Len(recs) /\ recs[q[i].rec].others = {}
    /\ \A i, j \in 1..Len(q) :
          i < j /\ q[i].op = "start" /\ q[j].op = "start" => q[i].rec < q[j].rec

(* The queue leads the worker from rt to goal. *)
Leads(q, recs, rt, goal) ==
    /\ Walks(q)
    /\ Waiting(q, recs, rt.rec)
    /\ \A f : Runs(f, rt, q) => Reaches(f[Len(q)], goal) /\ Belongs(f, q, recs)

LEMMA LeadsAlone ==
  ASSUME NEW recs, NEW goal, NEW rt, Reaches(rt, goal), rt.rec <= Len(recs)
  PROVE  Leads(<<>>, recs, rt, goal)
<1>1. Len(<<>>) = 0 OBVIOUS
<1>2. ASSUME NEW k \in 0..0, NEW x PROVE \E f : f[k] = x /\ Onward(f, <<>>, k)
  <2>1. [i \in {0} |-> x][k] = x BY <1>2
  <2>2. Onward([i \in {0} |-> x], <<>>, k) BY <1>1, <1>2 DEF Onward
  <2>q. QED BY <2>1, <2>2
<1>3. Walks(<<>>) BY <1>1, <1>2 DEF Walks
<1>4. ASSUME NEW f, Runs(f, rt, <<>>)
      PROVE  Reaches(f[Len(<<>>)], goal) /\ Belongs(f, <<>>, recs)
  BY <1>1, <1>4 DEF Runs, Belongs
<1>5. Waiting(<<>>, recs, rt.rec) BY <1>1 DEF Waiting
<1>q. QED BY <1>3, <1>4, <1>5 DEF Leads

LEMMA WalksAppend ==
  ASSUME NEW q \in Seq(Command), NEW c \in Command, Walks(q)
  PROVE  Walks(Append(q, c))
<1> DEFINE n == Len(q)
           w == Append(q, c)
<1>1. /\ n \in Nat /\ Len(w) = n + 1 /\ w[n + 1] = c
      /\ \A i \in 1..n : w[i] = q[i]
  BY AppendProperties, LenProperties
<1>n. n = Len(q) OBVIOUS
<1> HIDE DEF n, w
<1>2. SUFFICES ASSUME NEW k \in 0..(n + 1), NEW x \in Runtime
               PROVE  \E f : f[k] = x /\ Onward(f, w, k)
  BY <1>1 DEF Walks, w
<1>3. CASE k = n + 1
  <2>1. [i \in {k} |-> x][k] = x OBVIOUS
  <2>2. Onward([i \in {k} |-> x], w, k) BY <1>1, <1>3 DEF Onward
  <2>q. QED BY <2>1, <2>2
<1>4. CASE k # n + 1
  <2>0. k \in 0..n BY <1>1, <1>4
  <2>1. PICK f : f[k] = x /\ Onward(f, q, k) BY <1>n, <2>0 DEF Walks
  <2> DEFINE g == [i \in 0..(n + 1) |-> IF i <= n THEN f[i] ELSE Applied(f[n], c)]
  <2>2. g[k] = x BY <1>1, <2>0, <2>1
  <2>3. ASSUME NEW i \in (k + 1)..(n + 1) PROVE g[i] = Applied(g[i - 1], w[i])
    <3>1. CASE i <= n
      <4>1. i \in (k + 1)..n /\ i \in 1..n /\ i \in 0..(n + 1) /\ i - 1 \in 0..(n + 1) /\ i - 1 <= n
        BY <1>1, <2>0, <3>1
      <4>2. g[i] = f[i] /\ g[i - 1] = f[i - 1] /\ w[i] = q[i] BY <1>1, <3>1, <4>1
      <4>3. f[i] = Applied(f[i - 1], q[i]) BY <1>n, <2>1, <4>1 DEF Onward
      <4>q. QED BY <4>2, <4>3
    <3>2. CASE ~(i <= n)
      <4>1. i = n + 1 /\ i - 1 = n BY <1>1, <2>0, <3>2
      <4>2. g[n + 1] = Applied(f[n], c) /\ g[n] = f[n] /\ w[i] = c BY <1>1, <4>1
      <4>q. QED BY <4>1, <4>2
    <3>q. QED BY <3>1, <3>2
  <2> HIDE DEF g
  <2>4. Onward(g, w, k) BY <1>1, <2>3 DEF Onward
  <2>q. QED BY <2>2, <2>4
<1>q. QED BY <1>3, <1>4

LEMMA WaitingAppend ==
  ASSUME NEW q \in Seq(Command), NEW c \in Command, NEW recs, NEW rec,
         Waiting(q, recs, rec), c.op = "start" => Behind(q, recs, rec, c.rec)
  PROVE  Waiting(Append(q, c), recs, rec)
<1> DEFINE n == Len(q)
           w == Append(q, c)
<1>1. /\ n \in Nat /\ Len(w) = n + 1 /\ w[n + 1] = c
      /\ \A i \in 1..n : w[i] = q[i]
  BY AppendProperties, LenProperties
<1>n. n = Len(q) OBVIOUS
<1> HIDE DEF n, w
<1>2. ASSUME NEW i \in 1..Len(w), w[i].op = "start"
      PROVE  rec < w[i].rec /\ w[i].rec <= Len(recs) /\ recs[w[i].rec].others = {}
  <2>1. CASE i \in 1..n
    <3>1. w[i] = q[i] BY <1>1, <2>1
    <3>q. QED BY <1>n, <1>2, <2>1, <3>1 DEF Waiting
  <2>2. CASE i \notin 1..n
    <3>1. w[i] = c BY <1>1, <2>2
    <3>q. QED BY <1>2, <3>1 DEF Behind
  <2>q. QED BY <2>1, <2>2
<1>3. ASSUME NEW i \in 1..Len(w), NEW j \in 1..Len(w), i < j,
             w[i].op = "start", w[j].op = "start"
      PROVE  w[i].rec < w[j].rec
  <2>0. i \in 1..n /\ w[i] = q[i] BY <1>1, <1>3
  <2>1. CASE j \in 1..n
    <3>1. w[j] = q[j] BY <1>1, <2>1
    <3>q. QED BY <1>n, <1>3, <2>0, <2>1, <3>1 DEF Waiting
  <2>2. CASE j \notin 1..n
    <3>1. w[j] = c BY <1>1, <2>2
    <3>q. QED BY <1>n, <1>3, <2>0, <3>1 DEF Behind
  <2>q. QED BY <2>1, <2>2
<1>q. QED BY <1>2, <1>3 DEF Waiting, w

LEMMA LeadsAppend ==
  ASSUME NEW q \in Seq(Command), NEW c \in Command, NEW recs, NEW rt, NEW goal,
         Leads(q, recs, rt, goal),
         c.op = "data" /\ goal.rec # 0 =>
            goal.rec \in 1..Len(recs) /\ c.task \in {recs[goal.rec].task, None},
         c.op = "start" => Behind(q, recs, rt.rec, c.rec)
  PROVE  Leads(Append(q, c), recs, rt, Aim(goal, c))
<1> DEFINE n == Len(q)
           w == Append(q, c)
<1>1. /\ n \in Nat /\ Len(w) = n + 1 /\ w[n + 1] = c
      /\ \A i \in 1..n : w[i] = q[i]
  BY AppendProperties, LenProperties
<1>2. Walks(w) /\ Waiting(w, recs, rt.rec) BY WalksAppend, WaitingAppend DEF Leads
<1> HIDE DEF n, w
<1>3. ASSUME NEW f, Runs(f, rt, w)
      PROVE  Reaches(f[Len(w)], Aim(goal, c)) /\ Belongs(f, w, recs)
  <2>1. /\ f[0] = rt
        /\ \A i \in 1..(n + 1) : f[i] \in Outcomes(f[i - 1], w[i])
    BY <1>1, <1>3 DEF Runs
  <2>2. ASSUME NEW i \in 1..n PROVE f[i] \in Outcomes(f[i - 1], q[i])
    <3>1. i \in 1..(n + 1) BY <1>1
    <3>q. QED BY <1>1, <2>1, <3>1
  <2>3. Runs(f, rt, q) BY <2>1, <2>2 DEF Runs, n
  <2>4. Reaches(f[n], goal) /\ Belongs(f, q, recs) BY <2>3 DEF Leads, n
  <2>5. Reaches(f[n + 1], Aim(goal, c))
    <3>1. n + 1 \in 1..(n + 1) /\ (n + 1) - 1 = n BY <1>1
    <3>2. f[n + 1] \in Outcomes(f[n], c) BY <1>1, <2>1, <3>1
    <3>q. QED BY <2>4, <3>2, ReachesNext
  <2>6. ASSUME NEW i \in 1..Len(w), w[i].op = "data" /\ f[i - 1].rec # 0
        PROVE  f[i - 1].rec \in 1..Len(recs) /\ w[i].task \in {recs[f[i - 1].rec].task, None}
    <3>1. CASE i <= n
      <4>1. i \in 1..n /\ w[i] = q[i] BY <1>1, <3>1
      <4>q. QED BY <2>4, <2>6, <4>1 DEF Belongs, n
    <3>2. CASE ~(i <= n)
      <4>1. i = n + 1 /\ i - 1 = n BY <1>1, <3>2
      <4>2. f[n].rec = goal.rec BY <2>4, <2>6, <4>1 DEF Reaches
      <4>q. QED BY <1>1, <2>6, <4>1, <4>2
    <3>q. QED BY <3>1, <3>2
  <2>q. QED BY <1>1, <2>5, <2>6 DEF Belongs
<1>q. QED BY <1>2, <1>3 DEF Leads, w

LEMMA WalksTail ==
  ASSUME NEW q \in Seq(Command), q # <<>>, Walks(q) PROVE Walks(Tail(q))
<1> DEFINE n == Len(q)
           w == Tail(q)
<1>1. /\ n \in Nat \ {0} /\ Len(w) = n - 1
      /\ \A i \in 1..(n - 1) : w[i] = q[i + 1]
  BY HeadTailProperties, LenProperties, EmptySeq
<1>n. n = Len(q) OBVIOUS
<1> HIDE DEF n, w
<1>2. SUFFICES ASSUME NEW k \in 0..(n - 1), NEW x \in Runtime
               PROVE  \E f : f[k] = x /\ Onward(f, w, k)
  BY <1>1 DEF Walks, w
<1>3. k + 1 \in 0..n BY <1>1
<1>4. PICK f : f[k + 1] = x /\ Onward(f, q, k + 1) BY <1>n, <1>3 DEF Walks
<1> DEFINE g == [i \in 0..(n - 1) |-> f[i + 1]]
<1>5. g[k] = x BY <1>4
<1>6. ASSUME NEW i \in (k + 1)..(n - 1) PROVE g[i] = Applied(g[i - 1], w[i])
  <2>1. /\ i + 1 \in ((k + 1) + 1)..n /\ i \in 1..(n - 1) /\ i \in 0..(n - 1)
        /\ i - 1 \in 0..(n - 1) /\ (i + 1) - 1 = i /\ (i - 1) + 1 = i
    BY <1>1
  <2>2. g[i] = f[i + 1] /\ g[i - 1] = f[i] /\ w[i] = q[i + 1] BY <1>1, <2>1
  <2>3. f[i + 1] = Applied(f[i], q[i + 1]) BY <1>n, <1>4, <2>1 DEF Onward
  <2>q. QED BY <2>2, <2>3
<1> HIDE DEF g
<1>7. Onward(g, w, k) BY <1>1, <1>6 DEF Onward
<1>q. QED BY <1>5, <1>7

LEMMA WaitingTail ==
  ASSUME NEW q \in Seq(Command), q # <<>>, NEW recs, Len(recs) \in Nat, NEW rt \in Runtime,
         Waiting(q, recs, rt.rec), NEW r \in Outcomes(rt, Head(q))
  PROVE  Waiting(Tail(q), recs, r.rec)
<1> DEFINE n == Len(q)
           w == Tail(q)
<1>1. /\ n \in Nat \ {0} /\ Len(w) = n - 1 /\ Head(q) = q[1] /\ Head(q) \in Command
      /\ \A i \in 1..(n - 1) : w[i] = q[i + 1]
  BY HeadTailProperties, LenProperties, EmptySeq
<1>n. n = Len(q) OBVIOUS
<1>2. r.rec \in {0, rt.rec} \/ (q[1].op = "start" /\ r.rec = q[1].rec)
  BY <1>1, OutcomeIs
<1>3. 1 \in 1..n /\ \A i \in 1..(n - 1) : i + 1 \in 1..n /\ 1 < i + 1 BY <1>1
<1>4. \A i \in 1..n : q[i] \in Command BY <1>n, ElementOfSeq
<1>5. \A i \in 1..n : q[i].rec \in Nat BY <1>4 DEF Command
<1>6. rt.rec \in Nat BY DEF Runtime
<1> HIDE DEF n, w
<1>7. r.rec <= Len(recs) BY <1>2, <1>3, <1>n DEF Waiting
<1>8. ASSUME NEW i \in 1..Len(w), w[i].op = "start"
      PROVE  r.rec < w[i].rec /\ w[i].rec <= Len(recs) /\ recs[w[i].rec].others = {}
  <2>0. i \in 1..(n - 1) BY <1>1
  <2>1. i \in 1..(n - 1) /\ w[i] = q[i + 1] /\ i + 1 \in 1..n BY <1>1, <1>3, <2>0
  <2>2. /\ rt.rec < w[i].rec /\ w[i].rec <= Len(recs) /\ recs[w[i].rec].others = {}
        /\ q[1].op = "start" => q[1].rec < w[i].rec
    BY <1>3, <1>8, <1>n, <2>1 DEF Waiting
  <2>q. QED BY <1>2, <1>5, <1>6, <2>1, <2>2
<1>9. ASSUME NEW i \in 1..Len(w), NEW j \in 1..Len(w), i < j,
             w[i].op = "start", w[j].op = "start"
      PROVE  w[i].rec < w[j].rec
  <2>1. i \in 1..(n - 1) /\ j \in 1..(n - 1) BY <1>1
  <2>2. i + 1 \in 1..n /\ j + 1 \in 1..n BY <1>3, <2>1
  <2>3. i + 1 < j + 1 BY <1>9, <2>1
  <2>4. w[i] = q[i + 1] /\ w[j] = q[j + 1] BY <1>1, <2>1
  <2>q. QED BY <1>9, <1>n, <2>2, <2>3, <2>4 DEF Waiting
<1>q. QED BY <1>7, <1>8, <1>9 DEF Waiting, w

(* Without its first command the queue leads on from what that one does. *)
LEMMA LeadsTail ==
  ASSUME NEW q \in Seq(Command), q # <<>>, NEW recs, Len(recs) \in Nat,
         NEW rt \in Runtime, NEW goal, Leads(q, recs, rt, goal), NEW r \in Outcomes(rt, Head(q))
  PROVE  Leads(Tail(q), recs, r, goal)
<1> DEFINE n == Len(q)
           w == Tail(q)
<1>1. /\ n \in Nat \ {0} /\ Len(w) = n - 1 /\ Head(q) = q[1]
      /\ \A i \in 1..(n - 1) : w[i] = q[i + 1]
  BY HeadTailProperties, LenProperties, EmptySeq
<1>2. r \in Outcomes(rt, q[1]) BY <1>1
<1>3. Walks(w) /\ Waiting(w, recs, r.rec) BY WalksTail, WaitingTail DEF Leads
<1> HIDE DEF n, w
<1>4. ASSUME NEW f, Runs(f, r, w)
      PROVE  Reaches(f[Len(w)], goal) /\ Belongs(f, w, recs)
  <2> DEFINE g == [i \in 0..n |-> IF i = 0 THEN rt ELSE f[i - 1]]
  <2>1. f[0] = r /\ \A i \in 1..(n - 1) : f[i] \in Outcomes(f[i - 1], w[i])
    BY <1>1, <1>4 DEF Runs
  <2>2. g[0] = rt BY <1>1
  <2>3. \A i \in 1..n : g[i] = f[i - 1] BY <1>1
  <2>4. ASSUME NEW i \in 1..n PROVE g[i] \in Outcomes(g[i - 1], q[i])
    <3>1. CASE i = 1
      <4>1. g[i] = r /\ g[i - 1] = rt BY <2>1, <2>2, <2>3, <3>1
      <4> HIDE DEF g
      <4>q. QED BY <1>2, <3>1, <4>1
    <3>2. CASE i # 1
      <4>1. i - 1 \in 1..(n - 1) /\ i - 1 \in 1..n /\ (i - 1) + 1 = i BY <1>1, <3>2
      <4>2. f[i - 1] \in Outcomes(f[(i - 1) - 1], w[i - 1]) BY <2>1, <4>1
      <4>3. w[i - 1] = q[i] /\ g[i - 1] = f[(i - 1) - 1] BY <1>1, <2>3, <4>1
      <4>4. g[i] = f[i - 1] BY <2>3
      <4> HIDE DEF g
      <4>q. QED BY <4>2, <4>3, <4>4
    <3>q. QED BY <3>1, <3>2
  <2> HIDE DEF g
  <2>5. Runs(g, rt, q) BY <2>2, <2>4 DEF Runs, n
  <2>6. Reaches(g[n], goal) /\ Belongs(g, q, recs) BY <2>5 DEF Leads, n
  <2>7. Reaches(f[Len(w)], goal)
    <3>1. n \in 1..n BY <1>1
    <3>q. QED BY <1>1, <2>3, <2>6, <3>1
  <2>8. ASSUME NEW i \in 1..Len(w), w[i].op = "data" /\ f[i - 1].rec # 0
        PROVE  f[i - 1].rec \in 1..Len(recs) /\ w[i].task \in {recs[f[i - 1].rec].task, None}
    <3>1. i \in 1..(n - 1) /\ i + 1 \in 1..n /\ i \in 1..n /\ (i + 1) - 1 = i BY <1>1
    <3>2. w[i] = q[i + 1] /\ g[(i + 1) - 1] = f[i - 1] BY <1>1, <2>3, <3>1
    <3>q. QED BY <2>6, <2>8, <3>1, <3>2 DEF Belongs, n
  <2>q. QED BY <2>7, <2>8 DEF Belongs
<1>q. QED BY <1>3, <1>4 DEF Leads, w

(* The directories may grow and get their endings, and more may be logged  *)
(* into the recording of the moment.                                       *)
LEMMA LeadsLater ==
  ASSUME NEW q \in Seq(Command), NEW recs, NEW recs2, NEW rt, NEW goal,
         Leads(q, recs, rt, goal),
         Len(recs) \in Nat, Len(recs2) \in Nat, Len(recs) <= Len(recs2), rt.rec \in Nat,
         \A i \in 1..Len(recs) :
             recs2[i].task = recs[i].task /\ (i > rt.rec => recs2[i].others = recs[i].others)
  PROVE  Leads(q, recs2, rt, goal)
<1>1. ASSUME NEW f, Belongs(f, q, recs) PROVE Belongs(f, q, recs2)
  <2> SUFFICES ASSUME NEW i \in 1..Len(q), q[i].op = "data", f[i - 1].rec # 0
               PROVE  /\ f[i - 1].rec \in 1..Len(recs2)
                      /\ q[i].task \in {recs2[f[i - 1].rec].task, None}
    BY DEF Belongs
  <2>1. /\ f[i - 1].rec \in 1..Len(recs)
        /\ q[i].task \in {recs[f[i - 1].rec].task, None}
    BY <1>1 DEF Belongs
  <2>2. recs2[f[i - 1].rec].task = recs[f[i - 1].rec].task BY <2>1
  <2>q. QED BY <2>1, <2>2
<1>2. \A i \in 1..Len(q) : q[i] \in Command BY ElementOfSeq
<1>3. \A i \in 1..Len(q) : q[i].rec \in Nat BY <1>2 DEF Command
<1>4. Waiting(q, recs, rt.rec) BY DEF Leads
<1>5. ASSUME NEW i \in 1..Len(q), q[i].op = "start"
      PROVE  rt.rec < q[i].rec /\ q[i].rec <= Len(recs2) /\ recs2[q[i].rec].others = {}
  <2>1. rt.rec < q[i].rec /\ q[i].rec <= Len(recs) /\ recs[q[i].rec].others = {}
    BY <1>4, <1>5 DEF Waiting
  <2>2. q[i].rec \in Nat /\ q[i].rec \in 1..Len(recs) BY <1>3, <2>1
  <2>3. recs2[q[i].rec].others = recs[q[i].rec].others BY <2>1, <2>2
  <2>4. q[i].rec <= Len(recs2) BY <2>1, <2>2
  <2>q. QED BY <2>1, <2>3, <2>4
<1>6. Waiting(q, recs2, rt.rec) BY <1>4, <1>5 DEF Waiting
<1>q. QED BY <1>1, <1>6 DEF Leads

NoStops(q) == \A i \in 1..Len(q) : q[i].op # "stop"

(* Where the queue should lead the worker: to the active task. *)
Target(o) == [task |-> o.active, rec |-> DirOf(o)]

(* It does, unless a decision was given up. *)
Guided(o, rt, goal) == o.lost \/ Leads(o.queue, o.recs, rt, goal)

(* A command that may be dropped does nothing to the worker. *)
LEMMA RoomLeads ==
  ASSUME NEW o \in Observer, NEW rt \in Runtime, NEW goal, Guided(o, rt, goal), NoStops(o.queue),
         Len(o.queue) <= QueueSize, ~o.lost, ~Drops(o.queue)
  PROVE  Leads(Room(o.queue), o.recs, rt, goal)
<1>1. o.queue \in Seq(Command) /\ Leads(o.queue, o.recs, rt, goal) BY DEF Guided, Observer
<1>2. CASE Len(o.queue) < QueueSize BY <1>1, <1>2 DEF Room
<1>3. CASE ~(Len(o.queue) < QueueSize)
  <2>1. Len(o.queue) = QueueSize /\ o.queue # <<>> /\ Len(o.queue) \in Nat \ {0}
    BY <1>1, <1>3, ObserverAssumption, LenProperties, EmptySeq
  <2>2. Head(o.queue) = o.queue[1] /\ Head(o.queue) \in Command
    BY <1>1, <2>1, HeadTailProperties
  <2>3. Head(o.queue).op \in {"data", "note"}
    BY <2>1, <2>2 DEF Drops, NoStops, Command
  <2>4. rt \in Outcomes(rt, Head(o.queue)) BY <2>2, <2>3, AppliedIs DEF Outcomes
  <2>l. Len(o.recs) \in Nat BY LenProperties DEF Observer
  <2>5. Leads(Tail(o.queue), o.recs, rt, goal) BY <1>1, <2>1, <2>4, <2>l, LeadsTail
  <2>q. QED BY <1>3, <2>5 DEF Room
<1>q. QED BY <1>2, <1>3

(* Nor does a recording begin later for it. *)
LEMMA RoomBehind ==
  ASSUME NEW q \in Seq(Command), NEW recs, NEW rec, NEW n, Behind(q, recs, rec, n)
  PROVE  Behind(Room(q), recs, rec, n)
<1>1. CASE Len(q) < QueueSize BY <1>1 DEF Room
<1>2. CASE ~(Len(q) < QueueSize)
  <2>1. q # <<>> /\ Len(q) \in Nat BY <1>2, ObserverAssumption, LenProperties, EmptySeq
  <2>2. Len(Tail(q)) = Len(q) - 1 /\ \A i \in 1..(Len(q) - 1) : Tail(q)[i] = q[i + 1]
    BY <2>1, HeadTailProperties
  <2>3. \A i \in 1..(Len(q) - 1) : i + 1 \in 1..Len(q) BY <2>1
  <2>4. Behind(Tail(q), recs, rec, n) BY <2>2, <2>3 DEF Behind
  <2>q. QED BY <1>2, <2>4 DEF Room
<1>q. QED BY <1>1, <1>2

LEMMA EnqueueLeads ==
  ASSUME NEW o \in Observer, Len(o.queue) <= QueueSize, NEW op \in Ops,
         NEW t \in Tasks \cup {None}, NEW rec \in 0..MaxRecordings,
         NEW rt \in Runtime, NEW goal, Guided(o, rt, goal), NoStops(o.queue),
         op = "data" /\ goal.rec # 0 =>
            goal.rec \in 1..Len(o.recs) /\ t \in {o.recs[goal.rec].task, None},
         op = "start" => o.lost \/ Behind(o.queue, o.recs, rt.rec, rec)
  PROVE  Guided(Enqueue(o, op, t, rec), rt, Aim(goal, Tell(op, t, rec)))
<1> DEFINE e == Enqueue(o, op, t, rec)
           c == Tell(op, t, rec)
<1>1. /\ e.recs = o.recs /\ e.queue = Append(Room(o.queue), c)
      /\ e.lost <=> (o.lost \/ Drops(o.queue))
  BY EnqueueIs
<1> HIDE DEF e
<1>2. CASE e.lost BY <1>2 DEF Guided, e
<1>3. CASE ~e.lost
  <2>1. Leads(Room(o.queue), o.recs, rt, goal) BY <1>1, <1>3, RoomLeads
  <2>2. o.queue \in Seq(Command) /\ Room(o.queue) \in Seq(Command) BY RoomIs DEF Observer
  <2>3. c \in Command /\ c.op = op /\ c.task = t /\ c.rec = rec BY CommandIs DEF Tell
  <2>4. op = "start" => Behind(Room(o.queue), o.recs, rt.rec, rec)
    BY <1>1, <1>3, <2>2, RoomBehind
  <2> HIDE DEF c
  <2>5. Leads(Append(Room(o.queue), c), o.recs, rt, Aim(goal, c))
    BY <2>1, <2>2, <2>3, <2>4, LeadsAppend
  <2>q. QED BY <1>1, <2>5 DEF Guided, e, c
<1>q. QED BY <1>2, <1>3

LEMMA EnqueueNoStops ==
  ASSUME NEW o \in Observer, Len(o.queue) <= QueueSize, NEW op \in Ops \ {"stop"},
         NEW t \in Tasks \cup {None}, NEW rec \in 0..MaxRecordings, NoStops(o.queue)
  PROVE  NoStops(Enqueue(o, op, t, rec).queue)
<1> DEFINE e == Enqueue(o, op, t, rec)
           c == Tell(op, t, rec)
           r == Room(o.queue)
<1>1. e.queue = Append(r, c) BY EnqueueIs
<1>2. c \in Command /\ c.op # "stop" BY CommandIs DEF Tell
<1>3. o.queue \in Seq(Command) /\ r \in Seq(Command) BY RoomIs DEF Observer
<1>4. NoStops(r)
  <2>1. CASE Len(o.queue) < QueueSize BY <2>1 DEF Room
  <2>2. CASE ~(Len(o.queue) < QueueSize)
    <3>1. o.queue # <<>> /\ Len(o.queue) \in Nat
      BY <1>3, <2>2, ObserverAssumption, LenProperties, EmptySeq
    <3>2. r = Tail(o.queue) BY <2>2 DEF Room
    <3> HIDE DEF r
    <3>3. Len(r) = Len(o.queue) - 1 /\ \A i \in 1..Len(r) : r[i] = o.queue[i + 1]
      BY <1>3, <3>1, <3>2, HeadTailProperties
    <3>q. QED BY <3>1, <3>3 DEF NoStops
  <2>q. QED BY <2>1, <2>2
<1> HIDE DEF r, c, e
<1>5. /\ Len(Append(r, c)) = Len(r) + 1 /\ Len(r) \in Nat /\ Append(r, c)[Len(r) + 1] = c
      /\ \A i \in 1..Len(r) : Append(r, c)[i] = r[i]
  BY <1>2, <1>3, AppendProperties, LenProperties
<1>q. QED BY <1>1, <1>2, <1>4, <1>5 DEF NoStops, e

LEMMA FinishLeads ==
  ASSUME NEW o, Good(o), o.active # None, NEW status \in Endings, NEW rt \in Runtime,
         Guided(o, rt, Target(o)), NoStops(o.queue)
  PROVE  LET e == FinishTask(o, o.active, status) IN
         Guided(e, rt, Target(e)) /\ NoStops(e.queue)
<1> DEFINE e == FinishTask(o, o.active, status)
           s == FinishSink(o, o.active)
<1>0. /\ o \in Observer /\ Len(o.queue) <= QueueSize /\ o.active \in Tasks \cup {None}
      /\ "finish" \in Ops \ {"stop"} /\ 0 \in 0..MaxRecordings
      /\ "finish" \notin {"data", "start"}
  BY ObserverAssumption DEF Good, Observer, Ops
<1>1. s = Enqueue(o, "finish", o.active, 0) BY DEF FinishSink
<1>2. /\ Good(e) /\ e.active = None
      /\ Len(e.recs) = Len(o.recs)
      /\ \A i \in 1..Len(o.recs) :
               e.recs[i] = IF i = DirOf(o) THEN [o.recs[i] EXCEPT !.meta = status]
                           ELSE o.recs[i]
      /\ e.queue = Append(Room(o.queue), Tell("finish", o.active, 0))
      /\ e.lost <=> (o.lost \/ Drops(o.queue))
  BY FinishTaskIs
<1>3. /\ s.recs = o.recs /\ s.queue = e.queue /\ (s.lost <=> e.lost)
  BY <1>0, <1>1, <1>2, EnqueueIs
<1>4. Guided(s, rt, Aim(Target(o), Tell("finish", o.active, 0))) /\ NoStops(s.queue)
  BY <1>0, <1>1, EnqueueLeads, EnqueueNoStops
<1>5. Aim(Target(o), Tell("finish", o.active, 0)) = Target(e)
  BY <1>2 DEF Aim, Target, Tell, DirOf
<1>6. CASE s.lost
  <2>1. e.lost BY <1>3, <1>6
  <2>q. QED BY <1>3, <1>4, <2>1 DEF Guided
<1>7. CASE ~s.lost
  <2>1. \A i \in 1..Len(o.recs) : o.recs[i] \in Recording
    BY ElementOfSeq DEF Good, Observer
  <2>2. Len(o.recs) \in Nat BY LenProperties DEF Good, Observer
  <2>3. \A i \in 1..Len(o.recs) :
            e.recs[i].task = o.recs[i].task /\ e.recs[i].others = o.recs[i].others
    BY <1>2, <2>1 DEF Recording
  <2>4. Leads(s.queue, o.recs, rt, Target(e)) BY <1>3, <1>4, <1>5, <1>7 DEF Guided
  <2> HIDE DEF e, s
  <2>q1. e.queue \in Seq(Command) /\ Len(e.recs) \in Nat /\ Len(o.recs) <= Len(e.recs)
    <3>1. e \in Observer /\ Len(e.recs) = Len(o.recs) BY <1>2 DEF Good
    <3>q. QED BY <2>2, <3>1 DEF Observer
  <2>r. rt.rec \in Nat BY DEF Runtime
  <2>5. Leads(e.queue, e.recs, rt, Target(e))
    BY <1>3, <2>2, <2>3, <2>4, <2>q1, <2>r, LeadsLater
  <2>q. QED BY <1>3, <1>4, <2>5 DEF Guided, e
<1>q. QED BY <1>6, <1>7

LEMMA SupersededLeads ==
  ASSUME NEW o, Good(o), NEW rt \in Runtime, Guided(o, rt, Target(o)), NoStops(o.queue)
  PROVE  LET s == Superseded(o) IN Guided(s, rt, Target(s)) /\ NoStops(s.queue)
<1>1. CASE o.active = None BY <1>1 DEF Superseded
<1>2. CASE o.active # None BY <1>2, FinishLeads DEF Superseded, Endings
<1>q. QED BY <1>1, <1>2

LEMMA EnsureTaskLeads ==
  ASSUME NEW o, Good(o), NEW t \in Tasks, Starts(o, t), Len(o.recs) < MaxRecordings,
         NEW rt \in Runtime, Guided(o, rt, Target(o)), NoStops(o.queue)
  PROVE  LET e == EnsureTask(o, t) IN Guided(e, rt, Target(e)) /\ NoStops(e.queue)
<1> DEFINE s == Superseded(o)
           b == Opened(s, t)
           n == Len(o.recs) + 1
           e == EnsureTask(o, t)
<1>1. /\ Good(s) /\ s.active = None /\ Len(s.recs) = Len(o.recs)
      /\ Good(b) /\ b.queue = s.queue
      /\ n \in 1..MaxRecordings
      /\ e = Enqueue(b, "start", t, n)
      /\ e.active = t /\ DirOf(e) = n
  BY EnsureTaskIs
<1>2. Guided(s, rt, Target(s)) /\ NoStops(s.queue) BY SupersededLeads
<1>3. /\ b.lost = s.lost /\ Len(b.recs) = Len(s.recs) + 1
      /\ b.recs[Len(s.recs) + 1] = NewRecording(t)
      /\ \A i \in 1..Len(s.recs) : b.recs[i] = s.recs[i]
  <2> HIDE DEF s
  <2>q. QED BY <1>1, OpenedIs
<1>4. Len(s.recs) \in Nat /\ Len(b.recs) \in Nat /\ Len(s.recs) <= Len(b.recs)
  <2> HIDE DEF s, b
  <2>q. QED BY <1>1, <1>3, DirOfIs
<1>n. n = Len(s.recs) + 1 BY <1>1
<1>f. b.recs[n].others = {}
  <2> HIDE DEF s, b, n
  <2>q. QED BY <1>3, <1>n DEF NewRecording
<1>r. rt.rec \in Nat /\ s.queue \in Seq(Command) BY <1>1 DEF Runtime, Good, Observer
<1> HIDE DEF s, b, n, e
<1>5. /\ Guided(b, rt, Target(s)) /\ NoStops(b.queue)
      /\ b.lost \/ Behind(b.queue, b.recs, rt.rec, n)
  <2>1. CASE s.lost BY <1>1, <1>2, <1>3, <2>1 DEF Guided
  <2>2. CASE ~s.lost
    <3>1. Leads(s.queue, s.recs, rt, Target(s)) BY <1>2, <2>2 DEF Guided
    <3>2. Leads(s.queue, b.recs, rt, Target(s)) BY <1>3, <1>4, <1>r, <3>1, LeadsLater
    <3>3. \A i \in 1..Len(s.queue) : s.queue[i] \in Command BY <1>r, ElementOfSeq
    <3>4. \A i \in 1..Len(s.queue) : s.queue[i].rec \in Nat BY <3>3 DEF Command
    <3>5. Behind(s.queue, b.recs, rt.rec, n)
      BY <1>3, <1>4, <1>f, <1>n, <1>r, <3>1, <3>4 DEF Leads, Waiting, Behind
    <3>q. QED BY <1>1, <1>2, <3>2, <3>5 DEF Guided
  <2>q. QED BY <2>1, <2>2
<1>6. /\ b \in Observer /\ Len(b.queue) <= QueueSize
      /\ "start" \in Ops /\ "start" \notin {"stop", "data"}
      /\ t \in Tasks \cup {None} /\ n \in 0..MaxRecordings
  BY <1>1, ObserverAssumption DEF Good, Ops
<1>7. Guided(e, rt, Aim(Target(s), Tell("start", t, n))) /\ NoStops(e.queue)
  BY <1>1, <1>5, <1>6, EnqueueLeads, EnqueueNoStops
<1>8. Aim(Target(s), Tell("start", t, n)) = Target(e)
  BY <1>1 DEF Aim, Tell, Target
<1>q. QED BY <1>7, <1>8 DEF e

----------------------------------------------------------------------------
(* What one part of a message does.                                        *)

(* Whether a part says that a task runs, or that one is over. *)
Begins(p) == p.kind \in {"running", "received"}
Ends(p) == p.kind \in {"ended", "completed"}

ActiveAfter(a, p) ==
    IF Begins(p) THEN p.task ELSE IF Ends(p) /\ p.task = a THEN None ELSE a

(* Nothing changes but the queue; the active task is over; or another task *)
(* begins, in the next directory. *)
Quiet(o, h) == h.active = o.active /\ h.dirs = o.dirs /\ h.recs = o.recs

Over(o, h, status) ==
    /\ o.active # None /\ h.active = None
    /\ Len(h.recs) = Len(o.recs)
    /\ \A i \in 1..Len(o.recs) :
          h.recs[i] = IF i = DirOf(o) THEN [o.recs[i] EXCEPT !.meta = status] ELSE o.recs[i]

Anew(o, h) ==
    LET n == Len(o.recs) + 1 IN
    /\ h.active \in Tasks /\ h.active # o.active
    /\ DirOf(h) = n /\ n <= MaxRecordings
    /\ Len(h.recs) = n /\ h.recs[n] = NewRecording(h.active)
    /\ \A i \in 1..Len(o.recs) :
          /\ Alike(h.recs[i], o.recs[i])
          /\ i # DirOf(o) => h.recs[i] = o.recs[i]

(* A command that says nothing of a task: data, a status, the end. *)
LEMMA PublishIs ==
  ASSUME NEW o, Good(o), NEW op \in Ops, NEW t \in Tasks \cup {None}
  PROVE  /\ Good(Publish(o, op, t)) /\ Quiet(o, Publish(o, op, t))
         /\ DirOf(Publish(o, op, t)) = DirOf(o)
<1> DEFINE e == Publish(o, op, t)
<1>1. 0 \in 0..MaxRecordings /\ o \in Observer /\ Len(o.queue) <= QueueSize
  BY ObserverAssumption DEF Good
<1>2. e = Enqueue(o, op, t, 0) BY DEF Publish
<1> HIDE DEF e
<1>3. Good(e) /\ Quiet(o, e) BY <1>1, <1>2, GoodEnqueue, EnqueueIs DEF Quiet
<1>4. DirOf(e) = DirOf(o) BY <1>3 DEF Quiet, DirOf
<1>q. QED BY <1>3, <1>4 DEF e

LEMMA PublishLeads ==
  ASSUME NEW o, Good(o), NEW op \in {"data", "note"}, NEW t \in Tasks \cup {None},
         NEW rt \in Runtime, Guided(o, rt, Target(o)), NoStops(o.queue),
         op = "data" => t = None \/ o.active \in {t, None}
  PROVE  /\ Guided(Publish(o, op, t), rt, Target(Publish(o, op, t)))
         /\ NoStops(Publish(o, op, t).queue)
<1> DEFINE e == Publish(o, op, t)
<1>1. /\ 0 \in 0..MaxRecordings /\ o \in Observer /\ Len(o.queue) <= QueueSize
      /\ op \in Ops /\ op \in Ops \ {"stop"} /\ op # "start"
  BY ObserverAssumption DEF Good, Ops
<1>2. e = Enqueue(o, op, t, 0) BY DEF Publish
<1>3. op = "data" /\ Target(o).rec # 0 =>
         /\ Target(o).rec \in 1..Len(o.recs)
         /\ t \in {o.recs[Target(o).rec].task, None}
  BY DirOfIs DEF Target, Good, Registry, DirOf
<1>4. Guided(e, rt, Aim(Target(o), Tell(op, t, 0))) /\ NoStops(e.queue)
  BY <1>1, <1>2, <1>3, EnqueueLeads, EnqueueNoStops
<1>5. Aim(Target(o), Tell(op, t, 0)) = Target(o)
  BY DEF Aim, Tell
<1>6. Target(e) = Target(o) BY <1>1, PublishIs DEF Target, Quiet
<1>q. QED BY <1>4, <1>5, <1>6

Sayable(p) == p \in Part /\ (Begins(p) => p.task \in Tasks)

Effect(o, h) == Quiet(o, h) \/ Over(o, h, "completed") \/ Anew(o, h)

(* _ensure_task adds a directory when it begins a task. *)
LEMMA EnsureTaskGrows ==
  ASSUME NEW o, Good(o), NEW t \in Tasks, Starts(o, t)
  PROVE  Len(Publish(EnsureTask(o, t), "note", None).recs) = Len(o.recs) + 1
<1> DEFINE s == Superseded(o)
           b == Opened(s, t)
           n == Len(s.recs) + 1
<1>1. Good(s) /\ Len(s.recs) = Len(o.recs) BY SupersededIs
<1> HIDE DEF s
<1>2. s \in Observer /\ s.recs \in Seq(Recording) BY <1>1 DEF Good, Observer
<1>3. b.recs = Append(s.recs, NewRecording(t)) BY <1>2 DEF Opened, Observer
<1>4. NewRecording(t) \in Recording BY DEF NewRecording, Recording
<1>5. Len(b.recs) = n BY <1>2, <1>3, <1>4, AppendProperties
<1>6. EnsureTask(o, t) = Enqueue(b, "start", t, n) BY DEF EnsureTask, Opened, s
<1>7. Enqueue(Enqueue(b, "start", t, n), "note", None, 0).recs = b.recs
  BY <1>2 DEF Enqueue, Opened, Observer
<1>q. QED BY <1>1, <1>5, <1>6, <1>7 DEF Publish

LEMMA BeginsIs ==
  ASSUME NEW o, Good(o), NEW t \in Tasks,
         Len(Publish(EnsureTask(o, t), "note", None).recs) <= MaxRecordings
  PROVE  LET h == Publish(EnsureTask(o, t), "note", None) IN
         Good(h) /\ h.active = t /\ (Quiet(o, h) \/ Anew(o, h))
<1> DEFINE e == EnsureTask(o, t)
           h == Publish(e, "note", None)
<1>0. "note" \in Ops /\ None \in Tasks \cup {None} BY DEF Ops
<1>1. CASE ~Starts(o, t)
  <2>1. e = o BY <1>1 DEF EnsureTask
  <2>q. QED BY <1>0, <1>1, <2>1, PublishIs DEF Starts, Quiet
<1>2. CASE Starts(o, t)
  <2>1. Len(h.recs) = Len(o.recs) + 1 BY <1>2, EnsureTaskGrows
  <2>2. Len(o.recs) < MaxRecordings /\ Len(o.recs) + 1 <= MaxRecordings
    BY <2>1, DirOfIs, ObserverAssumption
  <2>3. /\ Good(e) /\ e.active = t /\ DirOf(e) = Len(o.recs) + 1
        /\ Len(e.recs) = Len(o.recs) + 1 /\ e.recs[Len(o.recs) + 1] = NewRecording(t)
        /\ \A i \in 1..Len(o.recs) :
               /\ Alike(e.recs[i], o.recs[i])
               /\ i # DirOf(o) => e.recs[i] = o.recs[i]
    BY <1>2, <2>2, EnsureTaskIs
  <2> HIDE DEF e
  <2>4. Good(h) /\ Quiet(e, h) /\ DirOf(h) = DirOf(e)
    BY <1>0, <2>3, PublishIs
  <2> HIDE DEF h
  <2>5. Anew(o, h)
    BY <1>2, <2>2, <2>3, <2>4 DEF Anew, Quiet, Starts
  <2>q. QED BY <2>3, <2>4, <2>5 DEF Quiet, h, e
<1>q. QED BY <1>1, <1>2

LEMMA EndsIs ==
  ASSUME NEW o, Good(o), NEW t \in Tasks \cup {None}
  PROVE  LET h == FinishTask(Publish(o, "note", None), t, "completed") IN
         /\ Good(h)
         /\ h.active = IF t = o.active THEN None ELSE o.active
         /\ Quiet(o, h) \/ Over(o, h, "completed")
<1> DEFINE n == Publish(o, "note", None)
           h == FinishTask(n, t, "completed")
<1>1. Good(n) /\ Quiet(o, n) /\ DirOf(n) = DirOf(o)
  BY PublishIs DEF Ops
<1> HIDE DEF n
<1>2. n.active = o.active /\ n.recs = o.recs BY <1>1 DEF Quiet
<1>3. CASE t = None \/ n.active # t
  <2>1. h = n BY <1>3 DEF FinishTask
  <2>q. QED BY <1>1, <1>2, <1>3, <2>1 DEF n
<1>4. CASE ~(t = None \/ n.active # t)
  <2>1. t = n.active /\ n.active # None /\ "completed" \in Endings BY <1>4 DEF Endings
  <2>2. /\ Good(h) /\ h.active = None
        /\ Len(h.recs) = Len(n.recs)
        /\ \A i \in 1..Len(n.recs) :
               h.recs[i] = IF i = DirOf(n) THEN [n.recs[i] EXCEPT !.meta = "completed"]
                           ELSE n.recs[i]
    BY <1>1, <2>1, FinishTaskIs
  <2> HIDE DEF h
  <2>3. Over(o, h, "completed")
    BY <1>1, <1>2, <2>1, <2>2 DEF Over
  <2>q. QED BY <1>2, <2>1, <2>2, <2>3 DEF h, n
<1>q. QED BY <1>3, <1>4

LEMMA HandledIs ==
  ASSUME NEW o, Good(o), NEW p, Sayable(p), Len(Handled(o, p).recs) <= MaxRecordings
  PROVE  /\ Good(Handled(o, p))
         /\ Handled(o, p).active = ActiveAfter(o.active, p)
         /\ Effect(o, Handled(o, p))
<1>0. p.kind \in Kinds /\ p.task \in Tasks \cup {None} BY DEF Sayable, Part
<1>1. CASE Begins(p)
  <2>1. Handled(o, p) = Publish(EnsureTask(o, p.task), "note", None)
    BY <1>1 DEF Begins, Handled
  <2>q. QED BY <1>1, <2>1, BeginsIs DEF Sayable, ActiveAfter, Effect
<1>2. CASE Ends(p)
  <2>1. Handled(o, p) = FinishTask(Publish(o, "note", None), p.task, "completed")
    BY <1>2 DEF Ends, Handled
  <2>2. ~Begins(p) BY <1>2 DEF Begins, Ends
  <2>q. QED BY <1>0, <1>2, <2>1, <2>2, EndsIs DEF ActiveAfter, Effect
<1>3. CASE ~Begins(p) /\ ~Ends(p)
  <2>1. PICK op \in {"data", "note"} : \E t \in Tasks \cup {None} :
            Handled(o, p) = Publish(o, op, t)
    BY <1>0, <1>3 DEF Begins, Ends, Handled, Kinds
  <2>2. PICK t \in Tasks \cup {None} : Handled(o, p) = Publish(o, op, t) BY <2>1
  <2>3. op \in Ops BY DEF Ops
  <2>4. Good(Handled(o, p)) /\ Quiet(o, Handled(o, p)) BY <2>2, <2>3, PublishIs
  <2>5. ActiveAfter(o.active, p) = o.active BY <1>3 DEF ActiveAfter
  <2>q. QED BY <2>4, <2>5 DEF Effect, Quiet
<1>q. QED BY <1>1, <1>2, <1>3

(* A part leads the worker on, when the data in it are the active task's,  *)
(* the idle robot's, or come while nothing is active. *)
LEMMA HandledLeads ==
  ASSUME NEW o, Good(o), NEW p, Sayable(p), Len(Handled(o, p).recs) <= MaxRecordings,
         p.kind \in {"data", "snapshot"} => p.task = None \/ o.active \in {p.task, None},
         NEW rt \in Runtime, Guided(o, rt, Target(o)), NoStops(o.queue)
  PROVE  Guided(Handled(o, p), rt, Target(Handled(o, p))) /\ NoStops(Handled(o, p).queue)
<1>0. p.kind \in Kinds /\ p.task \in Tasks \cup {None} BY DEF Sayable, Part
<1>1. CASE Begins(p)
  <2> DEFINE e == EnsureTask(o, p.task)
  <2>1. Handled(o, p) = Publish(e, "note", None) /\ p.task \in Tasks
    BY <1>1 DEF Begins, Handled, Sayable
  <2>2. Good(e) /\ Guided(e, rt, Target(e)) /\ NoStops(e.queue)
    <3>1. CASE ~Starts(o, p.task) BY <3>1 DEF EnsureTask
    <3>2. CASE Starts(o, p.task)
      <4>1. Len(o.recs) < MaxRecordings
        BY <2>1, <3>2, EnsureTaskGrows, DirOfIs, ObserverAssumption
      <4>q. QED BY <2>1, <3>2, <4>1, EnsureTaskIs, EnsureTaskLeads
    <3>q. QED BY <3>1, <3>2
  <2> HIDE DEF e
  <2>q. QED BY <2>1, <2>2, PublishLeads
<1>2. CASE Ends(p)
  <2> DEFINE n == Publish(o, "note", None)
  <2>1. Handled(o, p) = FinishTask(n, p.task, "completed")
    BY <1>2 DEF Ends, Handled
  <2>2. Good(n) /\ Guided(n, rt, Target(n)) /\ NoStops(n.queue)
    BY PublishIs, PublishLeads DEF Ops
  <2> HIDE DEF n
  <2>3. CASE p.task = None \/ n.active # p.task BY <2>1, <2>2, <2>3 DEF FinishTask
  <2>4. CASE ~(p.task = None \/ n.active # p.task)
    BY <2>1, <2>2, <2>4, FinishLeads DEF Endings
  <2>q. QED BY <2>3, <2>4
<1>3. CASE p.kind = "idle"
  <2>1. Handled(o, p) = Publish(o, "note", None) BY <1>3 DEF Handled
  <2>q. QED BY <2>1, PublishLeads
<1>4. CASE p.kind \in {"data", "snapshot"}
  <2>1. Handled(o, p) = Publish(o, "data", p.task) BY <1>4 DEF Handled
  <2>q. QED BY <1>0, <1>4, <2>1, PublishLeads
<1>q. QED BY <1>0, <1>1, <1>2, <1>3, <1>4 DEF Begins, Ends, Kinds

----------------------------------------------------------------------------
(* The parts the observer has not handled: the rest of its message, the    *)
(* first message unread, and the others, which have one part each.         *)
Count(ps, st) == Len(ps) + IF st = <<>> THEN 0 ELSE Len(st[1]) + Len(st) - 1

Flow(ps, st) ==
    [i \in 1..Count(ps, st) |->
        IF i <= Len(ps) THEN ps[i]
        ELSE IF i <= Len(ps) + Len(st[1]) THEN st[1][i - Len(ps)]
        ELSE st[i - Len(ps) - Len(st[1]) + 1][1]]

Single(st) == \A i \in 2..Len(st) : Len(st[i]) = 1

Unread(ps, st) == ps \in Seq(Part) /\ st \in Seq(Seq(Part)) /\ Single(st)

LEMMA FlowFirst ==
  ASSUME NEW ps, NEW st, NEW i \in 1..Count(ps, st), i <= Len(ps)
  PROVE  Flow(ps, st)[i] = ps[i]
BY DEF Flow

LEMMA FlowSecond ==
  ASSUME NEW ps, NEW st, NEW i \in 1..Count(ps, st),
         ~(i <= Len(ps)), i <= Len(ps) + Len(st[1])
  PROVE  Flow(ps, st)[i] = st[1][i - Len(ps)]
BY DEF Flow

LEMMA FlowLater ==
  ASSUME NEW ps, NEW st, NEW i \in 1..Count(ps, st),
         ~(i <= Len(ps)), ~(i <= Len(ps) + Len(st[1]))
  PROVE  Flow(ps, st)[i] = st[i - Len(ps) - Len(st[1]) + 1][1]
BY DEF Flow

LEMMA MessageIs ==
  ASSUME NEW st \in Seq(Seq(Part)), NEW i \in 1..Len(st)
  PROVE  /\ st[i] \in Seq(Part) /\ Len(st[i]) \in Nat
         /\ \A j \in 1..Len(st[i]) : st[i][j] \in Part
<1>1. st[i] \in Seq(Part) BY ElementOfSeq
<1>q. QED BY <1>1, ElementOfSeq, LenProperties

LEMMA LengthsAre ==
  ASSUME NEW ps, NEW st, Unread(ps, st)
  PROVE  /\ Len(ps) \in Nat /\ Len(st) \in Nat
         /\ st # <<>> => Len(st) >= 1 /\ Len(st[1]) \in Nat
         /\ st = <<>> => Len(st) = 0
         /\ \A i \in 2..Len(st) : Len(st[i]) = 1
BY LenProperties, EmptySeq, MessageIs DEF Unread, Single

LEMMA FlowIs ==
  ASSUME NEW ps, NEW st, Unread(ps, st)
  PROVE  /\ Count(ps, st) \in Nat
         /\ Flow(ps, st) \in Seq(Part)
         /\ Len(Flow(ps, st)) = Count(ps, st)
<1> DEFINE a == Len(ps)
           c == Len(st)
           b == Len(st[1])
           n == Count(ps, st)
<1>1. a \in Nat /\ c \in Nat /\ (st # <<>> => c >= 1 /\ b \in Nat)
  BY LengthsAre
<1>2. n \in Nat BY <1>1 DEF Count
<1>3. ASSUME NEW i \in 1..n PROVE Flow(ps, st)[i] \in Part
  <2>1. CASE i <= a
    <3>1. i \in 1..a /\ ps[i] \in Part BY <1>1, <2>1, ElementOfSeq DEF Unread
    <3>q. QED BY <2>1, <3>1, FlowFirst
  <2>2. CASE ~(i <= a) /\ i <= a + b
    <3>1. st # <<>> /\ 1 \in 1..c /\ i - a \in 1..b BY <1>1, <2>2 DEF Count
    <3>2. st[1][i - a] \in Part BY <3>1, MessageIs DEF Unread
    <3>q. QED BY <2>2, <3>2, FlowSecond
  <2>3. CASE ~(i <= a) /\ ~(i <= a + b)
    <3>1. st # <<>> BY <1>1, <2>3 DEF Count
    <3>2. i - a - b + 1 \in 2..c BY <1>1, <2>3, <3>1 DEF Count
    <3>3. PICK k \in 2..c : k = i - a - b + 1 BY <3>2
    <3>4. k \in 1..c BY <1>1, <3>3
    <3>7. Len(st[k]) = 1 BY <3>3, LengthsAre
    <3>5. st[k][1] \in Part BY <3>4, <3>7, MessageIs DEF Unread
    <3>6. Flow(ps, st)[i] = st[k][1] BY <2>3, <3>3, FlowLater
    <3>q. QED BY <3>5, <3>6
  <2>q. QED BY <2>1, <2>2, <2>3
<1>4. Flow(ps, st) \in [1..n -> Part] BY <1>3 DEF Flow
<1>q. QED BY <1>2, <1>4, SeqDef, LenProperties

(* Two sequences of the same length and elements are equal. *)
LEMMA SameSeq ==
  ASSUME NEW S, NEW s \in Seq(S), NEW t \in Seq(S), Len(s) = Len(t),
         \A i \in 1..Len(s) : s[i] = t[i]
  PROVE  s = t
BY SeqEqual

(* Taking a message up leaves the parts and their order. *)
LEMMA FlowRead ==
  ASSUME NEW st, Unread(<<>>, st), st # <<>>
  PROVE  /\ Flow(Head(st), Tail(st)) = Flow(<<>>, st)
         /\ Unread(Head(st), Tail(st))
         /\ Len(Tail(st)) = Len(st) - 1
<1> DEFINE e == <<>>
           m == Head(st)
           w == Tail(st)
           b == Len(st[1])
           c == Len(st)
<1>1. /\ m = st[1] /\ w \in Seq(Seq(Part)) /\ c \in Nat \ {0} /\ Len(w) = c - 1
      /\ \A i \in 1..(c - 1) : w[i] = st[i + 1]
  BY HeadTailProperties, LenProperties, EmptySeq DEF Unread
<1>2. m \in Seq(Part) /\ b \in Nat /\ Len(m) = b BY <1>1, MessageIs DEF Unread
<1>3. w = <<>> <=> Len(w) = 0 BY <1>1, EmptySeq
<1>0. Len(e) = 0 OBVIOUS
<1> SUFFICES /\ Flow(m, w) = Flow(e, st) /\ Unread(m, w) /\ Len(w) = c - 1 OBVIOUS
<1>u. Unread(e, st) /\ Len(st) = c /\ Len(st[1]) = b /\ st # <<>> OBVIOUS
<1> HIDE DEF m, w, b, c, e
<1>4. Unread(m, w)
  <2>1. ASSUME NEW i \in 2..Len(w) PROVE Len(w[i]) = 1
    <3>1. i \in 1..(c - 1) /\ i + 1 \in 2..c BY <1>1
    <3>2. Len(st[i + 1]) = 1 BY <1>u, <3>1, LengthsAre
    <3>q. QED BY <1>1, <3>1, <3>2
  <2>q. QED BY <1>1, <1>2, <2>1 DEF Single, Unread
<1>5. c > 1 => Len(w[1]) = 1 /\ w[1] = st[2]
  <2>1. CASE c > 1
    <3>1. 1 \in 1..(c - 1) /\ 2 \in 2..c /\ 1 + 1 = 2 BY <1>1, <2>1
    <3>2. Len(st[2]) = 1 BY <1>u, <3>1, LengthsAre
    <3>q. QED BY <1>1, <3>1, <3>2
  <2>q. QED BY <2>1
<1>6. Count(m, w) = b + c - 1 /\ Count(e, st) = b + c - 1
  <2>1. Count(e, st) = b + c - 1 BY <1>0, <1>1, <1>2, <1>u DEF Count
  <2>2. CASE c = 1
    <3>1. w = <<>> BY <1>1, <1>3, <2>2
    <3>q. QED BY <1>1, <1>2, <2>1, <2>2, <3>1 DEF Count
  <2>3. CASE c # 1
    <3>1. w # <<>> /\ Len(w[1]) = 1 BY <1>1, <1>3, <1>5, <2>3
    <3>2. Count(m, w) = b + (1 + Len(w) - 1) BY <1>2, <3>1 DEF Count
    <3>q. QED BY <1>1, <1>2, <2>1, <3>2
  <2>q. QED BY <2>2, <2>3
<1>7. ASSUME NEW i \in 1..(b + c - 1) PROVE Flow(m, w)[i] = Flow(e, st)[i]
  <2>0. i \in 1..Count(m, w) /\ i \in 1..Count(e, st) /\ i - 0 = i BY <1>6
  <2>1. CASE i <= b
    <3>1. Flow(m, w)[i] = m[i] BY <1>2, <2>0, <2>1, FlowFirst
    <3>2. Flow(e, st)[i] = st[1][i]
      <4>1. ~(i <= Len(e)) /\ i <= Len(e) + Len(st[1]) /\ i - Len(e) = i
        BY <1>0, <1>1, <1>2, <1>u, <2>1
      <4>q. QED BY <2>0, <4>1, FlowSecond
    <3>q. QED BY <1>1, <3>1, <3>2
  <2>2. CASE ~(i <= b)
    <3>1. Flow(e, st)[i] = st[i - b + 1][1]
      <4>1. ~(i <= Len(e)) /\ ~(i <= Len(e) + Len(st[1]))
            /\ i - Len(e) - Len(st[1]) + 1 = i - b + 1
        BY <1>0, <1>1, <1>2, <1>u, <2>2
      <4>2. Flow(e, st)[i] = st[i - Len(e) - Len(st[1]) + 1][1] BY <2>0, <4>1, FlowLater
      <4>q. QED BY <4>1, <4>2
    <3>2. c > 1 BY <1>1, <1>2, <2>2
    <3>5. Len(w[1]) = 1 /\ b \in Nat /\ c \in Nat /\ Len(m) = b BY <1>1, <1>2, <1>5, <3>2
    <3>3. CASE i = b + 1
      <4>1. ~(i <= Len(m)) /\ i <= Len(m) + Len(w[1]) /\ i - Len(m) = 1 /\ i - b + 1 = 2
        BY <3>3, <3>5
      <4>2. Flow(m, w)[i] = w[1][1] BY <2>0, <4>1, FlowSecond
      <4>q. QED BY <1>5, <3>1, <3>2, <4>1, <4>2
    <3>4. CASE i # b + 1
      <4>1. ~(i <= Len(m)) /\ ~(i <= Len(m) + Len(w[1])) /\ i - Len(m) - Len(w[1]) + 1 = i - b
        BY <2>2, <3>4, <3>5
      <4>2. Flow(m, w)[i] = w[i - Len(m) - Len(w[1]) + 1][1] BY <2>0, <4>1, FlowLater
      <4>3. i - b \in 1..(c - 1) BY <1>1, <1>2, <2>2
      <4>q. QED BY <1>1, <3>1, <4>1, <4>2, <4>3
    <3>q. QED BY <3>3, <3>4
  <2>q. QED BY <2>1, <2>2
<1>8. Flow(m, w) = Flow(e, st)
  <2>1. /\ Flow(m, w) \in Seq(Part) /\ Len(Flow(m, w)) = b + c - 1
        /\ Flow(e, st) \in Seq(Part) /\ Len(Flow(e, st)) = b + c - 1
    BY <1>4, <1>6, <1>u, FlowIs
  <2>q. QED BY <1>7, <2>1, SameSeq
<1>q. QED BY <1>1, <1>4, <1>8

(* Handling a part takes the first. *)
LEMMA FlowHandle ==
  ASSUME NEW ps, NEW st, Unread(ps, st), ps # <<>>
  PROVE  /\ Flow(Tail(ps), st) = Tail(Flow(ps, st)) /\ Unread(Tail(ps), st)
         /\ Flow(ps, st) # <<>> /\ Flow(ps, st)[1] = Head(ps)
<1> DEFINE a == Len(ps)
           n == Count(ps, st)
           F == Flow(ps, st)
           T == Tail(F)
           w == Tail(ps)
           b == Len(st[1])
<1>1. /\ a \in Nat \ {0} /\ Head(ps) = ps[1] /\ w \in Seq(Part) /\ Len(w) = a - 1
      /\ \A i \in 1..(a - 1) : w[i] = ps[i + 1]
  BY HeadTailProperties, LenProperties, EmptySeq DEF Unread
<1>2. n \in Nat /\ F \in Seq(Part) /\ Len(F) = n BY FlowIs
<1>3. Len(st) \in Nat /\ (st # <<>> => Len(st) >= 1 /\ b \in Nat) BY LengthsAre
<1>4. n >= 1 /\ a <= n /\ Count(w, st) = n - 1
  BY <1>1, <1>3 DEF Count
<1>c. a < n => b \in Nat BY <1>1, <1>3 DEF Count
<1>5. F # <<>> BY <1>2, <1>4, EmptySeq
<1>t. /\ Len(T) = n - 1 /\ T \in Seq(Part)
      /\ \A i \in 1..(n - 1) : T[i] = F[i + 1]
  <2> HIDE DEF F, n
  <2>q. QED BY <1>2, <1>5, HeadTailProperties
<1>w. Unread(w, st) BY <1>1 DEF Unread
<1>s. Len(ps) = a /\ Len(st[1]) = b /\ F = Flow(ps, st) /\ n = Count(ps, st) OBVIOUS
<1> SUFFICES Flow(w, st) = T /\ F[1] = ps[1] BY <1>1, <1>5, <1>w
<1> HIDE DEF a, b, n, F, T, w
<1>6. F[1] = ps[1]
  <2>1. \A i \in 1..n : i <= a => F[i] = ps[i] BY <1>s, FlowFirst
  <2>q. QED BY <1>1, <1>2, <1>4, <2>1
<1>7. ASSUME NEW i \in 1..(n - 1) PROVE Flow(w, st)[i] = T[i]
  <2>0. i + 1 \in 1..n /\ i \in 1..Count(w, st) BY <1>2, <1>4
  <2>j. PICK j \in 1..n : j = i + 1 BY <2>0
  <2>1. CASE i <= a - 1
    <3>1. Flow(w, st)[i] = w[i] BY <1>1, <2>0, <2>1, FlowFirst
    <3>2. j <= a BY <1>1, <2>1, <2>j
    <3>3. F[j] = ps[j] BY <1>s, <3>2, FlowFirst
    <3>4. i \in 1..(a - 1) BY <1>1, <2>1
    <3>q. QED BY <1>1, <1>t, <2>j, <3>1, <3>3, <3>4
  <2>2. CASE ~(i <= a - 1)
    <3>0. b \in Nat BY <1>1, <1>2, <1>c, <2>2
    <3>1. CASE i <= (a - 1) + b
      <4>0. Len(w) = a - 1 /\ Len(st[1]) = b BY <1>1, <1>s
      <4>1. Flow(w, st)[i] = st[1][i - (a - 1)] BY <2>0, <2>2, <3>1, <4>0, FlowSecond
      <4>2. ~(j <= a) /\ j <= a + b /\ j - a = i - (a - 1) BY <1>1, <2>2, <2>j, <3>0, <3>1
      <4>3. F[j] = st[1][j - a] BY <1>s, <4>2, FlowSecond
      <4>q. QED BY <1>t, <2>j, <4>1, <4>2, <4>3
    <3>2. CASE ~(i <= (a - 1) + b)
      <4>0. Len(w) = a - 1 /\ Len(st[1]) = b BY <1>1, <1>s
      <4>5. ~(i <= Len(w)) /\ ~(i <= Len(w) + Len(st[1])) BY <2>2, <3>2, <4>0
      <4>6. Flow(w, st)[i] = st[i - Len(w) - Len(st[1]) + 1][1] BY <2>0, <4>5, FlowLater
      <4>1. Flow(w, st)[i] = st[i - (a - 1) - b + 1][1] BY <4>0, <4>6
      <4>2. ~(j <= a) /\ ~(j <= a + b) /\ j - a - b + 1 = i - (a - 1) - b + 1
        BY <1>1, <2>2, <2>j, <3>0, <3>2
      <4>3. F[j] = st[j - a - b + 1][1] BY <1>s, <4>2, FlowLater
      <4>q. QED BY <1>t, <2>j, <4>1, <4>2, <4>3
    <3>q. QED BY <3>1, <3>2
  <2>q. QED BY <2>1, <2>2
<1>8. Flow(w, st) \in Seq(Part) /\ Len(Flow(w, st)) = n - 1 BY <1>4, <1>w, FlowIs
<1>q. QED BY <1>6, <1>7, <1>8, <1>t, SameSeq

(* A message of one part comes last. *)
LEMMA FlowSend ==
  ASSUME NEW ps, NEW st, Unread(ps, st), NEW p \in Part
  PROVE  /\ Flow(ps, Append(st, <<p>>)) = Append(Flow(ps, st), p)
         /\ Unread(ps, Append(st, <<p>>))
<1> DEFINE a == Len(ps)
           b == Len(st[1])
           c == Len(st)
           n == Count(ps, st)
           m == <<p>>
           w == Append(st, m)
           F == Flow(ps, st)
           G == Append(F, p)
<1>0. m \in Seq(Part) /\ Len(m) = 1 /\ m[1] = p OBVIOUS
<1> HIDE DEF m
<1>1. /\ c \in Nat /\ w \in Seq(Seq(Part)) /\ Len(w) = c + 1 /\ w[c + 1] = m
      /\ w # <<>>
      /\ \A i \in 1..c : w[i] = st[i]
  BY <1>0, AppendProperties, LenProperties DEF Unread
<1>2. a \in Nat /\ (st # <<>> => c >= 1 /\ b \in Nat) /\ (st = <<>> => c = 0)
  BY LengthsAre
<1>3. n \in Nat /\ F \in Seq(Part) /\ Len(F) = n BY FlowIs
<1>4. /\ G \in Seq(Part) /\ Len(G) = n + 1 /\ G[n + 1] = p
      /\ \A i \in 1..n : G[i] = F[i]
  <2> HIDE DEF F, n
  <2>q. QED BY <1>3, AppendProperties
<1>s. Len(ps) = a /\ Len(st[1]) = b /\ Len(st) = c /\ F = Flow(ps, st) /\ n = Count(ps, st)
  OBVIOUS
<1>n. n = a + IF st = <<>> THEN 0 ELSE b + c - 1 BY DEF Count
<1> SUFFICES Flow(ps, w) = G /\ Unread(ps, w) BY DEF m
<1> HIDE DEF a, b, c, n, F, G, w
<1>5. Unread(ps, w)
  <2>1. ASSUME NEW i \in 2..Len(w) PROVE Len(w[i]) = 1
    <3>1. CASE i <= c
      <4>1. i \in 2..c /\ i \in 1..c BY <1>1, <3>1
      <4>2. w[i] = st[i] BY <1>1, <4>1
      <4>3. \A j \in 2..c : Len(st[j]) = 1 BY <1>s, LengthsAre
      <4>q. QED BY <4>1, <4>2, <4>3
    <3>2. CASE ~(i <= c)
      <4>1. i = c + 1 BY <1>1, <3>2
      <4>q. QED BY <1>0, <1>1, <4>1
    <3>q. QED BY <3>1, <3>2
  <2>q. QED BY <1>1, <2>1 DEF Unread, Single
<1>6. Flow(ps, w) \in Seq(Part) /\ Len(Flow(ps, w)) = Count(ps, w) BY <1>5, FlowIs
<1>7. Count(ps, w) = n + 1
  <2>1. CASE st = <<>>
    <3>1. w[1] = m BY <1>1, <1>2, <2>1
    <3>2. Count(ps, w) = Len(ps) + (Len(w[1]) + Len(w) - 1) BY <1>1 DEF Count
    <3>3. Len(w[1]) = 1 /\ Len(w) = 1 BY <1>0, <1>1, <1>2, <2>1, <3>1
    <3>q. QED BY <1>2, <1>n, <1>s, <2>1, <3>2, <3>3
  <2>2. CASE st # <<>>
    <3>1. w[1] = st[1] BY <1>1, <1>2, <2>2
    <3>q. QED BY <1>1, <1>2, <1>n, <1>s, <2>2, <3>1 DEF Count
  <2>q. QED BY <2>1, <2>2
<1>8. ASSUME NEW i \in 1..(n + 1) PROVE Flow(ps, w)[i] = G[i]
  <2>0. i \in 1..Count(ps, w) BY <1>7
  <2>1. CASE i <= a
    <3>1. i \in 1..n BY <1>1, <1>2, <1>3, <1>n, <2>1
    <3>q. QED BY <1>4, <1>s, <2>0, <2>1, <3>1, FlowFirst
  <2>2. CASE ~(i <= a) /\ st = <<>>
    <3>1. i = a + 1 /\ i = n + 1 /\ w[1] = m BY <1>1, <1>2, <1>n, <2>2
    <3>4. Len(w[1]) = 1 BY <1>0, <3>1
    <3>2. i <= a + Len(w[1]) /\ i - a = 1 BY <1>2, <3>1, <3>4
    <3>3. Flow(ps, w)[i] = w[1][1] BY <1>s, <2>0, <2>2, <3>2, FlowSecond
    <3>q. QED BY <1>0, <1>4, <3>1, <3>3
  <2>3. CASE ~(i <= a) /\ st # <<>>
    <3>0. Len(w[1]) = b /\ w[1] = st[1] /\ n = a + b + c - 1 /\ b \in Nat /\ c >= 1
      BY <1>1, <1>2, <1>n, <1>s, <2>3
    <3>1. CASE i <= a + b
      <4>1. i \in 1..n BY <1>1, <1>2, <1>3, <3>0, <3>1
      <4>2. Flow(ps, w)[i] = w[1][i - a] BY <1>s, <2>0, <2>3, <3>0, <3>1, FlowSecond
      <4>3. F[i] = st[1][i - a] BY <1>s, <2>3, <3>1, <4>1, FlowSecond
      <4>q. QED BY <1>4, <3>0, <4>1, <4>2, <4>3
    <3>2. CASE ~(i <= a + b)
      <4>0. PICK k \in Nat : k = i - a - b + 1 /\ k \in 1..(c + 1) /\ (k = c + 1 <=> i = n + 1)
        BY <1>1, <1>2, <1>3, <3>0, <3>2
      <4>5. ~(i <= Len(ps)) /\ ~(i <= Len(ps) + Len(w[1])) /\ k = i - Len(ps) - Len(w[1]) + 1
        BY <1>s, <2>3, <3>0, <3>2, <4>0
      <4>6. Flow(ps, w)[i] = w[i - Len(ps) - Len(w[1]) + 1][1] BY <2>0, <4>5, FlowLater
      <4>1. Flow(ps, w)[i] = w[k][1] BY <4>5, <4>6
      <4>2. CASE i = n + 1 BY <1>0, <1>1, <1>4, <4>0, <4>1, <4>2
      <4>3. CASE i # n + 1
        <5>1. i \in 1..n /\ k \in 1..c BY <1>1, <1>3, <4>0, <4>3
        <5>2. F[i] = st[k][1] BY <1>s, <2>3, <3>2, <4>0, <5>1, FlowLater
        <5>q. QED BY <1>1, <1>4, <4>1, <5>1, <5>2
      <4>q. QED BY <4>2, <4>3
    <3>q. QED BY <3>1, <3>2
  <2>q. QED BY <2>1, <2>2, <2>3
<1>9. Flow(ps, w) = G BY <1>4, <1>6, <1>7, <1>8, SameSeq
<1>q. QED BY <1>5, <1>9

LEMMA FlowAlone ==
  ASSUME NEW m \in Seq(Part)
  PROVE  Flow(<<>>, <<m>>) = m /\ Unread(<<>>, <<m>>)
<1> DEFINE w == <<m>>
           e == <<>>
           n == Len(m)
<1>1. /\ w \in Seq(Seq(Part)) /\ Len(w) = 1 /\ w[1] = m /\ w # <<>>
      /\ e \in Seq(Part) /\ Len(e) = 0
  OBVIOUS
<1>2. n \in Nat BY LenProperties
<1>s. n = Len(m) OBVIOUS
<1> SUFFICES Flow(e, w) = m /\ Unread(e, w) OBVIOUS
<1> HIDE DEF w, e, n
<1>3. Unread(e, w) BY <1>1 DEF Single, Unread
<1>4. Count(e, w) = n BY <1>1, <1>2, <1>s DEF Count
<1>5. Flow(e, w) \in Seq(Part) /\ Len(Flow(e, w)) = n BY <1>3, <1>4, FlowIs
<1>6. ASSUME NEW i \in 1..n PROVE Flow(e, w)[i] = m[i]
  <2>1. ~(i <= Len(e)) /\ i <= Len(e) + Len(w[1]) /\ i - Len(e) = i /\ i \in 1..Count(e, w)
    BY <1>1, <1>2, <1>4, <1>s
  <2>q. QED BY <1>1, <2>1, FlowSecond
<1>q. QED BY <1>3, <1>5, <1>6, <1>s, SameSeq

LEMMA FlowEmpty == Flow(<<>>, <<>>) = <<>> /\ Unread(<<>>, <<>>)
<1>1. Unread(<<>>, <<>>) BY DEF Single, Unread
<1>2. Count(<<>>, <<>>) = 0 BY DEF Count
<1>q. QED BY <1>1, <1>2, FlowIs, EmptySeq

----------------------------------------------------------------------------
(* What the parts on their way make of the active task.                    *)

Opens(p, t) == Begins(p) /\ p.task = t
Closes(p, t) == Ends(p) /\ p.task = t

(* Before part k, only t or nothing can be active. *)
LeavesOnly(a, P, k, t) ==
    /\ a \in {t, None} \/ \E l \in 1..(k - 1) : Opens(P[l], t) \/ Closes(P[l], a)
    /\ \A j \in 1..(k - 1) : Begins(P[j]) /\ P[j].task # t =>
          \E l \in (j + 1)..(k - 1) : Opens(P[l], t) \/ Closes(P[l], P[j].task)

(* After all parts, t is active. *)
LeavesActive(a, P, t) ==
    /\ a = t \/ \E l \in 1..Len(P) : Opens(P[l], t)
    /\ \A j \in 1..Len(P) : Begins(P[j]) /\ P[j].task # t =>
          \E l \in (j + 1)..Len(P) : Opens(P[l], t)

(* The parts are what the robot says: it runs its own tasks, ends those    *)
(* that ran, and names with its data the task it runs.                     *)
Honest(a, P, ended) ==
    /\ P \in Seq(Part)
    /\ \A i \in 1..Len(P) :
          /\ Begins(P[i]) => P[i].task \in Tasks
          /\ Ends(P[i]) => P[i].task \in ended
          /\ P[i].kind \in {"data", "snapshot"} /\ P[i].task # None =>
                LeavesOnly(a, P, i, P[i].task)

LEMMA LeavesOnlyPrefix ==
  ASSUME NEW a, NEW P, NEW Q, NEW k \in Nat, NEW t, LeavesOnly(a, P, k, t),
         \A i \in 1..(k - 1) : Q[i] = P[i]
  PROVE  LeavesOnly(a, Q, k, t)
<1>1. a \in {t, None} \/ \E l \in 1..(k - 1) : Opens(Q[l], t) \/ Closes(Q[l], a)
  BY DEF LeavesOnly
<1>2. ASSUME NEW j \in 1..(k - 1), Begins(Q[j]), Q[j].task # t
      PROVE  \E l \in (j + 1)..(k - 1) : Opens(Q[l], t) \/ Closes(Q[l], Q[j].task)
  <2>1. Begins(P[j]) /\ P[j].task # t /\ Q[j] = P[j] BY <1>2
  <2>2. PICK l \in (j + 1)..(k - 1) : Opens(P[l], t) \/ Closes(P[l], P[j].task)
    BY <2>1 DEF LeavesOnly
  <2>3. l \in 1..(k - 1) BY <2>2
  <2>q. QED BY <2>1, <2>2, <2>3
<1>q. QED BY <1>1, <1>2 DEF LeavesOnly

(* Handling the first part leaves what the others make of it. *)
LEMMA LeavesOnlyTail ==
  ASSUME NEW a, NEW P, NEW Q, NEW n \in Nat \ {0}, NEW k \in 2..n, NEW t,
         \A i \in 1..(n - 2) : Q[i] = P[i + 1], LeavesOnly(a, P, k, t)
  PROVE  LeavesOnly(ActiveAfter(a, P[1]), Q, k - 1, t)
<1> DEFINE b == ActiveAfter(a, P[1])
<1>0. \A l \in 2..(k - 1) : l - 1 \in 1..((k - 1) - 1) /\ Q[l - 1] = P[l]
  <2>1. ASSUME NEW l \in 2..(k - 1) PROVE l - 1 \in 1..((k - 1) - 1) /\ Q[l - 1] = P[l]
    <3>1. l - 1 \in 1..(n - 2) /\ (l - 1) + 1 = l /\ l - 1 \in 1..((k - 1) - 1) OBVIOUS
    <3>q. QED BY <3>1
  <2>q. QED BY <2>1
<1>1. b \in {t, None} \/ \E l \in 1..((k - 1) - 1) : Opens(Q[l], t) \/ Closes(Q[l], b)
  <2>1. CASE b \in {t, None} BY <2>1
  <2>2. CASE ~(b \in {t, None}) /\ Begins(P[1])
    <3>1. b = P[1].task /\ 1 \in 1..(k - 1) BY <2>2 DEF ActiveAfter
    <3>2. PICK l \in (1 + 1)..(k - 1) : Opens(P[l], t) \/ Closes(P[l], P[1].task)
      BY <2>2, <3>1 DEF LeavesOnly
    <3>3. l \in 2..(k - 1) BY <3>2
    <3>q. QED BY <1>0, <3>1, <3>2, <3>3
  <2>3. CASE ~(b \in {t, None}) /\ ~Begins(P[1])
    <3>1. b = a /\ ~Opens(P[1], t) /\ ~Closes(P[1], a) BY <2>3 DEF ActiveAfter, Opens, Closes
    <3>2. PICK l \in 1..(k - 1) : Opens(P[l], t) \/ Closes(P[l], a)
      BY <2>3, <3>1 DEF LeavesOnly
    <3>3. l \in 2..(k - 1) BY <3>1, <3>2
    <3>q. QED BY <1>0, <3>1, <3>2, <3>3
  <2>q. QED BY <2>1, <2>2, <2>3
<1>2. ASSUME NEW j \in 1..((k - 1) - 1), Begins(Q[j]), Q[j].task # t
      PROVE  \E l \in (j + 1)..((k - 1) - 1) : Opens(Q[l], t) \/ Closes(Q[l], Q[j].task)
  <2>1. j + 1 \in 1..(k - 1) /\ j + 1 \in 2..(k - 1) /\ (j + 1) - 1 = j OBVIOUS
  <2>2. Q[j] = P[j + 1] BY <1>0, <2>1
  <2>3. PICK l \in ((j + 1) + 1)..(k - 1) : Opens(P[l], t) \/ Closes(P[l], P[j + 1].task)
    BY <1>2, <2>1, <2>2 DEF LeavesOnly
  <2>4. l \in 2..(k - 1) /\ l - 1 \in (j + 1)..((k - 1) - 1) BY <2>3
  <2>q. QED BY <1>0, <2>2, <2>3, <2>4
<1>q. QED BY <1>1, <1>2 DEF LeavesOnly

LEMMA LeavesActiveTail ==
  ASSUME NEW a, NEW P, NEW Q, NEW n \in Nat \ {0}, Len(P) = n, Len(Q) = n - 1, NEW t,
         \A i \in 1..(n - 1) : Q[i] = P[i + 1], LeavesActive(a, P, t),
         Ends(P[1]) => P[1].task # t
  PROVE  LeavesActive(ActiveAfter(a, P[1]), Q, t)
<1> DEFINE b == ActiveAfter(a, P[1])
<1>0. \A l \in 2..n : l - 1 \in 1..(n - 1) /\ Q[l - 1] = P[l]
  <2>1. ASSUME NEW l \in 2..n PROVE l - 1 \in 1..(n - 1) /\ Q[l - 1] = P[l]
    <3>1. l - 1 \in 1..(n - 1) /\ (l - 1) + 1 = l OBVIOUS
    <3>q. QED BY <3>1
  <2>q. QED BY <2>1
<1>1. b = t \/ \E l \in 1..(n - 1) : Opens(Q[l], t)
  <2>1. CASE b = t BY <2>1
  <2>2. CASE b # t /\ Begins(P[1])
    <3>1. b = P[1].task /\ 1 \in 1..n BY <2>2 DEF ActiveAfter
    <3>2. PICK l \in (1 + 1)..n : Opens(P[l], t) BY <2>2, <3>1 DEF LeavesActive
    <3>3. l \in 2..n BY <3>2
    <3>q. QED BY <1>0, <3>2, <3>3
  <2>3. CASE b # t /\ ~Begins(P[1])
    <3>1. a # t /\ ~Opens(P[1], t) BY <2>3 DEF ActiveAfter, Opens
    <3>2. PICK l \in 1..n : Opens(P[l], t) BY <3>1 DEF LeavesActive
    <3>3. l \in 2..n BY <3>1, <3>2
    <3>q. QED BY <1>0, <3>2, <3>3
  <2>q. QED BY <2>1, <2>2, <2>3
<1>2. ASSUME NEW j \in 1..(n - 1), Begins(Q[j]), Q[j].task # t
      PROVE  \E l \in (j + 1)..(n - 1) : Opens(Q[l], t)
  <2>1. j + 1 \in 1..n /\ Q[j] = P[j + 1] OBVIOUS
  <2>3. PICK l \in ((j + 1) + 1)..n : Opens(P[l], t)
    BY <1>2, <2>1 DEF LeavesActive
  <2>4. l \in 2..n /\ l - 1 \in (j + 1)..(n - 1) BY <2>3
  <2>q. QED BY <1>0, <2>3, <2>4
<1>q. QED BY <1>1, <1>2 DEF LeavesActive

(* One part more: it begins t, or it begins nothing. *)
LEMMA LeavesOnlyAppend ==
  ASSUME NEW a, NEW P, NEW Q, NEW n \in Nat, NEW t, NEW p,
         \A i \in 1..n : Q[i] = P[i], Q[n + 1] = p,
         Opens(p, t) \/ (~Begins(p) /\ LeavesOnly(a, P, n + 1, t))
  PROVE  LeavesOnly(a, Q, n + 2, t)
<1>1. n + 1 \in 1..((n + 2) - 1) /\ (n + 2) - 1 = n + 1 /\ (n + 1) - 1 = n OBVIOUS
<1>2. CASE Opens(p, t)
  <2>1. ASSUME NEW j \in 1..(n + 1), Begins(Q[j]), Q[j].task # t
        PROVE  \E l \in (j + 1)..(n + 1) : Opens(Q[l], t)
    <3>1. j # n + 1 BY <1>2, <2>1 DEF Opens
    <3>2. n + 1 \in (j + 1)..(n + 1) BY <3>1
    <3>q. QED BY <1>2, <3>2
  <2>q. QED BY <1>1, <1>2, <2>1 DEF LeavesOnly
<1>3. CASE ~Begins(p) /\ LeavesOnly(a, P, n + 1, t)
  <2>1. a \in {t, None} \/ \E l \in 1..n : Opens(P[l], t) \/ Closes(P[l], a)
    BY <1>1, <1>3 DEF LeavesOnly
  <2>2. a \in {t, None} \/ \E l \in 1..(n + 1) : Opens(Q[l], t) \/ Closes(Q[l], a)
    <3>1. \A l \in 1..n : l \in 1..(n + 1) OBVIOUS
    <3>q. QED BY <2>1, <3>1
  <2>3. ASSUME NEW j \in 1..(n + 1), Begins(Q[j]), Q[j].task # t
        PROVE  \E l \in (j + 1)..(n + 1) : Opens(Q[l], t) \/ Closes(Q[l], Q[j].task)
    <3>1. j # n + 1 BY <1>3, <2>3
    <3>2. j \in 1..n /\ Q[j] = P[j] BY <3>1
    <3>3. PICK l \in (j + 1)..n : Opens(P[l], t) \/ Closes(P[l], P[j].task)
      BY <1>1, <1>3, <2>3, <3>2 DEF LeavesOnly
    <3>4. l \in 1..n /\ l \in (j + 1)..(n + 1) BY <3>3
    <3>q. QED BY <3>2, <3>3, <3>4
  <2>q. QED BY <1>1, <2>2, <2>3 DEF LeavesOnly
<1>q. QED BY <1>2, <1>3

LEMMA LeavesActiveAppend ==
  ASSUME NEW a, NEW P, NEW Q, NEW n \in Nat, Len(P) = n, Len(Q) = n + 1, NEW t, NEW p,
         \A i \in 1..n : Q[i] = P[i], Q[n + 1] = p,
         Opens(p, t) \/ (~Begins(p) /\ LeavesActive(a, P, t))
  PROVE  LeavesActive(a, Q, t)
<1>2. CASE Opens(p, t)
  <2>1. ASSUME NEW j \in 1..(n + 1), Begins(Q[j]), Q[j].task # t
        PROVE  \E l \in (j + 1)..(n + 1) : Opens(Q[l], t)
    <3>1. j # n + 1 BY <1>2, <2>1 DEF Opens
    <3>2. n + 1 \in (j + 1)..(n + 1) BY <3>1
    <3>q. QED BY <1>2, <3>2
  <2>2. n + 1 \in 1..(n + 1) OBVIOUS
  <2>q. QED BY <1>2, <2>1, <2>2 DEF LeavesActive
<1>3. CASE ~Begins(p) /\ LeavesActive(a, P, t)
  <2>1. \A l \in 1..n : l \in 1..(n + 1) OBVIOUS
  <2>2. a = t \/ \E l \in 1..(n + 1) : Opens(Q[l], t)
    BY <1>3, <2>1 DEF LeavesActive
  <2>3. ASSUME NEW j \in 1..(n + 1), Begins(Q[j]), Q[j].task # t
        PROVE  \E l \in (j + 1)..(n + 1) : Opens(Q[l], t)
    <3>1. j # n + 1 BY <1>3, <2>3
    <3>2. j \in 1..n /\ Q[j] = P[j] BY <3>1
    <3>3. PICK l \in (j + 1)..n : Opens(P[l], t)
      BY <1>3, <2>3, <3>2 DEF LeavesActive
    <3>4. l \in 1..n /\ l \in (j + 1)..(n + 1) BY <3>3
    <3>q. QED BY <3>2, <3>3, <3>4
  <2>q. QED BY <2>2, <2>3 DEF LeavesActive
<1>q. QED BY <1>2, <1>3

LEMMA HonestTail ==
  ASSUME NEW a, NEW P, NEW ended, Honest(a, P, ended), P # <<>>
  PROVE  Honest(ActiveAfter(a, P[1]), Tail(P), ended)
<1> DEFINE Q == Tail(P)
           n == Len(P)
           b == ActiveAfter(a, P[1])
<1>1. /\ Q \in Seq(Part) /\ n \in Nat \ {0} /\ Len(Q) = n - 1
      /\ \A i \in 1..(n - 1) : Q[i] = P[i + 1]
  BY HeadTailProperties, EmptySeq DEF Honest
<1> HIDE DEF Q, n, b
<1>2. ASSUME NEW i \in 1..(n - 1)
      PROVE  /\ Begins(Q[i]) => Q[i].task \in Tasks
             /\ Ends(Q[i]) => Q[i].task \in ended
             /\ Q[i].kind \in {"data", "snapshot"} /\ Q[i].task # None =>
                   LeavesOnly(b, Q, i, Q[i].task)
  <2>1. i + 1 \in 1..n /\ i + 1 \in 2..n /\ (i + 1) - 1 = i /\ Q[i] = P[i + 1] BY <1>1
  <2>2. /\ Begins(P[i + 1]) => P[i + 1].task \in Tasks
        /\ Ends(P[i + 1]) => P[i + 1].task \in ended
        /\ P[i + 1].kind \in {"data", "snapshot"} /\ P[i + 1].task # None =>
              LeavesOnly(a, P, i + 1, P[i + 1].task)
    BY <2>1 DEF Honest, n
  <2>3. \A j \in 1..(n - 2) : Q[j] = P[j + 1] BY <1>1
  <2>4. ASSUME LeavesOnly(a, P, i + 1, Q[i].task) PROVE LeavesOnly(b, Q, i, Q[i].task)
    <3>1. PICK k \in 2..n : k = i + 1 /\ k - 1 = i BY <2>1
    <3>2. LeavesOnly(b, Q, k - 1, Q[i].task)
      BY <1>1, <2>3, <2>4, <3>1, LeavesOnlyTail DEF b
    <3>q. QED BY <3>1, <3>2
  <2>q. QED BY <2>1, <2>2, <2>4
<1>q. QED BY <1>1, <1>2 DEF Honest, Q, b

LEMMA HonestAppend ==
  ASSUME NEW a, NEW P, NEW ended, NEW ended2, Honest(a, P, ended), ended \subseteq ended2,
         NEW p \in Part, Begins(p) => p.task \in Tasks, Ends(p) => p.task \in ended2,
         p.kind \in {"data", "snapshot"} /\ p.task # None =>
            LeavesOnly(a, P, Len(P) + 1, p.task)
  PROVE  Honest(a, Append(P, p), ended2)
<1> DEFINE Q == Append(P, p)
           n == Len(P)
<1>1. /\ Q \in Seq(Part) /\ n \in Nat /\ Len(Q) = n + 1 /\ Q[n + 1] = p
      /\ \A i \in 1..n : Q[i] = P[i]
  BY AppendProperties, LenProperties DEF Honest
<1>s. n = Len(P) OBVIOUS
<1> HIDE DEF Q, n
<1>2. ASSUME NEW i \in 1..(n + 1)
      PROVE  /\ Begins(Q[i]) => Q[i].task \in Tasks
             /\ Ends(Q[i]) => Q[i].task \in ended2
             /\ Q[i].kind \in {"data", "snapshot"} /\ Q[i].task # None =>
                   LeavesOnly(a, Q, i, Q[i].task)
  <2>1. ASSUME LeavesOnly(a, P, i, Q[i].task) PROVE LeavesOnly(a, Q, i, Q[i].task)
    <3>1. i \in Nat /\ \A j \in 1..(i - 1) : Q[j] = P[j] BY <1>1
    <3>q. QED BY <2>1, <3>1, LeavesOnlyPrefix
  <2>2. CASE i = n + 1 BY <1>1, <1>s, <2>1, <2>2
  <2>3. CASE i # n + 1
    <3>1. i \in 1..n /\ Q[i] = P[i] BY <1>1, <2>3
    <3>2. /\ Begins(P[i]) => P[i].task \in Tasks
          /\ Ends(P[i]) => P[i].task \in ended
          /\ P[i].kind \in {"data", "snapshot"} /\ P[i].task # None =>
                LeavesOnly(a, P, i, P[i].task)
      BY <1>s, <3>1 DEF Honest
    <3>q. QED BY <2>1, <3>1, <3>2
  <2>q. QED BY <2>2, <2>3
<1>q. QED BY <1>1, <1>2 DEF Honest, Q

----------------------------------------------------------------------------
(* The robot: it ends a task before it runs another, and remembers the     *)
(* tasks it announced, each followed by its end unless it is the last.     *)

Remembers(ev, ended) ==
    \A i \in 1..Len(ev) :
        /\ ev[i].kind \in {"received", "completed"} /\ ev[i].task \in Tasks
        /\ ev[i].kind = "received" =>
              /\ i < Len(ev) => ev[i + 1].kind = "completed" /\ ev[i + 1].task = ev[i].task
              /\ \A j \in 1..Len(ev) :
                    ev[j].kind = "received" /\ ev[j].task = ev[i].task => i = j
        /\ ev[i].kind = "completed" =>
              /\ i > 1 /\ ev[i - 1].kind = "received" /\ ev[i - 1].task = ev[i].task
              /\ ev[i].task \in ended

RobotTyped ==
    robot \in [task : Tasks \cup {None}, busy : BOOLEAN, ended : SUBSET Tasks,
               events : Seq(Part)]

LastIsRun ==
    LET n == Len(robot.events) IN
    robot.busy /\ n > 0 /\ robot.events[n].kind = "received" =>
        robot.events[n].task = robot.task

RobotInv ==
    /\ RobotTyped
    /\ robot.busy => robot.task \in Tasks \ robot.ended
    /\ ~robot.busy /\ robot.task # None => robot.task \in robot.ended
    /\ Remembers(robot.events, robot.ended)
    /\ LastIsRun

LEMMA HeardIs ==
  ASSUME RobotTyped, NEW kind, NEW t
  PROVE  t \in Heard(kind) <=>
            \E i \in 1..Len(robot.events) :
                robot.events[i].kind = kind /\ robot.events[i].task = t
<1>1. DOMAIN robot.events = 1..Len(robot.events)
  BY LenProperties DEF RobotTyped
<1>q. QED BY <1>1 DEF Heard, ToSet

(* Once every other announced task was ended, the last event is an end or  *)
(* announces t. *)
LEMMA LastAnnounced ==
  ASSUME RobotInv, NEW t, Announced(t), Len(robot.events) > 0,
         robot.events[Len(robot.events)].kind = "received"
  PROVE  robot.events[Len(robot.events)].task = t
<1> DEFINE ev == robot.events
           n == Len(ev)
           u == ev[n].task
<1>1. n \in Nat /\ n \in 1..n BY LenProperties DEF RobotInv, RobotTyped
<1>2. u \in Heard("received") BY <1>1, HeardIs DEF RobotInv
<1>3. SUFFICES ASSUME u \in Heard("completed") PROVE FALSE BY <1>2 DEF Announced
<1>4. PICK i \in 1..n : ev[i].kind = "completed" /\ ev[i].task = u
  BY <1>3, HeardIs DEF RobotInv
<1>5. i > 1 /\ ev[i - 1].kind = "received" /\ ev[i - 1].task = u
  BY <1>4 DEF RobotInv, Remembers
<1>6. i - 1 \in 1..n /\ i - 1 # n BY <1>1, <1>4, <1>5
<1>q. QED BY <1>1, <1>5, <1>6 DEF RobotInv, Remembers

LEMMA LogMore ==
  ASSUME NEW ev \in Seq(Part), NEW ended, Remembers(ev, ended), NEW e \in Part,
         e.task \in Tasks,
         \/ /\ e.kind = "received"
            /\ Len(ev) > 0 => ev[Len(ev)].kind # "received"
            /\ \A j \in 1..Len(ev) : ev[j].kind = "received" => ev[j].task # e.task
         \/ /\ e.kind = "completed" /\ e.task \in ended
            /\ Len(ev) > 0 /\ ev[Len(ev)].kind = "received" /\ ev[Len(ev)].task = e.task
  PROVE  Remembers(Append(ev, e), ended)
<1> DEFINE n == Len(ev)
           w == Append(ev, e)
<1>1. /\ n \in Nat /\ w \in Seq(Part) /\ Len(w) = n + 1 /\ w[n + 1] = e
      /\ \A i \in 1..n : w[i] = ev[i]
  BY AppendProperties, LenProperties
<1>s. n = Len(ev) OBVIOUS
<1> HIDE DEF n, w
<1>2. ASSUME NEW i \in 1..(n + 1)
      PROVE  /\ w[i].kind \in {"received", "completed"} /\ w[i].task \in Tasks
             /\ w[i].kind = "received" =>
                   /\ i < n + 1 => w[i + 1].kind = "completed" /\ w[i + 1].task = w[i].task
                   /\ \A j \in 1..(n + 1) :
                         w[j].kind = "received" /\ w[j].task = w[i].task => i = j
             /\ w[i].kind = "completed" =>
                   /\ i > 1 /\ w[i - 1].kind = "received" /\ w[i - 1].task = w[i].task
                   /\ w[i].task \in ended
  <2>1. CASE i = n + 1
    <3>1. w[i] = e BY <1>1, <2>1
    <3>2. ASSUME e.kind = "received", NEW j \in 1..(n + 1),
                 w[j].kind = "received", w[j].task = e.task
          PROVE  j = i
      <4>1. CASE j \in 1..n BY <1>1, <1>s, <3>2, <4>1
      <4>q. QED BY <1>1, <2>1, <4>1
    <3>3. ASSUME e.kind = "completed"
          PROVE  i > 1 /\ w[i - 1].kind = "received" /\ w[i - 1].task = e.task /\ e.task \in ended
      <4>1. n > 0 /\ n \in 1..n /\ i - 1 = n BY <1>1, <1>s, <2>1, <3>3
      <4>2. w[n] = ev[n] BY <1>1, <4>1
      <4>q. QED BY <1>1, <1>s, <3>3, <4>1, <4>2
    <3>q. QED BY <1>1, <2>1, <3>1, <3>2, <3>3
  <2>2. CASE i # n + 1
    <3>1. i \in 1..n /\ w[i] = ev[i] BY <1>1, <2>2
    <3>2. w[i].kind \in {"received", "completed"} /\ w[i].task \in Tasks
      BY <1>s, <3>1 DEF Remembers
    <3>3. ASSUME w[i].kind = "received", i < n + 1
          PROVE  w[i + 1].kind = "completed" /\ w[i + 1].task = w[i].task
      <4>1. CASE i < n
        <5>1. i + 1 \in 1..n /\ w[i + 1] = ev[i + 1] BY <1>1, <3>1, <4>1
        <5>q. QED BY <1>s, <3>1, <3>3, <4>1, <5>1 DEF Remembers
      <4>2. CASE ~(i < n)
        <5>1. i = n /\ n > 0 /\ w[i + 1] = e BY <1>1, <3>1, <4>2
        <5>q. QED BY <1>s, <3>1, <3>3, <5>1
      <4>q. QED BY <4>1, <4>2
    <3>4. ASSUME w[i].kind = "received", NEW j \in 1..(n + 1),
                 w[j].kind = "received", w[j].task = w[i].task
          PROVE  i = j
      <4>1. CASE j \in 1..n
        <5>1. w[j] = ev[j] BY <1>1, <4>1
        <5>q. QED BY <1>s, <3>1, <3>4, <4>1, <5>1 DEF Remembers
      <4>2. CASE j \notin 1..n
        <5>1. w[j] = e BY <1>1, <4>2
        <5>q. QED BY <1>s, <3>1, <3>4, <5>1
      <4>q. QED BY <4>1, <4>2
    <3>5. ASSUME w[i].kind = "completed"
          PROVE  /\ i > 1 /\ w[i - 1].kind = "received" /\ w[i - 1].task = w[i].task
                 /\ w[i].task \in ended
      <4>1. /\ i > 1 /\ ev[i - 1].kind = "received" /\ ev[i - 1].task = ev[i].task
            /\ ev[i].task \in ended
        BY <1>s, <3>1, <3>5 DEF Remembers
      <4>2. i - 1 \in 1..n BY <1>1, <3>1, <4>1
      <4>q. QED BY <1>1, <3>1, <4>1, <4>2
    <3>q. QED BY <3>2, <3>3, <3>4, <3>5
  <2>q. QED BY <2>1, <2>2
<1>3. Len(w) = n + 1 BY <1>1
<1>4. Remembers(w, ended) BY <1>2, <1>3 DEF Remembers
<1>q. QED BY <1>4 DEF w

(* What the robot says in a step, and what that step makes of it.          *)
Told(p) ==
    /\ Begins(p) => p.task \in Tasks
    /\ Ends(p) => p.task \in robot'.ended
    /\ p.kind \in {"data", "snapshot"} /\ p.task # None => robot.busy /\ p.task = robot.task
    /\ robot'.busy =>
          \/ Opens(p, robot'.task)
          \/ robot.busy /\ robot.task = robot'.task /\ ~Begins(p)

Sends(p) ==
    /\ p \in Part /\ Send(p) /\ Told(p)
    /\ UNCHANGED <<up, parts, obs, runtime, replayed, attached>>

LEMMA RunsIs ==
  ASSUME RobotInv, NEW t \in Tasks, RobotRuns(t)
  PROVE  RobotInv' /\ robot.ended \subseteq robot'.ended /\ Sends(Say("running", t))
<1>1. /\ robot'.task = t /\ robot'.busy = TRUE /\ robot'.ended = robot.ended
      /\ robot'.events = robot.events /\ RobotTyped'
  BY DEF RobotRuns, RobotInv, RobotTyped
<1>2. t \notin robot.ended /\ Announced(t) /\ ~robot.busy BY DEF RobotRuns
<1>3. LastIsRun' BY <1>1, <1>2, LastAnnounced DEF LastIsRun
<1>4. RobotInv' BY <1>1, <1>2, <1>3 DEF RobotInv
<1>5. Say("running", t) \in Part /\ Opens(Say("running", t), t) /\ ~Ends(Say("running", t))
  BY DEF Say, Part, Kinds, Opens, Begins, Ends
<1>6. Told(Say("running", t)) BY <1>1, <1>5 DEF Told, Say
<1>q. QED BY <1>1, <1>4, <1>5, <1>6 DEF Sends, RobotRuns, RobotStep

LEMMA EndsRunIs ==
  ASSUME RobotInv, RobotEnds
  PROVE  RobotInv' /\ robot.ended \subseteq robot'.ended /\ Sends(Say("ended", robot.task))
<1>0. robot.busy /\ robot.task \in Tasks BY DEF RobotEnds, RobotInv
<1>1. /\ robot'.task = robot.task /\ robot'.busy = FALSE
      /\ robot'.ended = robot.ended \cup {robot.task}
      /\ robot'.events = robot.events /\ RobotTyped'
  BY <1>0 DEF RobotEnds, RobotInv, RobotTyped
<1>2. Remembers(robot.events, robot'.ended) BY <1>1 DEF RobotInv, Remembers
<1>3. RobotInv' BY <1>1, <1>2 DEF RobotInv, LastIsRun
<1>5. /\ Say("ended", robot.task) \in Part /\ ~Begins(Say("ended", robot.task))
      /\ Say("ended", robot.task).task = robot.task
      /\ Say("ended", robot.task).kind = "ended"
  BY <1>0 DEF Say, Part, Kinds, Begins
<1>6. Told(Say("ended", robot.task)) BY <1>1, <1>5 DEF Told
<1>q. QED BY <1>1, <1>3, <1>5, <1>6 DEF Sends, RobotEnds, RobotStep

LEMMA ReceivesIs ==
  ASSUME RobotInv, NEW t \in Tasks, RobotReceives(t)
  PROVE  RobotInv' /\ robot.ended \subseteq robot'.ended /\ Sends(Say("received", t))
<1> DEFINE e == Say("received", t)
           ev == robot.events
           n == Len(ev)
<1>0. ev \in Seq(Part) /\ n \in Nat BY LenProperties DEF RobotInv, RobotTyped
<1>1. /\ t \notin Heard("received") /\ t \notin robot.ended /\ Announced(t)
      /\ robot.busy => robot.task = t
  BY DEF RobotReceives
<1>2. /\ e \in Part /\ e.kind = "received" /\ e.task = t
      /\ Opens(e, t) /\ ~Ends(e) /\ e.kind \notin {"data", "snapshot"}
  BY DEF Say, Part, Kinds, Opens, Begins, Ends
<1> HIDE DEF e
<1>3. /\ robot'.task = robot.task /\ robot'.busy = robot.busy /\ robot'.ended = robot.ended
      /\ robot'.events = Append(ev, e)
  BY DEF RobotReceives, RobotLogs, RobotInv, RobotTyped, e
<1>4. Append(ev, e) \in Seq(Part) /\ Len(Append(ev, e)) = n + 1 /\ Append(ev, e)[n + 1] = e
  BY <1>0, <1>2, AppendProperties
<1>5. RobotTyped'
  BY <1>3, <1>4 DEF RobotReceives, RobotLogs, RobotInv, RobotTyped, e
<1>6. \A j \in 1..n : ev[j].kind = "received" => ev[j].task # t
  BY <1>1, HeardIs DEF RobotInv
<1>7. n > 0 => ev[n].kind # "received"
  <2>1. SUFFICES ASSUME n > 0, ev[n].kind = "received" PROVE FALSE OBVIOUS
  <2>2. ev[n].task = t BY <1>1, <2>1, LastAnnounced
  <2>3. n \in 1..n BY <1>0, <2>1
  <2>q. QED BY <1>6, <2>1, <2>2, <2>3
<1>8. Remembers(Append(ev, e), robot.ended)
  BY <1>0, <1>2, <1>6, <1>7, LogMore DEF RobotInv
<1>9. LastIsRun' BY <1>0, <1>1, <1>2, <1>3, <1>4 DEF LastIsRun
<1>10. RobotInv' BY <1>3, <1>5, <1>8, <1>9 DEF RobotInv
<1>11. Told(e) BY <1>1, <1>2, <1>3 DEF Told
<1>q. QED BY <1>2, <1>3, <1>10, <1>11 DEF Sends, RobotReceives, RobotLogs, RobotStep, e

LEMMA CompletesIs ==
  ASSUME RobotInv, NEW t \in Tasks, RobotCompletes(t)
  PROVE  RobotInv' /\ robot.ended \subseteq robot'.ended /\ Sends(Say("completed", t))
<1> DEFINE e == Say("completed", t)
           ev == robot.events
           n == Len(ev)
<1>0. ev \in Seq(Part) /\ n \in Nat BY LenProperties DEF RobotInv, RobotTyped
<1>1. t \in robot.ended /\ t \in Heard("received") /\ t \notin Heard("completed")
  BY DEF RobotCompletes
<1>2. /\ e \in Part /\ e.kind = "completed" /\ e.task = t
      /\ ~Begins(e) /\ e.kind \notin {"data", "snapshot"}
  BY DEF Say, Part, Kinds, Begins
<1> HIDE DEF e
<1>3. /\ robot'.task = robot.task /\ robot'.busy = robot.busy /\ robot'.ended = robot.ended
      /\ robot'.events = Append(ev, e)
  BY DEF RobotCompletes, RobotLogs, RobotInv, RobotTyped, e
<1>4. Append(ev, e) \in Seq(Part) /\ Len(Append(ev, e)) = n + 1 /\ Append(ev, e)[n + 1] = e
  BY <1>0, <1>2, AppendProperties
<1>5. RobotTyped'
  BY <1>3, <1>4 DEF RobotCompletes, RobotLogs, RobotInv, RobotTyped, e
<1>6. PICK i \in 1..n : ev[i].kind = "received" /\ ev[i].task = t
  BY <1>1, HeardIs DEF RobotInv
<1>7. i = n
  <2>1. SUFFICES ASSUME i < n PROVE FALSE BY <1>0, <1>6
  <2>2. ev[i + 1].kind = "completed" /\ ev[i + 1].task = t
    BY <1>6, <2>1 DEF RobotInv, Remembers
  <2>3. i + 1 \in 1..n BY <1>0, <1>6, <2>1
  <2>q. QED BY <1>1, <2>2, <2>3, HeardIs DEF RobotInv
<1>8. Remembers(Append(ev, e), robot.ended)
  BY <1>0, <1>1, <1>2, <1>6, <1>7, LogMore DEF RobotInv
<1>9. LastIsRun' BY <1>0, <1>2, <1>3, <1>4 DEF LastIsRun
<1>10. RobotInv' BY <1>3, <1>5, <1>8, <1>9 DEF RobotInv
<1>11. Told(e) BY <1>1, <1>2, <1>3 DEF Told
<1>q. QED BY <1>2, <1>3, <1>10, <1>11 DEF Sends, RobotCompletes, RobotLogs, RobotStep, e

(* The status a robot gives is that of the task it ran last. *)
LEMMA StatusIs ==
  ASSUME RobotInv
  PROVE  /\ Status \in Part /\ Status.kind \notin {"data", "snapshot"}
         /\ robot.busy => Opens(Status, robot.task) /\ robot.task \in Tasks
         /\ Begins(Status) => Status.task \in Tasks
         /\ Ends(Status) => Status.task \in robot.ended
<1>1. robot.task \in Tasks \cup {None} /\ robot.ended \subseteq Tasks
  BY DEF RobotInv, RobotTyped
<1>2. CASE robot.busy
  BY <1>1, <1>2 DEF Status, RobotInv, Say, Part, Kinds, Opens, Begins, Ends
<1>3. CASE ~robot.busy
  BY <1>1, <1>3 DEF Status, RobotInv, Say, Part, Kinds, Opens, Begins, Ends
<1>q. QED BY <1>2, <1>3

LEMMA ReportsIs ==
  ASSUME RobotInv, RobotReports
  PROVE  RobotInv' /\ robot' = robot /\ \E p \in {Say("data", Running), Status} : Sends(p)
<1>1. robot' = robot BY DEF RobotReports
<1>2. RobotInv'
  BY <1>1 DEF RobotInv, RobotTyped, LastIsRun, Remembers
<1>3. PICK p \in {Say("data", Running), Status} : Send(p) BY DEF RobotReports
<1>4. UNCHANGED <<up, parts, obs, runtime, replayed, attached>> BY DEF RobotReports, RobotStep
<1>5. Running \in Tasks \cup {None} /\ (Running # None => robot.busy /\ Running = robot.task)
  BY DEF Running, RobotInv, RobotTyped
<1>6. /\ Say("data", Running) \in Part /\ ~Begins(Say("data", Running))
      /\ ~Ends(Say("data", Running)) /\ Say("data", Running).task = Running
  BY <1>5 DEF Say, Part, Kinds, Begins, Ends
<1>7. p \in Part /\ Told(p)
  <2>1. CASE p = Status BY <1>1, <2>1, StatusIs DEF Told
  <2>2. CASE p = Say("data", Running) BY <1>1, <1>5, <1>6, <2>2 DEF Told
  <2>q. QED BY <1>3, <2>1, <2>2
<1>q. QED BY <1>1, <1>2, <1>3, <1>4, <1>7 DEF Sends

LEMMA RobotIs ==
  ASSUME RobotInv, Robot
  PROVE  RobotInv' /\ robot.ended \subseteq robot'.ended /\ \E p : Sends(p)
BY RunsIs, EndsRunIs, ReceivesIs, CompletesIs, ReportsIs DEF Robot

----------------------------------------------------------------------------
(* A decision that was given up stays given up.                            *)

Lost(o) == "lost" \in DOMAIN o /\ o.lost

LEMMA EnqueueLost ==
  ASSUME NEW o, Lost(o), NEW op, NEW t, NEW rec PROVE Lost(Enqueue(o, op, t, rec))
BY DEF Enqueue, Lost

LEMMA FinishTaskLost ==
  ASSUME NEW o, Lost(o), NEW t, NEW status PROVE Lost(FinishTask(o, t, status))
<1> DEFINE s == FinishSink(o, t)
<1>1. Lost(s) BY EnqueueLost DEF FinishSink
<1> HIDE DEF s
<1>2. Lost([s EXCEPT !.active = None, !.recs[o.dirs[t]].meta = status, !.dirs[t] = 0])
  BY <1>1 DEF Lost
<1>q. QED BY <1>2 DEF FinishTask, s

LEMMA EnsureTaskLost ==
  ASSUME NEW o, Lost(o), NEW t PROVE Lost(EnsureTask(o, t))
<1> DEFINE s == Superseded(o)
           n == Len(s.recs) + 1
           b == [s EXCEPT !.active = t, !.dirs[t] = n,
                          !.recs = Append(@, NewRecording(t))]
<1>1. Lost(s) BY FinishTaskLost DEF Superseded
<1> HIDE DEF s
<1>2. Lost(b) BY <1>1 DEF Lost
<1> HIDE DEF b
<1>3. Lost(Enqueue(b, "start", t, n)) BY <1>2, EnqueueLost
<1>q. QED BY <1>3 DEF EnsureTask, b, s

LEMMA HandledLost ==
  ASSUME NEW o, Lost(o), NEW p PROVE Lost(Handled(o, p))
<1>1. \A op, t : Lost(Publish(o, op, t)) BY EnqueueLost DEF Publish
<1>2. \A t : Lost(Publish(EnsureTask(o, t), "note", None))
  BY EnsureTaskLost, EnqueueLost DEF Publish
<1>3. \A t : Lost(FinishTask(Publish(o, "note", None), t, "completed"))
  BY <1>1, FinishTaskLost
<1>q. QED BY <1>1, <1>2, <1>3 DEF Handled

----------------------------------------------------------------------------
(* The directories hold the data of their own task, and of the kept plan.  *)

Purely(o) == \A i \in 1..Len(o.recs) : o.recs[i].others \subseteq {o.recs[i].kept}

(* The plan of the worker is of the task it records, or the kept one. *)
PlanFits(o, rt) ==
    rt.rec # 0 => /\ rt.rec \in 1..Len(o.recs)
                  /\ rt.plan \in {None, o.recs[rt.rec].task, o.recs[rt.rec].kept}

Pure(o, rt) == o.lost \/ (Purely(o) /\ PlanFits(o, rt))

LEMMA PureAfter ==
  ASSUME NEW o, Good(o), NEW rt, Pure(o, rt), NEW h, Good(h), o.lost => h.lost,
         \/ Quiet(o, h) \/ Anew(o, h)
         \/ \E status \in Endings : Over(o, h, status)
  PROVE  Pure(h, rt)
<1>1. SUFFICES ASSUME ~h.lost PROVE Purely(h) /\ PlanFits(h, rt)
  BY DEF Pure
<1>2. Purely(o) /\ PlanFits(o, rt) BY <1>1 DEF Pure
<1>3. CASE Quiet(o, h) BY <1>2, <1>3 DEF Quiet, Purely, PlanFits
<1>4. CASE Anew(o, h)
  <2>0. Len(o.recs) \in Nat BY DirOfIs
  <2>1. ASSUME NEW i \in 1..Len(h.recs) PROVE h.recs[i].others \subseteq {h.recs[i].kept}
    <3>1. CASE i = Len(o.recs) + 1 BY <1>4, <3>1 DEF Anew, NewRecording
    <3>2. CASE i # Len(o.recs) + 1
      <4>1. i \in 1..Len(o.recs) BY <1>4, <2>0, <3>2 DEF Anew
      <4>q. QED BY <1>2, <1>4, <4>1 DEF Anew, Alike, Purely
    <3>q. QED BY <3>1, <3>2
  <2>2. PlanFits(h, rt) BY <1>2, <1>4, <2>0 DEF Anew, Alike, PlanFits
  <2>q. QED BY <2>1, <2>2 DEF Purely
<1>5. ASSUME NEW status \in Endings, Over(o, h, status)
      PROVE  Purely(h) /\ PlanFits(h, rt)
  <2>1. \A i \in 1..Len(o.recs) : o.recs[i] \in Recording
    BY ElementOfSeq DEF Good, Observer
  <2>2. Len(h.recs) = Len(o.recs) BY <1>5 DEF Over
  <2>3. ASSUME NEW i \in 1..Len(o.recs) PROVE Alike(h.recs[i], o.recs[i])
    <3>1. h.recs[i] \in {o.recs[i], [o.recs[i] EXCEPT !.meta = status]}
      BY <1>5 DEF Over
    <3>2. o.recs[i] \in Recording BY <2>1
    <3>q. QED BY <3>1, <3>2 DEF Recording, Alike
  <2>q. QED BY <1>2, <2>2, <2>3 DEF Alike, Purely, PlanFits
<1>q. QED BY <1>3, <1>4, <1>5

----------------------------------------------------------------------------
(* The end of the sidecar.                                                 *)

Stopped(o) == Publish(FinishTask(o, o.active, "sidecar_stopped"), "stop", None)

LEMMA StoppedIs ==
  ASSUME NEW o, Good(o)
  PROVE  /\ Good(Stopped(o)) /\ Stopped(o).active = None
         /\ Quiet(o, Stopped(o)) \/ Over(o, Stopped(o), "sidecar_stopped")
         /\ Len(Stopped(o).recs) = Len(o.recs)
<1> DEFINE f == FinishTask(o, o.active, "sidecar_stopped")
           h == Publish(f, "stop", None)
<1>0. "stop" \in Ops /\ "sidecar_stopped" \in Endings BY DEF Ops, Endings
<1>1. CASE o.active = None
  <2>1. f = o BY <1>1 DEF FinishTask
  <2>q. QED BY <1>0, <1>1, <2>1, PublishIs DEF Quiet, Stopped
<1>2. CASE o.active # None
  <2>1. /\ Good(f) /\ f.active = None /\ Len(f.recs) = Len(o.recs)
        /\ \A i \in 1..Len(o.recs) :
               f.recs[i] = IF i = DirOf(o) THEN [o.recs[i] EXCEPT !.meta = "sidecar_stopped"]
                           ELSE o.recs[i]
    BY <1>0, <1>2, FinishTaskIs
  <2> HIDE DEF f
  <2>2. Good(h) /\ Quiet(f, h) BY <1>0, <2>1, PublishIs
  <2> HIDE DEF h
  <2>3. Over(o, h, "sidecar_stopped") /\ h.active = None /\ Len(h.recs) = Len(o.recs)
    BY <1>2, <2>1, <2>2 DEF Over, Quiet
  <2>q. QED BY <2>2, <2>3 DEF Stopped, h, f
<1>q. QED BY <1>1, <1>2

LEMMA StoppedLeads ==
  ASSUME NEW o, Good(o), NEW rt \in Runtime, Guided(o, rt, Target(o)), NoStops(o.queue)
  PROVE  \E goal : Guided(Stopped(o), rt, goal)
<1> DEFINE f == FinishTask(o, o.active, "sidecar_stopped")
<1>0. "stop" \in Ops /\ "sidecar_stopped" \in Endings
      /\ "stop" \notin {"data", "start"}
      /\ 0 \in 0..MaxRecordings /\ None \in Tasks \cup {None}
  BY ObserverAssumption DEF Ops, Endings
<1>1. Good(f) /\ Guided(f, rt, Target(f)) /\ NoStops(f.queue)
  <2>1. CASE o.active = None
    <3>1. f = o BY <2>1 DEF FinishTask
    <3>q. QED BY <3>1
  <2>2. CASE o.active # None BY <1>0, <2>2, FinishTaskIs, FinishLeads
  <2>q. QED BY <2>1, <2>2
<1> HIDE DEF f
<1>2. f \in Observer /\ Len(f.queue) <= QueueSize BY <1>1 DEF Good
<1>3. Guided(Enqueue(f, "stop", None, 0), rt, Aim(Target(f), Tell("stop", None, 0)))
  BY <1>0, <1>1, <1>2, EnqueueLeads
<1>q. QED BY <1>3 DEF Stopped, Publish, f

LEMMA StoppedLost ==
  ASSUME NEW o, Lost(o) PROVE Lost(Stopped(o))
BY FinishTaskLost, EnqueueLost DEF Stopped, Publish

----------------------------------------------------------------------------
(* One command of the Rerun worker, and a camera frame.                    *)

Ran(o, rt) ==
    LET cmd == Head(o.queue) IN
    [o EXCEPT !.queue = Tail(@),
              !.recs = IF cmd.op = "data" /\ rt.rec # 0
                       THEN [o.recs EXCEPT ![rt.rec] = Logged(@, cmd.task)]
                       ELSE IF cmd.op = "start"
                       THEN [o.recs EXCEPT ![cmd.rec].kept = rt.plan]
                       ELSE @]

Framed(o, rt) == [o EXCEPT !.recs[rt.rec] = Logged(@, rt.plan)]

LEMMA LoggedIs ==
  ASSUME NEW rec \in Recording, NEW t \in Tasks \cup {None}
  PROVE  /\ Logged(rec, t) \in Recording
         /\ Logged(rec, t).task = rec.task /\ Logged(rec, t).meta = rec.meta
         /\ Logged(rec, t).kept = rec.kept
         /\ Logged(rec, t).others = rec.others \cup ({t} \ {None, rec.task})
BY DEF Logged, Recording

(* A recording, and the directories and the queue, put in place. *)
With(recs, r, e) == [recs EXCEPT ![r] = e]
Holding(o, q, w) == [o EXCEPT !.queue = q, !.recs = w]

LEMMA Replaced ==
  ASSUME NEW recs \in Seq(Recording), NEW r, NEW e, r \in 1..Len(recs) => e \in Recording,
         NEW w, w = With(recs, r, e)
  PROVE  /\ w \in Seq(Recording) /\ Len(w) = Len(recs)
         /\ \A i \in 1..Len(recs) : w[i] = IF i = r THEN e ELSE recs[i]
<1>1. CASE r \in 1..Len(recs) BY <1>1, ExceptSeq DEF With
<1>2. CASE r \notin 1..Len(recs)
  <2>1. DOMAIN recs = 1..Len(recs) /\ recs = [i \in 1..Len(recs) |-> recs[i]]
    BY LenProperties
  <2>2. w = recs BY <1>2, <2>1 DEF With
  <2>3. ASSUME NEW i \in 1..Len(recs) PROVE w[i] = IF i = r THEN e ELSE recs[i]
    <3>1. i # r BY <1>2
    <3>2. w[i] = recs[i] BY <2>2, Zenon
    <3>q. QED BY <3>1, <3>2
  <2>4. w \in Seq(Recording) /\ Len(w) = Len(recs) BY <2>2
  <2>q. QED BY <2>3, <2>4
<1>q. QED BY <1>1, <1>2

(* Nothing of the observer's own changes with what is in the recordings. *)
LEMMA GoodWith ==
  ASSUME NEW o, Good(o), NEW q \in Seq(Command), Len(q) <= QueueSize,
         NEW w \in Seq(Recording), Len(w) = Len(o.recs),
         \A i \in 1..Len(w) : w[i].task = o.recs[i].task /\ w[i].meta = o.recs[i].meta,
         NEW h, h = Holding(o, q, w)
  PROVE  /\ Good(h) /\ h.active = o.active /\ h.dirs = o.dirs /\ h.lost = o.lost
         /\ h.queue = q /\ h.recs = w
<1>1. o \in Observer BY DEF Good
<1>2. /\ h.active = o.active /\ h.dirs = o.dirs /\ h.lost = o.lost
      /\ h.queue = q /\ h.recs = w /\ h \in Observer
  BY <1>1 DEF Observer, Holding
<1>3. Registry(h) BY <1>2 DEF Good, Registry, DirOf
<1>q. QED BY <1>2, <1>3 DEF Good

LEMMA RanIs ==
  ASSUME NEW o, Good(o), NEW rt \in Runtime, o.queue # <<>>
  PROVE  LET h == Ran(o, rt)
             c == Head(o.queue)
         IN
         /\ c \in Command
         /\ Good(h)
         /\ h.active = o.active /\ h.dirs = o.dirs /\ (h.lost <=> o.lost)
         /\ h.queue = Tail(o.queue)
         /\ Len(h.recs) = Len(o.recs)
         /\ \A i \in 1..Len(o.recs) :
               /\ h.recs[i].task = o.recs[i].task /\ h.recs[i].meta = o.recs[i].meta
               /\ IF c.op = "data" /\ rt.rec = i
                  THEN h.recs[i].others = o.recs[i].others
                                             \cup ({c.task} \ {None, o.recs[i].task})
                  ELSE h.recs[i].others = o.recs[i].others
               /\ IF c.op = "start" /\ c.rec = i
                  THEN h.recs[i].kept = rt.plan
                  ELSE h.recs[i].kept = o.recs[i].kept
<1> DEFINE h == Ran(o, rt)
           c == Head(o.queue)
           r == rt.rec
           x == Logged(o.recs[r], c.task)
           y == [o.recs[c.rec] EXCEPT !.kept = rt.plan]
           u == [o.recs EXCEPT ![r] = x]
           v == [o.recs EXCEPT ![c.rec] = y]
           w == IF c.op = "data" /\ r # 0 THEN u ELSE IF c.op = "start" THEN v ELSE o.recs
<1>1. /\ o \in Observer /\ Len(o.queue) <= QueueSize
      /\ o.queue \in Seq(Command) /\ o.recs \in Seq(Recording)
  BY DEF Good, Observer
<1>2. c \in Command /\ Tail(o.queue) \in Seq(Command) /\ Len(Tail(o.queue)) = Len(o.queue) - 1
  BY <1>1, HeadTailProperties
<1>3. Len(Tail(o.queue)) <= QueueSize
  BY <1>1, <1>2, ObserverAssumption, LenProperties
<1>4. c.task \in Tasks \cup {None} /\ rt.plan \in Tasks \cup {None} BY <1>2 DEF Command, Runtime
<1>5. \A i \in 1..Len(o.recs) : o.recs[i] \in Recording BY <1>1, ElementOfSeq
<1>6. /\ u \in Seq(Recording) /\ Len(u) = Len(o.recs)
      /\ \A i \in 1..Len(o.recs) :
            u[i] = IF i = r THEN x ELSE o.recs[i]
  <2>1. r \in 1..Len(o.recs) => x \in Recording BY <1>4, <1>5, LoggedIs
  <2> HIDE DEF x, r
  <2> DEFINE z == u
  <2>2. z = With(o.recs, r, x) BY DEF With
  <2> HIDE DEF z
  <2>3. /\ z \in Seq(Recording) /\ Len(z) = Len(o.recs)
        /\ \A i \in 1..Len(o.recs) : z[i] = IF i = r THEN x ELSE o.recs[i]
    BY <1>1, <2>1, <2>2, Replaced
  <2>q. QED BY <2>3 DEF z
<1>7. \A i \in 1..Len(o.recs) :
         LET e == [o.recs[i] EXCEPT !.kept = rt.plan] IN
         /\ e \in Recording /\ e.task = o.recs[i].task /\ e.meta = o.recs[i].meta
         /\ e.others = o.recs[i].others /\ e.kept = rt.plan
  BY <1>4, <1>5 DEF Recording
<1>8. /\ v \in Seq(Recording) /\ Len(v) = Len(o.recs)
      /\ \A i \in 1..Len(o.recs) :
            v[i] = IF i = c.rec THEN y ELSE o.recs[i]
  <2>1. c.rec \in 1..Len(o.recs) => y \in Recording BY <1>7
  <2> DEFINE k == c.rec
             z == v
  <2>2. z = With(o.recs, k, y) /\ (k \in 1..Len(o.recs) => y \in Recording)
    BY <2>1 DEF With
  <2> HIDE DEF y, k, z
  <2>3. /\ z \in Seq(Recording) /\ Len(z) = Len(o.recs)
        /\ \A i \in 1..Len(o.recs) : z[i] = IF i = k THEN y ELSE o.recs[i]
    BY <1>1, <2>2, Replaced
  <2>q. QED BY <2>3 DEF k, z
<1> HIDE DEF u, v, c, r
<1>9. /\ w \in Seq(Recording) /\ Len(w) = Len(o.recs)
      /\ \A i \in 1..Len(o.recs) :
               /\ w[i].task = o.recs[i].task /\ w[i].meta = o.recs[i].meta
               /\ IF c.op = "data" /\ r = i
                  THEN w[i].others = o.recs[i].others \cup ({c.task} \ {None, o.recs[i].task})
                  ELSE w[i].others = o.recs[i].others
               /\ IF c.op = "start" /\ c.rec = i THEN w[i].kept = rt.plan
                  ELSE w[i].kept = o.recs[i].kept
  <2>1. CASE c.op = "data" /\ r # 0
    <3>1. w = u BY <2>1
    <3> HIDE DEF w
    <3>2. ASSUME NEW i \in 1..Len(o.recs), i = r
          PROVE  /\ w[i].task = o.recs[i].task /\ w[i].meta = o.recs[i].meta
                 /\ w[i].others = o.recs[i].others \cup ({c.task} \ {None, o.recs[i].task})
                 /\ w[i].kept = o.recs[i].kept
      <4>1. w[i] = Logged(o.recs[i], c.task) BY <1>6, <3>1, <3>2 DEF x
      <4>2. o.recs[i] \in Recording BY <1>5
      <4>q. QED BY <1>4, <4>1, <4>2, LoggedIs
    <3>3. \A i \in 1..Len(o.recs) : i # r => w[i] = o.recs[i] BY <1>6, <3>1
    <3>q. QED BY <1>6, <2>1, <3>1, <3>2, <3>3
  <2>2. CASE ~(c.op = "data" /\ r # 0) /\ c.op = "start"
    <3>1. w = v BY <2>2
    <3> HIDE DEF w
    <3>2. ASSUME NEW i \in 1..Len(o.recs), i = c.rec
          PROVE  /\ w[i].task = o.recs[i].task /\ w[i].meta = o.recs[i].meta
                 /\ w[i].others = o.recs[i].others /\ w[i].kept = rt.plan
      <4>1. w[i] = [o.recs[i] EXCEPT !.kept = rt.plan] BY <1>8, <3>1, <3>2 DEF y
      <4>q. QED BY <1>7, <4>1
    <3>3. \A i \in 1..Len(o.recs) : i # c.rec => w[i] = o.recs[i] BY <1>8, <3>1
    <3>q. QED BY <1>8, <2>2, <3>1, <3>2, <3>3
  <2>3. CASE ~(c.op = "data" /\ r # 0) /\ c.op # "start"
    <3>1. w = o.recs BY <2>3
    <3> HIDE DEF w
    <3>2. \A i \in 1..Len(o.recs) : i # 0 OBVIOUS
    <3>q. QED BY <1>1, <2>3, <3>1, <3>2
  <2>q. QED BY <2>1, <2>2, <2>3
<1>10. h = [o EXCEPT !.queue = Tail(o.queue), !.recs = w]
  <2>1. h = [o EXCEPT !.queue = Tail(o.queue),
                      !.recs = IF c.op = "data" /\ r # 0
                               THEN [o.recs EXCEPT ![r] = Logged(o.recs[r], c.task)]
                               ELSE IF c.op = "start"
                               THEN [o.recs EXCEPT ![c.rec].kept = rt.plan]
                               ELSE o.recs]
    BY DEF Ran, c, r
  <2> HIDE DEF h
  <2>q. QED BY <2>1 DEF u, v, x, y
<1> HIDE DEF w, h
<1>11. /\ Good(h) /\ h.active = o.active /\ h.dirs = o.dirs /\ h.lost = o.lost
       /\ h.queue = Tail(o.queue) /\ h.recs = w
  <2> DEFINE q == Tail(o.queue)
  <2>1. q \in Seq(Command) /\ Len(q) <= QueueSize /\ h = Holding(o, q, w)
    BY <1>2, <1>3, <1>10 DEF Holding
  <2>2. w \in Seq(Recording) /\ Len(w) = Len(o.recs)
        /\ \A i \in 1..Len(w) : w[i].task = o.recs[i].task /\ w[i].meta = o.recs[i].meta
    BY <1>9
  <2> HIDE DEF q
  <2>3. /\ Good(h) /\ h.active = o.active /\ h.dirs = o.dirs /\ h.lost = o.lost
        /\ h.queue = q /\ h.recs = w
    BY <2>1, <2>2, GoodWith
  <2>q. QED BY <2>3 DEF q
<1>q. QED BY <1>2, <1>9, <1>11 DEF h, c, r

LEMMA FramedIs ==
  ASSUME NEW o, Good(o), NEW rt \in Runtime
  PROVE  LET h == Framed(o, rt) IN
         /\ Good(h)
         /\ h.active = o.active /\ h.dirs = o.dirs /\ (h.lost <=> o.lost)
         /\ h.queue = o.queue /\ Len(h.recs) = Len(o.recs)
         /\ \A i \in 1..Len(o.recs) :
               /\ h.recs[i].task = o.recs[i].task /\ h.recs[i].meta = o.recs[i].meta
               /\ h.recs[i].kept = o.recs[i].kept
               /\ IF i = rt.rec
                  THEN h.recs[i].others = o.recs[i].others
                                             \cup ({rt.plan} \ {None, o.recs[i].task})
                  ELSE h.recs[i].others = o.recs[i].others
<1> DEFINE h == Framed(o, rt)
           r == rt.rec
           x == Logged(o.recs[r], rt.plan)
           w == [o.recs EXCEPT ![r] = x]
<1>1. /\ o \in Observer /\ Len(o.queue) <= QueueSize
      /\ o.queue \in Seq(Command) /\ o.recs \in Seq(Recording)
  BY DEF Good, Observer
<1>2. rt.plan \in Tasks \cup {None} BY DEF Runtime
<1>3. \A i \in 1..Len(o.recs) : o.recs[i] \in Recording BY <1>1, ElementOfSeq
<1>4. /\ w \in Seq(Recording) /\ Len(w) = Len(o.recs)
      /\ \A i \in 1..Len(o.recs) :
            w[i] = IF i = r THEN x ELSE o.recs[i]
  <2>1. r \in 1..Len(o.recs) => x \in Recording BY <1>2, <1>3, LoggedIs
  <2> HIDE DEF x, r
  <2> DEFINE z == w
  <2>2. z = With(o.recs, r, x) BY DEF With
  <2> HIDE DEF z
  <2>3. /\ z \in Seq(Recording) /\ Len(z) = Len(o.recs)
        /\ \A i \in 1..Len(o.recs) : z[i] = IF i = r THEN x ELSE o.recs[i]
    BY <1>1, <2>1, <2>2, Replaced
  <2>q. QED BY <2>3 DEF z
<1>5. h = [o EXCEPT !.queue = o.queue, !.recs = w]
  <2>1. h = [o EXCEPT !.recs = w] BY Zenon DEF Framed
  <2>2. [o EXCEPT !.recs = w] = [o EXCEPT !.queue = o.queue, !.recs = w]
    BY <1>1 DEF Observer
  <2>q. QED BY <2>1, <2>2
<1> HIDE DEF w, h
<1>6. ASSUME NEW i \in 1..Len(o.recs)
      PROVE  /\ w[i].task = o.recs[i].task /\ w[i].meta = o.recs[i].meta
             /\ w[i].kept = o.recs[i].kept
             /\ IF i = r
                THEN w[i].others = o.recs[i].others \cup ({rt.plan} \ {None, o.recs[i].task})
                ELSE w[i].others = o.recs[i].others
  <2>1. CASE i = r BY <1>2, <1>3, <1>4, <2>1, LoggedIs
  <2>2. CASE i # r
    <3>1. w[i] = o.recs[i] BY <1>4, <2>2
    <3>q. QED BY <2>2, <3>1
  <2>q. QED BY <2>1, <2>2
<1>7. /\ Good(h) /\ h.active = o.active /\ h.dirs = o.dirs /\ h.lost = o.lost
      /\ h.queue = o.queue /\ h.recs = w
  <2>1. \A i \in 1..Len(w) : w[i].task = o.recs[i].task /\ w[i].meta = o.recs[i].meta
    BY <1>4, <1>6
  <2> DEFINE q == o.queue
  <2>2. q \in Seq(Command) /\ Len(q) <= QueueSize /\ h = Holding(o, q, w)
    BY <1>1, <1>5 DEF Holding
  <2> HIDE DEF q
  <2>3. /\ Good(h) /\ h.active = o.active /\ h.dirs = o.dirs /\ h.lost = o.lost
        /\ h.queue = q /\ h.recs = w
    BY <1>4, <2>1, <2>2, GoodWith
  <2>q. QED BY <2>3 DEF q
<1>q. QED BY <1>4, <1>6, <1>7 DEF h, r

LEMMA RanLeads ==
  ASSUME NEW o, Good(o), NEW rt \in Runtime, o.queue # <<>>, NEW goal, Guided(o, rt, goal),
         NEW r \in Outcomes(rt, Head(o.queue))
  PROVE  /\ Guided(Ran(o, rt), r, goal)
         /\ Pure(o, rt) => Pure(Ran(o, rt), r)
         /\ NoStops(o.queue) => NoStops(Ran(o, rt).queue)
<1> DEFINE h == Ran(o, rt)
           c == Head(o.queue)
           q == o.queue
<1>1. /\ c \in Command /\ (h.lost <=> o.lost)
      /\ h.queue = Tail(q) /\ Len(h.recs) = Len(o.recs)
      /\ \A i \in 1..Len(o.recs) :
               /\ h.recs[i].task = o.recs[i].task
               /\ IF c.op = "data" /\ rt.rec = i
                  THEN h.recs[i].others = o.recs[i].others
                                             \cup ({c.task} \ {None, o.recs[i].task})
                  ELSE h.recs[i].others = o.recs[i].others
               /\ IF c.op = "start" /\ c.rec = i
                  THEN h.recs[i].kept = rt.plan
                  ELSE h.recs[i].kept = o.recs[i].kept
  BY RanIs
<1>2. q \in Seq(Command) /\ Len(q) \in Nat \ {0} /\ c = q[1] /\ Tail(q) \in Seq(Command)
      /\ Len(Tail(q)) = Len(q) - 1 /\ \A i \in 1..(Len(q) - 1) : Tail(q)[i] = q[i + 1]
  BY EmptySeq, HeadTailProperties DEF Good, Observer
<1>3. Len(o.recs) \in Nat BY DirOfIs
<1>4. /\ r \in Runtime
      /\ r.rec \in {0, rt.rec} \/ (c.op = "start" /\ r.rec = c.rec)
      /\ r.plan = rt.plan \/ (c.op = "data" /\ r.plan = c.task)
      /\ c.op = "data" => r.rec = rt.rec
  BY <1>1, OutcomeIs
<1>5. ~o.lost => Leads(q, o.recs, rt, goal) BY DEF Guided
<1>6. /\ rt.rec \in Nat /\ r.rec \in Nat /\ c.rec \in Nat BY <1>1, <1>4 DEF Runtime, Command
<1> HIDE DEF h, c
<1>7. ASSUME ~o.lost
      PROVE  /\ c.op = "data" /\ rt.rec # 0 =>
                   rt.rec \in 1..Len(o.recs) /\ c.task \in {o.recs[rt.rec].task, None}
             /\ c.op = "start" => c.rec \in 1..Len(o.recs) /\ o.recs[c.rec].others = {}
  <2>1. 1 \in 1..Len(q) /\ 1 - 1 = 0 /\ 0 \in 0..Len(q) BY <1>2
  <2>2. PICK f : f[0] = rt /\ Onward(f, q, 0) BY <1>5, <1>7, <2>1 DEF Leads, Walks
  <2>3. Runs(f, rt, q)
    <3>1. \A i \in 1..Len(q) : f[i] = Applied(f[i - 1], q[i]) BY <2>2 DEF Onward
    <3>2. \A i \in 1..Len(q) : f[i] \in Outcomes(f[i - 1], q[i]) BY <3>1 DEF Outcomes
    <3>q. QED BY <2>2, <3>2 DEF Runs
  <2>4. Belongs(f, q, o.recs) BY <1>5, <1>7, <2>3 DEF Leads
  <2>5. c.op = "data" /\ rt.rec # 0 =>
           rt.rec \in 1..Len(o.recs) /\ c.task \in {o.recs[rt.rec].task, None}
    BY <1>2, <2>1, <2>2, <2>4 DEF Belongs
  <2>6. c.op = "start" => rt.rec < c.rec /\ c.rec <= Len(o.recs) /\ o.recs[c.rec].others = {}
    BY <1>2, <1>5, <1>7, <2>1 DEF Leads, Waiting
  <2>q. QED BY <1>3, <1>6, <2>5, <2>6
<1>8. ~o.lost => \A i \in 1..Len(o.recs) : h.recs[i].others = o.recs[i].others
  <2> SUFFICES ASSUME ~o.lost, NEW i \in 1..Len(o.recs)
               PROVE  h.recs[i].others = o.recs[i].others
    OBVIOUS
  <2>1. CASE c.op = "data" /\ rt.rec = i
    <3>1. {c.task} \ {None, o.recs[i].task} = {} BY <1>3, <1>7, <2>1
    <3>q. QED BY <1>1, <2>1, <3>1
  <2>2. CASE ~(c.op = "data" /\ rt.rec = i) BY <1>1, <2>2
  <2>q. QED BY <2>1, <2>2
<1>9. Guided(h, r, goal)
  <2>1. CASE o.lost BY <1>1, <2>1 DEF Guided
  <2>2. CASE ~o.lost
    <3>1. Leads(Tail(q), o.recs, r, goal) BY <1>2, <1>3, <1>5, <2>2, LeadsTail DEF c
    <3>2. Len(h.recs) = Len(o.recs) /\ r.rec \in Nat /\ Tail(q) \in Seq(Command)
          /\ \A i \in 1..Len(o.recs) :
                h.recs[i].task = o.recs[i].task /\ h.recs[i].others = o.recs[i].others
      BY <1>1, <1>2, <1>6, <1>8, <2>2
    <3> DEFINE t == Tail(q)
    <3> HIDE DEF t
    <3>3. t \in Seq(Command) /\ Leads(t, o.recs, r, goal) BY <3>1, <3>2 DEF t
    <3>4. Leads(t, h.recs, r, goal) BY <1>3, <3>2, <3>3, LeadsLater
    <3>q. QED BY <1>1, <3>4 DEF Guided, t
  <2>q. QED BY <2>1, <2>2
<1>10. ASSUME Pure(o, rt) PROVE Pure(h, r)
  <2>1. CASE o.lost BY <1>1, <2>1 DEF Pure
  <2>2. CASE ~o.lost
    <3>1. Purely(o) /\ PlanFits(o, rt) BY <1>10, <2>2 DEF Pure
    <3>2. Purely(h)
      <4>1. ASSUME NEW i \in 1..Len(o.recs)
            PROVE  h.recs[i].others \subseteq {h.recs[i].kept}
        <5>1. h.recs[i].others = o.recs[i].others BY <1>8, <2>2
        <5>2. CASE c.op = "start" /\ c.rec = i BY <1>7, <2>2, <5>1, <5>2
        <5>3. CASE ~(c.op = "start" /\ c.rec = i)
          <6>1. h.recs[i].kept = o.recs[i].kept BY <1>1, <5>3
          <6>q. QED BY <3>1, <5>1, <6>1 DEF Purely
        <5>q. QED BY <5>2, <5>3
      <4>q. QED BY <1>1, <4>1 DEF Purely
    <3>3. ASSUME r.rec # 0
          PROVE  r.rec \in 1..Len(o.recs)
                 /\ r.plan \in {None, h.recs[r.rec].task, h.recs[r.rec].kept}
      <4>1. CASE c.op = "start" /\ r.rec = c.rec
        <5>1. r.plan = rt.plan /\ r.rec \in 1..Len(o.recs) BY <1>4, <1>7, <2>2, <4>1
        <5>2. h.recs[r.rec].kept = rt.plan BY <1>1, <4>1, <5>1
        <5>q. QED BY <5>1, <5>2
      <4>2. CASE ~(c.op = "start" /\ r.rec = c.rec)
        <5>1. r.rec = rt.rec /\ rt.rec # 0 BY <1>4, <3>3, <4>2
        <5>2. /\ rt.rec \in 1..Len(o.recs)
              /\ rt.plan \in {None, o.recs[rt.rec].task, o.recs[rt.rec].kept}
          BY <3>1, <5>1 DEF PlanFits
        <5>3. /\ h.recs[rt.rec].task = o.recs[rt.rec].task
              /\ h.recs[rt.rec].kept = o.recs[rt.rec].kept
          BY <1>1, <4>2, <5>1, <5>2
        <5>4. r.plan \in {rt.plan, None, o.recs[rt.rec].task} BY <1>4, <1>7, <2>2, <5>1
        <5>q. QED BY <5>1, <5>2, <5>3, <5>4
      <4>q. QED BY <4>1, <4>2
    <3>q. QED BY <1>1, <3>2, <3>3 DEF Pure, PlanFits
  <2>q. QED BY <2>1, <2>2
<1>11. ASSUME NoStops(q) PROVE NoStops(h.queue)
  <2>1. \A i \in 1..(Len(q) - 1) : i + 1 \in 1..Len(q) BY <1>2
  <2>q. QED BY <1>1, <1>2, <1>11, <2>1 DEF NoStops
<1>q. QED BY <1>9, <1>10, <1>11 DEF h, c

(* The plan drawn on a camera frame leaves the recording pure. *)
LEMMA FramedLeads ==
  ASSUME NEW o, Good(o), NEW rt \in Runtime, NEW goal, Guided(o, rt, goal), rt.rec # 0
  PROVE  /\ Guided(Framed(o, rt), rt, goal)
         /\ Pure(o, rt) => Pure(Framed(o, rt), rt)
<1> DEFINE h == Framed(o, rt)
<1>1. /\ (h.lost <=> o.lost) /\ h.queue = o.queue /\ Len(h.recs) = Len(o.recs)
      /\ \A i \in 1..Len(o.recs) :
               /\ h.recs[i].task = o.recs[i].task
               /\ h.recs[i].kept = o.recs[i].kept
               /\ IF i = rt.rec
                  THEN h.recs[i].others = o.recs[i].others
                                             \cup ({rt.plan} \ {None, o.recs[i].task})
                  ELSE h.recs[i].others = o.recs[i].others
  BY FramedIs
<1>2. o.queue \in Seq(Command) /\ Len(o.recs) \in Nat /\ rt.rec \in Nat
  BY DirOfIs DEF Good, Observer, Runtime
<1> HIDE DEF h
<1>3. Guided(h, rt, goal)
  <2>1. CASE o.lost BY <1>1, <2>1 DEF Guided
  <2>2. CASE ~o.lost
    <3>1. Leads(o.queue, o.recs, rt, goal) BY <2>2 DEF Guided
    <3>2. \A i \in 1..Len(o.recs) : i > rt.rec => i # rt.rec BY <1>2
    <3>4. /\ Len(h.recs) \in Nat /\ Len(o.recs) <= Len(h.recs)
          /\ \A i \in 1..Len(o.recs) :
                /\ h.recs[i].task = o.recs[i].task
                /\ i > rt.rec => h.recs[i].others = o.recs[i].others
      BY <1>1, <1>2, <3>2
    <3>3. Leads(o.queue, h.recs, rt, goal) BY <1>2, <3>1, <3>4, LeadsLater
    <3>q. QED BY <1>1, <3>3 DEF Guided
  <2>q. QED BY <2>1, <2>2
<1>4. ASSUME Pure(o, rt) PROVE Pure(h, rt)
  <2>1. CASE o.lost BY <1>1, <2>1 DEF Pure
  <2>2. CASE ~o.lost
    <3>1. Purely(o) /\ PlanFits(o, rt) BY <1>4, <2>2 DEF Pure
    <3>2. /\ rt.rec \in 1..Len(o.recs)
          /\ rt.plan \in {None, o.recs[rt.rec].task, o.recs[rt.rec].kept}
      BY <3>1 DEF PlanFits
    <3>3. Purely(h)
      <4>1. ASSUME NEW i \in 1..Len(o.recs)
            PROVE  h.recs[i].others \subseteq {h.recs[i].kept}
        <5>1. o.recs[i].others \subseteq {o.recs[i].kept} BY <3>1 DEF Purely
        <5>2. CASE i = rt.rec
          <6>1. /\ h.recs[i].kept = o.recs[i].kept
                /\ h.recs[i].others = o.recs[i].others \cup ({rt.plan} \ {None, o.recs[i].task})
            BY <1>1, <5>2
          <6>2. rt.plan \in {None, o.recs[i].task, o.recs[i].kept} BY <3>2, <5>2
          <6>q. QED BY <5>1, <6>1, <6>2
        <5>3. CASE i # rt.rec
          <6>1. h.recs[i].others = o.recs[i].others /\ h.recs[i].kept = o.recs[i].kept
            BY <1>1, <5>3
          <6>q. QED BY <5>1, <6>1
        <5>q. QED BY <5>2, <5>3
      <4>q. QED BY <1>1, <4>1 DEF Purely
    <3>4. PlanFits(h, rt) BY <1>1, <3>2 DEF PlanFits
    <3>q. QED BY <3>3, <3>4 DEF Pure
  <2>q. QED BY <2>1, <2>2
<1>q. QED BY <1>3, <1>4 DEF h

----------------------------------------------------------------------------
(* The inductive invariant.                                                *)

Pending == Flow(parts, stream)

StreamInv ==
    /\ Unread(parts, stream) /\ Len(stream) <= MaxStream
    /\ up # "up" => stream = <<>> /\ parts = <<>>
    /\ Honest(obs.active, Pending, robot.ended)
    /\ up = "up" /\ robot.busy =>
          LeavesOnly(obs.active, Pending, Len(Pending) + 1, robot.task)

SinkInv ==
    /\ Good(obs) /\ Len(obs.recs) <= MaxRecordings /\ Pure(obs, runtime)
    /\ runtime \in Runtime
    /\ \E goal : Guided(obs, runtime, goal) /\ (up # "stopped" => goal = Target(obs))
    /\ up # "stopped" => NoStops(obs.queue)

Replays(m) == \E i \in 1..(Len(m) - 1) : m[i].kind = "received"

WillReplay == Replays(parts) \/ \E j \in 1..Len(stream) : Replays(stream[j])

RecordedInv ==
    up = "up" /\ robot.busy /\ ~replayed /\ ~WillReplay =>
        LeavesActive(obs.active, Pending, robot.task)

HistoryInv ==
    up \in {"down", "up", "stopped"} /\ replayed \in BOOLEAN /\ attached \in 0..MaxRecordings

ObserverInv == RobotInv /\ StreamInv /\ SinkInv /\ RecordedInv /\ HistoryInv

----------------------------------------------------------------------------
(* What a step leaves alone it leaves in order.                            *)

LEMMA RobotKept == ASSUME RobotInv, robot' = robot PROVE RobotInv'
BY DEF RobotInv, RobotTyped, LastIsRun, Remembers

LEMMA SinkKept ==
  ASSUME SinkInv, obs' = obs, runtime' = runtime, up' # "stopped" => up # "stopped"
  PROVE  SinkInv'
BY DEF SinkInv

LEMMA ObserverInit == Init => ObserverInv
<1> SUFFICES ASSUME Init PROVE ObserverInv OBVIOUS
<1>1. RobotInv
  <2>1. robot = [task |-> None, busy |-> FALSE, ended |-> {}, events |-> <<>>] BY DEF Init
  <2>2. RobotTyped BY <2>1 DEF RobotTyped
  <2>3. Remembers(robot.events, robot.ended) BY <2>1 DEF Remembers
  <2>q. QED BY <2>1, <2>2, <2>3 DEF RobotInv, LastIsRun
<1>2. /\ stream = <<>> /\ parts = <<>> /\ up = "down" /\ ~robot.busy
      /\ 1 \in Nat /\ Len(<<>>) = 0 /\ MaxStream \in Nat /\ MaxRecordings \in Nat
  BY ObserverAssumption DEF Init
<1>3. Pending = <<>> /\ Unread(parts, stream) BY <1>2, FlowEmpty DEF Pending
<1>4. Honest(obs.active, Pending, robot.ended) BY <1>3 DEF Honest
<1>5. StreamInv BY <1>2, <1>3, <1>4 DEF StreamInv
<1>6. /\ obs.active = None /\ obs.dirs = [t \in Tasks |-> 0] /\ obs.recs = <<>>
      /\ obs.queue = <<>> /\ obs.lost = FALSE
      /\ runtime = [task |-> None, rec |-> 0, refused |-> FALSE, plan |-> None]
  BY DEF Init
<1>7. obs \in Observer BY <1>2 DEF Init, Observer
<1>8. Good(obs)
  <2>1. Registry(obs) BY <1>2, <1>6 DEF Registry, DirOf
  <2>q. QED BY <1>2, <1>6, <1>7, <2>1, ObserverAssumption DEF Good
<1>9. /\ runtime \in Runtime /\ Reaches(runtime, Target(obs))
      /\ runtime.rec = 0 /\ runtime.rec <= Len(obs.recs)
  BY <1>2, <1>6 DEF Runtime, Reaches, Target, DirOf
<1>10. Guided(obs, runtime, Target(obs)) /\ NoStops(obs.queue) /\ Pure(obs, runtime)
  BY <1>2, <1>6, <1>9, LeadsAlone DEF Guided, NoStops, Pure, Purely, PlanFits
<1>11. Len(obs.recs) <= MaxRecordings BY <1>2, <1>6
<1>12. SinkInv BY <1>8, <1>9, <1>10, <1>11 DEF SinkInv
<1>13. HistoryInv
  <2>1. replayed \in BOOLEAN BY Zenon DEF Init
  <2>2. attached \in 0..MaxRecordings BY <1>2 DEF Init
  <2>q. QED BY <1>2, <2>1, <2>2 DEF HistoryInv
<1>q. QED BY <1>1, <1>2, <1>5, <1>12, <1>13 DEF ObserverInv, RecordedInv

----------------------------------------------------------------------------
(* One step per action.                                                    *)

LEMMA ReadMessageKeeps == ASSUME ObserverInv, ReadMessage PROVE ObserverInv'
<1>1. /\ up = "up" /\ parts = <<>> /\ stream # <<>>
      /\ parts' = Head(stream) /\ stream' = Tail(stream)
      /\ UNCHANGED <<up, obs, runtime, robot, replayed, attached>>
  BY DEF ReadMessage
<1>2. Unread(parts, stream) BY DEF ObserverInv, StreamInv
<1>3. /\ Pending' = Pending /\ Unread(parts', stream')
      /\ Len(stream') = Len(stream) - 1
  BY <1>1, <1>2, FlowRead DEF Pending
<1>4. Len(stream) \in Nat BY <1>2, LengthsAre
<1>5. StreamInv'
  <2>1. Len(stream') <= MaxStream BY <1>3, <1>4, ObserverAssumption DEF ObserverInv, StreamInv
  <2>q. QED BY <1>1, <1>3, <2>1 DEF ObserverInv, StreamInv
<1>6. RobotInv' BY <1>1, RobotKept DEF ObserverInv
<1>7. SinkInv' BY <1>1, SinkKept DEF ObserverInv
<1>8. WillReplay => WillReplay'
  <2>1. SUFFICES ASSUME WillReplay PROVE WillReplay' OBVIOUS
  <2>2. ~Replays(parts)
    <3>1. Len(parts) = 0 BY <1>1
    <3>q. QED BY <3>1 DEF Replays
  <2>3. PICK j \in 1..Len(stream) : Replays(stream[j]) BY <2>1, <2>2 DEF WillReplay
  <2>4. CASE j = 1
    <3>1. Head(stream) = stream[1] OBVIOUS
    <3>q. QED BY <1>1, <2>3, <2>4, <3>1 DEF WillReplay
  <2>5. CASE j # 1
    <3>1. j \in 2..Len(stream) BY <1>4, <2>5
    <3>2. Len(stream[j]) = 1 BY <1>2, <3>1, LengthsAre
    <3>q. QED BY <2>3, <3>2 DEF Replays
  <2>q. QED BY <2>4, <2>5
<1>9. RecordedInv' BY <1>1, <1>3, <1>8 DEF ObserverInv, RecordedInv
<1>10. HistoryInv' BY <1>1 DEF ObserverInv, HistoryInv
<1>q. QED BY <1>5, <1>6, <1>7, <1>9, <1>10 DEF ObserverInv

(* The part that is handled is the first of those pending. *)
LEMMA FirstPart ==
  ASSUME ObserverInv, parts # <<>>
  PROVE  LET p == Head(parts) IN
         /\ Pending # <<>> /\ Pending[1] = p /\ Sayable(p) /\ up = "up"
         /\ Ends(p) => p.task \in robot.ended
         /\ p.kind \in {"data", "snapshot"} => p.task = None \/ obs.active \in {p.task, None}
<1> DEFINE p == Head(parts)
<1>1. Unread(parts, stream) BY DEF ObserverInv, StreamInv
<1>2. Pending # <<>> /\ Pending[1] = p BY <1>1, FlowHandle DEF Pending
<1>3. /\ Pending \in Seq(Part)
      /\ \A i \in 1..Len(Pending) :
          /\ Begins(Pending[i]) => Pending[i].task \in Tasks
          /\ Ends(Pending[i]) => Pending[i].task \in robot.ended
          /\ Pending[i].kind \in {"data", "snapshot"} /\ Pending[i].task # None =>
                LeavesOnly(obs.active, Pending, i, Pending[i].task)
  BY DEF ObserverInv, StreamInv, Honest
<1>4. 1 \in 1..Len(Pending) BY <1>2, <1>3, EmptySeq
<1>5. p \in Part BY <1>2, <1>3, <1>4, ElementOfSeq
<1>6. p.kind \in {"data", "snapshot"} => p.task = None \/ obs.active \in {p.task, None}
  <2>1. LeavesOnly(obs.active, Pending, 1, p.task) => obs.active \in {p.task, None}
    BY DEF LeavesOnly
  <2>q. QED BY <1>2, <1>3, <1>4, <2>1
<1>7. (Begins(p) => p.task \in Tasks) /\ (Ends(p) => p.task \in robot.ended)
  BY <1>2, <1>3, <1>4
<1>8. up = "up" BY DEF ObserverInv, StreamInv
<1>q. QED BY <1>2, <1>5, <1>6, <1>7, <1>8 DEF Sayable

LEMMA HandlePartSink == ASSUME ObserverInv, HandlePart PROVE SinkInv'
<1> DEFINE p == Head(parts)
           o == Handled(obs, p)
<1>1. parts # <<>> /\ Len(o.recs) <= MaxRecordings /\ obs' = o /\ runtime' = runtime /\ up' = up
  BY DEF HandlePart
<1>2. Sayable(p) /\ up = "up"
      /\ (p.kind \in {"data", "snapshot"} => p.task = None \/ obs.active \in {p.task, None})
  BY <1>1, FirstPart
<1>3. Good(obs) /\ Pure(obs, runtime) /\ runtime \in Runtime
      /\ Guided(obs, runtime, Target(obs)) /\ NoStops(obs.queue)
  BY <1>2 DEF ObserverInv, SinkInv
<1> HIDE DEF p
<1>4. Good(o) /\ Effect(obs, o) BY <1>1, <1>2, <1>3, HandledIs
<1>5. Guided(o, runtime, Target(o)) /\ NoStops(o.queue) BY <1>1, <1>2, <1>3, HandledLeads
<1>6. obs.lost => o.lost
  <2>1. obs.lost => Lost(obs) BY <1>3 DEF Good, Observer, Lost
  <2>q. QED BY <2>1, HandledLost DEF Lost
<1> HIDE DEF o
<1>7. Pure(o, runtime) BY <1>3, <1>4, <1>6, PureAfter DEF Effect, Endings
<1>q. QED BY <1>1, <1>3, <1>4, <1>5, <1>7 DEF SinkInv

LEMMA HandlePartStream == ASSUME ObserverInv, HandlePart PROVE StreamInv' /\ RecordedInv'
<1> DEFINE p == Head(parts)
           o == Handled(obs, p)
           n == Len(Pending)
<1>1. /\ parts # <<>> /\ Len(o.recs) <= MaxRecordings /\ obs' = o
      /\ parts' = Tail(parts) /\ UNCHANGED <<up, stream, runtime, robot>>
      /\ replayed' = (replayed \/ (p.kind = "received" /\ Len(parts) > 1))
  BY DEF HandlePart
<1>2. /\ Sayable(p) /\ up = "up" /\ Pending # <<>> /\ Pending[1] = p
      /\ Ends(p) => p.task \in robot.ended
  BY <1>1, FirstPart
<1>3. Good(obs) BY DEF ObserverInv, SinkInv
<1>u. Unread(parts, stream) BY DEF ObserverInv, StreamInv
<1>4. Pending' = Tail(Pending) /\ Unread(parts', stream')
  BY <1>1, <1>u, FlowHandle DEF Pending
<1> HIDE DEF p
<1>5. obs'.active = ActiveAfter(obs.active, Pending[1]) BY <1>1, <1>2, <1>3, HandledIs
<1>6. Honest(obs'.active, Pending', robot'.ended)
  BY <1>1, <1>2, <1>4, <1>5, HonestTail DEF ObserverInv, StreamInv
<1>7. /\ n \in Nat \ {0} /\ Len(Pending') = n - 1
      /\ \A i \in 1..(n - 1) : Pending'[i] = Pending[i + 1]
  BY <1>2, <1>4, EmptySeq, HeadTailProperties DEF ObserverInv, StreamInv, Honest
<1>s. n = Len(Pending) OBVIOUS
<1> HIDE DEF n
<1>8. ASSUME robot.busy PROVE LeavesOnly(obs'.active, Pending', Len(Pending') + 1, robot.task)
  <2>1. LeavesOnly(obs.active, Pending, n + 1, robot.task)
    BY <1>2, <1>8, <1>s DEF ObserverInv, StreamInv
  <2>2. \A i \in 1..((n + 1) - 2) : Pending'[i] = Pending[i + 1] BY <1>7
  <2>3. n + 1 \in 2..(n + 1) /\ n + 1 \in Nat \ {0} /\ (n + 1) - 1 = Len(Pending') + 1 BY <1>7
  <2>4. LeavesOnly(ActiveAfter(obs.active, Pending[1]), Pending', (n + 1) - 1, robot.task)
    BY <2>1, <2>2, <2>3, LeavesOnlyTail
  <2>q. QED BY <1>5, <2>3, <2>4
<1>9. StreamInv'
  BY <1>1, <1>2, <1>4, <1>6, <1>8 DEF ObserverInv, StreamInv
<1>10. RecordedInv'
  <2>1. SUFFICES ASSUME robot.busy, ~replayed', ~WillReplay'
                 PROVE  LeavesActive(obs'.active, Pending', robot.task)
    BY <1>1 DEF RecordedInv
  <2>2. ~replayed BY <1>1, <2>1
  <2>3. ~WillReplay
    <3>1. \A j \in 1..Len(stream) : ~Replays(stream[j]) BY <1>1, <2>1 DEF WillReplay
    <3>2. SUFFICES ASSUME Replays(parts) PROVE FALSE BY <3>1 DEF WillReplay
    <3>3. PICK i \in 1..(Len(parts) - 1) : parts[i].kind = "received" BY <3>2 DEF Replays
    <3>4. /\ Len(parts) \in Nat \ {0} /\ p = parts[1] /\ Len(parts') = Len(parts) - 1
          /\ \A k \in 1..(Len(parts) - 1) : parts'[k] = parts[k + 1]
      BY <1>1, <1>u, EmptySeq, HeadTailProperties DEF Unread, p
    <3>8. ~(p.kind = "received" /\ Len(parts) > 1) BY <1>1, <2>1, Zenon
    <3>5. i # 1 BY <3>3, <3>4, <3>8
    <3>6. i - 1 \in 1..(Len(parts') - 1) /\ i - 1 \in 1..(Len(parts) - 1) /\ (i - 1) + 1 = i
      BY <3>4, <3>5
    <3>7. parts'[i - 1].kind = "received" BY <3>3, <3>4, <3>6
    <3>q. QED BY <2>1, <3>6, <3>7 DEF WillReplay, Replays
  <2>4. LeavesActive(obs.active, Pending, robot.task)
    BY <1>2, <2>1, <2>2, <2>3 DEF ObserverInv, RecordedInv
  <2>5. Ends(Pending[1]) => Pending[1].task # robot.task
    BY <1>2, <2>1 DEF ObserverInv, RobotInv
  <2>q. QED BY <1>5, <1>7, <1>s, <2>4, <2>5, LeavesActiveTail
<1>q. QED BY <1>9, <1>10

LEMMA HandlePartKeeps == ASSUME ObserverInv, HandlePart PROVE ObserverInv'
<1>1. SinkInv' /\ StreamInv' /\ RecordedInv' BY HandlePartSink, HandlePartStream
<1>2. RobotInv' BY RobotKept DEF ObserverInv, HandlePart
<1>3. HistoryInv'
  <2>1. parts # <<>> /\ up' = up BY DEF HandlePart
  <2>2. Head(parts).task \in Tasks \cup {None} BY <2>1, FirstPart DEF Sayable, Part
  <2>3. obs' \in Observer BY <1>1 DEF SinkInv, Good
  <2>4. \A t \in Tasks : obs'.dirs[t] \in 0..MaxRecordings BY <2>3 DEF Observer
  <2>5. attached' \in 0..MaxRecordings
    BY <2>2, <2>4, ObserverAssumption DEF HandlePart, ObserverInv, HistoryInv
  <2>6. replayed' \in BOOLEAN BY Zenon DEF HandlePart
  <2>q. QED BY <2>1, <2>5, <2>6 DEF ObserverInv, HistoryInv
<1>q. QED BY <1>1, <1>2, <1>3 DEF ObserverInv

LEMMA SupersededMoves ==
  ASSUME NEW o, Good(o)
  PROVE  Quiet(o, Superseded(o)) \/ Over(o, Superseded(o), "superseded")
<1>1. CASE o.active = None BY <1>1 DEF Superseded, Quiet
<1>2. CASE o.active # None BY <1>2, FinishTaskIs DEF Superseded, Over, Endings
<1>q. QED BY <1>1, <1>2

LEMMA StoreFailsKeeps == ASSUME ObserverInv, StoreFails PROVE ObserverInv'
<1>1. /\ parts # <<>> /\ parts' = <<>> /\ stream' = <<>> /\ up' = "down"
      /\ obs' = Superseded(obs) /\ UNCHANGED <<runtime, robot, replayed, attached>>
  BY DEF StoreFails
<1>2. up = "up" BY <1>1, FirstPart
<1>3. Good(obs) /\ Pure(obs, runtime) /\ runtime \in Runtime /\ Len(obs.recs) <= MaxRecordings
      /\ Guided(obs, runtime, Target(obs)) /\ NoStops(obs.queue)
  BY <1>2 DEF ObserverInv, SinkInv
<1>4. SinkInv'
  <2>1. /\ Good(obs') /\ Len(obs'.recs) = Len(obs.recs)
        /\ Quiet(obs, obs') \/ Over(obs, obs', "superseded")
    BY <1>1, <1>3, SupersededIs, SupersededMoves
  <2>2. obs.lost => obs'.lost
    <3>1. obs.lost => Lost(obs) BY <1>3 DEF Good, Observer, Lost
    <3>q. QED BY <1>1, <3>1, FinishTaskLost DEF Lost, Superseded
  <2>3. Pure(obs', runtime') BY <1>1, <1>3, <2>1, <2>2, PureAfter DEF Endings
  <2>4. Guided(obs', runtime', Target(obs')) /\ NoStops(obs'.queue)
    BY <1>1, <1>3, SupersededLeads
  <2>q. QED BY <1>1, <1>3, <2>1, <2>3, <2>4 DEF SinkInv
<1>5. StreamInv'
  <2>1. Pending' = <<>> /\ Unread(parts', stream') BY <1>1, FlowEmpty DEF Pending
  <2>2. Len(stream') <= MaxStream BY <1>1, ObserverAssumption
  <2>3. Honest(obs'.active, Pending', robot'.ended) BY <2>1 DEF Honest
  <2>q. QED BY <1>1, <2>1, <2>2, <2>3 DEF StreamInv
<1>6. RobotInv' BY <1>1, RobotKept DEF ObserverInv
<1>7. RecordedInv' /\ HistoryInv' BY <1>1 DEF ObserverInv, RecordedInv, HistoryInv
<1>q. QED BY <1>4, <1>5, <1>6, <1>7 DEF ObserverInv

LEMMA ShutdownKeeps == ASSUME ObserverInv, Shutdown PROVE ObserverInv'
<1>1. /\ up # "stopped" /\ parts = <<>> /\ parts' = <<>> /\ stream' = <<>> /\ up' = "stopped"
      /\ obs' = Stopped(obs) /\ UNCHANGED <<runtime, robot, replayed, attached>>
  BY DEF Shutdown, Stopped
<1>2. Good(obs) /\ Pure(obs, runtime) /\ runtime \in Runtime /\ Len(obs.recs) <= MaxRecordings
      /\ Guided(obs, runtime, Target(obs)) /\ NoStops(obs.queue)
  BY <1>1 DEF ObserverInv, SinkInv
<1>3. SinkInv'
  <2>1. /\ Good(obs') /\ Len(obs'.recs) = Len(obs.recs)
        /\ Quiet(obs, obs') \/ Over(obs, obs', "sidecar_stopped")
    BY <1>1, <1>2, StoppedIs
  <2>2. obs.lost => obs'.lost
    <3>1. obs.lost => Lost(obs) BY <1>2 DEF Good, Observer, Lost
    <3>q. QED BY <1>1, <3>1, StoppedLost DEF Lost
  <2>3. Pure(obs', runtime') BY <1>1, <1>2, <2>1, <2>2, PureAfter DEF Endings
  <2>4. \E goal : Guided(obs', runtime, goal) BY <1>1, <1>2, StoppedLeads
  <2>q. QED BY <1>1, <1>2, <2>1, <2>3, <2>4 DEF SinkInv
<1>4. StreamInv'
  <2>1. Pending' = <<>> /\ Unread(parts', stream') BY <1>1, FlowEmpty DEF Pending
  <2>2. Len(stream') <= MaxStream BY <1>1, ObserverAssumption
  <2>3. Honest(obs'.active, Pending', robot'.ended) BY <2>1 DEF Honest
  <2>q. QED BY <1>1, <2>1, <2>2, <2>3 DEF StreamInv
<1>5. RobotInv' BY <1>1, RobotKept DEF ObserverInv
<1>6. RecordedInv' /\ HistoryInv' BY <1>1 DEF ObserverInv, RecordedInv, HistoryInv
<1>q. QED BY <1>3, <1>4, <1>5, <1>6 DEF ObserverInv

LEMMA RunCommandKeeps == ASSUME ObserverInv, RunCommand PROVE ObserverInv'
<1>1. /\ obs.queue # <<>> /\ runtime' \in Outcomes(runtime, Head(obs.queue))
      /\ obs' = Ran(obs, runtime)
      /\ UNCHANGED <<up, stream, parts, robot, replayed, attached>>
  BY Zenon DEF RunCommand, Ran
<1>2. Good(obs) /\ Pure(obs, runtime) /\ runtime \in Runtime /\ Len(obs.recs) <= MaxRecordings
      /\ (up # "stopped" => NoStops(obs.queue))
  BY DEF ObserverInv, SinkInv
<1>3. /\ Good(obs') /\ obs'.active = obs.active /\ obs'.dirs = obs.dirs
      /\ Len(obs'.recs) = Len(obs.recs)
  BY <1>1, <1>2, RanIs
<1>4. PICK goal : Guided(obs, runtime, goal) /\ (up # "stopped" => goal = Target(obs))
  BY DEF ObserverInv, SinkInv
<1>5. /\ Guided(obs', runtime', goal) /\ Pure(obs', runtime')
      /\ (up # "stopped" => NoStops(obs'.queue))
  BY <1>1, <1>2, <1>4, RanLeads
<1>6. Target(obs') = Target(obs) BY <1>3 DEF Target, DirOf
<1>7. Head(obs.queue) \in Command BY <1>1, <1>2, HeadTailProperties DEF Good, Observer
<1>8. runtime' \in Runtime BY <1>1, <1>2, <1>7, OutcomeIs
<1>9. SinkInv' BY <1>1, <1>2, <1>3, <1>4, <1>5, <1>6, <1>8 DEF SinkInv
<1>10. RobotInv' BY <1>1, RobotKept DEF ObserverInv
<1>11. Pending' = Pending BY <1>1 DEF Pending
<1>12. StreamInv' BY <1>1, <1>3, <1>11 DEF ObserverInv, StreamInv
<1>13. RecordedInv'
  BY <1>1, <1>3, <1>11 DEF ObserverInv, RecordedInv, WillReplay
<1>14. HistoryInv' BY <1>1 DEF ObserverInv, HistoryInv
<1>q. QED BY <1>9, <1>10, <1>12, <1>13, <1>14 DEF ObserverInv

LEMMA CameraFrameKeeps == ASSUME ObserverInv, CameraFrame PROVE ObserverInv'
<1>1. /\ runtime.rec # 0 /\ obs' = Framed(obs, runtime)
      /\ UNCHANGED <<up, stream, parts, runtime, robot, replayed, attached>>
  BY Zenon DEF CameraFrame, Framed
<1>2. Good(obs) /\ Pure(obs, runtime) /\ runtime \in Runtime /\ Len(obs.recs) <= MaxRecordings
      /\ (up # "stopped" => NoStops(obs.queue))
  BY DEF ObserverInv, SinkInv
<1>3. /\ Good(obs') /\ obs'.active = obs.active /\ obs'.dirs = obs.dirs
      /\ obs'.queue = obs.queue /\ Len(obs'.recs) = Len(obs.recs)
  BY <1>1, <1>2, FramedIs
<1>4. PICK goal : Guided(obs, runtime, goal) /\ (up # "stopped" => goal = Target(obs))
  BY DEF ObserverInv, SinkInv
<1>5. Guided(obs', runtime', goal) /\ Pure(obs', runtime') BY <1>1, <1>2, <1>4, FramedLeads
<1>6. Target(obs') = Target(obs) BY <1>3 DEF Target, DirOf
<1>7. SinkInv' BY <1>1, <1>2, <1>3, <1>4, <1>5, <1>6 DEF SinkInv
<1>8. RobotInv' BY <1>1, RobotKept DEF ObserverInv
<1>9. Pending' = Pending BY <1>1 DEF Pending
<1>10. StreamInv' BY <1>1, <1>3, <1>9 DEF ObserverInv, StreamInv
<1>11. RecordedInv'
  BY <1>1, <1>3, <1>9 DEF ObserverInv, RecordedInv, WillReplay
<1>12. HistoryInv' BY <1>1 DEF ObserverInv, HistoryInv
<1>q. QED BY <1>7, <1>8, <1>10, <1>11, <1>12 DEF ObserverInv

LEMMA DisconnectKeeps == ASSUME ObserverInv, Disconnect PROVE ObserverInv'
<1>1. /\ up = "up" /\ parts = <<>> /\ parts' = <<>> /\ stream' = <<>> /\ up' = "down"
      /\ UNCHANGED <<obs, runtime, robot, replayed, attached>>
  BY DEF Disconnect
<1>2. Pending' = <<>> /\ Unread(parts', stream') BY <1>1, FlowEmpty DEF Pending
<1>3. Len(stream') <= MaxStream BY <1>1, ObserverAssumption
<1>4. Honest(obs'.active, Pending', robot'.ended) BY <1>2 DEF Honest
<1>5. StreamInv' BY <1>1, <1>2, <1>3, <1>4 DEF StreamInv
<1>6. SinkInv' BY <1>1, SinkKept DEF ObserverInv
<1>7. RobotInv' BY <1>1, RobotKept DEF ObserverInv
<1>8. RecordedInv' /\ HistoryInv' BY <1>1 DEF ObserverInv, RecordedInv, HistoryInv
<1>q. QED BY <1>5, <1>6, <1>7, <1>8 DEF ObserverInv

(* A connection starts with the status, a snapshot and the events.         *)
Greeting == <<Status, Say("snapshot", Running)>> \o robot.events

LEMMA GreetingIs ==
  ASSUME RobotInv
  PROVE  LET n == Len(robot.events) IN
         /\ Greeting \in Seq(Part) /\ n \in Nat /\ Len(Greeting) = n + 2
         /\ Greeting[1] = Status /\ Greeting[2] = Say("snapshot", Running)
         /\ \A i \in 1..n : Greeting[i + 2] = robot.events[i]
<1> DEFINE q == <<Status, Say("snapshot", Running)>>
           ev == robot.events
<1>1. Running \in Tasks \cup {None} BY DEF Running, RobotInv, RobotTyped
<1>2. Say("snapshot", Running) \in Part BY <1>1 DEF Say, Part, Kinds
<1>3. /\ q \in Seq(Part) /\ Len(q) = 2 /\ q[1] = Status /\ q[2] = Say("snapshot", Running)
  BY <1>2, StatusIs
<1>4. ev \in Seq(Part) /\ Len(ev) \in Nat BY LenProperties DEF RobotInv, RobotTyped
<1>5. Greeting = q \o ev BY DEF Greeting
<1> HIDE DEF q, ev
<1>6. /\ q \o ev \in Seq(Part) /\ Len(q \o ev) = Len(q) + Len(ev)
      /\ \A i \in 1..(Len(q) + Len(ev)) :
            (q \o ev)[i] = IF i <= Len(q) THEN q[i] ELSE ev[i - Len(q)]
  BY <1>3, <1>4, ConcatProperties
<1>7. /\ 1 \in 1..(Len(q) + Len(ev)) /\ 2 \in 1..(Len(q) + Len(ev)) /\ 1 <= Len(q)
      /\ 2 <= Len(q) /\ Len(q) + Len(ev) = Len(ev) + 2
  BY <1>3, <1>4
<1>8. (q \o ev)[1] = q[1] /\ (q \o ev)[2] = q[2] BY <1>6, <1>7
<1>9. ASSUME NEW i \in 1..Len(ev) PROVE (q \o ev)[i + 2] = ev[i]
  <2>1. i + 2 \in 1..(Len(q) + Len(ev)) /\ ~(i + 2 <= Len(q)) /\ (i + 2) - Len(q) = i
    BY <1>3, <1>4
  <2>q. QED BY <1>6, <2>1
<1>q. QED BY <1>3, <1>4, <1>5, <1>6, <1>7, <1>8, <1>9 DEF ev

LEMMA GreetingHonest ==
  ASSUME RobotInv, NEW a
  PROVE  /\ Honest(a, Greeting, robot.ended)
         /\ robot.busy => LeavesOnly(a, Greeting, Len(Greeting) + 1, robot.task)
         /\ robot.busy /\ ~Replays(Greeting) => LeavesActive(a, Greeting, robot.task)
<1> DEFINE m == Greeting
           ev == robot.events
           n == Len(ev)
           t == robot.task
<1>1. /\ m \in Seq(Part) /\ n \in Nat /\ Len(m) = n + 2
      /\ m[1] = Status /\ m[2] = Say("snapshot", Running)
      /\ \A i \in 1..n : m[i + 2] = ev[i]
  BY GreetingIs
<1>2. /\ m[2].kind = "snapshot" /\ m[2].task = Running /\ ~Begins(m[2]) /\ ~Ends(m[2])
      /\ (Running # None => robot.busy /\ Running = t)
  BY <1>1 DEF Say, Begins, Ends, Running
<1>3. /\ m[1].kind \notin {"data", "snapshot"}
      /\ robot.busy => Opens(m[1], t) /\ t \in Tasks
      /\ Begins(m[1]) => m[1].task \in Tasks
      /\ Ends(m[1]) => m[1].task \in robot.ended
  BY <1>1, StatusIs
<1>4. ASSUME NEW i \in 1..(n + 2), i # 1, i # 2
      PROVE  \E k \in 1..n : k = i - 2 /\ m[i] = ev[k]
  <2>1. i - 2 \in 1..n /\ (i - 2) + 2 = i BY <1>1, <1>4
  <2>q. QED BY <1>1, <2>1
<1>5. \A k \in 1..n :
        /\ ev[k].kind \in {"received", "completed"} /\ ev[k].task \in Tasks
        /\ ev[k].kind = "received" /\ k < n => ev[k + 1].kind = "completed"
                                               /\ ev[k + 1].task = ev[k].task
        /\ ev[k].kind = "completed" => ev[k].task \in robot.ended
  BY DEF RobotInv, Remembers
<1>6. robot.busy /\ n > 0 /\ ev[n].kind = "received" => ev[n].task = t
  BY DEF RobotInv, LastIsRun
<1>s. m = Greeting OBVIOUS
<1> HIDE DEF m, ev, n, t
<1>7. ASSUME NEW i \in 1..(n + 2)
      PROVE  /\ Begins(m[i]) => m[i].task \in Tasks
             /\ Ends(m[i]) => m[i].task \in robot.ended
             /\ m[i].kind \in {"data", "snapshot"} /\ m[i].task # None =>
                   LeavesOnly(a, m, i, m[i].task)
  <2>1. CASE i = 1 BY <1>3, <2>1
  <2>2. CASE i = 2
    <3>1. SUFFICES ASSUME Running # None PROVE LeavesOnly(a, m, 2, Running)
      BY <1>2, <2>2
    <3>2. Opens(m[1], Running) BY <1>2, <1>3, <3>1
    <3>3. 1 \in 1..(2 - 1) /\ \A j \in 1..(2 - 1) : j = 1 OBVIOUS
    <3>q. QED BY <3>2, <3>3 DEF LeavesOnly, Opens
  <2>3. CASE i # 1 /\ i # 2
    <3>1. PICK k \in 1..n : k = i - 2 /\ m[i] = ev[k] BY <1>4, <2>3
    <3>q. QED BY <1>5, <3>1 DEF Begins, Ends
  <2>q. QED BY <2>1, <2>2, <2>3
<1>8. Honest(a, m, robot.ended) BY <1>1, <1>7 DEF Honest
<1>9. ASSUME robot.busy PROVE LeavesOnly(a, m, Len(m) + 1, t)
  <2>1. 1 \in 1..((Len(m) + 1) - 1) /\ (Len(m) + 1) - 1 = n + 2 BY <1>1
  <2>2. ASSUME NEW j \in 1..(n + 2), Begins(m[j]), m[j].task # t
        PROVE  \E l \in (j + 1)..(n + 2) : Closes(m[l], m[j].task)
    <3>1. j # 1 /\ j # 2 BY <1>2, <1>3, <1>9, <2>2 DEF Opens
    <3>2. PICK k \in 1..n : k = j - 2 /\ m[j] = ev[k] BY <1>4, <3>1
    <3>3. ev[k].kind = "received" BY <1>5, <2>2, <3>2 DEF Begins
    <3>4. k # n BY <1>6, <1>9, <2>2, <3>2, <3>3
    <3>5. k < n /\ k + 1 \in 1..n /\ j + 1 = (k + 1) + 2 /\ j + 1 \in (j + 1)..(n + 2)
      BY <1>1, <3>2, <3>4
    <3>6. m[j + 1] = ev[k + 1] BY <1>1, <3>5
    <3>7. Closes(m[j + 1], m[j].task) BY <1>5, <3>2, <3>3, <3>5, <3>6 DEF Closes, Ends
    <3>q. QED BY <3>5, <3>7
  <2>q. QED BY <1>3, <1>9, <2>1, <2>2 DEF LeavesOnly
<1>10. ASSUME robot.busy, ~Replays(m) PROVE LeavesActive(a, m, t)
  <2>1. 1 \in 1..Len(m) BY <1>1
  <2>2. ASSUME NEW j \in 1..(n + 2), Begins(m[j]), m[j].task # t PROVE FALSE
    <3>1. j # 1 /\ j # 2 BY <1>2, <1>3, <1>10, <2>2 DEF Opens
    <3>2. PICK k \in 1..n : k = j - 2 /\ m[j] = ev[k] BY <1>4, <3>1
    <3>3. ev[k].kind = "received" BY <1>5, <2>2, <3>2 DEF Begins
    <3>4. k # n BY <1>6, <1>10, <2>2, <3>2, <3>3
    <3>5. j \in 1..(Len(m) - 1) BY <1>1, <3>2, <3>4
    <3>q. QED BY <1>10, <3>2, <3>3, <3>5 DEF Replays
  <2>q. QED BY <1>1, <1>3, <1>10, <2>1, <2>2 DEF LeavesActive
<1>q. QED BY <1>8, <1>9, <1>10 DEF m, t

LEMMA ConnectKeeps == ASSUME ObserverInv, Connect PROVE ObserverInv'
<1>1. /\ up = "down" /\ parts = <<>> /\ parts' = <<>> /\ stream' = <<Greeting>> /\ up' = "up"
      /\ replayed' = FALSE /\ attached' = 0 /\ UNCHANGED <<obs, runtime, robot>>
  BY DEF Connect, Greeting
<1>2. RobotInv BY DEF ObserverInv
<1>3. Greeting \in Seq(Part) BY <1>2, GreetingIs
<1>4. Pending' = Greeting /\ Unread(parts', stream') BY <1>1, <1>3, FlowAlone DEF Pending
<1>5. Len(stream') <= MaxStream
  <2>1. Len(<<Greeting>>) = 1 OBVIOUS
  <2>q. QED BY <1>1, <2>1, ObserverAssumption
<1>6. StreamInv'
  <2>1. /\ Honest(obs'.active, Pending', robot'.ended)
        /\ robot'.busy => LeavesOnly(obs'.active, Pending', Len(Pending') + 1, robot'.task)
    BY <1>1, <1>2, <1>4, GreetingHonest
  <2>q. QED BY <1>1, <1>4, <1>5, <2>1 DEF StreamInv
<1>7. RecordedInv'
  <2>1. SUFFICES ASSUME robot.busy, ~WillReplay'
                 PROVE  LeavesActive(obs'.active, Pending', robot'.task)
    BY <1>1 DEF RecordedInv
  <2>2. stream'[1] = Greeting /\ 1 \in 1..Len(stream') BY <1>1
  <2>3. ~Replays(Greeting) BY <2>1, <2>2 DEF WillReplay
  <2>q. QED BY <1>1, <1>2, <1>4, <2>1, <2>3, GreetingHonest
<1>8. SinkInv' BY <1>1, SinkKept DEF ObserverInv
<1>9. RobotInv' BY <1>1, RobotKept DEF ObserverInv
<1>10. HistoryInv'
  <2>1. replayed' \in BOOLEAN BY <1>1, Zenon
  <2>2. attached' \in 0..MaxRecordings BY <1>1, ObserverAssumption
  <2>q. QED BY <1>1, <2>1, <2>2 DEF HistoryInv
<1>q. QED BY <1>6, <1>7, <1>8, <1>9, <1>10 DEF ObserverInv

LEMMA RobotKeeps == ASSUME ObserverInv, Robot PROVE ObserverInv'
<1>1. RobotInv' /\ robot.ended \subseteq robot'.ended BY RobotIs DEF ObserverInv
<1>2. PICK p : Sends(p) BY RobotIs DEF ObserverInv
<1>3. /\ p \in Part /\ Send(p) /\ Told(p)
      /\ UNCHANGED <<up, parts, obs, runtime, replayed, attached>>
  BY <1>2 DEF Sends
<1>4. SinkInv' BY <1>3, SinkKept DEF ObserverInv
<1>5. HistoryInv' BY <1>3 DEF ObserverInv, HistoryInv
<1>6. CASE up # "up"
  <2>1. stream' = stream /\ stream = <<>> /\ parts = <<>>
    BY <1>3, <1>6 DEF Send, ObserverInv, StreamInv
  <2>2. Pending = <<>> /\ Pending' = <<>> /\ Unread(parts', stream')
    BY <1>3, <2>1, FlowEmpty DEF Pending
  <2>3. Honest(obs'.active, Pending', robot'.ended) BY <2>2 DEF Honest
  <2>4. StreamInv' BY <1>3, <1>6, <2>1, <2>2, <2>3 DEF ObserverInv, StreamInv
  <2>5. RecordedInv' BY <1>3, <1>6 DEF RecordedInv
  <2>q. QED BY <1>1, <1>4, <1>5, <2>4, <2>5 DEF ObserverInv
<1>7. CASE up = "up"
  <2> DEFINE n == Len(Pending)
  <2>1. Len(stream) < MaxStream /\ stream' = Append(stream, <<p>>)
    BY <1>3, <1>7 DEF Send
  <2>2. Unread(parts, stream) BY DEF ObserverInv, StreamInv
  <2>3. Pending' = Append(Pending, p) /\ Unread(parts', stream')
    BY <1>3, <2>1, <2>2, FlowSend DEF Pending
  <2>4. Len(stream') = Len(stream) + 1 /\ Len(stream) \in Nat
        /\ \A i \in 1..Len(stream) : stream'[i] = stream[i]
    <3>1. <<p>> \in Seq(Part) BY <1>3
    <3>q. QED BY <2>1, <2>2, <3>1, AppendProperties, LenProperties DEF Unread
  <2>5. Len(stream') <= MaxStream BY <2>1, <2>4, ObserverAssumption
  <2>6. Pending \in Seq(Part) /\ Honest(obs.active, Pending, robot.ended)
        /\ (robot.busy => LeavesOnly(obs.active, Pending, n + 1, robot.task))
    BY <1>7 DEF ObserverInv, StreamInv, Honest
  <2>7. /\ n \in Nat /\ Len(Pending') = n + 1 /\ Pending'[n + 1] = p
        /\ \A i \in 1..n : Pending'[i] = Pending[i]
    BY <1>3, <2>3, <2>6, AppendProperties, LenProperties
  <2>s. n = Len(Pending) OBVIOUS
  <2> HIDE DEF n
  <2>8. Honest(obs'.active, Pending', robot'.ended)
    <3>1. /\ Begins(p) => p.task \in Tasks
          /\ Ends(p) => p.task \in robot'.ended
          /\ p.kind \in {"data", "snapshot"} /\ p.task # None =>
                LeavesOnly(obs.active, Pending, Len(Pending) + 1, p.task)
      BY <1>3, <2>6, <2>s DEF Told
    <3>q. QED BY <1>1, <1>3, <2>3, <2>6, <3>1, HonestAppend
  <2>9. ASSUME robot'.busy
        PROVE  LeavesOnly(obs'.active, Pending', Len(Pending') + 1, robot'.task)
    <3>1. Opens(p, robot'.task)
          \/ (~Begins(p) /\ LeavesOnly(obs.active, Pending, n + 1, robot'.task))
      BY <1>3, <2>6, <2>9 DEF Told
    <3>2. LeavesOnly(obs.active, Pending', n + 2, robot'.task)
      BY <2>7, <3>1, LeavesOnlyAppend
    <3>3. n + 2 = Len(Pending') + 1 BY <2>7
    <3>q. QED BY <1>3, <3>2, <3>3
  <2>10. StreamInv' BY <1>3, <1>7, <2>3, <2>5, <2>8, <2>9 DEF StreamInv
  <2>11. RecordedInv'
    <3>1. SUFFICES ASSUME robot'.busy, ~replayed, ~WillReplay'
                   PROVE  LeavesActive(obs.active, Pending', robot'.task)
      BY <1>3 DEF RecordedInv
    <3>2. ~WillReplay
      <4>1. \A j \in 1..Len(stream) : j \in 1..Len(stream') BY <2>4
      <4>q. QED BY <1>3, <2>4, <3>1, <4>1 DEF WillReplay
    <3>3. Opens(p, robot'.task)
          \/ (~Begins(p) /\ LeavesActive(obs.active, Pending, robot'.task))
      BY <1>3, <1>7, <3>1, <3>2 DEF Told, ObserverInv, RecordedInv
    <3>q. QED BY <2>7, <2>s, <3>3, LeavesActiveAppend
  <2>q. QED BY <1>1, <1>4, <1>5, <2>10, <2>11 DEF ObserverInv
<1>q. QED BY <1>6, <1>7

LEMMA ObserverStep == ObserverInv /\ [Next]_vars => ObserverInv'
<1> SUFFICES ASSUME ObserverInv, [Next]_vars PROVE ObserverInv' OBVIOUS
<1>1. CASE UNCHANGED vars
  <2>1. UNCHANGED <<up, stream, parts, obs, runtime, robot, replayed, attached>>
    BY <1>1 DEF vars
  <2>2. RobotInv' BY <2>1, RobotKept DEF ObserverInv
  <2>3. SinkInv' BY <2>1, SinkKept DEF ObserverInv
  <2>4. Pending' = Pending BY <2>1 DEF Pending
  <2>5. StreamInv' BY <2>1, <2>4 DEF ObserverInv, StreamInv
  <2>6. RecordedInv' BY <2>1, <2>4 DEF ObserverInv, RecordedInv, WillReplay
  <2>7. HistoryInv' BY <2>1 DEF ObserverInv, HistoryInv
  <2>q. QED BY <2>2, <2>3, <2>5, <2>6, <2>7 DEF ObserverInv
<1>q. QED
  BY <1>1, ReadMessageKeeps, HandlePartKeeps, StoreFailsKeeps, ShutdownKeeps,
     RunCommandKeeps, CameraFrameKeeps, ConnectKeeps, DisconnectKeeps, RobotKeeps
     DEF Next

LEMMA ObserverHolds == Spec => []ObserverInv
BY ObserverInit, ObserverStep, PTL DEF Spec

(* Every variable keeps its type, the stream and the Rerun queue stay      *)
(* within their sizes, and no more directories are made than the bound.    *)
THEOREM ObserverTypeCorrect == Spec => []TypeOK
<1>1. ObserverInv => TypeOK
  <2> SUFFICES ASSUME ObserverInv PROVE TypeOK OBVIOUS
  <2>1. up \in {"down", "up", "stopped"} /\ replayed \in BOOLEAN /\ attached \in 0..MaxRecordings
    BY DEF ObserverInv, HistoryInv
  <2>2. parts \in Seq(Part) /\ stream \in Seq(Seq(Part)) /\ Len(stream) <= MaxStream
    BY DEF ObserverInv, StreamInv, Unread
  <2>3. obs \in Observer /\ Len(obs.queue) <= QueueSize /\ Len(obs.recs) <= MaxRecordings
        /\ runtime \in Runtime
    BY DEF ObserverInv, SinkInv, Good
  <2>4. robot \in [task : Tasks \cup {None}, busy : BOOLEAN, ended : SUBSET Tasks,
                   events : Seq(Part)]
    BY DEF ObserverInv, RobotInv, RobotTyped
  <2>q. QED BY <2>1, <2>2, <2>3, <2>4 DEF TypeOK
<1>q. QED BY <1>1, ObserverHolds, PTL

(* The Rerun worker, once it has run its queue, records the task the       *)
(* observer takes for the active one, into that task's directory, whatever *)
(* the queue holds - as long as no decision was given up.  A task whose    *)
(* recording it could not open has none, and does no harm to the next.     *)
THEOREM SinkFollows == Spec => []SinkFollowsObserver
<1>1. ObserverInv => SinkFollowsObserver
  <2> SUFFICES ASSUME ObserverInv, ~obs.lost, up # "stopped"
               PROVE  /\ CaughtUp.task = obs.active
                      /\ CaughtUp.rec = IF obs.active = None \/ CaughtUp.refused THEN 0
                                        ELSE obs.dirs[obs.active]
    BY DEF SinkFollowsObserver
  <2> DEFINE n == Len(obs.queue)
             Steps(f) == [i \in 0..n |-> IF i = 0 THEN runtime
                                         ELSE Applied(f[i - 1], obs.queue[i])]
             g == CHOOSE f : f = Steps(f)
  <2>1. Leads(obs.queue, obs.recs, runtime, Target(obs)) /\ runtime \in Runtime
    BY DEF ObserverInv, SinkInv, Guided
  <2>2. n \in Nat BY LenProperties DEF ObserverInv, SinkInv, Good, Observer
  <2>c. CaughtUp = g[n] BY DEF CaughtUp
  <2>n. n = Len(obs.queue) OBVIOUS
  <2> HIDE DEF n
  <2>3. \E f : f = Steps(f)
    <3>0. 0 \in 0..n BY <2>2
    <3>1. PICK f : f[0] = runtime /\ Onward(f, obs.queue, 0)
      BY <2>1, <2>n, <3>0 DEF Leads, Walks
    <3> DEFINE h == [i \in 0..n |-> f[i]]
    <3>2. ASSUME NEW i \in 0..n
          PROVE  h[i] = IF i = 0 THEN runtime ELSE Applied(h[i - 1], obs.queue[i])
      <4>1. CASE i = 0 BY <3>1, <4>1
      <4>2. CASE i # 0
        <5>1. i \in (0 + 1)..n /\ i - 1 \in 0..n BY <2>2, <4>2
        <5>2. h[i] = f[i] /\ h[i - 1] = f[i - 1] BY <5>1
        <5>3. f[i] = Applied(f[i - 1], obs.queue[i]) BY <3>1, <5>1, <2>n DEF Onward
        <5>q. QED BY <4>2, <5>2, <5>3
      <4>q. QED BY <4>1, <4>2
    <3>3. h = Steps(h)
      <4>1. h = [i \in 0..n |-> h[i]] OBVIOUS
      <4> HIDE DEF h
      <4>2. [i \in 0..n |-> h[i]] = Steps(h) BY <3>2
      <4>q. QED BY <4>1, <4>2
    <3>q. QED BY <3>3
  <2>4. g = Steps(g) BY <2>3, Zenon
  <2> HIDE DEF g
  <2>5. \A i \in 0..n : g[i] = IF i = 0 THEN runtime ELSE Applied(g[i - 1], obs.queue[i])
    BY <2>4
  <2>6. Runs(g, runtime, obs.queue)
    <3>1. 0 \in 0..n /\ \A i \in 1..n : i \in 0..n /\ i # 0 BY <2>2
    <3>2. g[0] = runtime BY <2>5, <3>1
    <3>3. \A i \in 1..n : g[i] = Applied(g[i - 1], obs.queue[i]) BY <2>5, <3>1
    <3>q. QED BY <3>2, <3>3, <2>n DEF Runs, Outcomes
  <2>7. Reaches(g[n], Target(obs)) BY <2>1, <2>6, <2>n DEF Leads
  <2>q. QED BY <2>7, <2>c DEF Reaches, Target, DirOf
<1>q. QED BY <1>1, ObserverHolds, PTL

(* No directory is left without its ending but the active task's, whatever *)
(* supersedes, repeats, reconnects or stops. *)
THEOREM ActiveIsOpen == Spec => []OnlyTheActiveIsOpen
<1>1. ObserverInv => OnlyTheActiveIsOpen
  <2> SUFFICES ASSUME ObserverInv, NEW i \in DOMAIN obs.recs
               PROVE  obs.recs[i].meta = "open" <=>
                         obs.active = obs.recs[i].task /\ obs.dirs[obs.active] = i
    BY DEF OnlyTheActiveIsOpen
  <2>1. Good(obs) /\ obs \in Observer BY DEF ObserverInv, SinkInv, Good
  <2>2. i \in 1..Len(obs.recs) /\ obs.recs[i] \in Recording
    BY <2>1, LenProperties, ElementOfSeq DEF Observer
  <2>3. obs.recs[i].meta = "open" <=> i = DirOf(obs) BY <2>1, <2>2 DEF Good, Registry
  <2>4. obs.active # None => obs.recs[obs.dirs[obs.active]].task = obs.active
    BY <2>1 DEF Good, Registry
  <2>5. obs.recs[i].task # None BY <2>2, ObserverAssumption DEF Recording
  <2>q. QED BY <2>2, <2>3, <2>4, <2>5 DEF DirOf
<1>q. QED BY <1>1, ObserverHolds, PTL

(* A recording holds only what the robot sent while it ran the recording's *)
(* task, or none, and the plan kept from before the recording - as long as *)
(* no decision was given up. *)
THEOREM RecordingsArePure == Spec => []OneTaskPerRecording
<1>1. ObserverInv => OneTaskPerRecording
  <2>1. ObserverInv => DOMAIN obs.recs = 1..Len(obs.recs)
    BY LenProperties DEF ObserverInv, SinkInv, Good, Observer
  <2>q. QED BY <2>1 DEF ObserverInv, SinkInv, Pure, Purely, OneTaskPerRecording
<1>q. QED BY <1>1, ObserverHolds, PTL

(* When everything sent was handled, the task the robot runs is recorded,  *)
(* though ends were missed while the stream was down - unless remembered   *)
(* events were replayed. *)
THEOREM RunningIsRecorded == Spec => []RunningTaskIsRecorded
<1>1. ObserverInv => RunningTaskIsRecorded
  <2> SUFFICES ASSUME ObserverInv, Settled, robot.busy, ~replayed
               PROVE  obs.active = robot.task
    BY DEF RunningTaskIsRecorded
  <2>1. up = "up" /\ stream = <<>> /\ parts = <<>> /\ Len(<<>>) = 0 BY DEF Settled
  <2>2. ~WillReplay BY <2>1 DEF WillReplay, Replays
  <2>3. LeavesActive(obs.active, Pending, robot.task)
    BY <2>1, <2>2 DEF ObserverInv, RecordedInv
  <2>4. Len(Pending) = 0 BY <2>1, FlowEmpty DEF Pending
  <2>q. QED BY <2>3, <2>4 DEF LeavesActive
<1>q. QED BY <1>1, ObserverHolds, PTL

----------------------------------------------------------------------------
(* The observer implements TaskRecorder.                                   *)

EndOf(o, i) == IF i \in 1..Len(o.recs) THEN {o.recs[i].meta} \cap Endings ELSE {}
Ended(o) == [i \in 1..MaxRecordings |-> EndOf(o, i)]

LEMMA EndedIs ==
  ASSUME ObserverInv
  PROVE  /\ [i \in 1..MaxRecordings |-> Ending(i)] = Ended(obs)
         /\ (IF obs.active = None THEN 0 ELSE obs.dirs[obs.active]) = DirOf(obs)
         /\ Ended(obs) \in [1..MaxRecordings -> SUBSET Endings]
<1>1. DOMAIN obs.recs = 1..Len(obs.recs)
  BY LenProperties DEF ObserverInv, SinkInv, Good, Observer
<1>2. \A i \in 1..MaxRecordings : Ending(i) = EndOf(obs, i) BY <1>1 DEF Ending, EndOf
<1>3. \A i \in 1..MaxRecordings : EndOf(obs, i) \in SUBSET Endings BY DEF EndOf
<1>q. QED BY <1>2, <1>3 DEF Ended, DirOf

(* What a step of the observer does to its directories. *)
Moves(o, h) ==
    \/ h.active = o.active /\ DirOf(h) = DirOf(o) /\ Len(h.recs) = Len(o.recs)
       /\ \A i \in 1..Len(o.recs) : h.recs[i].meta = o.recs[i].meta
    \/ \E status \in Endings : Over(o, h, status)
    \/ Anew(o, h)

LEMMA QuietMoves == ASSUME NEW o, NEW h, Quiet(o, h) PROVE Moves(o, h)
BY DEF Quiet, Moves, DirOf

LEMMA StepMoves ==
  ASSUME ObserverInv, [Next]_vars PROVE Moves(obs, obs')
<1>0. Good(obs) /\ runtime \in Runtime BY DEF ObserverInv, SinkInv
<1>1. CASE HandlePart
  <2>1. parts # <<>> /\ obs' = Handled(obs, Head(parts)) /\ Len(obs'.recs) <= MaxRecordings
    BY <1>1 DEF HandlePart
  <2>2. Effect(obs, obs') BY <1>0, <2>1, FirstPart, HandledIs
  <2>q. QED BY <2>2, QuietMoves DEF Effect, Moves, Endings
<1>2. CASE Shutdown
  <2>1. obs' = Stopped(obs) BY <1>2 DEF Shutdown, Stopped
  <2>2. Quiet(obs, obs') \/ Over(obs, obs', "sidecar_stopped") BY <1>0, <2>1, StoppedIs
  <2>q. QED BY <2>2, QuietMoves DEF Moves, Endings
<1>3. CASE RunCommand
  <2>1. obs' = Ran(obs, runtime) /\ obs.queue # <<>> BY <1>3, Zenon DEF RunCommand, Ran
  <2>2. /\ obs'.active = obs.active /\ obs'.dirs = obs.dirs /\ Len(obs'.recs) = Len(obs.recs)
        /\ \A i \in 1..Len(obs.recs) : obs'.recs[i].meta = obs.recs[i].meta
    BY <1>0, <2>1, RanIs
  <2>q. QED BY <2>2 DEF Moves, DirOf
<1>4. CASE ReadMessage BY <1>4, QuietMoves DEF ReadMessage, Quiet
<1>5. CASE Connect BY <1>5, QuietMoves DEF Connect, Quiet
<1>6. CASE Disconnect BY <1>6, QuietMoves DEF Disconnect, Quiet
<1>7. CASE Robot
  <2>1. \E p : Sends(p) BY <1>7, RobotIs DEF ObserverInv
  <2>2. obs' = obs BY <2>1 DEF Sends
  <2>q. QED BY <2>2, QuietMoves DEF Quiet
<1>8. CASE UNCHANGED vars BY <1>8, QuietMoves DEF vars, Quiet
<1>9. CASE CameraFrame
  <2>1. obs' = Framed(obs, runtime) BY <1>9, Zenon DEF CameraFrame, Framed
  <2> DEFINE h == Framed(obs, runtime)
  <2>2. /\ h.active = obs.active /\ h.dirs = obs.dirs /\ Len(h.recs) = Len(obs.recs)
        /\ \A i \in 1..Len(obs.recs) : h.recs[i].meta = obs.recs[i].meta
    BY <1>0, FramedIs
  <2>3. obs' = h BY <2>1
  <2> HIDE DEF h
  <2>q. QED BY <2>2, <2>3 DEF Moves, DirOf
<1>10. CASE StoreFails
  <2>1. obs' = Superseded(obs) BY <1>10 DEF StoreFails
  <2>2. Quiet(obs, obs') \/ Over(obs, obs', "superseded") BY <1>0, <2>1, SupersededMoves
  <2>q. QED BY <2>2, QuietMoves DEF Moves, Endings
<1>q. QED BY <1>1, <1>2, <1>3, <1>4, <1>5, <1>6, <1>7, <1>8, <1>9, <1>10 DEF Next

(* The observer's decisions, on whatever it is told and in whatever order, *)
(* are those of a recorder of tasks. *)
THEOREM ObserverIsTaskRecorder == Spec => IsTaskRecorder
<1> DEFINE task == obs.active
           current == IF obs.active = None THEN 0 ELSE obs.dirs[obs.active]
           count == Len(obs.recs)
           content == [i \in 1..MaxRecordings |-> Ending(i)]
<1>1. Init => Recorder!Init
  <2> SUFFICES ASSUME Init PROVE Recorder!Init OBVIOUS
  <2>1. obs.active = None /\ obs.recs = <<>> BY DEF Init
  <2>2. DOMAIN obs.recs = {} /\ Len(obs.recs) = 0 BY <2>1
  <2>3. content = [i \in 1..MaxRecordings |-> {}] BY <2>2 DEF Ending
  <2>q. QED BY <2>1, <2>2, <2>3 DEF Recorder!Init
<1>2. ObserverInv /\ ObserverInv' /\ [Next]_vars =>
         [Recorder!Next]_<<task, current, count, content>>
  <2> SUFFICES ASSUME ObserverInv, ObserverInv', [Next]_vars
               PROVE  Recorder!Next \/ UNCHANGED <<task, current, count, content>>
    OBVIOUS
  <2> DEFINE a == DirOf(obs)
  <2>1. /\ content = Ended(obs) /\ current = DirOf(obs)
        /\ content \in [1..MaxRecordings -> SUBSET Endings]
    BY EndedIs
  <2>2. /\ content' = Ended(obs') /\ current' = DirOf(obs')
        /\ content' \in [1..MaxRecordings -> SUBSET Endings]
    <3>1. DOMAIN obs'.recs = 1..Len(obs'.recs)
      BY LenProperties DEF ObserverInv, SinkInv, Good, Observer
    <3>2. \A i \in 1..MaxRecordings : Ending(i)' = EndOf(obs', i)
      BY <3>1 DEF Ending, EndOf
    <3>3. \A i \in 1..MaxRecordings : EndOf(obs', i) \in SUBSET Endings BY DEF EndOf
    <3>q. QED BY <3>2, <3>3 DEF Ended, DirOf
  <2>3. /\ \A i \in 1..MaxRecordings : content[i] = EndOf(obs, i)
        /\ \A i \in 1..MaxRecordings : content'[i] = EndOf(obs', i)
    BY <2>1, <2>2 DEF Ended
  <2>4. /\ Good(obs) /\ Good(obs') /\ a \in 0..Len(obs.recs) /\ Len(obs.recs) \in Nat
        /\ \A i \in 1..Len(obs.recs) : obs.recs[i] \in Recording
    BY DirOfIs, ElementOfSeq DEF ObserverInv, SinkInv, Good, Observer
  <2>5. a # 0 => EndOf(obs, a) = {}
    <3>1. a # 0 => a \in 1..Len(obs.recs) /\ obs.recs[a].meta = "open" BY <2>4 DEF Good, Registry
    <3>q. QED BY <3>1 DEF EndOf, Endings
  <2> HIDE DEF content, current
  <2>6. CASE /\ obs'.active = obs.active /\ DirOf(obs') = DirOf(obs)
             /\ Len(obs'.recs) = Len(obs.recs)
             /\ \A i \in 1..Len(obs.recs) : obs'.recs[i].meta = obs.recs[i].meta
    <3>1. \A i \in 1..MaxRecordings : EndOf(obs', i) = EndOf(obs, i) BY <2>6 DEF EndOf
    <3>2. content' = content BY <2>1, <2>2, <3>1 DEF Ended
    <3>q. QED BY <2>1, <2>2, <2>6, <3>2
  <2>7. ASSUME NEW status \in Endings, Over(obs, obs', status) PROVE Recorder!End
    <3>1. task' = None /\ current' = 0 /\ count' = count BY <2>2, <2>7 DEF Over, DirOf
    <3>2. ASSUME NEW i \in 1..MaxRecordings, i # a PROVE content'[i] = content[i]
      BY <2>3, <2>7, <3>2 DEF Over, EndOf
    <3>3. Recorder!Grows({current})
      <4>1. ASSUME NEW i \in 1..MaxRecordings
            PROVE  content[i] \subseteq content'[i] /\ (i \notin {current} => content'[i] = content[i])
        BY <2>1, <2>3, <2>5, <3>2
      <4>q. QED BY <2>2, <4>1 DEF Recorder!Grows, content, current
    <3>q. QED BY <3>1, <3>3 DEF Recorder!End, current
  <2>8. CASE Anew(obs, obs')
    <3>1. /\ count' = count + 1 /\ task' \in Tasks /\ task' # task /\ current' = count'
          /\ count' \in 1..MaxRecordings
      BY <2>2, <2>4, <2>8 DEF Anew
    <3>2. ASSUME NEW i \in 1..MaxRecordings, i # a PROVE content'[i] = content[i]
      <4>1. CASE i \in 1..Len(obs.recs)
        <5>1. i \in 1..Len(obs'.recs) /\ obs'.recs[i] = obs.recs[i] BY <2>4, <2>8, <3>2, <4>1 DEF Anew
        <5>q. QED BY <2>3, <4>1, <5>1 DEF EndOf
      <4>2. CASE i = Len(obs.recs) + 1
        <5>1. EndOf(obs', i) = {} BY <2>8, <4>2 DEF Anew, NewRecording, EndOf, Endings
        <5>2. EndOf(obs, i) = {} BY <2>4, <4>2 DEF EndOf
        <5>q. QED BY <2>3, <5>1, <5>2
      <4>3. CASE i \notin 1..Len(obs.recs) /\ i # Len(obs.recs) + 1
        <5>1. i \notin 1..Len(obs'.recs) BY <2>4, <2>8, <4>3 DEF Anew
        <5>q. QED BY <2>3, <4>3, <5>1 DEF EndOf
      <4>q. QED BY <4>1, <4>2, <4>3
    <3>3. Recorder!Grows({current, count'})
      <4>1. ASSUME NEW i \in 1..MaxRecordings
            PROVE  content[i] \subseteq content'[i]
                   /\ (i \notin {current, count'} => content'[i] = content[i])
        BY <2>1, <2>3, <2>5, <3>2
      <4>q. QED BY <2>2, <4>1 DEF Recorder!Grows, content, current
    <3>4. Recorder!Begin(task') BY <3>1, <3>3 DEF Recorder!Begin, current
    <3>q. QED BY <3>1, <3>4 DEF Recorder!Next
  <2>q. QED BY <2>6, <2>7, <2>8, StepMoves DEF Moves, Recorder!Next
<1>q. QED
  BY <1>1, <1>2, ObserverHolds, PTL DEF Spec, IsTaskRecorder, Recorder!Spec, Recorder!vars

-----------------------------------------------------------------------------
(* ObservedMap                                                             *)

(* PartialIsRetried holds at every moment, not only between two polls. *)
Owing == (~Complete(shown) /\ ~late) => signature # shown.map

MapIInv == MapTypeOK /\ Owing

(* No image is older than the metadata it is drawn with, nor newer than    *)
(* the robot's map.                                                        *)
Fits(p) == p.image # NoMap => p.map <= p.image /\ p.image <= server.map

Forward ==
    /\ signature <= server.map /\ poll.pic.map <= server.map
    /\ Fits(poll.pic) /\ Fits(shown)

(* update_map knows the torn map, or somebody is about to replace it. *)
StillKnown ==
    (Torn(shown) /\ ~late) =>
        observed = shown.map \/ Announces(observed) \/ poll.at = "send"

(* A torn map is not what the robot has, or a request replaces it. *)
NotTaken ==
    (Torn(shown) /\ ~late) => signature < server.map \/ Announces(signature)

TInv == MapTypeOK /\ Forward /\ StillKnown /\ NotTaken

----------------------------------------------------------------------------

LEMMA MapsAreNumbers ==
  ASSUME MapAssumption
  PROVE
    /\ Maps \subseteq Nat /\ NoMap \in Nat /\ NoMap \notin Maps /\ NoMap \notin Drawn
    /\ 1 \in Maps /\ MaxFailures \in Nat
BY DEF MapAssumption, NoMap

LEMMA InitMapTypeOK == ASSUME MapAssumption PROVE MapInit => MapTypeOK
<1> SUFFICES ASSUME MapInit PROVE MapTypeOK OBVIOUS
<1> USE MapsAreNumbers
<1>1. server \in [map : Maps, failures : 0..MaxFailures] BY DEF MapInit
<1>2. /\ poll \in [at : {"idle", "image", "update", "send"}, pic : Picture]
      /\ poll.at = "idle" /\ shown \in Picture
  BY DEF MapInit, Picture
<1>3. api \in [Requests -> [at : {"new", "update", "send", "done"}, map : Maps \cup {NoMap}]]
  BY DEF MapInit
<1>q. QED BY <1>1, <1>2, <1>3 DEF MapInit, MapTypeOK

LEMMA NextMapTypeOK == ASSUME MapAssumption PROVE MapTypeOK /\ [MapNext]_mapVars => MapTypeOK'
<1> SUFFICES ASSUME MapTypeOK, [MapNext]_mapVars PROVE MapTypeOK' OBVIOUS
<1> USE MapsAreNumbers
<1>1. CASE LoadMap BY <1>1 DEF LoadMap, MapTypeOK
<1>2. CASE PollUnchanged BY <1>2 DEF PollUnchanged, MapTypeOK, mapVars
<1>3. CASE PollMetadata
  <2>1. server.map \in Maps /\ server.map # signature BY <1>3 DEF PollMetadata, Unchanged, MapTypeOK
  <2>2. poll'.at \in {"image", "update"} /\ poll'.pic = [map |-> server.map, image |-> NoMap]
        /\ poll' \in [at : {"idle", "image", "update", "send"}, pic : Picture]
    BY <1>3, <2>1 DEF PollMetadata, Goes, Picture
  <2>q. QED BY <1>3, <2>1, <2>2 DEF PollMetadata, MapTypeOK
<1>4. CASE PollFails BY <1>4 DEF PollFails, Fails, MapTypeOK
<1>5. CASE GetImage
  <2>1. poll' = [at |-> "update", pic |-> [poll.pic EXCEPT !.image = server.map]]
    BY <1>5 DEF GetImage, Goes
  <2>2. poll' \in [at : {"idle", "image", "update", "send"}, pic : Picture]
        /\ poll'.pic.map = poll.pic.map
    BY <2>1 DEF MapTypeOK, Picture
  <2>q. QED BY <1>5, <2>2 DEF GetImage, MapTypeOK
<1>6. CASE ImageFails
  <2>1. poll' = [at |-> "update", pic |-> poll.pic] BY <1>6 DEF ImageFails, Goes
  <2>2. server' \in [map : Maps, failures : 0..MaxFailures]
    BY <1>6 DEF ImageFails, Fails, MapTypeOK
  <2>q. QED BY <1>6, <2>1, <2>2 DEF ImageFails, MapTypeOK
<1>7. CASE PollUpdate
  <2>1. poll.pic \in Picture /\ poll.pic.map \in Maps
    BY <1>7 DEF PollUpdate, MapTypeOK, Picture
  <2>2. CASE Accepts(poll.pic)
    BY <1>7, <2>1, <2>2 DEF PollUpdate, MapTypeOK
  <2>3. CASE ~Accepts(poll.pic)
    <3>1. poll' = [at |-> "idle", pic |-> [map |-> NoMap, image |-> NoMap]]
      BY <1>7, <2>3 DEF PollUpdate, Rests, Goes
    <3>2. signature' \in Maps \cup {NoMap}
      BY <1>7, <2>1, <2>3 DEF PollUpdate, Remembered, Complete, MapTypeOK
    <3>q. QED BY <1>7, <2>3, <3>1, <3>2 DEF PollUpdate, MapTypeOK, Picture
  <2>q. QED BY <2>2, <2>3
<1>8. CASE PollSend
  <2>1. poll.pic \in Picture /\ poll.pic.map \in Maps
    BY <1>8 DEF PollSend, MapTypeOK, Picture
  <2>2. poll' = [at |-> "idle", pic |-> [map |-> NoMap, image |-> NoMap]]
    BY <1>8 DEF PollSend, Rests, Goes
  <2>3. signature' \in Maps \cup {NoMap} /\ late' \in BOOLEAN
    BY <1>8, <2>1 DEF PollSend, Remembered, Complete, MapTypeOK
  <2>q. QED BY <1>8, <2>1, <2>2, <2>3 DEF PollSend, MapTypeOK, Picture
<1>9. ASSUME NEW r \in Requests, ApiGet(r) PROVE MapTypeOK'
  BY <1>9 DEF ApiGet, MapTypeOK
<1>10. ASSUME NEW r \in Requests, ApiFails(r) PROVE MapTypeOK'
  BY <1>10 DEF ApiFails, Fails, MapTypeOK
<1>11. ASSUME NEW r \in Requests, ApiUpdate(r) PROVE MapTypeOK'
  BY <1>11 DEF ApiUpdate, MapTypeOK
<1>12. ASSUME NEW r \in Requests, ApiSend(r) PROVE MapTypeOK'
  <2>1. shown' \in Picture BY <1>12 DEF ApiSend, ApiPicture, MapTypeOK, Picture
  <2>2. late' \in BOOLEAN BY <1>12 DEF ApiSend, MapTypeOK
  <2>q. QED BY <1>12, <2>1, <2>2 DEF ApiSend, MapTypeOK
<1>13. CASE UNCHANGED mapVars BY <1>13 DEF mapVars, MapTypeOK
<1>q. QED
  BY <1>1, <1>2, <1>3, <1>4, <1>5, <1>6, <1>7, <1>8, <1>9, <1>10, <1>11, <1>12, <1>13
  DEF MapNext, PollStep, PollTrouble, ApiStep

----------------------------------------------------------------------------
(* A map without its image *)

(* Only these actions change what is on the screen or what was fetched. *)
LEMMA Untouched ==
    ASSUME [MapNext]_mapVars
    PROVE  \/ PollUpdate \/ PollSend \/ \E r \in Requests : ApiUpdate(r) \/ ApiSend(r)
           \/ UNCHANGED <<signature, observed, shown, late>>
BY DEF MapNext, mapVars, LoadMap, PollUnchanged, PollStep, PollTrouble, PollMetadata, GetImage,
       PollFails, ImageFails, ApiGet, ApiFails, ApiStep

LEMMA NextOwing == ASSUME MapAssumption PROVE MapIInv /\ [MapNext]_mapVars => Owing'
<1> SUFFICES ASSUME MapIInv, [MapNext]_mapVars PROVE Owing' OBVIOUS
<1> USE DEF MapIInv
<1>1. CASE UNCHANGED <<signature, observed, shown, late>>
  BY <1>1 DEF Owing, Complete
<1>2. CASE PollUpdate
  <2>1. CASE Accepts(poll.pic)
    BY <1>2, <2>1 DEF PollUpdate, Owing, Complete
  <2>2. CASE ~Accepts(poll.pic)
    <3>1. signature' = Remembered(poll.pic) /\ shown' = shown /\ late' = late
          /\ poll.pic.image = NoMap
      BY <1>2, <2>2 DEF PollUpdate, Accepts
    <3>2. CASE Complete(poll.pic)
      <4>1. signature' = poll.pic.map /\ poll.pic.map \notin Drawn
        BY <3>1, <3>2 DEF Remembered, Complete
      <4>q. QED BY <3>1, <4>1 DEF Owing, Complete
    <3>3. CASE ~Complete(poll.pic)
      BY <3>1, <3>3 DEF Owing, Complete, Remembered
    <3>q. QED BY <3>2, <3>3
  <2>q. QED BY <2>1, <2>2
<1>3. CASE PollSend
  BY <1>3 DEF PollSend, Remembered, Complete, Owing, MapTypeOK
<1>4. ASSUME NEW r \in Requests, ApiUpdate(r) PROVE Owing'
  BY <1>4 DEF ApiUpdate, Owing, Complete
<1>5. ASSUME NEW r \in Requests, ApiSend(r) PROVE Owing'
  <2>1. shown' = ApiPicture(r) /\ signature' = signature
        /\ late' = (late \/ api[r].map # observed \/ api[r].map <= signature)
    BY <1>5 DEF ApiSend
  <2>2. signature \in Nat BY MapsAreNumbers DEF MapTypeOK
  <2>3. shown'.map = api[r].map BY <2>1 DEF ApiPicture
  <2>4. signature = api[r].map => late'
    <3>1. signature = api[r].map => api[r].map <= signature BY <2>2
    <3>q. QED BY <2>1, <3>1, Zenon
  <2>q. QED BY <2>1, <2>3, <2>4 DEF Owing
<1>q. QED BY <1>1, <1>2, <1>3, <1>4, <1>5, Untouched

----------------------------------------------------------------------------
(* A map with another map's image *)

LEMMA InitTInv == ASSUME MapAssumption PROVE MapInit => TInv
<1> SUFFICES ASSUME MapInit PROVE TInv OBVIOUS
<1>1. MapTypeOK BY InitMapTypeOK
<1>2. /\ NoMap = 0 /\ server.map = 1 /\ signature = NoMap
      /\ poll.pic = [map |-> NoMap, image |-> NoMap]
      /\ shown = [map |-> NoMap, image |-> NoMap]
  BY DEF MapInit, NoMap
<1>3. Forward BY <1>2 DEF Forward, Fits
<1>4. ~Torn(shown) BY <1>2 DEF Torn
<1>q. QED BY <1>1, <1>3, <1>4 DEF TInv, StillKnown, NotTaken

(* The robot's map never becomes smaller. *)
LEMMA RobotAdvances ==
    ASSUME MapAssumption, MapTypeOK, [MapNext]_mapVars, ~MapsReturn
    PROVE  server'.map >= server.map /\ server'.map \in Nat /\ server.map \in Nat
<1>1. server.map \in Nat /\ server'.map \in Nat
  BY NextMapTypeOK, MapsAreNumbers DEF MapTypeOK
<1>2. CASE LoadMap BY <1>1, <1>2 DEF LoadMap, MapTypeOK
<1>3. CASE ~LoadMap
  <2>1. server'.map = server.map
    BY <1>3 DEF MapNext, mapVars, PollUnchanged, PollStep, PollTrouble, PollMetadata, GetImage,
       PollUpdate, PollSend, PollFails, ImageFails, ApiGet, ApiFails, ApiStep, ApiUpdate,
       ApiSend, Fails, MapTypeOK
  <2>q. QED BY <1>1, <2>1
<1>q. QED BY <1>2, <1>3

LEMMA NumbersOfTypes ==
    ASSUME MapAssumption, MapTypeOK
    PROVE  /\ signature \in Nat /\ observed \in Nat /\ server.map \in Nat
           /\ poll.pic.map \in Nat /\ poll.pic.image \in Nat
           /\ shown.map \in Nat /\ shown.image \in Nat
           /\ \A r \in Requests : api[r].map \in Nat
BY MapsAreNumbers DEF MapTypeOK, Picture

LEMMA NextForward == ASSUME MapAssumption PROVE MapTypeOK /\ Forward /\ [MapNext]_mapVars /\ ~MapsReturn => Forward'
<1> SUFFICES ASSUME MapTypeOK, Forward, [MapNext]_mapVars, ~MapsReturn PROVE Forward' OBVIOUS
<1>1. server'.map >= server.map /\ server'.map \in Nat /\ server.map \in Nat BY RobotAdvances
<1>2. ASSUME NEW p \in Picture, Fits(p)
      PROVE  p.image # NoMap => p.map <= p.image /\ p.image <= server'.map
  <2>1. p.map \in Nat /\ p.image \in Nat BY MapsAreNumbers DEF Picture
  <2>q. QED BY <1>1, <1>2, <2>1 DEF Fits
<1>3. poll.pic \in Picture /\ shown \in Picture BY DEF MapTypeOK
<1>4. /\ signature <= server'.map /\ poll.pic.map <= server'.map
      /\ poll.pic.image # NoMap =>
            poll.pic.map <= poll.pic.image /\ poll.pic.image <= server'.map
      /\ shown.image # NoMap => shown.map <= shown.image /\ shown.image <= server'.map
  BY <1>1, <1>2, <1>3, NumbersOfTypes DEF Forward
<1>5. CASE signature' = signature /\ shown' = shown /\ poll'.pic = poll.pic
  BY <1>4, <1>5 DEF Forward, Fits
<1>6. CASE PollMetadata
  <2>1. poll'.pic = [map |-> server.map, image |-> NoMap] /\ server' = server
        /\ signature' = signature /\ shown' = shown
    BY <1>6 DEF PollMetadata, Goes
  <2>q. QED BY <1>1, <1>4, <2>1 DEF Forward, Fits
<1>7. CASE GetImage
  <2>1. poll'.pic = [poll.pic EXCEPT !.image = server.map] /\ server' = server
        /\ signature' = signature /\ shown' = shown
    BY <1>7 DEF GetImage, Goes
  <2>2. poll'.pic.map = poll.pic.map /\ poll'.pic.image = server.map
    BY <1>3, <2>1 DEF Picture
  <2>q. QED BY <1>1, <1>4, <2>1, <2>2 DEF Forward, Fits
<1>8. CASE PollUpdate \/ PollSend
  <2>1. /\ signature' \in {signature, poll.pic.map} /\ shown' \in {shown, poll.pic}
        /\ poll'.pic \in {poll.pic, [map |-> NoMap, image |-> NoMap]}
    <3>1. CASE PollUpdate /\ Accepts(poll.pic)
      <4>1. poll' = [poll EXCEPT !.at = "send"] /\ signature' = signature /\ shown' = shown
        BY <3>1 DEF PollUpdate
      <4>2. poll'.pic = poll.pic BY <4>1 DEF MapTypeOK
      <4>q. QED BY <4>1, <4>2
    <3>2. CASE PollUpdate /\ ~Accepts(poll.pic)
      BY <3>2 DEF PollUpdate, Rests, Goes, Remembered
    <3>3. CASE PollSend BY <3>3 DEF PollSend, Rests, Goes, Remembered
    <3>q. QED BY <1>8, <3>1, <3>2, <3>3
  <2>2. signature' <= server'.map BY <1>4, <2>1
  <2>3. Fits(shown)' BY <1>4, <2>1 DEF Fits
  <2>4. poll'.pic.map <= server'.map /\ Fits(poll.pic)'
    BY <1>1, <1>4, <2>1, MapsAreNumbers DEF Fits, NoMap
  <2>q. QED BY <2>2, <2>3, <2>4 DEF Forward
<1>9. ASSUME NEW r \in Requests, ApiSend(r) PROVE Forward'
  BY <1>4, <1>9 DEF ApiSend, ApiPicture, Forward, Fits
<1>q. QED
  BY <1>5, <1>6, <1>7, <1>8, <1>9
  DEF MapNext, mapVars, LoadMap, PollUnchanged, PollStep, PollTrouble, PollFails, ImageFails, Goes,
      ApiStep, ApiGet, ApiFails, ApiUpdate

(* Storing what a request found: it is about to send that map, and so is   *)
(* every other request that was.                                           *)
LEMMA AnnouncedStays ==
    ASSUME MapTypeOK, NEW r \in Requests, ApiUpdate(r), NEW m \in Nat, Announces(m)
    PROVE  Announces(m)'
<1>1. PICK q \in Requests : api[q] = [at |-> "send", map |-> m] BY DEF Announces
<1>2. q # r BY <1>1 DEF ApiUpdate
<1>3. api'[q] = api[q] BY <1>2 DEF ApiUpdate, MapTypeOK
<1>q. QED BY <1>1, <1>3 DEF Announces

LEMMA StoredIsAnnounced ==
    ASSUME MapTypeOK, NEW r \in Requests, ApiUpdate(r), Accepts(ApiPicture(r))
    PROVE  observed' = api[r].map /\ Announces(observed)'
<1>1. observed' = api[r].map /\ api' = [api EXCEPT ![r].at = "send"] BY DEF ApiUpdate
<1>2. api'[r] = [at |-> "send", map |-> api[r].map] BY <1>1 DEF MapTypeOK
<1>q. QED BY <1>1, <1>2 DEF Announces

(* The requests that are under way go on, but for the one that sends. *)
LEMMA AnnouncedOtherwise ==
    ASSUME MapTypeOK, [MapNext]_mapVars, \A r \in Requests : ~ApiUpdate(r) /\ ~ApiSend(r),
           NEW m, Announces(m)
    PROVE  Announces(m)'
<1>1. PICK q \in Requests : api[q] = [at |-> "send", map |-> m] BY DEF Announces
<1>2. CASE UNCHANGED api BY <1>1, <1>2 DEF Announces
<1>3. ASSUME NEW r \in Requests, ApiGet(r) \/ ApiFails(r) PROVE Announces(m)'
  <2>1. q # r BY <1>1, <1>3 DEF ApiGet, ApiFails
  <2>2. api'[q] = api[q] BY <1>3, <2>1 DEF ApiGet, ApiFails, MapTypeOK
  <2>q. QED BY <1>1, <2>2 DEF Announces
<1>q. QED
  BY <1>2, <1>3
  DEF MapNext, mapVars, LoadMap, PollUnchanged, PollStep, PollTrouble, PollMetadata, GetImage,
      PollUpdate, PollSend, PollFails, ImageFails, ApiStep

LEMMA NextStillKnown == ASSUME MapAssumption PROVE TInv /\ [MapNext]_mapVars => StillKnown'
<1> SUFFICES ASSUME TInv, [MapNext]_mapVars, Torn(shown)', ~late' PROVE
      (observed = shown.map \/ Announces(observed) \/ poll.at = "send")'
  BY DEF StillKnown
<1> USE DEF TInv
<1>1. ASSUME NEW r \in Requests, ApiUpdate(r)
      PROVE (observed = shown.map \/ Announces(observed) \/ poll.at = "send")'
  <2>1. Torn(shown) /\ ~late /\ shown' = shown /\ poll' = poll
    BY <1>1 DEF ApiUpdate, Torn
  <2>2. CASE Accepts(ApiPicture(r)) BY <1>1, <2>2, StoredIsAnnounced
  <2>3. CASE ~Accepts(ApiPicture(r))
    <3>1. observed' = observed BY <1>1, <2>3 DEF ApiUpdate
    <3>2. Announces(observed) => Announces(observed)'
      <4>1. observed \in Nat BY NumbersOfTypes
      <4>2. ASSUME Announces(observed)
            PROVE  \E q \in Requests : api'[q] = [at |-> "send", map |-> observed]
        BY <1>1, <4>1, <4>2, AnnouncedStays DEF Announces
      <4>q. QED BY <3>1, <4>2 DEF Announces
    <3>q. QED BY <2>1, <3>1, <3>2 DEF StillKnown
  <2>q. QED BY <2>2, <2>3
<1>2. ASSUME NEW r \in Requests, ApiSend(r) PROVE FALSE
  BY <1>2 DEF ApiSend, ApiPicture, Torn
<1>3. CASE PollSend BY <1>3 DEF PollSend
<1>4. CASE PollUpdate /\ Accepts(poll.pic) BY <1>4 DEF PollUpdate, MapTypeOK
<1>5. CASE /\ \A r \in Requests : ~ApiUpdate(r) /\ ~ApiSend(r)
           /\ ~PollSend /\ ~(PollUpdate /\ Accepts(poll.pic))
  <2>1. shown' = shown /\ late' = late /\ observed' = observed
    BY <1>5, Untouched DEF PollUpdate
  <2>2. Torn(shown) /\ ~late BY <2>1 DEF Torn
  <2>3. poll.at = "send" => poll'.at = "send"
    BY <1>5
    DEF MapNext, mapVars, LoadMap, PollUnchanged, PollStep, PollTrouble, PollMetadata, GetImage,
        PollUpdate, PollFails, ImageFails, ApiGet, ApiFails, ApiStep
  <2>4. Announces(observed) => Announces(observed)'
    <3>1. ASSUME Announces(observed)
          PROVE  \E q \in Requests : api'[q] = [at |-> "send", map |-> observed]
      BY <1>5, <3>1, AnnouncedOtherwise DEF Announces
    <3>q. QED BY <2>1, <3>1 DEF Announces
  <2>q. QED BY <2>1, <2>2, <2>3, <2>4 DEF StillKnown
<1>q. QED BY <1>1, <1>2, <1>3, <1>4, <1>5

LEMMA NextNotTaken == ASSUME MapAssumption PROVE TInv /\ [MapNext]_mapVars /\ ~MapsReturn => NotTaken'
<1> SUFFICES ASSUME TInv, [MapNext]_mapVars, ~MapsReturn, Torn(shown)', ~late' PROVE
      (signature < server.map \/ Announces(signature))'
  BY DEF NotTaken
<1> USE DEF TInv
<1>1. server'.map >= server.map /\ server'.map \in Nat /\ server.map \in Nat
      /\ signature \in Nat /\ shown.map \in Nat /\ shown.image \in Nat
  BY RobotAdvances, NumbersOfTypes
<1>2. ASSUME NEW r \in Requests, ApiUpdate(r)
      PROVE  (signature < server.map \/ Announces(signature))'
  <2>1. Torn(shown) /\ ~late /\ signature' = signature BY <1>2 DEF ApiUpdate, Torn
  <2>2. ASSUME Announces(signature)
        PROVE  \E q \in Requests : api'[q] = [at |-> "send", map |-> signature]
    BY <1>1, <1>2, <2>2, AnnouncedStays DEF Announces
  <2>q. QED BY <1>1, <2>1, <2>2 DEF NotTaken, Announces
<1>3. ASSUME NEW r \in Requests, ApiSend(r) PROVE FALSE
  BY <1>3 DEF ApiSend, ApiPicture, Torn
<1>4. CASE PollSend
  <2>1. /\ signature' = Remembered(poll.pic) /\ shown' = poll.pic /\ server' = server
        /\ poll.pic.image # NoMap /\ poll.pic.image # poll.pic.map
    BY <1>4 DEF PollSend, Torn
  <2>2. signature' = poll.pic.map BY <2>1 DEF Remembered, Complete
  <2>3. poll.pic.map <= poll.pic.image /\ poll.pic.image <= server.map
    BY <2>1 DEF Forward, Fits
  <2>q. QED BY <1>1, <2>1, <2>2, <2>3, NumbersOfTypes
<1>5. CASE PollUpdate /\ ~Accepts(poll.pic)
  <2>1. /\ signature' = Remembered(poll.pic) /\ poll.pic.map = observed
        /\ shown' = shown /\ late' = late /\ server' = server /\ api' = api
        /\ poll.at = "update"
    BY <1>5 DEF PollUpdate, Accepts
  <2>2. Torn(shown) /\ ~late BY <2>1 DEF Torn
  <2>3. CASE signature' = signature BY <2>1, <2>2, <2>3 DEF NotTaken, Announces
  <2>4. CASE signature' = observed
    <3>1. observed = shown.map \/ Announces(observed) BY <2>1, <2>2 DEF StillKnown
    <3>2. shown.map < server.map BY <1>1, <2>2 DEF Torn, Forward, Fits
    <3>q. QED BY <2>1, <2>4, <3>1, <3>2 DEF Announces
  <2>q. QED BY <2>1, <2>3, <2>4 DEF Remembered
<1>6. CASE /\ \A r \in Requests : ~ApiUpdate(r) /\ ~ApiSend(r)
           /\ ~PollSend /\ ~(PollUpdate /\ ~Accepts(poll.pic))
  <2>1. shown' = shown /\ late' = late /\ signature' = signature
    BY <1>6, Untouched DEF PollUpdate
  <2>2. Torn(shown) /\ ~late BY <2>1 DEF Torn
  <2>3. ASSUME Announces(signature)
        PROVE  \E q \in Requests : api'[q] = [at |-> "send", map |-> signature]
    BY <1>6, <2>3, AnnouncedOtherwise DEF Announces
  <2>q. QED BY <1>1, <2>1, <2>2, <2>3 DEF NotTaken, Announces
<1>q. QED BY <1>2, <1>3, <1>4, <1>5, <1>6

----------------------------------------------------------------------------
(* Theorems                                                                *)

(* Every cell keeps its type; in particular a poll is never under way for  *)
(* the map that was fetched last.  Code: _refresh_map.                     *)
THEOREM MapTypeCorrect == ASSUME MapAssumption PROVE MapSpec => []MapTypeOK
<1>1. MapInit => MapTypeOK BY InitMapTypeOK
<1>2. MapTypeOK /\ [MapNext]_mapVars => MapTypeOK' BY NextMapTypeOK
<1>q. QED BY <1>1, <1>2, PTL DEF MapSpec

(* A map on screen without its image is not filed as fetched, whatever the *)
(* robot loads and whatever fails, unless it was sent out of order.        *)
(* Code: _refresh_map.                                                     *)
THEOREM PartialMaps == ASSUME MapAssumption PROVE MapSpec => []PartialIsRetried
<1>1. MapInit => MapIInv
  BY InitMapTypeOK, MapsAreNumbers DEF MapInit, MapIInv, Owing, Complete
<1>2. MapIInv /\ [MapNext]_mapVars => MapIInv' BY NextMapTypeOK, NextOwing DEF MapIInv
<1>3. MapIInv => PartialIsRetried BY DEF MapIInv, Owing, PartialIsRetried
<1>q. QED BY <1>1, <1>2, <1>3, PTL DEF MapSpec

(* A robot that never goes back to an earlier map is never taken to have   *)
(* the torn map on the screen.  Code: _refresh_map and update_map.         *)
THEOREM TornMaps == ASSUME MapAssumption, ~MapsReturn PROVE MapSpec => []TornIsReplaced
<1>1. MapInit => TInv BY InitTInv
<1>2. TInv /\ [MapNext]_mapVars => TInv'
  BY NextMapTypeOK, NextForward, NextStillKnown, NextNotTaken DEF TInv
<1>3. TInv => TornIsReplaced
  <2> SUFFICES ASSUME TInv, Torn(shown), ~late, Unchanged PROVE Announces(server.map)
    BY DEF TornIsReplaced
  <2>1. signature = server.map /\ signature \in Nat BY NumbersOfTypes DEF Unchanged, TInv
  <2>q. QED BY <2>1 DEF TInv, NotTaken
<1>q. QED BY <1>1, <1>2, <1>3, PTL DEF MapSpec
=============================================================================
