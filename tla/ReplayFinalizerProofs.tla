----------------------- MODULE ReplayFinalizerProofs -----------------------
(***************************************************************************)
(* Proofs about ReplayFinalizer, for any number of threads, tasks and      *)
(* directories: _pending_finalizations counts exactly, and each directory  *)
(* is held in exactly one place on its way from start_task to the end of   *)
(* its finalization.                                                       *)
(***************************************************************************)
EXTENDS ReplayFinalizer, FunctionTheorems, FiniteSetTheorems, SequenceTheorems, TLAPS

----------------------------------------------------------------------------
(* Counting                                                                *)

(* How often the function f gives v, and how often an element of W is in   *)
(* the sequence q.                                                         *)
Times(f, v) == Cardinality({x \in DOMAIN f : f[x] = v})
Places(q, W) == Cardinality({i \in DOMAIN q : q[i] \in W})

(* f and g differ at x only: one more is counted when g[x] is v, one less  *)
(* when f[x] was.                                                          *)
LEMMA TimesChanged ==
    ASSUME NEW S, IsFiniteSet(S), NEW x \in S, NEW f, NEW g, DOMAIN f = S, DOMAIN g = S,
           \A y \in S \ {x} : g[y] = f[y], NEW v
    PROVE  /\ Times(f, v) \in Nat /\ Times(g, v) \in Nat
           /\ f[x] = v => Times(f, v) >= 1
           /\ Times(g, v) = Times(f, v) - (IF f[x] = v THEN 1 ELSE 0)
                                       + (IF g[x] = v THEN 1 ELSE 0)
<1> DEFINE Rest == {y \in S \ {x} : f[y] = v}
           F == {y \in DOMAIN f : f[y] = v}
           G == {y \in DOMAIN g : g[y] = v}
<1>2. IsFiniteSet(Rest) /\ x \notin Rest /\ Rest \in SUBSET S BY FS_Subset
<1>3. Cardinality(Rest) \in Nat /\ Cardinality(Rest \cup {x}) = Cardinality(Rest) + 1
  BY <1>2, FS_AddElement, FS_CardinalityType
<1>4. F = IF f[x] = v THEN Rest \cup {x} ELSE Rest OBVIOUS
<1>5. G = IF g[x] = v THEN Rest \cup {x} ELSE Rest OBVIOUS
<1> HIDE DEF Rest
<1>6. Cardinality(F) = IF f[x] = v THEN Cardinality(Rest) + 1 ELSE Cardinality(Rest)
  BY <1>3, <1>4
<1>7. Cardinality(G) = IF g[x] = v THEN Cardinality(Rest) + 1 ELSE Cardinality(Rest)
  BY <1>3, <1>5
<1>8. Times(f, v) = Cardinality(F) /\ Times(g, v) = Cardinality(G) BY DEF Times
<1> HIDE DEF F, G
<1>q. QED BY <1>3, <1>6, <1>7, <1>8

LEMMA TimesType ==
    ASSUME NEW S, IsFiniteSet(S), NEW V, NEW f \in [S -> V], NEW v
    PROVE  Times(f, v) \in Nat /\ (Times(f, v) = 0 <=> \A x \in S : f[x] # v)
<1> DEFINE F == {y \in DOMAIN f : f[y] = v}
<1>1. IsFiniteSet(F) /\ DOMAIN f = S BY FS_Subset
<1>2. Cardinality(F) \in Nat /\ (Cardinality(F) = 0 <=> F = {})
  BY <1>1, FS_CardinalityType, FS_EmptySet
<1>q. QED BY <1>1, <1>2 DEF Times

LEMMA PlacesType ==
    ASSUME NEW V, NEW q \in Seq(V), NEW W
    PROVE  Places(q, W) \in Nat /\ IsFiniteSet({i \in DOMAIN q : q[i] \in W})
<1>1. DOMAIN q = 1..Len(q) /\ Len(q) \in Nat OBVIOUS
<1>2. IsFiniteSet(DOMAIN q) BY <1>1, FS_Interval
<1>3. {i \in DOMAIN q : q[i] \in W} \in SUBSET (DOMAIN q) OBVIOUS
<1>q. QED BY <1>2, <1>3, FS_Subset, FS_CardinalityType DEF Places

LEMMA PlacesAppend ==
    ASSUME NEW V, NEW q \in Seq(V), NEW e \in V, NEW W
    PROVE  Places(Append(q, e), W) = Places(q, W) + (IF e \in W THEN 1 ELSE 0)
<1> DEFINE a == Append(q, e)
           n == Len(q) + 1
           Q == {i \in DOMAIN q : q[i] \in W}
           A == {i \in DOMAIN a : a[i] \in W}
<1>1. /\ DOMAIN q = 1..Len(q) /\ DOMAIN a = 1..n /\ Len(q) \in Nat /\ a[n] = e
      /\ \A i \in 1..Len(q) : a[i] = q[i]
  OBVIOUS
<1>2. 1..n = (1..Len(q)) \cup {n} /\ n \notin 1..Len(q) BY <1>1
<1>3. A = IF e \in W THEN Q \cup {n} ELSE Q
  <2>1. \A i : i \in A <=> (i \in Q \/ (i = n /\ e \in W))
    <3> HIDE DEF a, n
    <3>q. QED BY <1>1, <1>2
  <2>q. QED BY <2>1
<1>4. IsFiniteSet(Q) /\ n \notin Q BY <1>1, <1>2, PlacesType
<1>5. Cardinality(Q) \in Nat /\ Cardinality(Q \cup {n}) = Cardinality(Q) + 1
  BY <1>4, FS_AddElement, FS_CardinalityType
<1>6. Places(a, W) = Cardinality(A) /\ Places(q, W) = Cardinality(Q) BY DEF Places
<1> HIDE DEF A, Q, a, n
<1>7. Cardinality(A) = IF e \in W THEN Cardinality(Q) + 1 ELSE Cardinality(Q)
  BY <1>3, <1>5
<1>8. Places(a, W) = Places(q, W) + (IF e \in W THEN 1 ELSE 0) BY <1>5, <1>6, <1>7
<1>q. QED BY <1>8 DEF a

LEMMA PlacesTail ==
    ASSUME NEW V, NEW q \in Seq(V), q # <<>>, NEW W
    PROVE  /\ Places(Tail(q), W) = Places(q, W) - (IF Head(q) \in W THEN 1 ELSE 0)
           /\ Tail(q) \in Seq(V) /\ Head(q) \in V
<1> DEFINE t == Tail(q)
           Q == {i \in DOMAIN q : q[i] \in W}
           Q1 == Q \ {1}
           T == {i \in DOMAIN t : t[i] \in W}
           f == [i \in T |-> i + 1]
<1>1. /\ DOMAIN q = 1..Len(q) /\ Len(q) \in Nat /\ Len(q) >= 1
      /\ DOMAIN t = 1..(Len(q) - 1) /\ Head(q) = q[1]
      /\ \A i \in 1..(Len(q) - 1) : t[i] = q[i + 1]
      /\ t \in Seq(V) /\ Head(q) \in V
  OBVIOUS
<1>2. f \in Bijection(T, Q1)
  <2>0. \A i : i \in T <=> (i \in 1..(Len(q) - 1) /\ q[i + 1] \in W)
    <3> HIDE DEF t
    <3>q. QED BY <1>1
  <2>00. \A j : j \in Q1 <=> (j \in 1..Len(q) /\ j # 1 /\ q[j] \in W) BY <1>1
  <2> HIDE DEF T, Q1
  <2>1. \A i \in T : i + 1 \in Q1 BY <1>1, <2>0, <2>00
  <2>2. \A i, j \in T : f[i] = f[j] => i = j BY <1>1, <2>0
  <2>3. \A j \in Q1 : \E i \in T : f[i] = j
    <3>1. TAKE j \in Q1
    <3>2. j - 1 \in 1..(Len(q) - 1) /\ (j - 1) + 1 = j /\ q[j] \in W BY <1>1, <2>00
    <3>3. j - 1 \in T BY <2>0, <3>2
    <3>4. f[j - 1] = j BY <3>2, <3>3
    <3>q. QED BY <3>3, <3>4
  <2>4. f \in [T -> Q1] BY <2>1
  <2> HIDE DEF f
  <2>q. QED BY <2>2, <2>3, <2>4, Fun_IsBij
<1>3. IsFiniteSet(T) /\ IsFiniteSet(Q) BY <1>1, PlacesType
<1> HIDE DEF f
<1>4. Cardinality(Q1) = Cardinality(T) BY <1>2, <1>3, FS_Bijection DEF ExistsBijection
<1>5. 1 \in Q <=> Head(q) \in W BY <1>1
<1> HIDE DEF T, Q, t
<1>6. Cardinality(Q1) = IF Head(q) \in W THEN Cardinality(Q) - 1 ELSE Cardinality(Q)
  BY <1>3, <1>5, FS_RemoveElement
<1>7. Cardinality(Q) \in Nat BY <1>3, FS_CardinalityType
<1>8. Places(t, W) = Cardinality(T) /\ Places(q, W) = Cardinality(Q) BY DEF Places, T, Q, t
<1>9. Places(t, W) = Places(q, W) - (IF Head(q) \in W THEN 1 ELSE 0)
  BY <1>4, <1>6, <1>7, <1>8
<1>q. QED BY <1>1, <1>9 DEF t
----------------------------------------------------------------------------
(* The inductive invariant                                                 *)

(* A caller holds a directory from TakeTask until it has passed it on. *)
Held == \A c \in Callers : item[c] # 0 <=> pc[c] \in {"ensure", "count", "put", "inline"}

Working == worker = "run" <=> job # 0

Exact ==
    pending = Times(pc, "put") + Places(queue, Dirs)
              + (IF worker \in {"run", "done"} THEN 1 ELSE 0)

Where(d) ==
    Times(tasks, d) + Times(item, d) + Places(queue, {d})
    + (IF job = d THEN 1 ELSE 0) + (IF d \in completed THEN 1 ELSE 0)

Tracked ==
    /\ orphans \subseteq 1..starts
    /\ \A d \in Dirs : Where(d) = IF d \in (1..starts) \ orphans THEN 1 ELSE 0

IInv == TypeOK /\ Held /\ Working /\ Exact /\ Tracked

LEMMA Directories ==
    /\ MaxStarts \in Nat /\ Dirs \subseteq Nat /\ 0 \notin Dirs
    /\ IsFiniteSet(Callers) /\ IsFiniteSet(Tasks)
BY FinalizerAssumption DEF Dirs

LEMMA InitIInv == Init => IInv
<1> SUFFICES ASSUME Init PROVE IInv OBVIOUS
<1>1. TypeOK
  <2>1. tasks \in [Tasks -> Dirs \cup {0}] /\ item \in [Callers -> Dirs \cup {0}]
        /\ pc \in [Callers -> CallerPhases]
    BY DEF Init, CallerPhases
  <2>2. queue \in Seq(Dirs \cup {0}) /\ worker \in WorkerPhases BY DEF Init, WorkerPhases
  <2>3. starts \in 0..MaxStarts BY Directories DEF Init
  <2>q. QED BY <2>1, <2>2, <2>3 DEF Init, TypeOK
<1>2. Held /\ Working BY DEF Init, Held, Working
<1>3. \A W : Places(queue, W) = 0
  <2>1. \A W : {i \in DOMAIN queue : queue[i] \in W} = {} BY DEF Init
  <2>q. QED BY <2>1, FS_EmptySet DEF Places
<1>4. Times(pc, "put") = 0
  <2>1. pc \in [Callers -> CallerPhases] /\ \A c \in Callers : pc[c] # "put"
    BY <1>1 DEF Init, TypeOK
  <2>q. QED BY <2>1, TimesType, Directories
<1>5. ASSUME NEW d \in Dirs PROVE Times(tasks, d) = 0 /\ Times(item, d) = 0
  <2>1. /\ tasks \in [Tasks -> {0}] /\ item \in [Callers -> {0}] /\ d # 0
        /\ \A t \in Tasks : tasks[t] # d
        /\ \A c \in Callers : item[c] # d
    BY Directories DEF Init
  <2>2. Times(tasks, d) = 0 BY <2>1, TimesType, Directories
  <2>3. Times(item, d) = 0 BY <2>1, TimesType, Directories
  <2>q. QED BY <2>2, <2>3
<1>6. Exact BY <1>3, <1>4 DEF Init, Exact
<1>7. Tracked
  <2>1. ASSUME NEW d \in Dirs PROVE Where(d) = 0
    BY <1>3, <1>5, Directories DEF Init, Where
  <2>q. QED BY <2>1 DEF Init, Tracked
<1>q. QED BY <1>1, <1>2, <1>6, <1>7 DEF IInv

LEMMA NextTypeOK == IInv /\ [Next]_vars => TypeOK'
<1> SUFFICES ASSUME IInv, [Next]_vars PROVE TypeOK' OBVIOUS
<1> USE Directories DEF IInv, TypeOK
<1>1. ASSUME NEW c \in Callers, NEW t \in Tasks, StartTask(c, t) PROVE TypeOK'
  <2>1. starts + 1 \in Dirs /\ starts + 1 \in 0..MaxStarts BY <1>1 DEF StartTask, Dirs
  <2>q. QED BY <1>1, <2>1 DEF StartTask, finalizer, caller
<1>2. ASSUME NEW c \in Callers, NEW t \in Tasks, TakeTask(c, t) PROVE TypeOK'
  BY <1>2 DEF TakeTask, Goes, Unregistered, CallerPhases, finalizer, hist
<1>3. ASSUME NEW c \in Callers, EnsureFinalizeWorker(c) PROVE TypeOK'
  BY <1>3 DEF EnsureFinalizeWorker, AfterEnsure, Goes, CallerPhases, WorkerPhases, store, hist
<1>4. ASSUME NEW c \in Callers, FinalizeInline(c) PROVE TypeOK'
  BY <1>4 DEF FinalizeInline, Goes, CallerPhases, Held, store, finalizer, hist
<1>5. ASSUME NEW c \in Callers, CountPending(c) PROVE TypeOK'
  BY <1>5 DEF CountPending, Goes, CallerPhases, store, hist
<1>6. ASSUME NEW c \in Callers, PutJob(c) PROVE TypeOK'
  <2>1. item[c] \in Dirs BY <1>6 DEF PutJob, Goes, Held
  <2>2. queue' \in Seq(Dirs \cup {0}) BY <1>6, <2>1 DEF PutJob
  <2>3. late' \subseteq Dirs BY <1>6, <2>1 DEF PutJob
  <2>4. item' \in [Callers -> Dirs \cup {0}] /\ pc' \in [Callers -> CallerPhases]
    BY <1>6 DEF PutJob, Goes, CallerPhases
  <2>q. QED BY <1>6, <2>2, <2>3, <2>4 DEF PutJob, store
<1>7. ASSUME NEW c \in Callers, Wait(c) \/ Waited(c) \/ WaitTimedOut(c) \/ Joined(c)
      PROVE  TypeOK'
  BY <1>7 DEF Wait, Waited, WaitTimedOut, Joined, Goes, CallerPhases, store, finalizer, hist
<1>8. ASSUME NEW c \in Callers, Shutdown(c) PROVE TypeOK'
  <2>1. queue' \in {queue, Append(queue, 0)} /\ pc' \in {pc, [pc EXCEPT ![c] = "join"]}
    BY <1>8 DEF Shutdown, Told, Goes
  <2>2. queue' \in Seq(Dirs \cup {0}) BY <2>1
  <2>3. pc' \in [Callers -> CallerPhases] BY <2>1 DEF CallerPhases
  <2>q. QED BY <1>8, <2>2, <2>3 DEF Shutdown, store, hist
<1>9. CASE GetJob
  <2>1. Head(queue) \in Dirs \cup {0} /\ queue' \in Seq(Dirs \cup {0})
    BY <1>9 DEF GetJob
  <2>q. QED BY <1>9, <2>1 DEF GetJob, Leaves, WorkerPhases, store, caller, hist
<1>10. CASE FinalizeJob
  BY <1>10 DEF FinalizeJob, AfterRun, Working, WorkerPhases, store, caller, hist
<1>11. CASE CountDone
  <2>1. pending - 1 \in Nat
    <3>1. Times(pc, "put") \in Nat BY TimesType
    <3>2. Places(queue, Dirs) \in Nat BY PlacesType
    <3>q. QED BY <1>11, <3>1, <3>2 DEF CountDone, Exact
  <2>q. QED BY <1>11, <2>1 DEF CountDone, WorkerPhases, store, caller, hist
<1>12. CASE UNCHANGED vars BY <1>12 DEF vars, store, finalizer, caller, hist
<1>q. QED
  BY <1>1, <1>2, <1>3, <1>4, <1>5, <1>6, <1>7, <1>8, <1>9, <1>10, <1>11, <1>12
  DEF Next, Begins, Continues, Finalizes

LEMMA NextHeld == IInv /\ [Next]_vars => Held' /\ Working'
<1> SUFFICES ASSUME IInv, [Next]_vars PROVE Held' /\ Working' OBVIOUS
<1> USE Directories DEF IInv, TypeOK, Held, Working
<1>1. ASSUME NEW c \in Callers, NEW t \in Tasks, StartTask(c, t) PROVE Held' /\ Working'
  BY <1>1 DEF StartTask, finalizer, caller
<1>2. ASSUME NEW c \in Callers, NEW t \in Tasks, TakeTask(c, t) PROVE Held' /\ Working'
  BY <1>2 DEF TakeTask, Goes, finalizer
<1>3. ASSUME NEW c \in Callers, EnsureFinalizeWorker(c) PROVE Held' /\ Working'
  BY <1>3 DEF EnsureFinalizeWorker, AfterEnsure, Goes
<1>4. ASSUME NEW c \in Callers, FinalizeInline(c) \/ CountPending(c) \/ PutJob(c)
      PROVE  Held' /\ Working'
  BY <1>4 DEF FinalizeInline, CountPending, PutJob, Goes, finalizer
<1>5. ASSUME NEW c \in Callers, Wait(c) \/ Waited(c) \/ WaitTimedOut(c) \/ Joined(c)
      PROVE  Held' /\ Working'
  BY <1>5 DEF Wait, Waited, WaitTimedOut, Joined, Goes, finalizer
<1>6. ASSUME NEW c \in Callers, Shutdown(c) PROVE Held' /\ Working'
  BY <1>6 DEF Shutdown, Goes
<1>7. CASE GetJob
  BY <1>7 DEF GetJob, Leaves, caller
<1>8. CASE FinalizeJob \/ CountDone
  BY <1>8 DEF FinalizeJob, CountDone, AfterRun, caller
<1>9. CASE UNCHANGED vars BY <1>9 DEF vars, finalizer, caller
<1>q. QED
  BY <1>1, <1>2, <1>3, <1>4, <1>5, <1>6, <1>7, <1>8, <1>9
  DEF Next, Begins, Continues, Finalizes

----------------------------------------------------------------------------
(* The count                                                               *)

(* A step of a caller's pc moves it into or out of "put". *)
LEMMA PutsCounted ==
    ASSUME TypeOK, NEW c \in Callers, NEW from, NEW to, Goes(c, from, to)
    PROVE  Times(pc', "put") = Times(pc, "put") - (IF from = "put" THEN 1 ELSE 0)
                                                + (IF to = "put" THEN 1 ELSE 0)
           /\ Times(pc, "put") \in Nat
<1>1. /\ DOMAIN pc = Callers /\ DOMAIN pc' = Callers /\ pc[c] = from /\ pc'[c] = to
      /\ \A b \in Callers \ {c} : pc'[b] = pc[b]
  BY DEF TypeOK, Goes
<1>q. QED BY <1>1, TimesChanged, Directories

LEMMA NextExact == IInv /\ [Next]_vars => Exact'
<1> SUFFICES ASSUME IInv, [Next]_vars PROVE Exact' OBVIOUS
<1> USE DEF IInv
<1> DEFINE P == Times(pc, "put")
           Q == Places(queue, Dirs)
           B == IF worker \in {"run", "done"} THEN 1 ELSE 0
<1>0. P \in Nat /\ Q \in Nat /\ pending = P + Q + B
      /\ queue \in Seq(Dirs \cup {0}) /\ worker \in WorkerPhases
  <2>1. P \in Nat BY TimesType, Directories DEF TypeOK
  <2>2. Q \in Nat BY PlacesType DEF TypeOK
  <2>q. QED BY <2>1, <2>2 DEF Exact, TypeOK
<1>e. ASSUME pending' = P' + Q' + B' PROVE Exact' BY <1>e DEF Exact
<1>1. CASE UNCHANGED <<pc, queue, worker, pending>> BY <1>0, <1>1 DEF Exact
<1>2. ASSUME NEW c \in Callers, NEW t \in Tasks, TakeTask(c, t) PROVE Exact'
  <2>1. P' = P BY <1>0, <1>2, PutsCounted DEF TakeTask
  <2>q. QED BY <1>0, <1>2, <2>1 DEF TakeTask, finalizer, Exact
<1>3. ASSUME NEW c \in Callers, EnsureFinalizeWorker(c) PROVE Exact'
  <2>1. P' = P BY <1>0, <1>3, PutsCounted DEF EnsureFinalizeWorker, AfterEnsure
  <2>2. B' = B BY <1>3 DEF EnsureFinalizeWorker
  <2>3. Q' = Q /\ pending' = pending BY <1>3 DEF EnsureFinalizeWorker
  <2>q. QED BY <1>0, <1>e, <2>1, <2>2, <2>3
<1>4. ASSUME NEW c \in Callers,
             FinalizeInline(c) \/ Wait(c) \/ Waited(c) \/ WaitTimedOut(c) \/ Joined(c)
      PROVE  Exact'
  <2>1. P' = P
    BY <1>0, <1>4, PutsCounted DEF FinalizeInline, Wait, Waited, WaitTimedOut, Joined
  <2>2. UNCHANGED <<queue, worker, pending>>
    BY <1>4 DEF FinalizeInline, Wait, Waited, WaitTimedOut, Joined, finalizer
  <2>q. QED BY <1>0, <2>1, <2>2 DEF Exact
<1>5. ASSUME NEW c \in Callers, CountPending(c) PROVE Exact'
  <2>1. P' = P + 1 BY <1>0, <1>5, PutsCounted DEF CountPending
  <2>2. Q' = Q /\ B' = B /\ pending' = pending + 1 BY <1>5 DEF CountPending
  <2>q. QED BY <1>0, <1>e, <2>1, <2>2
<1>6. ASSUME NEW c \in Callers, PutJob(c) PROVE Exact'
  <2>1. P' = P - 1 BY <1>0, <1>6, PutsCounted DEF PutJob
  <2>2. item[c] \in Dirs BY <1>6 DEF PutJob, Goes, Held, TypeOK
  <2>3. queue' = Append(queue, item[c]) /\ B' = B /\ pending' = pending BY <1>6 DEF PutJob
  <2>4. Q' = Q + 1
    <3>1. Places(Append(queue, item[c]), Dirs)
            = Places(queue, Dirs) + (IF item[c] \in Dirs THEN 1 ELSE 0)
      BY <1>0, <2>2, PlacesAppend
    <3>q. QED BY <2>2, <2>3, <3>1
  <2>q. QED BY <1>0, <1>e, <2>1, <2>3, <2>4
<1>7. ASSUME NEW c \in Callers, Shutdown(c) PROVE Exact'
  <2>1. P' = P BY <1>0, <1>7, PutsCounted DEF Shutdown
  <2>2. queue' \in {queue, Append(queue, 0)} /\ B' = B /\ pending' = pending
    BY <1>7 DEF Shutdown, Told
  <2>3. Q' = Q
    <3>1. Places(Append(queue, 0), Dirs) = Places(queue, Dirs) + (IF 0 \in Dirs THEN 1 ELSE 0)
      BY <1>0, PlacesAppend
    <3>2. Places(Append(queue, 0), Dirs) = Q BY <1>0, <3>1, Directories
    <3>3. CASE queue' = queue BY <3>3
    <3>4. CASE queue' = Append(queue, 0) BY <3>2, <3>4
    <3>q. QED BY <2>2, <3>3, <3>4
  <2>q. QED BY <1>0, <1>e, <2>1, <2>2, <2>3
<1>8. CASE GetJob
  <2>1. Places(Tail(queue), Dirs)
          = Places(queue, Dirs) - (IF Head(queue) \in Dirs THEN 1 ELSE 0)
        /\ Head(queue) \in Dirs \cup {0}
    BY <1>0, <1>8, PlacesTail DEF GetJob
  <2>2. Q' = Places(Tail(queue), Dirs) /\ P' = P /\ B = 0 /\ pending' = pending
        /\ B' = (IF Head(queue) = 0 THEN 0 ELSE 1)
    BY <1>8 DEF GetJob, Leaves, caller
  <2>3. Head(queue) \in Dirs <=> Head(queue) # 0 BY <2>1, Directories
  <2>q. QED BY <1>0, <1>e, <2>1, <2>2, <2>3
<1>9. CASE FinalizeJob
  <2>1. Q' = Q /\ P' = P /\ B' = B /\ pending' = pending
    BY <1>9 DEF FinalizeJob, AfterRun, caller
  <2>q. QED BY <1>0, <1>e, <2>1
<1>10. CASE CountDone
  <2>1. Q' = Q /\ P' = P /\ B = 1 /\ B' = 0 /\ pending' = pending - 1
    BY <1>10 DEF CountDone, caller
  <2>q. QED BY <1>0, <1>e, <2>1
<1>q. QED
  BY <1>1, <1>2, <1>3, <1>4, <1>5, <1>6, <1>7, <1>8, <1>9, <1>10
  DEF Next, Begins, Continues, Finalizes, StartTask, vars, caller, finalizer
----------------------------------------------------------------------------
(* The directories                                                         *)

LEMMA WhereType ==
    ASSUME TypeOK, NEW d \in Dirs
    PROVE  Times(tasks, d) \in Nat /\ Times(item, d) \in Nat /\ Places(queue, {d}) \in Nat
<1>1. tasks \in [Tasks -> Dirs \cup {0}] /\ item \in [Callers -> Dirs \cup {0}]
      /\ queue \in Seq(Dirs \cup {0})
  BY DEF TypeOK
<1>2. Times(tasks, d) \in Nat BY <1>1, TimesType, Directories
<1>3. Times(item, d) \in Nat BY <1>1, TimesType, Directories
<1>4. Places(queue, {d}) \in Nat BY <1>1, PlacesType
<1>q. QED BY <1>2, <1>3, <1>4

(* A directory that somebody names is registered, and not an orphan. *)
LEMMA NamedIsTracked ==
    ASSUME IInv, NEW d \in Dirs,
           Times(tasks, d) >= 1 \/ Times(item, d) >= 1 \/ Places(queue, {d}) >= 1 \/ job = d
    PROVE  d \in 1..starts /\ d \notin orphans /\ Where(d) = 1
<1>1. Where(d) = (IF d \in (1..starts) \ orphans THEN 1 ELSE 0) BY DEF IInv, Tracked
<1>2. Where(d) >= 1
  <2>1. Times(tasks, d) \in Nat /\ Times(item, d) \in Nat /\ Places(queue, {d}) \in Nat
    BY WhereType DEF IInv
  <2>q. QED BY <2>1 DEF Where
<1>q. QED BY <1>1, <1>2

LEMMA NextTracked == IInv /\ [Next]_vars => Tracked'
<1> SUFFICES ASSUME IInv, [Next]_vars PROVE Tracked' OBVIOUS
<1>t. /\ tasks \in [Tasks -> Dirs \cup {0}] /\ item \in [Callers -> Dirs \cup {0}]
      /\ queue \in Seq(Dirs \cup {0}) /\ starts \in 0..MaxStarts /\ job \in Dirs \cup {0}
      /\ orphans \subseteq 1..starts
  BY DEF IInv, TypeOK, Tracked
<1>w. ASSUME NEW d \in Dirs
      PROVE  /\ Times(tasks, d) \in Nat /\ Times(item, d) \in Nat
             /\ Places(queue, {d}) \in Nat
             /\ Where(d) = IF d \in (1..starts) \ orphans THEN 1 ELSE 0
             /\ d \in Nat /\ d # 0
  BY WhereType, Directories DEF IInv, Tracked
<1>1. ASSUME NEW c \in Callers, NEW t \in Tasks, StartTask(c, t) PROVE Tracked'
  <2>1. /\ starts' = starts + 1 /\ tasks' = [tasks EXCEPT ![t] = starts + 1]
        /\ orphans' = orphans \cup ({tasks[t]} \ {0}) /\ item' = item /\ queue' = queue
        /\ job' = job /\ completed' = completed /\ starts + 1 \in Dirs /\ starts \in Nat
    BY <1>1, <1>t, Directories DEF StartTask, finalizer, caller, Dirs
  <2>2. /\ DOMAIN tasks = Tasks /\ DOMAIN tasks' = Tasks /\ tasks'[t] = starts + 1
        /\ \A u \in Tasks \ {t} : tasks'[u] = tasks[u]
    BY <1>t, <2>1
  <2>3. ASSUME NEW d \in Dirs
        PROVE  /\ Times(tasks', d) = Times(tasks, d) - (IF tasks[t] = d THEN 1 ELSE 0)
                                                    + (IF starts + 1 = d THEN 1 ELSE 0)
               /\ tasks[t] = d => Times(tasks, d) >= 1
    BY <2>2, TimesChanged, Directories
  <2>4. tasks[t] \in Dirs => tasks[t] \in 1..starts /\ tasks[t] \notin orphans
    BY <2>3, NamedIsTracked
  <2>5. tasks[t] \in Dirs \cup {0} BY <1>t
  <2>6. orphans' \subseteq 1..starts'
    <3>1. 1..starts \subseteq 1..(starts + 1) BY <2>1
    <3>2. {tasks[t]} \ {0} \subseteq 1..starts BY <2>4, <2>5
    <3>q. QED BY <1>t, <2>1, <3>1, <3>2
  <2>7. ASSUME NEW d \in Dirs
        PROVE  Where(d)' = IF d \in (1..starts') \ orphans' THEN 1 ELSE 0
    <3>1. Where(d)' = Where(d) - (IF tasks[t] = d THEN 1 ELSE 0)
                              + (IF starts + 1 = d THEN 1 ELSE 0)
      <4>1. Times(tasks, d) \in Nat /\ Times(item, d) \in Nat /\ Places(queue, {d}) \in Nat
        BY <1>w
      <4>2. Times(tasks', d) = Times(tasks, d) - (IF tasks[t] = d THEN 1 ELSE 0)
                                              + (IF starts + 1 = d THEN 1 ELSE 0)
        BY <2>3
      <4>3. item' = item /\ queue' = queue /\ job' = job /\ completed' = completed BY <2>1
      <4>q. QED BY <4>1, <4>2, <4>3 DEF Where
    <3>2. CASE d = starts + 1
      <4>1. tasks[t] # d /\ d \notin orphans /\ d \notin 1..starts
        BY <1>t, <2>1, <2>4, <3>2
      <4>2. Where(d) = 0 BY <1>w, <4>1
      <4>3. d \in (1..starts') \ orphans' BY <2>1, <3>2, <4>1
      <4>q. QED BY <3>1, <3>2, <4>1, <4>2, <4>3
    <3>3. CASE d = tasks[t]
      <4>0. d \in 1..starts /\ d \notin orphans BY <2>4, <3>3
      <4>w. Where(d) = IF d \in (1..starts) \ orphans THEN 1 ELSE 0 BY <1>w
      <4>1. Where(d) = 1 /\ d # starts + 1 BY <2>1, <4>0, <4>w
      <4>2. d \in orphans' BY <1>w, <2>1, <3>3
      <4>q. QED BY <3>1, <3>3, <4>1, <4>2
    <3>4. CASE d # starts + 1 /\ d # tasks[t]
      <4>w. Where(d) = IF d \in (1..starts) \ orphans THEN 1 ELSE 0 BY <1>w
      <4>0. Where(d) \in Nat BY <4>w
      <4>1. Where(d)' = Where(d) BY <3>1, <3>4, <4>0
      <4>2. d \in (1..starts') \ orphans' <=> d \in (1..starts) \ orphans
        BY <1>w, <2>1, <3>4
      <4>q. QED BY <1>w, <4>1, <4>2
    <3>q. QED BY <3>2, <3>3, <3>4
  <2>q. QED BY <2>6, <2>7 DEF Tracked
<1>u. ASSUME starts' = starts, orphans' = orphans, \A d \in Dirs : Where(d)' = Where(d)
      PROVE  Tracked'
  BY <1>t, <1>w, <1>u DEF Tracked
<1>2. ASSUME NEW c \in Callers, NEW t \in Tasks, TakeTask(c, t) PROVE Tracked'
  <2>1. /\ tasks' = [tasks EXCEPT ![t] = 0] /\ item' = [item EXCEPT ![c] = tasks[t]]
        /\ item[c] = 0 /\ queue' = queue /\ job' = job /\ completed' = completed
        /\ starts' = starts /\ orphans' = orphans
    BY <1>2 DEF TakeTask, Unregistered, Goes, IInv, Held, finalizer, hist
  <2>2. /\ DOMAIN tasks = Tasks /\ DOMAIN tasks' = Tasks /\ tasks'[t] = 0
        /\ \A u \in Tasks \ {t} : tasks'[u] = tasks[u]
        /\ DOMAIN item = Callers /\ DOMAIN item' = Callers /\ item'[c] = tasks[t]
        /\ \A b \in Callers \ {c} : item'[b] = item[b]
    BY <1>t, <2>1
  <2>3. ASSUME NEW d \in Dirs PROVE Where(d)' = Where(d)
    <3>1. Times(tasks', d) = Times(tasks, d) - (IF tasks[t] = d THEN 1 ELSE 0)
      BY <1>w, <2>2, TimesChanged, Directories
    <3>2. Times(item', d) = Times(item, d) + (IF tasks[t] = d THEN 1 ELSE 0)
      <4>1. Times(item', d) = Times(item, d) - (IF item[c] = d THEN 1 ELSE 0)
                                            + (IF item'[c] = d THEN 1 ELSE 0)
        BY <2>2, TimesChanged, Directories
      <4>2. Times(item, d) \in Nat /\ d # 0 BY <1>w
      <4>q. QED BY <2>1, <2>2, <4>1, <4>2
    <3>3. Times(tasks, d) \in Nat /\ Times(item, d) \in Nat /\ Places(queue, {d}) \in Nat
      BY <1>w
    <3>q. QED BY <2>1, <3>1, <3>2, <3>3 DEF Where
  <2>q. QED BY <1>u, <2>1, <2>3
<1>3. ASSUME NEW c \in Callers, FinalizeInline(c) \/ PutJob(c) PROVE Tracked'
  <2>1. /\ item' = [item EXCEPT ![c] = 0] /\ item[c] \in Dirs
        /\ tasks' = tasks /\ job' = job /\ starts' = starts /\ orphans' = orphans
    BY <1>3, <1>t DEF FinalizeInline, PutJob, Goes, IInv, Held, store, finalizer, hist
  <2>2. /\ DOMAIN item = Callers /\ DOMAIN item' = Callers /\ item'[c] = 0
        /\ \A b \in Callers \ {c} : item'[b] = item[b]
    BY <1>t, <2>1
  <2>3. ASSUME NEW d \in Dirs
        PROVE  /\ Times(item', d) = Times(item, d) - (IF item[c] = d THEN 1 ELSE 0)
               /\ item[c] = d => Times(item, d) >= 1
    BY <1>w, <2>2, TimesChanged, Directories
  <2>4. CASE FinalizeInline(c)
    <3>1. queue' = queue /\ completed' = completed \cup {item[c]}
      BY <2>4 DEF FinalizeInline, finalizer
    <3>2. item[c] \notin completed
      <4>1. Times(item, item[c]) >= 1 /\ Where(item[c]) = 1 BY <2>1, <2>3, NamedIsTracked
      <4>q. QED BY <1>w, <2>1, <4>1 DEF Where
    <3>3. ASSUME NEW d \in Dirs PROVE Where(d)' = Where(d)
      <4>1. Times(tasks, d) \in Nat /\ Times(item, d) \in Nat /\ Places(queue, {d}) \in Nat
        BY <1>w
      <4>2. Times(item', d) = Times(item, d) - (IF item[c] = d THEN 1 ELSE 0) BY <2>3
      <4>3. CASE item[c] = d
        <5>1. d \notin completed /\ d \in completed' BY <3>1, <3>2, <4>3
        <5>q. QED BY <2>1, <3>1, <4>1, <4>2, <4>3, <5>1 DEF Where
      <4>4. CASE item[c] # d
        <5>1. d \in completed' <=> d \in completed BY <3>1, <4>4
        <5>q. QED BY <2>1, <3>1, <4>1, <4>2, <4>4, <5>1 DEF Where
      <4>q. QED BY <4>3, <4>4
    <3>q. QED BY <1>u, <2>1, <3>3
  <2>5. CASE PutJob(c)
    <3>1. queue' = Append(queue, item[c]) /\ completed' = completed BY <2>5 DEF PutJob
    <3>2. ASSUME NEW d \in Dirs PROVE Where(d)' = Where(d)
      <4>1. Places(queue', {d}) = Places(queue, {d}) + (IF item[c] \in {d} THEN 1 ELSE 0)
        BY <1>t, <2>1, <3>1, PlacesAppend
      <4>2. item[c] \in {d} <=> item[c] = d OBVIOUS
      <4>3. Times(tasks, d) \in Nat /\ Times(item, d) \in Nat /\ Places(queue, {d}) \in Nat
        BY <1>w
      <4>4. Times(item', d) = Times(item, d) - (IF item[c] = d THEN 1 ELSE 0) BY <2>3
      <4>q. QED BY <2>1, <3>1, <4>1, <4>2, <4>3, <4>4 DEF Where
    <3>q. QED BY <1>u, <2>1, <3>2
  <2>q. QED BY <1>3, <2>4, <2>5
<1>4. ASSUME NEW c \in Callers, Shutdown(c) PROVE Tracked'
  <2>1. /\ queue' \in {queue, Append(queue, 0)} /\ tasks' = tasks /\ item' = item
        /\ job' = job /\ completed' = completed /\ starts' = starts /\ orphans' = orphans
    BY <1>4 DEF Shutdown, Told, store, hist
  <2>2. ASSUME NEW d \in Dirs PROVE Where(d)' = Where(d)
    <3>1. Places(Append(queue, 0), {d}) = Places(queue, {d}) + (IF 0 \in {d} THEN 1 ELSE 0)
      BY <1>t, PlacesAppend
    <3>2. Places(Append(queue, 0), {d}) = Places(queue, {d}) BY <1>w, <3>1
    <3>3. Places(queue', {d}) = Places(queue, {d})
      <4>1. CASE queue' = queue BY <4>1
      <4>2. CASE queue' = Append(queue, 0) BY <3>2, <4>2
      <4>q. QED BY <2>1, <4>1, <4>2
    <3>q. QED BY <2>1, <3>3 DEF Where
  <2>q. QED BY <1>u, <2>1, <2>2
<1>5. CASE GetJob
  <2>1. /\ queue' = Tail(queue) /\ queue # <<>> /\ job = 0 /\ job' = Head(queue)
        /\ tasks' = tasks /\ item' = item /\ completed' = completed
        /\ starts' = starts /\ orphans' = orphans
    BY <1>5 DEF GetJob, Leaves, IInv, Working, store, caller, hist
  <2>2. ASSUME NEW d \in Dirs PROVE Where(d)' = Where(d)
    <3>1. Places(queue', {d}) = Places(queue, {d}) - (IF Head(queue) \in {d} THEN 1 ELSE 0)
      BY <1>t, <2>1, PlacesTail
    <3>2. Head(queue) \in {d} <=> job' = d BY <2>1
    <3>3. job # d BY <1>w, <2>1
    <3>q. QED BY <1>w, <2>1, <3>1, <3>2, <3>3 DEF Where
  <2>q. QED BY <1>u, <2>1, <2>2
<1>6. CASE FinalizeJob
  <2>1. /\ job \in Dirs /\ job' = 0 /\ completed' = completed \cup {job}
        /\ tasks' = tasks /\ item' = item /\ queue' = queue
        /\ starts' = starts /\ orphans' = orphans
    BY <1>6, <1>t DEF FinalizeJob, IInv, Working, store, caller, hist
  <2>2. job \notin completed
    <3>1. Where(job) = 1 BY <2>1, NamedIsTracked
    <3>q. QED BY <1>w, <2>1, <3>1 DEF Where
  <2>3. ASSUME NEW d \in Dirs PROVE Where(d)' = Where(d)
    BY <1>w, <2>1, <2>2 DEF Where
  <2>q. QED BY <1>u, <2>1, <2>3
<1>7. CASE UNCHANGED <<tasks, item, queue, job, completed, starts, orphans>>
  <2>1. \A d \in Dirs : Where(d)' = Where(d) BY <1>7 DEF Where
  <2>q. QED BY <1>u, <1>7, <2>1
<1>q. QED
  BY <1>1, <1>2, <1>3, <1>4, <1>5, <1>6, <1>7
  DEF Next, Begins, Continues, Finalizes, EnsureFinalizeWorker, CountPending, Wait, Waited,
      WaitTimedOut, Joined, CountDone, vars, store, caller, finalizer, hist

----------------------------------------------------------------------------
(* Theorems                                                                *)

LEMMA Inductive == Spec => []IInv
<1>1. IInv /\ [Next]_vars => IInv'
  BY NextTypeOK, NextHeld, NextExact, NextTracked DEF IInv
<1>q. QED BY InitIInv, <1>1, PTL DEF Spec

(* Every cell keeps its type, in particular _pending_finalizations never   *)
(* goes below zero.  Code: _finalize_worker_loop.                          *)
THEOREM TypeCorrect == Spec => []TypeOK
<1>1. IInv => TypeOK BY DEF IInv
<1>q. QED BY Inductive, <1>1, PTL

(* wait_for_pending_finalizations waits for exactly the jobs there are,    *)
(* whatever the interleaving of any number of threads with the finalizer.  *)
THEOREM CountIsExact == Spec => []PendingIsExact
<1>1. IInv => PendingIsExact
  <2> SUFFICES ASSUME IInv PROVE PendingIsExact OBVIOUS
  <2>1. DOMAIN pc = Callers /\ queue \in Seq(Dirs \cup {0}) BY DEF IInv, TypeOK
  <2>2. {c \in Callers : pc[c] = "put"} = {c \in DOMAIN pc : pc[c] = "put"} BY <2>1
  <2>3. \A i \in DOMAIN queue : queue[i] # 0 <=> queue[i] \in Dirs
    <3>1. \A i \in DOMAIN queue : queue[i] \in Dirs \cup {0} BY <2>1
    <3>q. QED BY <3>1, Directories
  <2>4. Jobs = {i \in DOMAIN queue : queue[i] \in Dirs} BY <2>3 DEF Jobs
  <2>q. QED BY <2>2, <2>4 DEF IInv, Exact, PendingIsExact, Times, Places
<1>q. QED BY Inductive, <1>1, PTL

(* No directory is finalized twice or lost on its way, for any number of   *)
(* threads and tasks; only a second start of the same id orphans one.      *)
(* Code: start_task, finalize_task, finalize_task_async.                   *)
THEOREM HeldOnce == Spec => []FinalizedOnce
<1>1. IInv => FinalizedOnce
  <2> SUFFICES ASSUME IInv, NEW d \in 1..starts
               PROVE  Holders(d) = IF d \in orphans THEN 0 ELSE 1
    BY DEF FinalizedOnce
  <2>1. DOMAIN tasks = Tasks /\ DOMAIN item = Callers /\ d \in Dirs
    BY Directories DEF IInv, TypeOK, Dirs
  <2>2. {i \in DOMAIN queue : queue[i] = d} = {i \in DOMAIN queue : queue[i] \in {d}}
    OBVIOUS
  <2>3. Holders(d) = Where(d) BY <2>1, <2>2 DEF Holders, Where, Times, Places
  <2>4. Where(d) = IF d \in (1..starts) \ orphans THEN 1 ELSE 0
    BY <2>1 DEF IInv, Tracked
  <2>q. QED BY <2>3, <2>4
<1>q. QED BY Inductive, <1>1, PTL
============================================================================
