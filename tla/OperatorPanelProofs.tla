------------------------ MODULE OperatorPanelProofs ------------------------
(***************************************************************************)
(* Proofs about OperatorPanel, for any robots and any number of threads,   *)
(* connections, clicks and unread messages.                                *)
(*                                                                         *)
(* IInv follows the commands from thread to channel (Flying): a button     *)
(* that is disabled by a pending command is enabled again, and no command  *)
(* is sent twice.  AgreeInv adds where the robot's last word is: the last  *)
(* message of an open WebSocket tells the present state of the robot it    *)
(* comes from (Heard), and so does what was published once there is none - *)
(* unless a result came late or was a dry run's, which only one of the     *)
(* present robot's can (OfThisRobot).                                      *)
(***************************************************************************)
EXTENDS OperatorPanel, FiniteSetTheorems, TLAPS

(* The positions in q of the commands of kind k and generation g. *)
Flying(q, k, g) == {i \in DOMAIN q : q[i].kind = k /\ q[i].gen = g}

AtMostOne(S) == \A i, j \in S : i = j

Single == {"status", "navigate", "stop"}

PendingFlies ==
    \A k \in pending :
        Flying(request, k, generation) # {} \/ Flying(results, k, generation) # {}

(* What is not pending is nowhere; what is pending is in one place. *)
OneFlies ==
    \A k \in Single :
        /\ AtMostOne(Flying(request, k, generation))
        /\ AtMostOne(Flying(results, k, generation))
        /\ Flying(request, k, generation) = {} \/ Flying(results, k, generation) = {}
        /\ k \notin pending =>
               Flying(request, k, generation) = {} /\ Flying(results, k, generation) = {}

(* No command is from a connection that is still to come. *)
NoneAhead ==
    /\ \A i \in DOMAIN request : request[i].gen <= generation
    /\ \A i \in DOMAIN results : results[i].gen <= generation

Flight == PendingFlies /\ OneFlies /\ NoneAhead

IInv == TypeOK /\ Flight

----------------------------------------------------------------------------
(* Sequences                                                               *)

LEMMA AppendedTo ==
    ASSUME NEW V, NEW q \in Seq(V), NEW e \in V
    PROVE  /\ Append(q, e) \in Seq(V) /\ Len(Append(q, e)) = Len(q) + 1
           /\ DOMAIN Append(q, e) = DOMAIN q \cup {Len(q) + 1} /\ Len(q) + 1 \notin DOMAIN q
           /\ Append(q, e)[Len(q) + 1] = e
           /\ \A i \in DOMAIN q : Append(q, e)[i] = q[i]
<1>1. DOMAIN q = 1..Len(q) /\ Len(q) \in Nat OBVIOUS
<1>2. DOMAIN Append(q, e) = 1..(Len(q) + 1) OBVIOUS
<1>3. 1..(Len(q) + 1) = (1..Len(q)) \cup {Len(q) + 1} BY <1>1
<1>4. /\ Append(q, e) \in Seq(V) /\ Len(Append(q, e)) = Len(q) + 1
      /\ Append(q, e)[Len(q) + 1] = e
      /\ \A i \in 1..Len(q) : Append(q, e)[i] = q[i]
  OBVIOUS
<1>5. Len(q) + 1 \notin 1..Len(q) BY <1>1
<1>q. QED BY <1>1, <1>2, <1>3, <1>4, <1>5

LEMMA RemovedFrom ==
    ASSUME NEW V, NEW q \in Seq(V), NEW k \in DOMAIN q
    PROVE  /\ RemoveAt(q, k) \in Seq(V) /\ Len(RemoveAt(q, k)) = Len(q) - 1
           /\ \A i \in 1..(Len(q) - 1) : RemoveAt(q, k)[i] = IF i < k THEN q[i] ELSE q[i + 1]
<1> DEFINE a == SubSeq(q, 1, k - 1)
           b == SubSeq(q, k + 1, Len(q))
<1>1. k \in 1..Len(q) /\ k \in Nat /\ Len(q) \in Nat OBVIOUS
<1>2. /\ a \in Seq(V) /\ Len(a) = k - 1 /\ \A i \in 1..(k - 1) : a[i] = q[i]
  BY <1>1
<1>3. /\ b \in Seq(V) /\ Len(b) = Len(q) - k /\ \A i \in 1..(Len(q) - k) : b[i] = q[k + i]
  BY <1>1
<1> HIDE DEF a, b
<1>4. a \o b \in Seq(V) /\ Len(a \o b) = Len(q) - 1 BY <1>1, <1>2, <1>3
<1>5. ASSUME NEW i \in 1..(Len(q) - 1)
      PROVE  (a \o b)[i] = IF i < k THEN q[i] ELSE q[i + 1]
  <2>1. CASE i < k
    <3>1. i \in 1..(k - 1) BY <1>1, <2>1
    <3>2. (a \o b)[i] = a[i] BY <1>1, <1>2, <1>3, <3>1
    <3>q. QED BY <1>2, <2>1, <3>1, <3>2
  <2>2. CASE ~(i < k)
    <3>1. i - (k - 1) \in 1..(Len(q) - k) /\ k + (i - (k - 1)) = i + 1 BY <1>1, <2>2
    <3>0. Len(a) \in Nat /\ Len(b) \in Nat /\ i \in (Len(a) + 1)..(Len(a) + Len(b))
      BY <1>1, <1>2, <1>3, <2>2
    <3>2. (a \o b)[i] = b[i - Len(a)]
      <4>1. a \in Seq(V) /\ b \in Seq(V) BY <1>2, <1>3
      <4>q. QED BY <3>0, <4>1
    <3>q. QED BY <1>2, <1>3, <2>2, <3>1, <3>2
  <2>q. QED BY <2>1, <2>2
<1>6. RemoveAt(q, k) = a \o b BY DEF RemoveAt, a, b
<1>q. QED BY <1>4, <1>5, <1>6

LEMMA TailOf ==
    ASSUME NEW V, NEW q \in Seq(V), q # <<>>
    PROVE  /\ Tail(q) \in Seq(V) /\ Len(Tail(q)) = Len(q) - 1 /\ Head(q) = q[1] /\ q[1] \in V
           /\ \A i \in 1..(Len(q) - 1) : Tail(q)[i] = q[i + 1]
OBVIOUS

(* One command more. *)
LEMMA FlyingAppend ==
    ASSUME NEW V, NEW q \in Seq(V), NEW e \in V, NEW k, NEW g
    PROVE  LET F == Flying(q, k, g)
               A == Flying(Append(q, e), k, g)
           IN /\ F # {} => A # {}
              /\ (e.kind = k /\ e.gen = g) => A # {}
              /\ (e.kind = k /\ e.gen = g /\ F = {}) => AtMostOne(A)
              /\ ~(e.kind = k /\ e.gen = g) => A = F
<1> DEFINE F == Flying(q, k, g)
           A == Flying(Append(q, e), k, g)
           M == e.kind = k /\ e.gen = g
<1>1. \A i : i \in A <=> i \in F \/ (i = Len(q) + 1 /\ M)
  BY AppendedTo DEF Flying
<1> HIDE DEF F, A, M
<1>2. (M /\ F = {}) => AtMostOne(A) BY <1>1 DEF AtMostOne
<1>3. M => A # {} BY <1>1
<1>4. F # {} => A # {} BY <1>1
<1>5. ~M => A = F BY <1>1
<1>q. QED BY <1>2, <1>3, <1>4, <1>5 DEF F, A, M

(* r is q without its element at position n. *)
Without(q, n, r) ==
    /\ Len(r) = Len(q) - 1
    /\ \A i \in 1..(Len(q) - 1) : r[i] = IF i < n THEN q[i] ELSE q[i + 1]

(* One command less. *)
LEMMA FlyingLess ==
    ASSUME NEW V, NEW q \in Seq(V), NEW n \in DOMAIN q, NEW r \in Seq(V), Without(q, n, r),
           NEW k, NEW g
    PROVE  LET F == Flying(q, k, g)
               L == Flying(r, k, g)
           IN /\ F = {} => L = {}
              /\ AtMostOne(F) => AtMostOne(L)
              /\ ~(q[n].kind = k /\ q[n].gen = g) => (F # {} => L # {})
              /\ (q[n].kind = k /\ q[n].gen = g /\ AtMostOne(F)) => L = {}
<1>1. /\ DOMAIN q = 1..Len(q) /\ Len(q) \in Nat /\ n \in 1..Len(q) /\ n \in Nat
      /\ DOMAIN r = 1..(Len(q) - 1)
      /\ \A i \in 1..(Len(q) - 1) : r[i] = IF i < n THEN q[i] ELSE q[i + 1]
  BY DEF Without
<1> DEFINE F == Flying(q, k, g)
           L == Flying(r, k, g)
           From(i) == IF i < n THEN i ELSE i + 1
<1>2. ASSUME NEW i \in L PROVE From(i) \in F /\ From(i) # n /\ i \in Nat
  <2>1. i \in 1..(Len(q) - 1) /\ r[i] = q[From(i)] /\ r[i].kind = k /\ r[i].gen = g
    BY <1>1 DEF Flying
  <2>2. From(i) \in 1..Len(q) /\ From(i) # n BY <1>1, <2>1
  <2>q. QED BY <1>1, <2>1, <2>2 DEF Flying
<1>3. ASSUME NEW j \in F, j # n PROVE \E i \in L : From(i) = j
  <2>1. j \in 1..Len(q) /\ q[j].kind = k /\ q[j].gen = g BY <1>1 DEF Flying
  <2>2. CASE j < n
    <3>1. j \in 1..(Len(q) - 1) /\ r[j] = q[j] BY <1>1, <2>1, <2>2
    <3>2. j \in L BY <1>1, <2>1, <3>1 DEF Flying
    <3>q. QED BY <2>2, <3>2
  <2>3. CASE ~(j < n)
    <3>1. j - 1 \in 1..(Len(q) - 1) /\ ~(j - 1 < n) /\ (j - 1) + 1 = j
      BY <1>1, <1>3, <2>1, <2>3
    <3>2. r[j - 1] = q[j] BY <1>1, <3>1
    <3>3. j - 1 \in L BY <1>1, <2>1, <3>1, <3>2 DEF Flying
    <3>q. QED BY <3>1, <3>3
  <2>q. QED BY <2>2, <2>3
<1>4. ASSUME NEW i \in L, NEW j \in L, From(i) = From(j) PROVE i = j
  BY <1>1, <1>2, <1>4
<1>5. n \in F <=> q[n].kind = k /\ q[n].gen = g BY DEF Flying
<1>6. AtMostOne(F) => AtMostOne(L)
  <2> SUFFICES ASSUME AtMostOne(F), NEW i \in L, NEW j \in L PROVE i = j BY DEF AtMostOne
  <2>1. From(i) = From(j) BY <1>2 DEF AtMostOne
  <2>q. QED BY <1>4, <2>1
<1> HIDE DEF F, L, From
<1>7. F = {} => L = {} BY <1>2
<1>8. n \notin F => (F # {} => L # {}) BY <1>3
<1>9. (n \in F /\ AtMostOne(F)) => L = {} BY <1>2 DEF AtMostOne
<1>q. QED BY <1>5, <1>6, <1>7, <1>8, <1>9 DEF F, L
----------------------------------------------------------------------------
(* Types                                                                   *)

LEMMA Bounds ==
    /\ MaxThreads \in Nat /\ MaxGeneration \in Nat /\ MaxClicks \in Nat /\ MaxFeed \in Nat
    /\ MaxThreads >= 1 /\ MaxFeed >= 2
BY PanelAssumption

LEMMA InitTypeOK == Init => TypeOK
<1> SUFFICES ASSUME Init PROVE TypeOK OBVIOUS
<1>1. request \in Seq(Requests) /\ Len(request) <= MaxThreads
  <2>1. CASE configured
    <3> DEFINE e == [state |-> "sent", kind |-> "refresh", gen |-> 0, robot |-> endpoint]
    <3>1. request = <<e>> BY <2>1 DEF Init
    <3>2. e \in Requests BY Bounds DEF Init, Requests, Kinds
    <3> HIDE DEF e
    <3>q. QED BY <3>1, <3>2, Bounds
  <2>2. CASE ~configured BY <2>2, Bounds DEF Init
  <2>q. QED BY <2>1, <2>2
<1>2. pending \subseteq Kinds BY DEF Init, Kinds
<1>3. results \in Seq(Results) /\ feed \in Seq(Content) /\ Len(feed) <= MaxFeed
  BY Bounds DEF Init
<1>4. nav \in [Robots -> BOOLEAN] /\ generation \in 0..MaxGeneration /\ clicks \in 0..MaxClicks
  BY Bounds DEF Init
<1>5. /\ ui = "poll" /\ configured \in BOOLEAN /\ endpoint \in Robots
      /\ online = FALSE /\ live = FALSE /\ running = FALSE /\ up = FALSE /\ fresh = FALSE
      /\ native = FALSE /\ inHand = "nothing" /\ stopAcked = FALSE /\ wrong = "no"
  BY DEF Init
<1>6. service \in {"starting", "none"} /\ source \in Robots BY DEF Init
<1>7. late \in [Robots -> [Commands -> Nat]] BY DEF Init
<1>q. QED BY <1>1, <1>2, <1>3, <1>4, <1>5, <1>6, <1>7 DEF TypeOK

(* A thread more. *)
LEMMA DispatchType ==
    ASSUME NEW kind \in Kinds, NEW gen \in 0..MaxGeneration, NEW r \in Robots,
           request \in Seq(Requests), Len(request) < MaxThreads
    PROVE  /\ Spawned(kind, gen, r) \in Seq(Requests) /\ Len(Spawned(kind, gen, r)) <= MaxThreads
<1> DEFINE e == [state |-> "sent", kind |-> kind, gen |-> gen, robot |-> r]
<1>1. e \in Requests BY DEF Requests
<1>2. Spawned(kind, gen, r) = Append(request, e) BY DEF Spawned
<1> HIDE DEF e
<1>3. Len(Append(request, e)) = Len(request) + 1 /\ Len(request) \in Nat BY <1>1, AppendedTo
<1>q. QED BY <1>1, <1>2, <1>3, AppendedTo, Bounds

LEMMA TellType ==
    ASSUME TypeOK, NEW r, NEW content \in Content, Tell(r, content)
    PROVE  feed' \in Seq(Content) /\ Len(feed') <= MaxFeed
<1>1. feed \in Seq(Content) /\ Len(feed) <= MaxFeed BY DEF TypeOK
<1>2. CASE feed' = feed BY <1>1, <1>2
<1>3. CASE Len(feed) < MaxFeed /\ feed' = Append(feed, content)
  <2>1. Len(feed') = Len(feed) + 1 /\ Len(feed) \in Nat /\ feed' \in Seq(Content)
    BY <1>1, <1>3, AppendedTo
  <2>q. QED BY <1>3, <2>1, Bounds
<1>q. QED BY <1>2, <1>3 DEF Tell

LEMMA ObeyType ==
    ASSUME TypeOK, NEW r, NEW kind, Obey(r, kind)
    PROVE  feed' \in Seq(Content) /\ Len(feed') <= MaxFeed /\ nav' \in [Robots -> BOOLEAN]
<1>1. nav' \in [Robots -> BOOLEAN] BY DEF Obey, TypeOK
<1>2. feed' \in Seq(Content) /\ Len(feed') <= MaxFeed BY TellType DEF Obey, Content
<1>q. QED BY <1>1, <1>2

(* A report: a thread ends and a result joins the channel. *)
LEMMA ReportStep ==
    ASSUME TypeOK, NEW s \in DOMAIN request, NEW ok \in BOOLEAN,
           NEW says \in {"nothing", "moving", "planned", "idle"}, Report(s, ok, says)
    PROVE  \E e \in Results :
             /\ e.kind = request[s].kind /\ e.gen = request[s].gen
             /\ e.robot = request[s].robot
             /\ results' = Append(results, e) /\ request' = RemoveAt(request, s)
             /\ results' \in Seq(Results) /\ request' \in Seq(Requests)
             /\ Len(request') = Len(request) - 1
<1> DEFINE q == request[s]
           e == [kind |-> q.kind, gen |-> q.gen, robot |-> q.robot, ok |-> ok, says |-> says]
<1>1. request \in Seq(Requests) /\ results \in Seq(Results) BY DEF TypeOK
<1>2. q \in Requests BY <1>1
<1>3. e \in Results /\ e.kind = q.kind /\ e.gen = q.gen /\ e.robot = q.robot
  BY <1>2 DEF Requests, Results
<1>4. results' = Append(results, e) /\ request' = RemoveAt(request, s) BY DEF Report
<1> HIDE DEF e, q
<1>5. results' \in Seq(Results) BY <1>1, <1>3, <1>4, AppendedTo
<1>6. request' \in Seq(Requests) /\ Len(request') = Len(request) - 1
  BY <1>1, <1>4, RemovedFrom
<1>q. QED BY <1>3, <1>4, <1>5, <1>6 DEF q

LEMMA ReplyReports ==
    ASSUME NEW s \in DOMAIN request, Reply(s)
    PROVE  \E ok \in BOOLEAN, says \in {"nothing", "moving", "planned", "idle"} : Report(s, ok, says)
<1>1. RunningSaid(request[s].kind) \in {"nothing", "moving", "planned", "idle"} BY DEF RunningSaid
<1>q. QED BY <1>1 DEF Reply, ReplyOk, ReplyErr

(* A thread that gives up may leave its command behind. *)
LEMMA LateAfterReply ==
    ASSUME TypeOK, NEW s \in DOMAIN request, Reply(s)
    PROVE  late' \in [Robots -> [Commands -> Nat]]
<1> DEFINE r == request[s].robot
           k == request[s].kind
<1>1. late \in [Robots -> [Commands -> Nat]] BY DEF TypeOK
<1>2. CASE late' = late BY <1>1, <1>2
<1>3. CASE k \in Commands /\ late' = [late EXCEPT ![r][k] = late[r][k] + 1]
  <2>1. request[s] \in Requests BY DEF TypeOK
  <2>2. r \in Robots BY <2>1 DEF Requests
  <2> HIDE DEF r, k
  <2>3. late[r][k] + 1 \in Nat BY <1>1, <1>3, <2>2
  <2>q. QED BY <1>1, <1>3, <2>2, <2>3
<1>q. QED BY <1>2, <1>3 DEF Reply, ReplyOk, ReplyErr

(* The robot's answer changes the state of one thread only. *)
LEMMA ExecuteStep ==
    ASSUME TypeOK, NEW s \in DOMAIN request, Execute(s)
    PROVE  /\ request' \in Seq(Requests) /\ Len(request') = Len(request)
           /\ DOMAIN request' = DOMAIN request
           /\ \A i \in DOMAIN request : /\ request'[i].kind = request[i].kind
                                        /\ request'[i].gen = request[i].gen
                                        /\ request'[i].robot = request[i].robot
<1>1. request \in Seq(Requests) BY DEF TypeOK
<1>2. PICK st \in {"accepted", "planned", "rejected"} :
        request' = [request EXCEPT ![s].state = st]
  BY DEF Execute
<1>3. request[s] \in Requests BY <1>1
<1>4. [request[s] EXCEPT !.state = st] \in Requests BY <1>3 DEF Requests
<1>5. request' \in Seq(Requests) /\ Len(request') = Len(request)
      /\ DOMAIN request' = DOMAIN request
  BY <1>1, <1>2, <1>4
<1>6. ASSUME NEW i \in DOMAIN request
      PROVE  /\ request'[i].kind = request[i].kind /\ request'[i].gen = request[i].gen
             /\ request'[i].robot = request[i].robot
  <2>1. CASE i = s
    <3>1. request'[i] = [request[s] EXCEPT !.state = st] BY <1>2, <2>1
    <3>q. QED BY <1>3, <2>1, <3>1 DEF Requests
  <2>2. CASE i # s BY <1>2, <2>2
  <2>q. QED BY <2>1, <2>2
<1>q. QED BY <1>5, <1>6
(* The panel's dispatch, of the status request or of a click. *)
LEMMA DispatchStep ==
    ASSUME TypeOK, NEW kind \in Kinds, Dispatch(kind)
    PROVE  /\ pending' \subseteq Kinds
           /\ request' \in Seq(Requests) /\ Len(request') <= MaxThreads
           /\ \E e \in Requests : /\ e.kind = kind /\ e.gen = generation /\ e.robot = endpoint
                                  /\ request' = Append(request, e)
<1>1. /\ request \in Seq(Requests) /\ generation \in 0..MaxGeneration /\ endpoint \in Robots
      /\ pending \subseteq Kinds
  BY DEF TypeOK
<1>2. Len(request) < MaxThreads /\ pending' = pending \cup {kind}
      /\ request' = Spawned(kind, generation, endpoint)
  BY DEF Dispatch
<1>3. request' \in Seq(Requests) /\ Len(request') <= MaxThreads BY <1>1, <1>2, DispatchType
<1>4. \E e \in Requests : /\ e.kind = kind /\ e.gen = generation /\ e.robot = endpoint
                           /\ request' = Append(request, e)
  <2> DEFINE e == [state |-> "sent", kind |-> kind, gen |-> generation, robot |-> endpoint]
  <2>1. e \in Requests /\ e.kind = kind /\ e.gen = generation /\ e.robot = endpoint
    BY <1>1 DEF Requests
  <2>2. request' = Append(request, e) BY <1>2 DEF Spawned
  <2>q. QED BY <2>1, <2>2
<1>q. QED BY <1>1, <1>2, <1>3, <1>4

LEMMA NextTypeOK == TypeOK /\ [Next]_vars => TypeOK'
<1> SUFFICES ASSUME TypeOK, [Next]_vars PROVE TypeOK' OBVIOUS
<1>b. /\ MaxThreads \in Nat /\ MaxGeneration \in Nat /\ MaxClicks \in Nat /\ MaxFeed \in Nat
      /\ MaxFeed >= 2
  BY Bounds
<1>1. CASE CopyStatus
  <2>1. /\ service' \in {"none", "starting", "serving", "dead"} /\ native' \in BOOLEAN
        /\ online' \in BOOLEAN /\ live' \in BOOLEAN /\ running' \in BOOLEAN
    BY <1>1 DEF CopyStatus, TypeOK
  <2>q. QED BY <1>1, <2>1 DEF CopyStatus, TypeOK, client, robot, hist
<1>2. CASE DrainResult
  <2>1. results # <<>> /\ results \in Seq(Results) BY <1>2 DEF DrainResult, TypeOK
  <2>2. results' \in Seq(Results) BY <1>2, <2>1, TailOf DEF DrainResult
  <2>3. pending' \subseteq Kinds /\ online' \in BOOLEAN
    BY <1>2 DEF DrainResult, TypeOK
  <2>4. running' \in BOOLEAN /\ native' \in BOOLEAN /\ stopAcked' \in BOOLEAN
    <3>1. running \in BOOLEAN /\ native \in BOOLEAN /\ stopAcked \in BOOLEAN BY DEF TypeOK
    <3>2. CASE UNCHANGED <<running, native, stopAcked>> BY <3>1, <3>2
    <3>3. ASSUME NEW moving \in BOOLEAN, running' = moving, native' = NativeTold(moving),
                 stopAcked' \in BOOLEAN
          PROVE  native' \in BOOLEAN /\ running' \in BOOLEAN
      BY <3>1, <3>3 DEF NativeTold
    <3> DEFINE m == Head(results).says \in {"moving", "planned"}
    <3>4. \/ UNCHANGED <<running, native, stopAcked>>
          \/ /\ running' = m /\ native' = NativeTold(m)
             /\ stopAcked' = (Head(results).kind = "stop")
      BY <1>2 DEF DrainResult
    <3>5. m \in BOOLEAN /\ (Head(results).kind = "stop") \in BOOLEAN OBVIOUS
    <3> HIDE DEF m
    <3>q. QED BY <3>2, <3>3, <3>4, <3>5
  <2>5. wrong' \in {"no", "late", "dry"} BY <1>2 DEF DrainResult, TypeOK
  <2>q. QED BY <1>2, <2>2, <2>3, <2>4, <2>5 DEF DrainResult, TypeOK, robot
<1>3. CASE PollStatus
  <2>1. pending' \subseteq Kinds /\ request' \in Seq(Requests) /\ Len(request') <= MaxThreads
    <3>1. CASE Dispatch("status") BY <3>1, DispatchStep DEF Kinds
    <3>2. CASE UNCHANGED <<pending, request>> BY <3>2 DEF TypeOK
    <3>q. QED BY <1>3, <3>1, <3>2 DEF PollStatus
  <2>q. QED BY <1>3, <2>1 DEF PollStatus, TypeOK, sidecar, robot, hist
<1>4. CASE EndFrame BY <1>4 DEF EndFrame, TypeOK, client, sidecar, robot, hist
<1>5. ASSUME NEW kind \in Kinds, Click(kind), stopAcked' \in BOOLEAN PROVE TypeOK'
  <2>1. pending' \subseteq Kinds /\ request' \in Seq(Requests) /\ Len(request') <= MaxThreads
    BY <1>5, DispatchStep DEF Click
  <2>2. clicks' \in 0..MaxClicks BY <1>5, <1>b DEF Click, TypeOK
  <2>q. QED BY <1>5, <2>1, <2>2 DEF Click, TypeOK, sidecar, robot
<1>6. CASE ClickNavigate \/ ClickStop \/ ClickRefresh
  BY <1>5, <1>6 DEF ClickNavigate, ClickStop, ClickRefresh, Kinds, TypeOK
<1>7. ASSUME NEW r \in Robots, ApplyConnection(r) PROVE TypeOK'
  <2>1. generation' = generation + 1 /\ generation' \in 0..MaxGeneration
    BY <1>7, <1>b DEF ApplyConnection, TypeOK
  <2>2. request' \in Seq(Requests) /\ Len(request') <= MaxThreads
    BY <1>7, <2>1, DispatchType DEF ApplyConnection, TypeOK, Kinds
  <2>3. pending' \subseteq Kinds BY <1>7 DEF ApplyConnection, PendingOnConnect, Kinds
  <2>4. feed' \in Seq(Content) /\ Len(feed') <= MaxFeed BY <1>7, <1>b DEF ApplyConnection
  <2>5. /\ service' \in {"none", "starting", "serving", "dead"} /\ source' \in Robots
        /\ inHand' \in Content \cup {"nothing"}
    BY <1>7 DEF ApplyConnection, Reconfigured, ReconnectLost, Replaced, TypeOK
  <2>q. QED BY <1>7, <2>1, <2>2, <2>3, <2>4, <2>5 DEF ApplyConnection, TypeOK, robot
<1>8. CASE Connect
  <2>1. feed' \in Seq(Content) /\ Len(feed') <= MaxFeed
    <3>1. CASE nav[source]
      <4>1. feed' = <<"hello", "moving">> BY <1>8, <3>1 DEF Connect
      <4>q. QED BY <1>b, <4>1 DEF Content
    <3>2. CASE ~nav[source]
      <4>1. feed' = <<"hello", "idle">> BY <1>8, <3>2 DEF Connect
      <4>q. QED BY <1>b, <4>1 DEF Content
    <3>q. QED BY <3>1, <3>2
  <2>q. QED BY <1>8, <2>1 DEF Connect, TypeOK, panel, client, robot, hist
<1>9. CASE Disconnect
  <2>1. feed' \in Seq(Content) /\ Len(feed') <= MaxFeed BY <1>9, <1>b DEF Disconnect
  <2>2. /\ up' = FALSE /\ source' = endpoint
        /\ UNCHANGED <<ui, configured, endpoint, generation, pending, online, live, running,
                       request, results, late, service, fresh, native, inHand, nav, clicks,
                       stopAcked, wrong>>
    BY <1>9 DEF Disconnect, panel, client, robot, hist
  <2>3. /\ request' \in Seq(Requests) /\ Len(request') <= MaxThreads
        /\ results' \in Seq(Results) /\ late' \in [Robots -> [Commands -> Nat]]
    BY <2>2 DEF TypeOK
  <2>4. /\ ui' \in {"poll", "drain", "input"} /\ configured' \in BOOLEAN
        /\ endpoint' \in Robots /\ generation' \in 0..MaxGeneration /\ pending' \subseteq Kinds
        /\ online' \in BOOLEAN /\ live' \in BOOLEAN /\ running' \in BOOLEAN
    BY <2>2 DEF TypeOK
  <2>5. /\ service' \in {"none", "starting", "serving", "dead"} /\ source' \in Robots
        /\ up' \in BOOLEAN /\ fresh' \in BOOLEAN /\ native' \in BOOLEAN
        /\ inHand' \in Content \cup {"nothing"}
    BY <2>2 DEF TypeOK
  <2>6. /\ nav' \in [Robots -> BOOLEAN] /\ clicks' \in 0..MaxClicks
        /\ stopAcked' \in BOOLEAN /\ wrong' \in {"no", "late", "dry"}
    BY <2>2 DEF TypeOK
  <2>q. QED BY <2>1, <2>3, <2>4, <2>5, <2>6 DEF TypeOK
<1>10. CASE Read
  <2>1. feed \in Seq(Content) /\ feed # <<>> /\ Len(feed) <= MaxFeed BY <1>10 DEF Read, TypeOK
  <2>2. Head(feed) \in Content /\ Tail(feed) \in Seq(Content) /\ Len(Tail(feed)) = Len(feed) - 1
    BY <2>1, TailOf
  <2>3. Len(Tail(feed)) <= MaxFeed BY <1>b, <2>1, <2>2
  <2>q. QED BY <1>10, <2>2, <2>3 DEF Read, TypeOK, panel, client, robot, hist
<1>11. CASE Publish
  <2>1. fresh' \in BOOLEAN /\ wrong' \in {"no", "late", "dry"} /\ inHand' \in Content \cup {"nothing"}
    BY <1>11 DEF Publish, TypeOK
  <2>2. native' \in BOOLEAN
    BY <1>11, Zenon DEF Publish, NativeAfter, TypeOK
  <2>q. QED BY <1>11, <2>1, <2>2 DEF Publish, TypeOK, panel, client, robot
<1>12. CASE Age
  <2>1. /\ fresh' = FALSE
        /\ UNCHANGED <<ui, configured, endpoint, generation, pending, online, live, running,
                       request, results, late, service, source, up, native, feed, inHand, nav,
                       clicks, stopAcked, wrong>>
    BY <1>12 DEF Age, panel, client, robot, hist
  <2>2. /\ request' \in Seq(Requests) /\ Len(request') <= MaxThreads
        /\ results' \in Seq(Results) /\ late' \in [Robots -> [Commands -> Nat]]
        /\ feed' \in Seq(Content) /\ Len(feed') <= MaxFeed
    BY <2>1 DEF TypeOK
  <2>3. /\ ui' \in {"poll", "drain", "input"} /\ configured' \in BOOLEAN
        /\ endpoint' \in Robots /\ generation' \in 0..MaxGeneration /\ pending' \subseteq Kinds
        /\ online' \in BOOLEAN /\ live' \in BOOLEAN /\ running' \in BOOLEAN
    BY <2>1 DEF TypeOK
  <2>4. /\ service' \in {"none", "starting", "serving", "dead"} /\ source' \in Robots
        /\ up' \in BOOLEAN /\ fresh' \in BOOLEAN /\ native' \in BOOLEAN
        /\ inHand' \in Content \cup {"nothing"}
    BY <2>1 DEF TypeOK
  <2>5. /\ nav' \in [Robots -> BOOLEAN] /\ clicks' \in 0..MaxClicks
        /\ stopAcked' \in BOOLEAN /\ wrong' \in {"no", "late", "dry"}
    BY <2>1 DEF TypeOK
  <2>q. QED BY <2>2, <2>3, <2>4, <2>5 DEF TypeOK
<1>13. ASSUME NEW s \in DOMAIN request, Execute(s) PROVE TypeOK'
  <2>1. request' \in Seq(Requests) /\ Len(request') = Len(request) BY <1>13, ExecuteStep
  <2>2. feed' \in Seq(Content) /\ Len(feed') <= MaxFeed /\ nav' \in [Robots -> BOOLEAN]
    <3>1. CASE UNCHANGED <<nav, feed>> BY <3>1 DEF TypeOK
    <3>2. CASE Obey(request[s].robot, request[s].kind) BY <3>2, ObeyType
    <3>q. QED BY <1>13, <3>1, <3>2 DEF Execute
  <2>q. QED BY <1>13, <2>1, <2>2 DEF Execute, TypeOK, panel, hist
<1>14. ASSUME NEW s \in DOMAIN request, Reply(s) PROVE TypeOK'
  <2>1. PICK ok \in BOOLEAN, says \in {"nothing", "moving", "planned", "idle"} : Report(s, ok, says)
    BY <1>14, ReplyReports
  <2>2. results' \in Seq(Results) /\ request' \in Seq(Requests)
        /\ Len(request') = Len(request) - 1
    BY <2>1, ReportStep
  <2>3. Len(request') <= MaxThreads
    <3>1. Len(request) <= MaxThreads /\ Len(request) \in Nat BY DEF TypeOK
    <3>q. QED BY <1>b, <2>2, <3>1
  <2>4. late' \in [Robots -> [Commands -> Nat]] BY <1>14, LateAfterReply
  <2>q. QED BY <2>1, <2>2, <2>3, <2>4 DEF Report, TypeOK, panel, sidecar, robot, hist
<1>15. ASSUME NEW r \in Robots, NavigationEnds(r) PROVE TypeOK'
  <2>1. feed' \in Seq(Content) /\ Len(feed') <= MaxFeed
    BY <1>15, TellType DEF NavigationEnds, Content
  <2>2. nav' \in [Robots -> BOOLEAN] BY <1>15 DEF NavigationEnds, TypeOK
  <2>q. QED BY <1>15, <2>1, <2>2 DEF NavigationEnds, TypeOK, panel, client, hist
<1>16. CASE UNCHANGED vars BY <1>16 DEF vars, panel, client, sidecar, robot, hist, TypeOK
<1>17. CASE ServiceFails BY <1>17 DEF ServiceFails, TypeOK, panel, client, robot, hist
<1>18. ASSUME NEW r \in Robots, NEW kind \in Commands, ExecuteLate(r, kind) PROVE TypeOK'
  <2>1. feed' \in Seq(Content) /\ Len(feed') <= MaxFeed /\ nav' \in [Robots -> BOOLEAN]
    <3>1. CASE UNCHANGED <<nav, feed>> BY <3>1 DEF TypeOK
    <3>2. CASE Obey(r, kind) BY <3>2, ObeyType
    <3>q. QED BY <1>18, <3>1, <3>2 DEF ExecuteLate
  <2>2. late' \in [Robots -> [Commands -> Nat]]
    <3>1. /\ late \in [Robots -> [Commands -> Nat]]
          /\ late[r][kind] > 0
          /\ late' = [late EXCEPT ![r][kind] = late[r][kind] - 1]
      BY <1>18 DEF ExecuteLate, TypeOK
    <3>2. late[r][kind] - 1 \in Nat BY <3>1
    <3>q. QED BY <3>1, <3>2
  <2>q. QED BY <1>18, <2>1, <2>2 DEF ExecuteLate, TypeOK, panel, hist
<1>q. QED
  BY <1>1, <1>2, <1>3, <1>4, <1>6, <1>7, <1>8, <1>9, <1>10, <1>11, <1>12, <1>13, <1>14,
     <1>15, <1>16, <1>17, <1>18
  DEF Next, Frame, Clicks, Service, Executes, ExecutesLate, Replies
----------------------------------------------------------------------------
(* Commands on their way                                                   *)

LEMMA InitFlight == Init => Flight
<1> SUFFICES ASSUME Init PROVE Flight OBVIOUS
<1>1. results = <<>> /\ generation = 0 BY DEF Init
<1>2. \A k, g : Flying(results, k, g) = {} BY <1>1 DEF Flying
<1>3. CASE configured
  <2> DEFINE e == [state |-> "sent", kind |-> "refresh", gen |-> 0, robot |-> endpoint]
  <2>1. request = <<e>> /\ pending = {"refresh"} BY <1>3 DEF Init
  <2>2. DOMAIN request = {1} /\ request[1].kind = "refresh" /\ request[1].gen = 0
    BY <2>1
  <2>3. \A k \in Single : Flying(request, k, generation) = {}
    BY <2>2 DEF Flying, Single
  <2>4. 1 \in Flying(request, "refresh", generation) BY <1>1, <2>2 DEF Flying
  <2>q. QED
    BY <1>1, <1>2, <2>1, <2>2, <2>3, <2>4
    DEF Flight, PendingFlies, OneFlies, NoneAhead, AtMostOne
<1>4. CASE ~configured
  <2>1. request = <<>> /\ pending = {} BY <1>4 DEF Init
  <2>2. \A k, g : Flying(request, k, g) = {} BY <2>1 DEF Flying
  <2>q. QED
    BY <1>1, <1>2, <2>1, <2>2 DEF Flight, PendingFlies, OneFlies, NoneAhead, AtMostOne
<1>q. QED BY <1>3, <1>4

(* A command that is not pending is dispatched. *)
LEMMA DispatchFlight ==
    ASSUME IInv, NEW kind \in Kinds, kind \in Single => kind \notin pending, Dispatch(kind),
           results' = results, generation' = generation
    PROVE  Flight'
<1> USE DEF IInv, Flight
<1>1. /\ request \in Seq(Requests) /\ generation \in Nat
      /\ pending' = pending \cup {kind}
  BY Bounds DEF TypeOK, Dispatch
<1>2. PICK e \in Requests : e.kind = kind /\ e.gen = generation /\ request' = Append(request, e)
  BY DispatchStep
<1>3. ASSUME NEW k
      PROVE LET F == Flying(request, k, generation)
                A == Flying(request', k, generation)
            IN /\ F # {} => A # {}
               /\ k = kind => A # {}
               /\ (k = kind /\ F = {}) => AtMostOne(A)
               /\ k # kind => A = F
  BY <1>1, <1>2, FlyingAppend
<1>4. PendingFlies'
  <2> SUFFICES ASSUME NEW k \in pending'
               PROVE  \/ Flying(request', k, generation) # {}
                      \/ Flying(results, k, generation) # {}
    BY DEF PendingFlies
  <2>1. CASE k = kind BY <1>3, <2>1
  <2>2. CASE k # kind
    <3>1. k \in pending BY <1>1, <2>2
    <3>q. QED BY <1>3, <3>1 DEF PendingFlies
  <2>q. QED BY <2>1, <2>2
<1>5. OneFlies'
  <2> SUFFICES ASSUME NEW k \in Single
      PROVE  /\ AtMostOne(Flying(request', k, generation))
             /\ AtMostOne(Flying(results, k, generation))
             /\ Flying(request', k, generation) = {} \/ Flying(results, k, generation) = {}
             /\ k \notin pending' =>
                    Flying(request', k, generation) = {} /\ Flying(results, k, generation) = {}
    BY DEF OneFlies
  <2>1. CASE k = kind
    <3>1. Flying(request, k, generation) = {} /\ Flying(results, k, generation) = {}
      BY <2>1 DEF OneFlies
    <3>q. QED BY <1>1, <1>3, <2>1, <3>1 DEF OneFlies
  <2>2. CASE k # kind BY <1>1, <1>3, <2>2 DEF OneFlies
  <2>q. QED BY <2>1, <2>2
<1>6. NoneAhead' BY <1>1, <1>2, AppendedTo DEF NoneAhead
<1>q. QED BY <1>4, <1>5, <1>6

(* Nothing of the new connection is on its way yet. *)
LEMMA ConnectFlight ==
    ASSUME IInv, NEW r \in Robots, ApplyConnection(r) PROVE Flight'
<1> USE DEF IInv, Flight
<1> DEFINE g == generation + 1
           e == [state |-> "sent", kind |-> "refresh", gen |-> g, robot |-> r]
<1>1. /\ request \in Seq(Requests) /\ generation \in Nat /\ generation' = g
      /\ pending' = {"refresh"} /\ results' = results /\ request' = Append(request, e)
      /\ g \in 0..MaxGeneration
  BY Bounds DEF TypeOK, ApplyConnection, PendingOnConnect, Spawned
<1>2. e \in Requests /\ e.kind = "refresh" /\ e.gen = g BY <1>1 DEF Requests, Kinds
<1> HIDE DEF e
<1>3. \A k : Flying(request, k, g) = {} /\ Flying(results, k, g) = {}
  <2>1. \A i \in DOMAIN request : request[i].gen # g BY <1>1 DEF NoneAhead, TypeOK, Requests
  <2>2. \A i \in DOMAIN results : results[i].gen # g BY <1>1 DEF NoneAhead, TypeOK, Results
  <2>q. QED BY <2>1, <2>2 DEF Flying
<1>4. Flying(request', "refresh", g) # {} BY <1>1, <1>2, FlyingAppend
<1>5. \A k \in Single : Flying(request', k, g) = {}
  <2>1. \A k \in Single : k # "refresh" BY DEF Single
  <2>q. QED BY <1>1, <1>2, <1>3, <2>1, FlyingAppend
<1>6. PendingFlies' BY <1>1, <1>4 DEF PendingFlies
<1>7. OneFlies' BY <1>1, <1>3, <1>5 DEF OneFlies, AtMostOne
<1>8. NoneAhead'
  <2>1. ASSUME NEW i \in DOMAIN request PROVE request[i].gen <= g
    <3>1. request[i] \in Requests BY <1>1
    <3>2. request[i].gen \in Int /\ request[i].gen <= generation
      BY <3>1 DEF Requests, NoneAhead
    <3>q. QED BY <1>1, <3>2
  <2>2. ASSUME NEW i \in DOMAIN results PROVE results[i].gen <= g
    <3>1. results[i] \in Results BY DEF TypeOK
    <3>2. results[i].gen \in Int /\ results[i].gen <= generation
      BY <3>1 DEF Results, NoneAhead
    <3>q. QED BY <1>1, <3>2
  <2>q. QED BY <1>1, <1>2, <2>1, <2>2, AppendedTo DEF NoneAhead
<1>q. QED BY <1>6, <1>7, <1>8

(* The panel takes a result from the channel. *)
LEMMA DrainFlight == ASSUME IInv, DrainResult PROVE Flight'
<1> USE DEF IInv, Flight
<1> DEFINE e == Head(results)
<1>1. /\ results \in Seq(Results) /\ results # <<>> /\ results' = Tail(results)
      /\ request' = request /\ generation' = generation /\ e = results[1]
      /\ results' \in Seq(Results) /\ Len(results') = Len(results) - 1
      /\ \A i \in 1..(Len(results) - 1) : results'[i] = results[i + 1]
  BY TailOf DEF DrainResult, TypeOK
<1>2. 1 \in DOMAIN results BY <1>1
<1>3. \A i \in 1..(Len(results) - 1) :
          results'[i] = IF i < 1 THEN results[i] ELSE results[i + 1]
  BY <1>1
<1>4. ASSUME NEW k
      PROVE LET F == Flying(results, k, generation)
                L == Flying(results', k, generation)
            IN /\ F = {} => L = {}
               /\ AtMostOne(F) => AtMostOne(L)
               /\ ~(e.kind = k /\ e.gen = generation) => (F # {} => L # {})
               /\ (e.kind = k /\ e.gen = generation /\ AtMostOne(F)) => L = {}
               /\ (e.kind = k /\ e.gen = generation) => F # {}
  <2>1. (e.kind = k /\ e.gen = generation) => 1 \in Flying(results, k, generation)
    BY <1>1, <1>2 DEF Flying
  <2>2. LET F == Flying(results, k, generation)
            L == Flying(results', k, generation)
        IN /\ F = {} => L = {}
           /\ AtMostOne(F) => AtMostOne(L)
           /\ ~(results[1].kind = k /\ results[1].gen = generation) => (F # {} => L # {})
           /\ (results[1].kind = k /\ results[1].gen = generation /\ AtMostOne(F)) => L = {}
    <3> HIDE DEF e
    <3>1. results' \in Seq(Results) /\ Len(results') = Len(results) - 1
          /\ results \in Seq(Results)
      BY <1>1
    <3>2. Without(results, 1, results') BY <1>3, <3>1 DEF Without
    <3>q. QED BY <1>2, <3>1, <3>2, FlyingLess
  <2>3. results[1] = e BY <1>1
  <2> HIDE DEF e
  <2>q. QED BY <2>1, <2>2, <2>3, Zenon
<1>5. pending' = IF e.gen = generation THEN pending \ {e.kind} ELSE pending
  BY DEF DrainResult, Current
<1> HIDE DEF e
<1>6. PendingFlies'
  <2> SUFFICES ASSUME NEW k \in pending'
               PROVE  \/ Flying(request, k, generation) # {}
                      \/ Flying(results', k, generation) # {}
    BY <1>1 DEF PendingFlies
  <2>1. k \in pending /\ ~(e.kind = k /\ e.gen = generation) BY <1>5
  <2>q. QED BY <1>4, <2>1 DEF PendingFlies
<1>7. OneFlies'
  <2> SUFFICES ASSUME NEW k \in Single
      PROVE  /\ AtMostOne(Flying(request, k, generation))
             /\ AtMostOne(Flying(results', k, generation))
             /\ Flying(request, k, generation) = {} \/ Flying(results', k, generation) = {}
             /\ k \notin pending' =>
                    Flying(request, k, generation) = {} /\ Flying(results', k, generation) = {}
    BY <1>1 DEF OneFlies
  <2>1. CASE e.kind = k /\ e.gen = generation
    <3>1. Flying(results', k, generation) = {} /\ Flying(request, k, generation) = {}
      BY <1>4, <2>1 DEF OneFlies
    <3>q. QED BY <3>1 DEF AtMostOne
  <2>2. CASE ~(e.kind = k /\ e.gen = generation)
    <3>1. k \in pending' <=> k \in pending BY <1>5, <2>2
    <3>q. QED BY <1>4, <3>1 DEF OneFlies
  <2>q. QED BY <2>1, <2>2
<1>8. NoneAhead'
  <2>1. ASSUME NEW i \in DOMAIN results' PROVE results'[i].gen <= generation
    <3>1. i \in 1..(Len(results) - 1) /\ i + 1 \in DOMAIN results BY <1>1
    <3>2. results'[i] = results[i + 1] BY <1>1, <3>1
    <3>q. QED BY <3>1, <3>2 DEF NoneAhead
  <2>q. QED BY <1>1, <2>1 DEF NoneAhead
<1>q. QED BY <1>6, <1>7, <1>8

(* A thread reports: its command moves from one place to the other. *)
LEMMA ReportFlight ==
    ASSUME IInv, NEW s \in DOMAIN request, Reply(s) PROVE Flight'
<1> USE DEF IInv, Flight
<1>1. PICK ok \in BOOLEAN, says \in {"nothing", "moving", "planned", "idle"} : Report(s, ok, says)
  BY ReplyReports
<1>2. PICK e \in Results :
        /\ e.kind = request[s].kind /\ e.gen = request[s].gen
        /\ results' = Append(results, e) /\ request' = RemoveAt(request, s)
        /\ results' \in Seq(Results) /\ request' \in Seq(Requests)
        /\ Len(request') = Len(request) - 1
  BY <1>1, ReportStep
<1>3. pending' = pending /\ generation' = generation BY <1>1 DEF Report, panel
<1>4. request \in Seq(Requests) /\ results \in Seq(Results) BY DEF TypeOK
<1>5. \A i \in 1..(Len(request) - 1) :
          request'[i] = IF i < s THEN request[i] ELSE request[i + 1]
  BY <1>2, <1>4, RemovedFrom
<1> DEFINE Match(k) == e.kind = k /\ e.gen = generation
<1>6. ASSUME NEW k
      PROVE LET F == Flying(request, k, generation)
                L == Flying(request', k, generation)
            IN /\ F = {} => L = {}
               /\ AtMostOne(F) => AtMostOne(L)
               /\ ~Match(k) => (F # {} => L # {})
               /\ (Match(k) /\ AtMostOne(F)) => L = {}
               /\ Match(k) => F # {}
  <2>1. Match(k) => s \in Flying(request, k, generation) BY <1>2 DEF Flying
  <2>2. LET F == Flying(request, k, generation)
            L == Flying(request', k, generation)
        IN /\ F = {} => L = {}
           /\ AtMostOne(F) => AtMostOne(L)
           /\ ~(request[s].kind = k /\ request[s].gen = generation) => (F # {} => L # {})
           /\ (request[s].kind = k /\ request[s].gen = generation /\ AtMostOne(F)) => L = {}
    <3>1. request' \in Seq(Requests) /\ Len(request') = Len(request) - 1
          /\ request \in Seq(Requests)
      BY <1>2, <1>4
    <3>2. Without(request, s, request') BY <1>5, <3>1 DEF Without
    <3>q. QED BY <3>1, <3>2, FlyingLess
  <2>3. Match(k) <=> request[s].kind = k /\ request[s].gen = generation BY <1>2
  <2> HIDE DEF Match
  <2>q. QED BY <2>1, <2>2, <2>3, Zenon
<1>7. ASSUME NEW k
      PROVE LET F == Flying(results, k, generation)
                A == Flying(results', k, generation)
            IN /\ F # {} => A # {}
               /\ Match(k) => A # {}
               /\ (Match(k) /\ F = {}) => AtMostOne(A)
               /\ ~Match(k) => A = F
  <2>1. LET F == Flying(results, k, generation)
            A == Flying(Append(results, e), k, generation)
        IN /\ F # {} => A # {}
           /\ (e.kind = k /\ e.gen = generation) => A # {}
           /\ (e.kind = k /\ e.gen = generation /\ F = {}) => AtMostOne(A)
           /\ ~(e.kind = k /\ e.gen = generation) => A = F
    BY <1>4, FlyingAppend
  <2>q. QED BY <1>2, <2>1
<1> HIDE DEF Match
<1>8. PendingFlies' BY <1>3, <1>6, <1>7 DEF PendingFlies
<1>9. OneFlies'
  <2> SUFFICES ASSUME NEW k \in Single
      PROVE  /\ AtMostOne(Flying(request', k, generation))
             /\ AtMostOne(Flying(results', k, generation))
             /\ Flying(request', k, generation) = {} \/ Flying(results', k, generation) = {}
             /\ k \notin pending =>
                    Flying(request', k, generation) = {} /\ Flying(results', k, generation) = {}
    BY <1>3 DEF OneFlies
  <2>1. CASE Match(k)
    <3>1. Flying(results, k, generation) = {} /\ k \in pending
          /\ AtMostOne(Flying(request, k, generation))
      BY <1>6, <2>1 DEF OneFlies
    <3>q. QED BY <1>6, <1>7, <2>1, <3>1 DEF AtMostOne
  <2>2. CASE ~Match(k) BY <1>6, <1>7, <2>2 DEF OneFlies
  <2>q. QED BY <2>1, <2>2
<1>10. NoneAhead'
  <2>1. ASSUME NEW i \in DOMAIN request' PROVE request'[i].gen <= generation
    <3>1. i \in 1..(Len(request) - 1) /\ i \in DOMAIN request /\ i + 1 \in DOMAIN request
      BY <1>2, <1>4
    <3>2. request'[i] \in {request[i], request[i + 1]} BY <1>5, <3>1
    <3>q. QED BY <3>1, <3>2 DEF NoneAhead
  <2>2. ASSUME NEW i \in DOMAIN results' PROVE results'[i].gen <= generation
    <3>1. e.gen <= generation BY <1>2 DEF NoneAhead
    <3>q. QED BY <1>2, <1>4, <3>1, AppendedTo DEF NoneAhead
  <2>q. QED BY <1>3, <2>1, <2>2 DEF NoneAhead
<1>q. QED BY <1>8, <1>9, <1>10

LEMMA NextFlight == IInv /\ [Next]_vars => Flight'
<1> SUFFICES ASSUME IInv, [Next]_vars PROVE Flight' OBVIOUS
<1>1. CASE UNCHANGED <<pending, generation, request, results>>
  BY <1>1 DEF IInv, Flight, PendingFlies, OneFlies, NoneAhead
<1>2. CASE DrainResult BY <1>2, DrainFlight
<1>3. CASE PollStatus
  <2>1. CASE Dispatch("status") /\ StatusDue
    <3>1. results' = results /\ generation' = generation BY <1>3 DEF PollStatus
    <3>q. QED BY <2>1, <3>1, DispatchFlight DEF StatusDue, Kinds
  <2>2. CASE UNCHANGED <<pending, request>> BY <1>1, <1>3, <2>2 DEF PollStatus
  <2>q. QED BY <1>3, <2>1, <2>2 DEF PollStatus
<1>4. ASSUME NEW kind \in Kinds, kind \in Single => kind \notin pending, Click(kind) PROVE Flight'
  <2>1. Dispatch(kind) /\ results' = results /\ generation' = generation BY <1>4 DEF Click
  <2>q. QED BY <1>4, <2>1, DispatchFlight
<1>5. CASE ClickNavigate \/ ClickStop \/ ClickRefresh
  BY <1>4, <1>5 DEF ClickNavigate, ClickStop, ClickRefresh, CanNavigate, CanStop, Kinds, Single
<1>6. ASSUME NEW r \in Robots, ApplyConnection(r) PROVE Flight' BY <1>6, ConnectFlight
<1>7. ASSUME NEW s \in DOMAIN request, Execute(s) PROVE Flight'
  <2>1. pending' = pending /\ generation' = generation /\ results' = results
    BY <1>7 DEF Execute, panel
  <2>2. /\ DOMAIN request' = DOMAIN request
        /\ \A i \in DOMAIN request : /\ request'[i].kind = request[i].kind
                                     /\ request'[i].gen = request[i].gen
    BY <1>7, ExecuteStep DEF IInv
  <2>3. \A k : Flying(request', k, generation) = Flying(request, k, generation)
    BY <2>2 DEF Flying
  <2>q. QED BY <2>1, <2>2, <2>3 DEF IInv, Flight, PendingFlies, OneFlies, NoneAhead
<1>8. ASSUME NEW s \in DOMAIN request, Reply(s) PROVE Flight' BY <1>8, ReportFlight
<1>9. ASSUME NEW r, NEW kind, ExecuteLate(r, kind) PROVE Flight'
  BY <1>1, <1>9 DEF ExecuteLate, panel
<1>q. QED
  BY <1>1, <1>2, <1>3, <1>5, <1>6, <1>7, <1>8, <1>9
  DEF Next, Frame, Clicks, Service, Executes, ExecutesLate, Replies, CopyStatus, EndFrame,
      Connect, Read, Publish, ServiceFails, Disconnect, Age, NavigationEnds, vars, panel,
      client, hist

----------------------------------------------------------------------------
(* Theorems                                                                *)

LEMMA Inductive == Spec => []IInv
<1>1. Init => IInv BY InitTypeOK, InitFlight DEF IInv
<1>2. IInv /\ [Next]_vars => IInv' BY NextTypeOK, NextFlight DEF IInv
<1>q. QED BY <1>1, <1>2, PTL DEF Spec

(* Panel, threads, channel and service keep their types, for any robots    *)
(* and any number of threads, connections and clicks.                      *)
THEOREM TypeCorrect == Spec => []TypeOK
<1>1. IInv => TypeOK BY DEF IInv
<1>q. QED BY Inductive, <1>1, PTL

LEMMA OutstandingCounts ==
    ASSUME IInv, NEW k
    PROVE  LET A == Flying(request, k, generation)
               B == Flying(results, k, generation)
           IN /\ Outstanding(k) = Cardinality(A) + Cardinality(B)
              /\ IsFiniteSet(A) /\ IsFiniteSet(B)
<1>1. request \in Seq(Requests) /\ results \in Seq(Results) BY DEF IInv, TypeOK
<1>2. IsFiniteSet(DOMAIN request) /\ IsFiniteSet(DOMAIN results)
  <2>1. \A n \in Nat : IsFiniteSet(1..n) BY FS_Interval
  <2>q. QED BY <1>1, <2>1
<1>3. IsFiniteSet(Flying(request, k, generation)) BY <1>2, FS_Subset DEF Flying
<1>4. IsFiniteSet(Flying(results, k, generation)) BY <1>2, FS_Subset DEF Flying
<1>q. QED BY <1>3, <1>4 DEF Outstanding, Flying

(* A button disabled by a pending command is never disabled for ever: the  *)
(* command, or its result, is still on its way in the present connection.  *)
(* Code: ControlPanel::dispatch, poll_results, apply_connection.           *)
THEOREM PendingReturns == Spec => []PendingHasCommand
<1>1. IInv => PendingHasCommand
  <2> SUFFICES ASSUME IInv, NEW k \in pending PROVE Outstanding(k) > 0
    BY DEF PendingHasCommand
  <2> DEFINE A == Flying(request, k, generation)
             B == Flying(results, k, generation)
  <2>1. /\ Outstanding(k) = Cardinality(A) + Cardinality(B)
        /\ IsFiniteSet(A) /\ IsFiniteSet(B)
    BY OutstandingCounts
  <2>2. A # {} \/ B # {} BY DEF IInv, Flight, PendingFlies
  <2> HIDE DEF A, B
  <2>3. /\ Cardinality(A) \in Nat /\ (Cardinality(A) = 0 <=> A = {})
        /\ Cardinality(B) \in Nat /\ (Cardinality(B) = 0 <=> B = {})
    BY <2>1, FS_CardinalityType, FS_EmptySet
  <2>q. QED BY <2>1, <2>2, <2>3
<1>q. QED BY Inductive, <1>1, PTL

(* No status, navigate or stop command is sent while one of this           *)
(* connection has not come back, whatever number of threads there is.      *)
(* Code: poll_status, can_stop_navigation, the navigate button.            *)
THEOREM NeverTwice == Spec => []SingleFlight
<1>1. IInv => SingleFlight
  <2> SUFFICES ASSUME IInv, NEW k \in Single PROVE Outstanding(k) <= 1
    BY DEF SingleFlight, Single
  <2> DEFINE A == Flying(request, k, generation)
             B == Flying(results, k, generation)
  <2>1. /\ Outstanding(k) = Cardinality(A) + Cardinality(B)
        /\ IsFiniteSet(A) /\ IsFiniteSet(B)
    BY OutstandingCounts
  <2>2. AtMostOne(A) /\ AtMostOne(B) /\ (A = {} \/ B = {}) BY DEF IInv, Flight, OneFlies
  <2>3. ASSUME NEW S, AtMostOne(S) PROVE Cardinality(S) \in {0, 1}
    <3>1. CASE S = {} BY <3>1, FS_EmptySet
    <3>2. CASE S # {}
      <4>1. PICK x : x \in S BY <3>2
      <4>2. S = {x} BY <2>3, <4>1 DEF AtMostOne
      <4>q. QED BY <4>2, FS_Singleton
    <3>q. QED BY <3>1, <3>2
  <2> HIDE DEF A, B
  <2>4. Cardinality(A) \in {0, 1} /\ Cardinality(B) \in {0, 1} BY <2>2, <2>3
  <2>5. (A = {} => Cardinality(A) = 0) /\ (B = {} => Cardinality(B) = 0) BY FS_EmptySet
  <2>q. QED BY <2>1, <2>2, <2>4, <2>5
<1>q. QED BY Inductive, <1>1, PTL

----------------------------------------------------------------------------
(* The buttons and the robot                                               *)

(* Commands of the present connection are the present robot's. *)
Own(q, g, r) == \A i \in DOMAIN q : q[i].gen = g => q[i].robot = r

OfThisRobot == Own(request, generation, endpoint) /\ Own(results, generation, endpoint)

(* What the robot says of a task it runs or does not run. *)
Word(moving) == IF moving THEN "moving" ELSE "idle"

(* On an open WebSocket the last message, wherever it is by now, tells the *)
(* present state of the robot it comes from.                               *)
Heard ==
    up =>
      IF feed # <<>> THEN feed[Len(feed)] = Word(nav[source])
      ELSE IF inHand # "nothing" THEN inHand = Word(nav[source])
      ELSE wrong = "no" /\ source = endpoint => native = nav[source]

UpServes == up => service = "serving"

AgreeInv == IInv /\ OfThisRobot /\ UpServes /\ Heard

LEMMA OwnAppend ==
    ASSUME NEW V, NEW q \in Seq(V), NEW e \in V, NEW g, NEW r, Own(q, g, r),
           e.gen = g => e.robot = r
    PROVE  Own(Append(q, e), g, r)
BY AppendedTo DEF Own

LEMMA OwnLess ==
    ASSUME NEW V, NEW q \in Seq(V), NEW n \in DOMAIN q, NEW l \in Seq(V), Without(q, n, l),
           NEW g, NEW r, Own(q, g, r)
    PROVE  Own(l, g, r)
<1>1. DOMAIN q = 1..Len(q) /\ Len(q) \in Nat /\ DOMAIN l = 1..(Len(q) - 1) BY DEF Without
<1>2. ASSUME NEW i \in DOMAIN l, l[i].gen = g PROVE l[i].robot = r
  <2>1. i \in DOMAIN q /\ i + 1 \in DOMAIN q BY <1>1
  <2>2. l[i] \in {q[i], q[i + 1]} BY <1>1 DEF Without
  <2>q. QED BY <1>2, <2>1, <2>2 DEF Own
<1>q. QED BY <1>2 DEF Own

LEMMA NextOfThisRobot == IInv /\ OfThisRobot /\ [Next]_vars => OfThisRobot'
<1> SUFFICES ASSUME IInv, OfThisRobot, [Next]_vars PROVE OfThisRobot' OBVIOUS
<1>t. /\ request \in Seq(Requests) /\ results \in Seq(Results) /\ generation \in Nat
      /\ endpoint \in Robots
  BY DEF IInv, TypeOK
<1>1. CASE UNCHANGED <<generation, endpoint, request, results>> BY <1>1 DEF OfThisRobot
<1>2. CASE DrainResult
  <2>1. /\ results' = Tail(results) /\ results # <<>> /\ request' = request
        /\ generation' = generation /\ endpoint' = endpoint
    BY <1>2 DEF DrainResult
  <2>2. 1 \in DOMAIN results /\ results' \in Seq(Results) /\ Without(results, 1, results')
    BY <1>t, <2>1, TailOf DEF Without
  <2>q. QED BY <1>t, <2>1, <2>2, OwnLess DEF OfThisRobot
<1>3. ASSUME NEW kind \in Kinds, Dispatch(kind), UNCHANGED <<generation, endpoint, results>>
      PROVE  OfThisRobot'
  <2>1. PICK e \in Requests : e.gen = generation /\ e.robot = endpoint
                              /\ request' = Append(request, e)
    BY <1>3, DispatchStep DEF IInv
  <2>q. QED BY <1>t, <1>3, <2>1, OwnAppend DEF OfThisRobot
<1>4. CASE PollStatus
  BY <1>1, <1>3, <1>4 DEF PollStatus, Kinds
<1>5. CASE ClickNavigate \/ ClickStop \/ ClickRefresh
  BY <1>3, <1>5 DEF ClickNavigate, ClickStop, ClickRefresh, Click, Kinds
<1>6. ASSUME NEW r \in Robots, ApplyConnection(r) PROVE OfThisRobot'
  <2> DEFINE g == generation + 1
             e == [state |-> "sent", kind |-> "refresh", gen |-> g, robot |-> r]
  <2>1. /\ generation' = g /\ endpoint' = r /\ results' = results
        /\ request' = Append(request, e) /\ g \in 0..MaxGeneration
    BY <1>6, <1>t, Bounds DEF ApplyConnection, Spawned
  <2>2. e \in Requests /\ e.robot = r BY <2>1 DEF Requests, Kinds
  <2> HIDE DEF e
  <2>3. ASSUME NEW i \in DOMAIN request PROVE request[i].gen # g
    <3>1. request[i] \in Requests BY <1>t
    <3>q. QED BY <1>t, <3>1 DEF Requests, IInv, Flight, NoneAhead
  <2>4. ASSUME NEW i \in DOMAIN results PROVE results[i].gen # g
    <3>1. results[i] \in Results BY <1>t
    <3>q. QED BY <1>t, <3>1 DEF Results, IInv, Flight, NoneAhead
  <2>5. Own(request, g, r) /\ Own(results, g, r) BY <2>3, <2>4 DEF Own
  <2>6. Own(Append(request, e), g, r) BY <1>t, <2>2, <2>5, OwnAppend
  <2>q. QED BY <2>1, <2>5, <2>6 DEF OfThisRobot
<1>7. ASSUME NEW s \in DOMAIN request, Execute(s) PROVE OfThisRobot'
  <2>1. generation' = generation /\ endpoint' = endpoint /\ results' = results
    BY <1>7 DEF Execute, panel
  <2>q. QED BY <1>7, <2>1, ExecuteStep DEF IInv, OfThisRobot, Own
<1>8. ASSUME NEW s \in DOMAIN request, Reply(s) PROVE OfThisRobot'
  <2>1. PICK ok \in BOOLEAN, says \in {"nothing", "moving", "planned", "idle"} : Report(s, ok, says)
    BY <1>8, ReplyReports
  <2>2. PICK e \in Results :
          /\ e.gen = request[s].gen /\ e.robot = request[s].robot
          /\ results' = Append(results, e) /\ request' = RemoveAt(request, s)
          /\ request' \in Seq(Requests)
    BY <2>1, ReportStep DEF IInv
  <2>3. generation' = generation /\ endpoint' = endpoint BY <2>1 DEF Report, panel
  <2>4. Without(request, s, request') BY <1>t, <2>2, RemovedFrom DEF Without
  <2>5. Own(request', generation, endpoint) BY <1>t, <2>2, <2>4, OwnLess DEF OfThisRobot
  <2>6. e.gen = generation => e.robot = endpoint BY <2>2 DEF OfThisRobot, Own
  <2>7. Own(results', generation, endpoint) BY <1>t, <2>2, <2>6, OwnAppend DEF OfThisRobot
  <2>q. QED BY <2>3, <2>5, <2>7 DEF OfThisRobot
<1>9. ASSUME NEW r, NEW kind, ExecuteLate(r, kind) PROVE OfThisRobot'
  BY <1>1, <1>9 DEF ExecuteLate, panel
<1>q. QED
  BY <1>1, <1>2, <1>4, <1>5, <1>6, <1>7, <1>8, <1>9
  DEF Next, Frame, Clicks, Service, Executes, ExecutesLate, Replies, CopyStatus, EndFrame,
      Connect, Read, Publish, ServiceFails, Disconnect, Age, NavigationEnds, vars, panel,
      client, hist

----------------------------------------------------------------------------
(* What the robot says                                                     *)

(* The robot's state changes and it says so, or somebody else's does. *)
LEMMA TellHeard ==
    ASSUME TypeOK, Heard, NEW r \in Robots, NEW moving \in BOOLEAN,
           nav' = [nav EXCEPT ![r] = moving], Tell(r, Word(moving)),
           UNCHANGED <<up, source, endpoint, inHand, native, wrong>>
    PROVE  Heard'
<1>1. feed \in Seq(Content) /\ Word(moving) \in Content /\ nav \in [Robots -> BOOLEAN]
  BY DEF TypeOK, Word, Content
<1>2. CASE up /\ r = source
  <2>1. feed' = Append(feed, Word(moving)) BY <1>2 DEF Tell
  <2>2. feed' # <<>> /\ feed'[Len(feed')] = Word(moving) BY <1>1, <2>1
  <2>3. nav'[source] = moving BY <1>1, <1>2
  <2>q. QED BY <2>2, <2>3 DEF Heard
<1>3. CASE ~up BY <1>3 DEF Heard
<1>4. CASE r # source
  <2>1. nav'[source] = nav[source] /\ feed' = feed BY <1>1, <1>4 DEF TypeOK, Tell
  <2>q. QED BY <2>1 DEF Heard
<1>q. QED BY <1>2, <1>3, <1>4

LEMMA ObeyHeard ==
    ASSUME TypeOK, Heard, NEW r \in Robots, NEW kind, Obey(r, kind),
           UNCHANGED <<up, source, endpoint, inHand, native, wrong>>
    PROVE  Heard'
<1> DEFINE moving == kind = "navigate"
<1>1. Tell(r, Word(moving)) /\ nav' = [nav EXCEPT ![r] = moving] BY DEF Obey, Word
<1>2. moving \in BOOLEAN OBVIOUS
<1> HIDE DEF moving
<1>q. QED BY <1>1, <1>2, TellHeard

LEMMA NextHeard == AgreeInv /\ [Next]_vars => Heard'
<1> SUFFICES ASSUME AgreeInv, [Next]_vars PROVE Heard' OBVIOUS
<1> USE DEF AgreeInv
<1>t. /\ TypeOK /\ feed \in Seq(Content) /\ nav \in [Robots -> BOOLEAN] /\ source \in Robots
      /\ inHand \in Content \cup {"nothing"} /\ native \in BOOLEAN /\ nav[source] \in BOOLEAN
  BY DEF IInv, TypeOK
<1>w. Word(nav[source]) \in {"moving", "idle"}
      /\ (Word(nav[source]) = "moving" <=> nav[source])
  BY DEF Word
<1>1. CASE UNCHANGED <<up, source, endpoint, feed, inHand, native, nav, wrong>>
  BY <1>1 DEF Heard
<1>2. CASE DrainResult
  <2> DEFINE e == Head(results)
  <2>1. UNCHANGED <<up, source, endpoint, feed, inHand, nav>> BY <1>2 DEF DrainResult, robot
  <2>2. CASE native' = native /\ wrong' = wrong BY <2>1, <2>2 DEF Heard
  <2>3. CASE Current(e) /\ e.says # "nothing"
    <3> DEFINE moving == e.says \in {"moving", "planned"}
    <3>1. results \in Seq(Results) /\ results # <<>> BY <1>2 DEF DrainResult, IInv, TypeOK
    <3>2. e = results[1] /\ 1 \in DOMAIN results BY <3>1, TailOf
    <3>3. e.robot = endpoint BY <2>3, <3>2 DEF Current, OfThisRobot, Own
    <3>4. native' = NativeTold(moving) /\ (wrong' = "no" => nav[e.robot] = moving)
      BY <1>2, <2>3 DEF DrainResult
    <3>5. up => native' = moving BY <3>4 DEF NativeTold, UpServes
    <3>6. up /\ wrong' = "no" /\ source = endpoint => native' = nav[source]
      BY <3>3, <3>4, <3>5
    <3>q. QED BY <2>1, <3>6 DEF Heard
  <2>q. QED BY <1>2, <2>2, <2>3 DEF DrainResult
<1>3. ASSUME NEW r \in Robots, ApplyConnection(r) PROVE Heard'
  BY <1>3 DEF ApplyConnection, Heard
<1>4. CASE Connect
  <2>1. /\ feed' = <<"hello", Word(nav[source])>> /\ nav' = nav /\ source' = source
    BY <1>4 DEF Connect, panel, robot, Word
  <2>2. feed' # <<>> /\ feed'[Len(feed')] = Word(nav[source]) BY <2>1
  <2>q. QED BY <2>1, <2>2 DEF Heard
<1>5. CASE Disconnect BY <1>5 DEF Disconnect, Heard
<1>6. CASE Read
  <2>1. /\ up /\ feed # <<>> /\ inHand' = Head(feed) /\ feed' = Tail(feed)
        /\ UNCHANGED <<up, nav, source>>
    BY <1>6 DEF Read, panel, robot
  <2>2. feed[Len(feed)] = Word(nav[source]) BY <2>1 DEF Heard
  <2>3. CASE Len(feed) = 1
    <3>1. feed' = <<>> /\ inHand' = feed[1] BY <1>t, <2>1, <2>3
    <3>q. QED BY <1>w, <2>1, <2>2, <2>3, <3>1 DEF Heard
  <2>4. CASE Len(feed) # 1
    <3>1. /\ feed' \in Seq(Content) /\ Len(feed') = Len(feed) - 1
          /\ \A i \in 1..(Len(feed) - 1) : feed'[i] = feed[i + 1]
      BY <1>t, <2>1, TailOf
    <3>2. Len(feed) \in Nat /\ Len(feed) # 0 BY <1>t, <2>1
    <3>3. Len(feed') \in 1..(Len(feed) - 1) /\ Len(feed') + 1 = Len(feed)
      BY <2>4, <3>1, <3>2
    <3>4. feed' # <<>> /\ feed'[Len(feed')] = feed[Len(feed)] BY <3>1, <3>3
    <3>q. QED BY <2>1, <2>2, <3>4 DEF Heard
  <2>q. QED BY <2>3, <2>4
<1>7. CASE Publish
  <2>1. /\ inHand # "nothing" /\ inHand' = "nothing" /\ native' = NativeAfter(inHand)
        /\ UNCHANGED <<up, nav, source, feed>>
    BY <1>7 DEF Publish, panel, robot
  <2>2. CASE up /\ feed = <<>>
    <3>1. inHand = Word(nav[source]) BY <2>1, <2>2 DEF Heard
    <3>2. native' = nav[source] BY <1>t, <1>w, <2>1, <3>1 DEF NativeAfter
    <3>q. QED BY <2>1, <2>2, <3>2 DEF Heard
  <2>q. QED BY <2>1, <2>2 DEF Heard
<1>8. ASSUME NEW s \in DOMAIN request, Execute(s) PROVE Heard'
  <2>1. UNCHANGED <<up, source, endpoint, inHand, native, wrong>> BY <1>8 DEF Execute, panel, hist
  <2>2. CASE UNCHANGED <<nav, feed>> BY <2>1, <2>2 DEF Heard
  <2>3. CASE Obey(request[s].robot, request[s].kind)
    <3>1. request[s].robot \in Robots
      <4>1. request \in Seq(Requests) BY DEF IInv, TypeOK
      <4>2. request[s] \in Requests BY <4>1
      <4>q. QED BY <4>2 DEF Requests
    <3>q. QED BY <1>t, <2>1, <2>3, <3>1, ObeyHeard
  <2>q. QED BY <1>8, <2>2, <2>3 DEF Execute
<1>9. ASSUME NEW r \in Robots, NavigationEnds(r) PROVE Heard'
  <2>1. /\ UNCHANGED <<up, source, endpoint, inHand, native, wrong>>
        /\ nav' = [nav EXCEPT ![r] = FALSE] /\ Tell(r, Word(FALSE))
    BY <1>9 DEF NavigationEnds, panel, hist, Word
  <2>q. QED BY <1>t, <2>1, TellHeard
<1>10. CASE PollStatus \/ EndFrame
  BY <1>1, <1>10 DEF PollStatus, EndFrame, sidecar, robot, hist
<1>11. CASE ClickNavigate \/ ClickStop \/ ClickRefresh
  BY <1>1, <1>11 DEF ClickNavigate, ClickStop, ClickRefresh, Click, sidecar, robot
<1>12. ASSUME NEW s \in DOMAIN request, Reply(s) PROVE Heard'
  BY <1>1, <1>12, ReplyReports DEF Report, panel, sidecar, robot, hist
<1>13. CASE Age BY <1>1, <1>13 DEF Age, panel, robot, hist
<1>14. CASE CopyStatus
  <2>1. UNCHANGED <<up, source, endpoint, feed, inHand, nav, wrong>>
    BY <1>14 DEF CopyStatus, robot, hist
  <2>2. up => native' = native BY <1>14 DEF CopyStatus, UpServes
  <2>q. QED BY <2>1, <2>2 DEF Heard
<1>15. CASE ServiceFails BY <1>1, <1>15 DEF ServiceFails, panel, robot, hist
<1>16. ASSUME NEW r \in Robots, NEW kind \in Commands, ExecuteLate(r, kind) PROVE Heard'
  <2>1. UNCHANGED <<up, source, endpoint, inHand, native, wrong>>
    BY <1>16 DEF ExecuteLate, panel, hist
  <2>2. CASE UNCHANGED <<nav, feed>> BY <2>1, <2>2 DEF Heard
  <2>3. CASE Obey(r, kind) BY <1>t, <2>1, <2>3, ObeyHeard
  <2>q. QED BY <1>16, <2>2, <2>3 DEF ExecuteLate
<1>q. QED
  BY <1>1, <1>2, <1>3, <1>4, <1>5, <1>6, <1>7, <1>8, <1>9, <1>10, <1>11, <1>12, <1>13,
     <1>14, <1>15, <1>16
  DEF Next, Frame, Clicks, Service, Executes, ExecutesLate, Replies, vars, panel, sidecar,
      robot, hist

(* Streams are opened and closed by a service that runs. *)
LEMMA NextUpServes == IInv /\ UpServes /\ [Next]_vars => UpServes'
<1> SUFFICES ASSUME IInv, UpServes, [Next]_vars PROVE UpServes' OBVIOUS
<1>1. CASE UNCHANGED <<up, service>> BY <1>1 DEF UpServes
<1>2. CASE CopyStatus BY <1>2 DEF CopyStatus, UpServes
<1>3. ASSUME NEW r \in Robots, ApplyConnection(r) PROVE UpServes'
  BY <1>3 DEF ApplyConnection, UpServes
<1>4. CASE Connect \/ Disconnect \/ ServiceFails
  BY <1>4 DEF Connect, Disconnect, ServiceFails, UpServes
<1>5. ASSUME NEW s \in DOMAIN request, Reply(s) PROVE UpServes'
  BY <1>1, <1>5, ReplyReports DEF Report, sidecar
<1>q. QED
  BY <1>1, <1>2, <1>3, <1>4, <1>5
  DEF Next, Frame, Clicks, Service, Executes, ExecutesLate, Replies, DrainResult, PollStatus,
      EndFrame, ClickNavigate, ClickStop, ClickRefresh, Click, Read, Publish, Age, Execute,
      ExecuteLate, NavigationEnds, vars, sidecar

LEMMA InitAgrees == Init => OfThisRobot /\ UpServes /\ Heard
<1> SUFFICES ASSUME Init PROVE OfThisRobot /\ UpServes /\ Heard OBVIOUS
<1>1. Own(results, generation, endpoint) /\ ~up BY DEF Init, Own
<1>2. Own(request, generation, endpoint) BY DEF Init, Own
<1>q. QED BY <1>1, <1>2 DEF OfThisRobot, UpServes, Heard

(* When everything has been read and drawn, the buttons agree with the     *)
(* robot whose commands they send, for any robots and any number of        *)
(* connections, threads, messages and commands that arrive late - unless   *)
(* the last result applied came after the robot had moved on or was a dry  *)
(* run's, or the worker erased the request to reconnect and streams        *)
(* another robot.                                                          *)
(* Code: update_native_status, poll_results, apply_connection.             *)
THEOREM SettledButtonsAgree == Spec => []SettledAgreement
<1>1. Init => AgreeInv BY InitTypeOK, InitFlight, InitAgrees DEF AgreeInv, IInv
<1>2. AgreeInv /\ [Next]_vars => AgreeInv'
  BY NextTypeOK, NextFlight, NextOfThisRobot, NextUpServes, NextHeard DEF AgreeInv, IInv
<1>3. AgreeInv => SettledAgreement
  BY DEF AgreeInv, Heard, Settled, SettledAgreement
<1>q. QED BY <1>1, <1>2, <1>3, PTL DEF Spec
============================================================================
