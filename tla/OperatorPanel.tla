--------------------------- MODULE OperatorPanel ---------------------------
(***************************************************************************)
(* The operator panel (ControlPanel in main.rs), the HTTP client behind    *)
(* its buttons (control_client.rs) and what they race with: the status     *)
(* that the data service publishes from the robot's WebSocket.             *)
(*                                                                         *)
(* A command runs on a thread of its own and its result comes back through *)
(* a channel; the same fact ("a navigation is running") also comes back    *)
(* through the WebSocket.  Nothing orders the two.  The data service is    *)
(* reduced to whether it runs, the robot it streams from, the queue it     *)
(* reads, the message it holds and the cells the panel copies;             *)
(* NativeSidecar models its inside.  The robot is not part of the          *)
(* repository: it is modelled from the requests and messages the viewer    *)
(* sends and reads.                                                        *)
(***************************************************************************)
EXTENDS Naturals, Sequences, FiniteSets, SequencesExt

CONSTANTS Robots,         \* robot endpoints
          MaxThreads,     \* bound on command threads at once
          MaxGeneration,  \* bound on applied connections
          MaxClicks,      \* bound on clicks and applied connections together
          MaxFeed         \* bound on unread WebSocket messages

ASSUME PanelAssumption ==
    /\ Robots # {}
    /\ MaxThreads \in Nat \ {0}
    /\ MaxGeneration \in Nat /\ MaxClicks \in Nat /\ MaxFeed \in Nat \ {0, 1}

VARIABLES
    ui,          \* where the frame of the egui thread is
    configured,  \* connection_configured
    endpoint,    \* ControlClient::endpoint, the sidecar's settings too
                 \* (connection settings always go to both)
    generation,  \* ControlClient::generation
    pending,     \* ControlPanel::pending
    online,      \* control_online
    live,        \* data_is_live(): upstream_connected and a message of the last 10 s
    running,     \* navigation_running, which drives both buttons
    request,     \* the command threads, oldest first
    results,     \* the channel they report to
    late,        \* commands whose thread has given up and that the robot may
                 \* still get to, counted by robot and kind
    service,     \* SidecarManager::worker: none, its thread before the first
                 \* stream, since then, or dead but not yet dropped
    source,      \* the robot of the settings the worker has copied
    up,          \* the service holds a WebSocket to source (its connected flag)
    fresh,       \* last_message_ms is within 10 s
    native,      \* navigation_running of the service's status
    feed,        \* messages sent by source on the open WebSocket, not yet read
    inHand,      \* the message the service has read and not yet published
    nav,         \* external: which robots are navigating
    clicks,      \* bound: clicks so far
    stopAcked,   \* history: the last command result applied was a successful stop
    wrong        \* history: a result was applied that did not say what the robot
                 \* does - it came late, or it was a dry run's - and no message since

panel   == <<ui, configured, endpoint, generation, pending, online, live, running>>
client  == <<request, results, late>>
sidecar == <<service, source, up, fresh, native, feed, inHand>>
robot   == <<nav>>
hist    == <<clicks, stopAcked, wrong>>
vars    == <<panel, client, sidecar, robot, hist>>

Kinds == {"refresh", "status", "navigate", "stop"}

(* What a WebSocket message says of the task; "hello" says nothing. *)
Content == {"hello", "moving", "idle"}

(* What the robot is asked to do. *)
Commands == {"navigate", "stop"}

Requests == [state : {"sent", "accepted", "planned", "rejected"}, kind : Kinds,
             gen : 0..MaxGeneration, robot : Robots]

(* ControlResult.  says is data.navigation_running, where "planned" is the *)
(* Some(true) of a dry run; robot is history.                              *)
Results == [kind : Kinds, gen : 0..MaxGeneration, robot : Robots, ok : BOOLEAN,
            says : {"nothing", "moving", "planned", "idle"}]

TypeOK ==
    /\ ui \in {"poll", "drain", "input"}
    /\ configured \in BOOLEAN /\ endpoint \in Robots
    /\ generation \in 0..MaxGeneration
    /\ pending \subseteq Kinds
    /\ online \in BOOLEAN /\ live \in BOOLEAN /\ running \in BOOLEAN
    /\ request \in Seq(Requests) /\ Len(request) <= MaxThreads
    /\ results \in Seq(Results)
    /\ late \in [Robots -> [Commands -> Nat]]
    /\ service \in {"none", "starting", "serving", "dead"} /\ source \in Robots
    /\ up \in BOOLEAN /\ fresh \in BOOLEAN /\ native \in BOOLEAN
    /\ feed \in Seq(Content) /\ Len(feed) <= MaxFeed
    /\ inHand \in Content \cup {"nothing"}
    /\ nav \in [Robots -> BOOLEAN]
    /\ clicks \in 0..MaxClicks
    /\ stopAcked \in BOOLEAN /\ wrong \in {"no", "late", "dry"}

----------------------------------------------------------------------------
(* Command threads: ControlClient::dispatch, execute and request.          *)

(* ControlPanel::dispatch: the kind is pending and a thread is spawned that *)
(* keeps the endpoint and generation of this moment.                       *)
Spawned(kind, gen, r) ==
    Append(request, [state |-> "sent", kind |-> kind, gen |-> gen, robot |-> r])

Dispatch(kind) ==
    /\ Len(request) < MaxThreads
    /\ pending' = pending \cup {kind}
    /\ request' = Spawned(kind, generation, endpoint)

(* External: the robot tells whoever listens that its task changed. *)
Tell(r, content) ==
    IF up /\ r = source
    THEN Len(feed) < MaxFeed /\ feed' = Append(feed, content)
    ELSE UNCHANGED feed

(* External: the robot starts to move or stops, and says so. *)
Obey(r, kind) ==
    /\ nav' = [nav EXCEPT ![r] = (kind = "navigate")]
    /\ Tell(r, IF kind = "navigate" THEN "moving" ELSE "idle")

(* External: the robot carries out a command.  It may refuse a navigation, *)
(* and for a dry run it plans but stays where it is.                       *)
Execute(s) ==
    LET q == request[s] IN
    /\ q.state = "sent" /\ q.kind \in Commands
    /\ \/ Obey(q.robot, q.kind) /\ request' = [request EXCEPT ![s].state = "accepted"]
       \/ /\ q.kind = "navigate"
          /\ \E answer \in {"planned", "rejected"} :
                 request' = [request EXCEPT ![s].state = answer]
          /\ UNCHANGED <<nav, feed>>
    /\ UNCHANGED <<panel, results, late, service, source, up, fresh, native, inHand, hist>>

(* External: the robot gets to a command whose client no longer waits. *)
ExecuteLate(r, kind) ==
    /\ late[r][kind] > 0
    /\ late' = [late EXCEPT ![r][kind] = @ - 1]
    /\ Obey(r, kind) \/ (kind = "navigate" /\ UNCHANGED <<nav, feed>>)
    /\ UNCHANGED <<panel, request, results, service, source, up, fresh, native, inHand, hist>>

(* The thread sends its result and is gone. *)
Report(s, ok, says) ==
    LET q == request[s] IN
    /\ results' = Append(results, [kind |-> q.kind, gen |-> q.gen, robot |-> q.robot,
                                   ok |-> ok, says |-> says])
    /\ request' = RemoveAt(request, s)
    /\ UNCHANGED <<panel, sidecar, robot, hist>>

(* Mutated form: the robot's status string instead of the flag. *)
RunningSaid_Raw(kind) == IF kind = "navigate" THEN "accepted" ELSE "idle"

RunningSaid(kind) == IF kind = "navigate" THEN "moving" ELSE "idle"

(* execute returns Ok: an accepted navigation says it is running - a dry   *)
(* run's too - a stop says it is not, and the others say nothing of it.    *)
ReplyOk(s) ==
    LET q == request[s] IN
    /\ \/ q.state = "sent" /\ q.kind \in {"refresh", "status"} /\ Report(s, TRUE, "nothing")
       \/ q.state = "accepted" /\ Report(s, TRUE, RunningSaid(q.kind))
       \/ q.state = "planned" /\ Report(s, TRUE, "planned")
       \/ q.state = "rejected" /\ Report(s, TRUE, "nothing")
    /\ UNCHANGED late

(* execute returns Err: no connection, a timeout (before or after the robot *)
(* acted), or a reply that is not a 2xx.  A command that timed out may     *)
(* still be on its way to the robot.                                       *)
ReplyErr(s) ==
    LET q == request[s] IN
    /\ Report(s, FALSE, "nothing")
    /\ \/ UNCHANGED late
       \/ /\ q.state = "sent" /\ q.kind \in Commands
          /\ late' = [late EXCEPT ![q.robot][q.kind] = @ + 1]

----------------------------------------------------------------------------
(* The egui thread, one frame: poll_results, poll_status, then the clicks. *)

(* poll_results, first half: a service that has died is dropped, then copy *)
(* what the service publishes, or the defaults when there is none.         *)
CopyStatus ==
    /\ ui = "poll"
    /\ IF service = "dead"
       THEN service' = "none" /\ native' = FALSE /\ online' = FALSE
       ELSE UNCHANGED <<service, native, online>>
    /\ live' = (up /\ fresh)
    /\ running' = native'
    /\ ui' = "drain"
    /\ UNCHANGED <<configured, endpoint, generation, pending, client, source, up, fresh,
                   feed, inHand, robot, hist>>

(* Mutated form: results of an earlier connection are not told apart. *)
Current_AnyGeneration(e) == TRUE

Current(e) == e.gen = generation

(* set_navigation_running_from_control: nobody to tell without a service. *)
NativeTold(moving) == IF service = "none" THEN native ELSE moving

(* poll_results, second half, for one event of the channel. *)
DrainResult ==
    LET e == Head(results)
        moving == e.says \in {"moving", "planned"}
    IN
    /\ ui = "drain" /\ results # <<>>
    /\ results' = Tail(results)
    /\ IF Current(e)
       THEN /\ pending' = pending \ {e.kind}
            /\ online' = IF e.ok THEN TRUE
                         ELSE online /\ e.kind \notin {"status", "refresh"}
            /\ IF e.says = "nothing"
               THEN UNCHANGED <<running, native, stopAcked, wrong>>
               ELSE /\ running' = moving
                    /\ native' = NativeTold(moving)
                    /\ stopAcked' = (e.kind = "stop")
                    /\ wrong' = IF nav[e.robot] = moving THEN "no"
                                ELSE IF e.says = "planned" THEN "dry" ELSE "late"
       ELSE UNCHANGED <<pending, online, running, native, stopAcked, wrong>>
    /\ UNCHANGED <<ui, configured, endpoint, generation, live, request, late, service, source,
                   up, fresh, feed, inHand, robot, clicks>>

(* Mutated form: poll_status does not look at pending. *)
StatusDue_Always == configured

StatusDue == configured /\ "status" \notin pending

(* The channel is empty; poll_status then dispatches a status request when *)
(* none is pending and the second is up.                                   *)
PollStatus ==
    /\ ui = "drain" /\ results = <<>>
    /\ ui' = "input"
    /\ \/ StatusDue /\ Dispatch("status")
       \/ UNCHANGED <<pending, request>>
    /\ UNCHANGED <<configured, endpoint, generation, online, live, running, results,
                   late, sidecar, robot, hist>>

NavigationReady == online /\ live

(* With a goal entered; the whole form is disabled unless navigation_ready. *)
CanNavigate == NavigationReady /\ "navigate" \notin pending /\ ~running

(* can_stop_navigation *)
CanStop == online /\ running /\ "stop" \notin pending

Click(kind) ==
    /\ clicks + generation < MaxClicks
    /\ clicks' = clicks + 1
    /\ Dispatch(kind)
    /\ ui' = "poll"
    /\ UNCHANGED <<configured, endpoint, generation, online, live, running, results,
                   late, sidecar, robot, wrong>>

ClickNavigate == ui = "input" /\ CanNavigate /\ Click("navigate") /\ stopAcked' = FALSE

ClickStop == ui = "input" /\ CanStop /\ Click("stop") /\ UNCHANGED stopAcked

(* The diagnostics dialog's refresh button: no look at pending. *)
ClickRefresh == ui = "input" /\ configured /\ Click("refresh") /\ UNCHANGED stopAcked

(* Mutated form: the pending set survives a change of connection. *)
PendingOnConnect_Kept == pending \cup {"refresh"}

(* pending.clear(), then refresh() *)
PendingOnConnect == {"refresh"}

ServiceRuns == service \in {"starting", "serving"}

(* SidecarManager::restart keeps a running service and reconfigures it.  It *)
(* may still hold one message of the previous connection (NativeSidecar:   *)
(* AtMostOneStaleMessage).                                                 *)
Reconfigured(r) == ServiceRuns /\ source' = r /\ UNCHANGED <<service, inHand>>

(* The same, but between its copy of the old settings and its store to the *)
(* reconnect flag the worker erases the request: it stays with the robot   *)
(* it has (NativeSidecar: the run lost_reconnect).                         *)
ReconnectLost == ServiceRuns /\ ~up /\ inHand = "nothing" /\ UNCHANGED <<service, source, inHand>>

(* Not running, or another Rerun port: the old service is joined and a new *)
(* one started, which may fail.                                            *)
Replaced(r) == source' = r /\ inHand' = "nothing" /\ service' \in {"starting", "none"}

(* apply_connection, whether the operator chose another robot or reloaded  *)
(* the same one.  The service comes first, then the client.                *)
ApplyConnection(r) ==
    /\ ui = "input" /\ Len(request) < MaxThreads
    /\ generation < MaxGeneration /\ clicks + generation < MaxClicks
    /\ configured' = TRUE
    /\ Reconfigured(r) \/ ReconnectLost \/ Replaced(r)
    /\ up' = FALSE /\ fresh' = FALSE /\ native' = FALSE /\ feed' = <<>>
    /\ endpoint' = r /\ generation' = generation + 1
    /\ online' = FALSE /\ live' = FALSE /\ running' = FALSE
    /\ pending' = PendingOnConnect
    /\ request' = Spawned("refresh", generation', r)
    /\ stopAcked' = FALSE /\ wrong' = "no"
    /\ ui' = "poll"
    /\ UNCHANGED <<results, late, robot, clicks>>

EndFrame ==
    /\ ui = "input"
    /\ ui' = "poll"
    /\ UNCHANGED <<configured, endpoint, generation, pending, online, live, running,
                   client, sidecar, robot, hist>>

----------------------------------------------------------------------------
(* The data service, and the robot on its own.                             *)

(* A new WebSocket starts with a greeting and a snapshot. *)
Connect ==
    /\ ServiceRuns /\ ~up /\ inHand = "nothing"
    /\ service' = "serving"
    /\ up' = TRUE
    /\ feed' = <<"hello", IF nav[source] THEN "moving" ELSE "idle">>
    /\ UNCHANGED <<panel, client, source, fresh, native, inHand, robot, hist>>

(* The stream breaks, and what was not read is lost, or it could not be    *)
(* opened; the worker then copies the settings anew.                       *)
Disconnect ==
    /\ ServiceRuns /\ inHand = "nothing"
    /\ up' = FALSE /\ feed' = <<>>
    /\ source' = endpoint
    /\ UNCHANGED <<panel, client, service, fresh, native, inHand, robot, hist>>

(* The Rerun port belongs to someone else, whom start took for the service: *)
(* the worker returns an error before its first stream.                    *)
ServiceFails ==
    /\ service = "starting"
    /\ service' = "dead"
    /\ UNCHANGED <<panel, client, source, up, fresh, native, feed, inHand, robot, hist>>

Read ==
    /\ up /\ inHand = "nothing" /\ feed # <<>>
    /\ inHand' = Head(feed)
    /\ feed' = Tail(feed)
    /\ UNCHANGED <<panel, client, service, source, up, fresh, native, robot, hist>>

(* update_native_status: navigation_running follows a message with a task. *)
NativeAfter(content) == IF content = "hello" THEN native ELSE content = "moving"

Publish ==
    /\ inHand # "nothing"
    /\ fresh' = TRUE
    /\ native' = NativeAfter(inHand)
    /\ wrong' = IF inHand = "hello" THEN wrong ELSE "no"
    /\ inHand' = "nothing"
    /\ UNCHANGED <<panel, client, service, source, up, feed, robot, clicks, stopAcked>>

(* Ten seconds pass without a message. *)
Age ==
    /\ fresh /\ feed = <<>> /\ inHand = "nothing"
    /\ fresh' = FALSE
    /\ UNCHANGED <<panel, client, service, source, up, native, feed, inHand, robot, hist>>

(* External: a navigation ends by itself (arrived, failed). *)
NavigationEnds(r) ==
    /\ nav[r]
    /\ nav' = [nav EXCEPT ![r] = FALSE]
    /\ Tell(r, "idle")
    /\ UNCHANGED <<panel, client, service, source, up, fresh, native, inHand, hist>>

----------------------------------------------------------------------------

(* main: with a robot in the configuration the service is started (which   *)
(* may fail) and a refresh dispatched; on a first launch nothing is.       *)
Init ==
    /\ ui = "poll" /\ generation = 0 /\ endpoint \in Robots
    /\ configured \in BOOLEAN
    /\ pending = IF configured THEN {"refresh"} ELSE {}
    /\ request =
         IF configured
         THEN <<[state |-> "sent", kind |-> "refresh", gen |-> 0, robot |-> endpoint]>>
         ELSE <<>>
    /\ results = <<>> /\ late = [r \in Robots |-> [k \in Commands |-> 0]]
    /\ online = FALSE /\ live = FALSE /\ running = FALSE
    /\ service \in (IF configured THEN {"starting", "none"} ELSE {"none"})
    /\ source = endpoint
    /\ up = FALSE /\ fresh = FALSE /\ native = FALSE
    /\ feed = <<>> /\ inHand = "nothing"
    /\ nav = [r \in Robots |-> FALSE]
    /\ clicks = 0 /\ stopAcked = FALSE /\ wrong = "no"

Frame == CopyStatus \/ DrainResult \/ PollStatus \/ EndFrame
Clicks == ClickNavigate \/ ClickStop \/ ClickRefresh \/ \E r \in Robots : ApplyConnection(r)
Reply(s) == ReplyOk(s) \/ ReplyErr(s)
Executes == \E s \in DOMAIN request : Execute(s)
ExecutesLate == \E r \in Robots, kind \in Commands : ExecuteLate(r, kind)
Replies == \E s \in DOMAIN request : Reply(s)
Service == Connect \/ Read \/ Publish \/ ServiceFails

Next ==
    \/ Frame \/ Clicks \/ Service \/ Disconnect \/ Age
    \/ Executes \/ ExecutesLate
    \/ Replies
    \/ \E r \in Robots : NavigationEnds(r)

Spec == Init /\ [][Next]_vars

----------------------------------------------------------------------------
(* Safety                                                                  *)

(* The commands of the current connection that have not come back yet. *)
Outstanding(kind) ==
    Cardinality({s \in DOMAIN request : /\ request[s].kind = kind
                                        /\ request[s].gen = generation})
    + Cardinality({i \in DOMAIN results : /\ results[i].kind = kind
                                          /\ results[i].gen = generation})

(* A kind is pending only while a command of this connection will still    *)
(* report it: otherwise its button would stay disabled for ever.           *)
PendingHasCommand == \A k \in pending : Outstanding(k) > 0

(* Within a connection there is never a second status, navigate or stop    *)
(* command before the first has reported, however the replies are delayed. *)
SingleFlight == \A k \in {"status", "navigate", "stop"} : Outstanding(k) <= 1

(* Nothing is on its way that could still change what the panel shows. *)
Settled ==
    /\ ui = "input" /\ up /\ feed = <<>> /\ inHand = "nothing" /\ running = native
    /\ \A k \in {"navigate", "stop"} : Outstanding(k) = 0
    /\ fresh

(* Once everything has settled the buttons agree with the robot, over      *)
(* replies lost, commands handled after their thread gave up, streams      *)
(* broken, services replaced and connections changed, with the exceptions  *)
(* the code has: a command's result that came after the robot had moved on *)
(* or was a dry run's (wrong), and a worker that erased the request to     *)
(* reconnect and still streams the robot before (source, the run           *)
(* lost_reconnect).                                                        *)
SettledAgreement ==
    Settled /\ wrong = "no" /\ source = endpoint => (running <=> nav[endpoint])

(* The changelog's 0.2.1 promise (CHANGELOG.md:41): once the stop call has *)
(* succeeded, an old WebSocket snapshot does not light the stop button     *)
(* again.                                                                  *)
StopStaysStopped == stopAcked /\ ui = "input" => ~running

(* The changelog's 0.2.1 promise (CHANGELOG.md:40): after a navigation     *)
(* ends by itself the stop button is grey.  (Not said of a dry run, nor of *)
(* a service that streams another robot.)                                  *)
StopGreyWhenIdle ==
    Settled /\ wrong # "dry" /\ source = endpoint /\ ~nav[endpoint] => ~running
=============================================================================
