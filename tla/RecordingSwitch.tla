--------------------------- MODULE RecordingSwitch ---------------------------
(***************************************************************************)
(* The checkbox "record the dynamic map" of the Woosh viewer.  Its value   *)
(* has three writers on the egui thread: every frame copies the status     *)
(* that the data service published, results of commands overwrite that for *)
(* the rest of the frame, and a click flips what is shown.  Each click     *)
(* sends a command on a thread of its own; nothing orders the threads,     *)
(* nothing keeps a second click from being sent while the first is under   *)
(* way, and a request whose thread has timed out may still reach the       *)
(* robot.  The robot keeps the flag and announces it on the WebSocket.     *)
(***************************************************************************)
EXTENDS Naturals, Sequences

CONSTANTS MaxCommands,   \* bound on the commands sent
          MaxOthers      \* bound on changes by other operators

VARIABLES
    flag,        \* external: the robot's recording flag
    others,      \* external: the number of changes by other operators
    conn,        \* the WebSocket is open
    feed,        \* the messages on it
    published,   \* NativeStatusSnapshot::recording_enabled
    box,         \* ControlPanel::recording_enabled
    generation,  \* ControlClient::generation
    threads,     \* the commands whose thread has not reported, or whose
                 \* request the robot may still get to
    results,     \* the channel of ControlResult
    sent,        \* number of commands
    wish         \* history: the last click

robot   == <<flag, others>>
socket  == <<conn, feed>>
control == <<generation, threads, results, sent>>
switchVars    == <<robot, socket, published, box, control, wish>>

(* A command, the answer once the robot has handled it, and whether its    *)
(* thread still waits for that.                                            *)
Threads == [id : 1..MaxCommands, command : {"on", "off", "ask"},
            generation : 0..MaxCommands, answer : {"none", "on", "off"},
            waits : BOOLEAN]
Says(value) == IF value THEN "on" ELSE "off"

(* The wish is alone when no other command of a click could still reach    *)
(* the robot and until someone else changes the flag, and handled once the *)
(* robot has acted on it.                                                  *)
NoWish == [id |-> 0, value |-> FALSE, alone |-> FALSE, handled |-> FALSE]
Joined == wish' = [wish EXCEPT !.alone = FALSE]

SwitchTypeOK ==
    /\ flag \in BOOLEAN /\ others \in 0..MaxOthers
    /\ conn \in BOOLEAN /\ feed \in Seq([type : {"snapshot", "update"}, value : BOOLEAN])
    /\ published \in BOOLEAN /\ box \in BOOLEAN
    /\ generation \in 0..MaxCommands /\ sent \in 0..MaxCommands
    /\ threads \subseteq Threads
    /\ results \in Seq([generation : 0..MaxCommands, said : {"none", "on", "off"}])
    /\ wish \in [id : 0..MaxCommands, value : BOOLEAN, alone : BOOLEAN, handled : BOOLEAN]

----------------------------------------------------------------------------
(* The robot                                                               *)

SetFlag(value) ==
    /\ flag' = value
    /\ feed' = IF conn THEN Append(feed, [type |-> "update", value |-> value]) ELSE feed

OtherOperator ==
    /\ others < MaxOthers /\ others' = others + 1
    /\ SetFlag(~flag)
    /\ Joined
    /\ UNCHANGED <<conn, published, box, control>>

(* The robot acts on a request and answers with the flag, if anybody waits. *)
Handle(t) ==
    /\ t \in threads /\ t.answer = "none"
    /\ IF t.command = "ask" THEN UNCHANGED <<flag, feed>> ELSE SetFlag(t.command = "on")
    /\ threads' = (threads \ {t}) \cup
                  (IF t.waits THEN {[t EXCEPT !.answer = Says(flag')]} ELSE {})
    /\ wish' = IF t.id = wish.id THEN [wish EXCEPT !.handled = TRUE] ELSE wish
    /\ UNCHANGED <<others, conn, published, box, generation, results, sent>>

(* The result of a thread: the answer, or nothing when the request or the  *)
(* answer was lost, and when an answer has no flag in it.                  *)
Report(t) ==
    /\ t \in threads /\ t.waits
    /\ threads' = threads \ {t}
    /\ \E said \in {t.answer, "none"} :
          results' = Append(results, [generation |-> t.generation, said |-> said])
    /\ UNCHANGED <<robot, socket, published, box, generation, sent, wish>>

(* Its five seconds are over: it reports an error, and the request is      *)
(* still on its way.                                                       *)
TimeOut(t) ==
    /\ t \in threads /\ t.waits /\ t.answer = "none"
    /\ threads' = (threads \ {t}) \cup {[t EXCEPT !.waits = FALSE]}
    /\ results' = Append(results, [generation |-> t.generation, said |-> "none"])
    /\ UNCHANGED <<robot, socket, published, box, generation, sent, wish>>

----------------------------------------------------------------------------
(* The data service                                                        *)

(* The robot greets every connection with a snapshot. *)
Connect ==
    /\ ~conn /\ conn' = TRUE
    /\ feed' = <<[type |-> "snapshot", value |-> flag]>>
    /\ UNCHANGED <<robot, published, box, control, wish>>

Disconnect ==
    /\ conn /\ conn' = FALSE /\ feed' = <<>>
    /\ UNCHANGED <<robot, published, box, control, wish>>

(* update_native_status *)
Read(m) == m.value

ReadMessage ==
    /\ feed # <<>>
    /\ published' = Read(Head(feed)) /\ feed' = Tail(feed)
    /\ UNCHANGED <<robot, conn, box, control, wish>>

----------------------------------------------------------------------------
(* The panel                                                               *)

Dispatch(command, g) ==
    /\ sent < MaxCommands /\ sent' = sent + 1
    /\ threads' = threads \cup {[id |-> sent', command |-> command, generation |-> g,
                                 answer |-> "none", waits |-> TRUE]}

Current(result) == result.generation = generation /\ result.said # "none"

(* poll_results, once a frame: the status, then every result in turn. *)
PollResults ==
    /\ LET said == SelectSeq(results, Current) IN
       box' = IF said = <<>> THEN published ELSE said[Len(said)].said = "on"
    /\ results' = <<>>
    /\ UNCHANGED <<robot, socket, published, generation, threads, sent, wish>>

(* The command is what the checkbox shows after the click. *)
Asked == Says(~box)

(* A click on the checkbox, whether or not another is under way. *)
Click ==
    /\ box' = ~box
    /\ Dispatch(Asked, generation)
    /\ wish' = [id |-> sent', value |-> ~box, handled |-> FALSE,
                alone |-> \A t \in threads : t.command = "ask"]
    /\ UNCHANGED <<robot, socket, published, generation, results>>

ClickRefresh ==
    /\ Dispatch("ask", generation)
    /\ UNCHANGED <<robot, socket, published, box, generation, results, wish>>

(* set_endpoint *)
NextGeneration == generation + 1

(* A reload of the connection: reconfigure and apply_connection. *)
ReloadConnection ==
    /\ conn' = FALSE /\ feed' = <<>>
    /\ published' = FALSE /\ box' = FALSE
    /\ generation' = NextGeneration
    /\ Dispatch("ask", generation')
    /\ UNCHANGED <<robot, results, wish>>

----------------------------------------------------------------------------

SwitchInit ==
    /\ flag \in BOOLEAN /\ others = 0
    /\ conn = FALSE /\ feed = <<>>
    /\ published = FALSE /\ box = FALSE
    /\ generation = 0 /\ threads = {} /\ results = <<>> /\ sent = 0
    /\ wish = NoWish

SwitchNext ==
    \/ OtherOperator \/ Connect \/ Disconnect \/ ReadMessage
    \/ PollResults \/ Click \/ ClickRefresh \/ ReloadConnection
    \/ \E t \in threads : Handle(t) \/ Report(t) \/ TimeOut(t)

SwitchSpec == SwitchInit /\ [][SwitchNext]_switchVars

(* The worker reads, frames are drawn, and every thread reports: its       *)
(* connection and its reads have timeouts.                                 *)
SwitchFairSpec ==
    /\ SwitchSpec
    /\ WF_switchVars(ReadMessage) /\ WF_switchVars(PollResults)
    /\ WF_switchVars(\E t \in threads : Report(t) \/ TimeOut(t))

----------------------------------------------------------------------------
(* Properties                                                              *)

(* Only another operator, or a click whose command was still under way -   *)
(* also one whose thread had timed out - can leave the robot with another  *)
(* flag than the last click asked for: the value is that of the click even *)
(* when the panel was overwritten by the status, by an old result or by a  *)
(* new connection while the command was under way.                         *)
LastClickCounts == wish.alone /\ wish.handled => flag = wish.value

(* Whatever order threads, results and messages came in, the checkbox      *)
(* comes to show the robot's flag while the stream is open, unless the     *)
(* flag changes again.                                                     *)
SwitchSettles ==
    \A v \in BOOLEAN : (conn /\ flag = v) ~> (~conn \/ flag # v \/ box = v)

(* With every message read, the service's status has the robot's flag,     *)
(* whatever was sent, lost or reset meanwhile: a new connection begins     *)
(* with a snapshot, and no change is left out.                             *)
PublishedIsTheRobots == conn /\ feed = <<>> => published = flag
=============================================================================
