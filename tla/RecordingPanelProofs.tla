------------------------ MODULE RecordingPanelProofs ------------------------
(***************************************************************************)
(* Proofs about the two models of recordings in the Woosh viewer's panel:  *)
(* RecordingSwitch (the checkbox) and ReplayPanel (the list).              *)
(*                                                                         *)
(* RecordingSwitch, for any number of commands and of other operators.     *)
(* PublishedIsTheRobots speaks of an empty feed; WireInv adds that the     *)
(* last message on it is the robot's present flag.  LastClickCounts speaks *)
(* of a click that the robot has handled; AloneInv adds that until then no *)
(* other command that sets the flag can reach the robot, one whose thread  *)
(* has timed out included.                                                 *)
(*                                                                         *)
(* ReplayPanel, for any number of tasks and recordings.  Its action        *)
(* properties follow from PanelInv: every id that was read from the disk,  *)
(* however long ago, is the name of its directory or the task for which    *)
(* the directory was made, and the mark is such an id of what is shown.    *)
(***************************************************************************)
EXTENDS RecordingSwitch, ReplayPanel, SequenceTheorems, TLAPS

-----------------------------------------------------------------------------
(* RecordingSwitch                                                         *)

Message == [type : {"snapshot", "update"}, value : BOOLEAN]

(* What the service will have published when it has read everything. *)
WireInv ==
    /\ feed \in Seq(Message)
    /\ ~conn => feed = <<>>
    /\ conn => IF feed = <<>> THEN published = flag ELSE feed[Len(feed)].value = flag

----------------------------------------------------------------------------

LEMMA LastOfAppend ==
  ASSUME NEW s \in Seq(Message), NEW m \in Message
  PROVE  /\ Append(s, m) \in Seq(Message) /\ Append(s, m) # <<>>
         /\ Append(s, m)[Len(Append(s, m))] = m
  BY AppendProperties

LEMMA TailOf ==
  ASSUME NEW s \in Seq(Message), s # <<>>
  PROVE  /\ Tail(s) \in Seq(Message)
         /\ Tail(s) # <<>> => Tail(s)[Len(Tail(s))] = s[Len(s)]
         /\ Tail(s) = <<>> => Head(s) = s[Len(s)]
<1>1. /\ Len(s) \in Nat \ {0} /\ Tail(s) \in Seq(Message)
      /\ Len(Tail(s)) = Len(s) - 1 /\ Head(s) = s[1]
      /\ \A i \in 1..Len(Tail(s)) : Tail(s)[i] = s[i + 1]
  BY HeadTailProperties, EmptySeq, LenProperties
<1>2. Tail(s) = <<>> => Len(Tail(s)) = 0
  BY EmptySeq, Zenon
<1>3. Tail(s) # <<>> => Len(Tail(s)) # 0
  BY <1>1, EmptySeq
<1>4. CASE Tail(s) = <<>>
  BY <1>1, <1>2, <1>4
<1>5. CASE Tail(s) # <<>>
  <2>1. Len(Tail(s)) \in 1..Len(Tail(s)) /\ Len(Tail(s)) + 1 = Len(s)
    BY <1>1, <1>3, <1>5
  <2> QED
    BY <1>1, <1>5, <2>1
<1> QED
  BY <1>4, <1>5

LEMMA SingleMessage ==
  ASSUME NEW m \in Message
  PROVE  <<m>> \in Seq(Message) /\ <<m>> # <<>> /\ <<m>>[Len(<<m>>)] = m
  OBVIOUS

----------------------------------------------------------------------------
(* The flag, the feed and what was published. *)

FlagOK == flag \in BOOLEAN

LEMMA SetFlagStep ==
  ASSUME WireInv, NEW value \in BOOLEAN, SetFlag(value), conn' = conn, published' = published
  PROVE  WireInv' /\ FlagOK'
<1> DEFINE m == [type |-> "update", value |-> value]
<1>1. m \in Message /\ m.value = value
  <2>1. m \in Message
    BY Zenon DEF Message
  <2>2. m.value = value
    BY Zenon
  <2> QED
    BY <2>1, <2>2
<1>2. flag' = value /\ feed' = IF conn THEN Append(feed, m) ELSE feed
  BY Zenon DEF SetFlag
<1> HIDE DEF m
<1>3. FlagOK'
  BY <1>2, Zenon DEF FlagOK
<1>4. CASE conn
  <2>1. feed' = Append(feed, m) /\ feed \in Seq(Message)
    BY <1>2, <1>4, Zenon DEF WireInv
  <2>2. feed' \in Seq(Message) /\ feed' # <<>> /\ feed'[Len(feed')] = m
    BY <1>1, <2>1, LastOfAppend, Zenon
  <2> QED
    BY <1>1, <1>2, <1>3, <1>4, <2>2, Zenon DEF WireInv
<1>5. CASE ~conn
  BY <1>2, <1>3, <1>5, Zenon DEF WireInv
<1> QED
  BY <1>4, <1>5

LEMMA WireFrame ==
  ASSUME WireInv, FlagOK, UNCHANGED <<flag, conn, feed, published>>
  PROVE  WireInv' /\ FlagOK'
  BY Zenon DEF WireInv, FlagOK

LEMMA WireStep == WireInv /\ FlagOK /\ [SwitchNext]_switchVars => WireInv' /\ FlagOK'
<1> SUFFICES ASSUME WireInv, FlagOK, [SwitchNext]_switchVars PROVE WireInv' /\ FlagOK'
  OBVIOUS
<1> USE DEF robot, socket, control
<1>1. CASE UNCHANGED switchVars
  BY <1>1, WireFrame, Zenon DEF switchVars
<1>2. CASE OtherOperator
  <2>1. (~flag) \in BOOLEAN
    OBVIOUS
  <2> QED
    BY <1>2, <2>1, SetFlagStep, Zenon DEF OtherOperator
<1>3. ASSUME NEW t \in threads, Handle(t)
      PROVE  WireInv' /\ FlagOK'
  <2>1. CASE t.command = "ask"
    BY <1>3, <2>1, WireFrame, Zenon DEF Handle
  <2>2. CASE t.command # "ask"
    <3>1. SetFlag(t.command = "on") /\ (t.command = "on") \in BOOLEAN
      BY <1>3, <2>2, Zenon DEF Handle
    <3> QED
      BY <1>3, <3>1, SetFlagStep, Zenon DEF Handle
  <2> QED
    BY <2>1, <2>2
<1>4. ASSUME NEW t \in threads, Report(t) \/ TimeOut(t)
      PROVE  WireInv' /\ FlagOK'
  BY <1>4, WireFrame, Zenon DEF Report, TimeOut
<1>5. CASE Connect
  <2> DEFINE m == [type |-> "snapshot", value |-> flag]
  <2>1. m \in Message
    BY Zenon DEF FlagOK, Message
  <2>2. m.value = flag
    BY Zenon
  <2>3. conn' = TRUE /\ feed' = <<m>> /\ flag' = flag
    BY <1>5, Zenon DEF Connect
  <2> HIDE DEF m
  <2>4. feed' \in Seq(Message) /\ feed' # <<>> /\ feed'[Len(feed')] = m
    BY <2>1, <2>3, SingleMessage, Zenon
  <2> QED
    BY <2>2, <2>3, <2>4, Zenon DEF WireInv, FlagOK
<1>6. CASE Disconnect
  BY <1>6, EmptySeq, Zenon DEF Disconnect, WireInv, FlagOK
<1>7. CASE ReadMessage
  <2>1. /\ feed # <<>> /\ feed \in Seq(Message) /\ conn
        /\ published' = Head(feed).value /\ feed' = Tail(feed)
        /\ UNCHANGED <<flag, conn>>
    BY <1>7, Zenon DEF ReadMessage, Read, WireInv
  <2>2. feed[Len(feed)].value = flag
    BY <2>1, Zenon DEF WireInv
  <2>3. /\ feed' \in Seq(Message)
        /\ feed' # <<>> => feed'[Len(feed')] = feed[Len(feed)]
        /\ feed' = <<>> => Head(feed) = feed[Len(feed)]
    BY <2>1, TailOf, Zenon
  <2> QED
    BY <2>1, <2>2, <2>3, Zenon DEF WireInv, FlagOK
<1>8. CASE PollResults \/ Click \/ ClickRefresh
  BY <1>8, WireFrame, Zenon DEF PollResults, Click, ClickRefresh
<1>9. CASE ReloadConnection
  BY <1>9, EmptySeq, Zenon DEF ReloadConnection, WireInv, FlagOK
<1> QED
  BY <1>1, <1>2, <1>3, <1>4, <1>5, <1>6, <1>7, <1>8, <1>9 DEF SwitchNext

(* When everything was read, the published status is the robot's flag. *)
THEOREM StatusIsTheRobots == SwitchSpec => []PublishedIsTheRobots
<1>1. SwitchInit => WireInv /\ FlagOK
  BY EmptySeq, Zenon DEF SwitchInit, WireInv, FlagOK
<1>2. WireInv => PublishedIsTheRobots
  BY Zenon DEF WireInv, PublishedIsTheRobots
<1> QED
  BY <1>1, <1>2, WireStep, PTL DEF SwitchSpec

----------------------------------------------------------------------------
(* The last click. *)

(* No command but the last click's has the last click's number.  While the *)
(* click is alone, its command is the only one that may still set the      *)
(* flag, and it sets it to what was wished. *)
Thread == [id : Nat, command : {"on", "off", "ask"}, generation : Nat,
           answer : {"none", "on", "off"}, waits : BOOLEAN]
Wish == [id : Nat, value : BOOLEAN, alone : BOOLEAN, handled : BOOLEAN]

ControlOK ==
    /\ sent \in Nat /\ generation \in Nat
    /\ threads \subseteq Thread /\ wish \in Wish

AloneInv ==
    /\ wish.id <= sent
    /\ \A t \in threads : t.id \in 1..sent /\ (t.id = wish.id => t.command # "ask")
    /\ wish.alone => \A t \in threads : t.command # "ask" =>
                        t.id = wish.id /\ ((t.command = "on") <=> wish.value)
    /\ wish.alone /\ wish.handled => (flag <=> wish.value)

LEMMA AloneFrame ==
  ASSUME ControlOK, AloneInv, UNCHANGED <<flag, sent, wish>>, generation' \in Nat,
         threads' \subseteq threads
  PROVE  ControlOK' /\ AloneInv'
<1>1. ControlOK'
  BY DEF ControlOK
<1>2. (flag' <=> flag) /\ sent' = sent /\ wish' = wish
  OBVIOUS
<1>3. AloneInv'
  BY <1>2 DEF AloneInv
<1> QED
  BY <1>1, <1>3

(* A new thread that asks for the flag, and the thread of a click. *)
LEMMA AskStep ==
  ASSUME ControlOK, AloneInv, NEW g \in Nat, Dispatch("ask", g), generation' \in Nat,
         UNCHANGED <<flag, wish>>
  PROVE  ControlOK' /\ AloneInv'
<1> DEFINE new == [id |-> sent + 1, command |-> "ask", generation |-> g, answer |-> "none",
                  waits |-> TRUE]
<1>1. sent' = sent + 1 /\ threads' = threads \cup {new}
  BY DEF Dispatch
<1>2. ControlOK'
  <2>1. sent + 1 \in Nat /\ new \in Thread
    BY DEF ControlOK, Thread
  <2> HIDE DEF new
  <2> QED
    BY <1>1, <2>1 DEF ControlOK
<1>3. AloneInv'
  <2>1. new.id = sent + 1 /\ new.command = "ask"
    OBVIOUS
  <2> HIDE DEF new
  <2>2. (flag' <=> flag) /\ wish' = wish /\ wish.id \in Nat /\ sent \in Nat
    BY DEF ControlOK, Wish
  <2>3. \A t \in threads' : t.id \in 1..sent' /\ (t.id = wish.id => t.command # "ask")
    BY <1>1, <2>1, <2>2 DEF AloneInv
  <2> QED
    BY <1>1, <2>1, <2>2, <2>3 DEF AloneInv
<1> QED
  BY <1>2, <1>3

LEMMA ClickStep == ControlOK /\ AloneInv /\ box \in BOOLEAN /\ Click => ControlOK' /\ AloneInv'
<1> SUFFICES ASSUME ControlOK, AloneInv, box \in BOOLEAN, Click PROVE ControlOK' /\ AloneInv'
  OBVIOUS
<1> DEFINE new == [id |-> sent + 1, command |-> Asked, generation |-> generation,
                   answer |-> "none", waits |-> TRUE]
<1>1. /\ sent' = sent + 1 /\ threads' = threads \cup {new} /\ generation' = generation
      /\ sent \in Nat
  BY DEF Click, Dispatch, ControlOK
<1>2. Asked \in {"on", "off"} /\ ((Asked = "on") <=> ~box)
  BY DEF Asked, Says
<1>3. /\ wish' \in Wish /\ wish'.id = sent + 1 /\ ~wish'.handled
      /\ wish'.value <=> ~box
      /\ wish'.alone => \A t \in threads : t.command = "ask"
  <2>1. wish' = [id |-> sent + 1, value |-> ~box, handled |-> FALSE,
                 alone |-> \A t \in threads : t.command = "ask"]
    BY <1>1, Zenon DEF Click, Dispatch
  <2>2. (~box) \in BOOLEAN /\ (\A t \in threads : t.command = "ask") \in BOOLEAN
    OBVIOUS
  <2>3. sent + 1 \in Nat
    BY <1>1
  <2>4. wish' \in Wish
    BY <2>1, <2>2, <2>3, Zenon DEF Wish
  <2>5. wish'.id = sent + 1 /\ wish'.value = ~box /\ wish'.handled = FALSE
    BY <2>1, Zenon
  <2>6. wish'.alone = (\A t \in threads : t.command = "ask")
    BY <2>1, Zenon
  <2> QED
    BY <2>4, <2>5, <2>6, Zenon
<1>4. ControlOK'
  <2>1. new \in Thread /\ sent + 1 \in Nat
    BY <1>1, <1>2 DEF ControlOK, Thread
  <2> HIDE DEF new
  <2> QED
    BY <1>1, <1>3, <2>1 DEF ControlOK
<1>5. AloneInv'
  <2>1. new.id = sent + 1 /\ new.command = Asked
    OBVIOUS
  <2> HIDE DEF new
  <2>2. \A t \in threads' : t.id \in 1..sent' /\ (t.id = wish'.id => t.command # "ask")
    BY <1>1, <1>2, <1>3, <2>1 DEF AloneInv
  <2>3. wish'.alone => \A t \in threads' : t.command # "ask" =>
                        t.id = wish'.id /\ ((t.command = "on") <=> wish'.value)
    BY <1>1, <1>2, <1>3, <2>1
  <2> QED
    BY <1>1, <1>3, <2>2, <2>3 DEF AloneInv
<1> QED
  BY <1>4, <1>5

LEMMA HandleStep ==
  ASSUME ControlOK, AloneInv, NEW t \in threads, Handle(t)
  PROVE  ControlOK' /\ AloneInv'
<1> DEFINE told == [t EXCEPT !.answer = Says(flag')]
<1>1. /\ threads' \subseteq (threads \ {t}) \cup {told}
      /\ UNCHANGED <<sent, generation>>
      /\ wish' = IF t.id = wish.id THEN [wish EXCEPT !.handled = TRUE] ELSE wish
  BY DEF Handle
<1>2. /\ told \in Thread /\ told.id = t.id /\ told.command = t.command
      /\ t \in Thread /\ wish \in Wish
  <2>1. Says(flag') \in {"none", "on", "off"}
    BY DEF Says
  <2> QED
    BY <2>1 DEF ControlOK, Thread
<1> HIDE DEF told
<1>3. /\ wish' \in Wish /\ wish'.id = wish.id
      /\ (wish'.value <=> wish.value) /\ (wish'.alone <=> wish.alone)
      /\ t.id # wish.id => wish' = wish
  <2>1. CASE t.id = wish.id
    <3>1. wish' = [wish EXCEPT !.handled = TRUE]
      BY <1>1, <2>1
    <3>2. wish' \in Wish /\ wish'.id = wish.id
      BY <1>2, <3>1 DEF Wish
    <3>3. wish'.value = wish.value /\ wish'.alone = wish.alone
      BY <1>2, <3>1 DEF Wish
    <3> QED
      BY <2>1, <3>2, <3>3
  <2>2. CASE t.id # wish.id
    BY <1>1, <1>2, <2>2
  <2> QED
    BY <2>1, <2>2
<1>4. ControlOK'
  BY <1>1, <1>2, <1>3 DEF ControlOK
<1>5. \A u \in threads' : u.id \in 1..sent' /\ (u.id = wish'.id => u.command # "ask")
  BY <1>1, <1>2, <1>3 DEF AloneInv
<1>6. wish'.alone => \A u \in threads' : u.command # "ask" =>
                        u.id = wish'.id /\ ((u.command = "on") <=> wish'.value)
  BY <1>1, <1>2, <1>3 DEF AloneInv
<1>7. wish'.alone /\ wish'.handled => (flag' <=> wish'.value)
  <2>1. CASE t.command = "ask"
    <3>1. (flag' <=> flag) /\ t.id # wish.id
      BY <2>1 DEF Handle, AloneInv
    <3> QED
      BY <1>3, <3>1 DEF AloneInv
  <2>2. CASE t.command # "ask"
    <3>1. flag' <=> (t.command = "on")
      BY <2>2 DEF Handle, SetFlag
    <3> QED
      BY <1>3, <2>2, <3>1 DEF AloneInv
  <2> QED
    BY <2>1, <2>2
<1> QED
  BY <1>1, <1>3, <1>4, <1>5, <1>6, <1>7 DEF AloneInv

LEMMA TimeOutStep ==
  ASSUME ControlOK, AloneInv, NEW t \in threads, TimeOut(t)
  PROVE  ControlOK' /\ AloneInv'
<1> DEFINE left == [t EXCEPT !.waits = FALSE]
<1>1. /\ threads' = (threads \ {t}) \cup {left}
      /\ UNCHANGED <<sent, generation, wish>> /\ (flag' <=> flag)
  BY DEF TimeOut, robot
<1>2. left \in Thread /\ left.id = t.id /\ left.command = t.command /\ t \in Thread
  BY DEF ControlOK, Thread
<1> HIDE DEF left
<1>3. ControlOK'
  BY <1>1, <1>2 DEF ControlOK
<1>4. AloneInv'
  BY <1>1, <1>2 DEF AloneInv
<1> QED
  BY <1>3, <1>4

LEMMA AloneStep ==
  ASSUME ControlOK, AloneInv, FlagOK, box \in BOOLEAN, [SwitchNext]_switchVars
  PROVE  ControlOK' /\ AloneInv'
<1> USE DEF robot, socket, control
<1>1. CASE UNCHANGED switchVars
  BY <1>1, AloneFrame DEF switchVars, ControlOK
<1>2. CASE OtherOperator
  <2>1. /\ UNCHANGED <<sent, generation, threads>>
        /\ wish' = [wish EXCEPT !.alone = FALSE]
    BY <1>2 DEF OtherOperator, Joined
  <2>2. wish' \in Wish /\ wish'.id = wish.id /\ ~wish'.alone
    BY <2>1 DEF ControlOK, Wish
  <2> QED
    BY <2>1, <2>2 DEF ControlOK, AloneInv
<1>3. ASSUME NEW t \in threads, Handle(t)
      PROVE  ControlOK' /\ AloneInv'
  BY <1>3, HandleStep
<1>4. ASSUME NEW t \in threads, Report(t)
      PROVE  ControlOK' /\ AloneInv'
  BY <1>4, AloneFrame DEF Report, ControlOK
<1>9. ASSUME NEW t \in threads, TimeOut(t)
      PROVE  ControlOK' /\ AloneInv'
  BY <1>9, TimeOutStep
<1>5. CASE Connect \/ Disconnect \/ ReadMessage \/ PollResults
  BY <1>5, AloneFrame DEF Connect, Disconnect, ReadMessage, PollResults, ControlOK
<1>6. CASE Click
  BY <1>6, ClickStep
<1>7. CASE ClickRefresh
  BY <1>7, AskStep DEF ClickRefresh, ControlOK
<1>8. CASE ReloadConnection
  <2>1. generation' \in Nat /\ Dispatch("ask", generation') /\ UNCHANGED <<flag, wish>>
    BY <1>8 DEF ReloadConnection, NextGeneration, ControlOK
  <2> QED
    BY <2>1, AskStep
<1> QED
  BY <1>1, <1>2, <1>3, <1>4, <1>5, <1>6, <1>7, <1>8, <1>9 DEF SwitchNext

(* The checkbox shows a Boolean, because every result that is current has  *)
(* an answer, and the published status is one. *)
BoxOK == box \in BOOLEAN /\ published \in BOOLEAN /\ feed \in Seq(Message)

LEMMA BoxStep == BoxOK /\ FlagOK /\ WireInv /\ [SwitchNext]_switchVars => BoxOK'
<1> SUFFICES ASSUME BoxOK, FlagOK, WireInv, [SwitchNext]_switchVars PROVE BoxOK'
  OBVIOUS
<1> USE DEF robot, socket, control
<1>1. feed' \in Seq(Message)
  BY WireStep, Zenon DEF WireInv
<1>2. CASE UNCHANGED switchVars
  BY <1>1, <1>2, Zenon DEF switchVars, BoxOK
<1>3. CASE OtherOperator \/ Connect \/ Disconnect \/ ClickRefresh
  BY <1>1, <1>3, Zenon DEF OtherOperator, Connect, Disconnect, ClickRefresh, BoxOK
<1>4. ASSUME NEW t \in threads, Handle(t) \/ Report(t) \/ TimeOut(t)
      PROVE  BoxOK'
  BY <1>1, <1>4, Zenon DEF Handle, Report, TimeOut, BoxOK
<1>5. CASE ReadMessage
  <2>1. Head(feed) \in Message
    BY <1>5, HeadTailProperties DEF ReadMessage, BoxOK
  <2>2. Head(feed).value \in BOOLEAN
    BY <2>1, Zenon DEF Message
  <2> QED
    BY <1>1, <1>5, <2>2, Zenon DEF ReadMessage, Read, BoxOK
<1>6. CASE PollResults
  <2>1. box' \in BOOLEAN
    BY <1>6, Zenon DEF PollResults, BoxOK
  <2> QED
    BY <1>1, <1>6, <2>1, Zenon DEF PollResults, BoxOK
<1>7. CASE Click
  <2>1. (~box) \in BOOLEAN
    OBVIOUS
  <2> QED
    BY <1>1, <1>7, <2>1, Zenon DEF Click, BoxOK
<1>8. CASE ReloadConnection
  BY <1>1, <1>8, Zenon DEF ReloadConnection, BoxOK
<1> QED
  BY <1>2, <1>3, <1>4, <1>5, <1>6, <1>7, <1>8 DEF SwitchNext

(* The click that is alone decides: when it was made no other click could  *)
(* still reach the robot, not even one whose thread had timed out, and     *)
(* once the robot has handled it, its flag is what was clicked - until     *)
(* another operator changes it or there is another click.                  *)
(* Code: the checkbox in ControlPanel::ui, execute, request.               *)
THEOREM ClickCounts == SwitchSpec => []LastClickCounts
<1> DEFINE I == ControlOK /\ AloneInv /\ FlagOK /\ WireInv /\ BoxOK
<1>1. SwitchInit => I
  <2> SUFFICES ASSUME SwitchInit PROVE I
    OBVIOUS
  <2>1. FlagOK /\ WireInv /\ BoxOK
    BY EmptySeq, Zenon DEF SwitchInit, FlagOK, WireInv, BoxOK
  <2>2. NoWish \in Wish /\ NoWish.id = 0 /\ ~NoWish.alone
    BY DEF NoWish, Wish
  <2>3. ControlOK /\ AloneInv
    BY <2>2 DEF SwitchInit, ControlOK, AloneInv
  <2> QED
    BY <2>1, <2>3
<1>2. I /\ [SwitchNext]_switchVars => I'
  BY WireStep, AloneStep, BoxStep DEF BoxOK
<1>3. I => LastClickCounts
  <2> SUFFICES ASSUME I, wish.alone, wish.handled PROVE flag = wish.value
    BY DEF LastClickCounts
  <2>1. flag <=> wish.value
    BY DEF AloneInv
  <2>2. flag \in BOOLEAN /\ wish.value \in BOOLEAN
    BY Zenon DEF FlagOK, ControlOK, Wish
  <2> QED
    BY <2>1, <2>2, Zenon
<1> QED
  BY <1>1, <1>2, <1>3, PTL DEF SwitchSpec

-----------------------------------------------------------------------------
(* ReplayPanel                                                             *)

(* A directory is one that was made, and an id for it is its name or the   *)
(* task it was made for.                                                   *)
Made(d) == d \in 1..Len(made)

Names(id, d) == id = d \/ id = made[d]

(* The service writes only in directories it made, and only their task.    *)
FilesOK ==
    /\ \A d \in Dirs : disk[d].recorded \/ disk[d].id # None => Made(d)
    /\ \A d \in Dirs : disk[d].id # None => disk[d].id = made[d]
    /\ writer # Idle => Made(writer.dir) /\ writer.task = made[writer.dir]

(* A row, and the row to delete, name the directory they stand for; so     *)
(* does the mark, while something is marked.                               *)
RowOK(r) == Made(r.dir) /\ Names(r.id, r.dir)

RowsOK ==
    /\ \A r \in list : RowOK(r)
    /\ confirm # NoRow => RowOK(confirm)
    /\ view # None => Made(view)
    /\ selected # None => view # None /\ Names(selected, view)

PanelInv == TypeOK /\ FilesOK /\ RowsOK

----------------------------------------------------------------------------

LEMMA Constants ==
  /\ MaxDirs \in Nat /\ Dirs \subseteq Nat \ {0}
  /\ None \notin Tasks /\ None \notin Dirs /\ None \notin Ids /\ Tasks \cap Dirs = {}
BY ReplayAssumption DEF Dirs, Ids

(* What the service's thread is doing is typed unless it is idle. *)
LEMMA WriterIs ==
  ASSUME TypeOK, writer.next # "none"
  PROVE  /\ writer # Idle
         /\ writer \in [dir : Dirs, task : Tasks, next : {"save", "empty", "text"}]
BY DEF TypeOK, Idle

(* What the disk holds of a directory, and one directory that changes. *)
File == [there : BOOLEAN, recorded : BOOLEAN, id : Tasks \cup {None}]

LEMMA DiskChange ==
  ASSUME TypeOK, NEW d \in Dirs,
         \/ disk' = disk
         \/ \E i \in Tasks \cup {None}, left \in BOOLEAN :
               disk' = [disk EXCEPT ![d].id = i, ![d].recorded = left]
  PROVE  /\ disk' \in [Dirs -> File]
         /\ \A e \in Dirs : e # d => disk'[e] = disk[e]
<1>1. disk \in [Dirs -> File] BY DEF TypeOK, File
<1>2. CASE disk' = disk BY <1>1, <1>2
<1>3. ASSUME NEW i \in Tasks \cup {None}, NEW left \in BOOLEAN,
             disk' = [disk EXCEPT ![d].id = i, ![d].recorded = left]
      PROVE  /\ disk' \in [Dirs -> File]
             /\ \A e \in Dirs : e # d => disk'[e] = disk[e]
  <2> DEFINE f == [[disk[d] EXCEPT !.id = i] EXCEPT !.recorded = left]
  <2>1. disk[d] \in File BY <1>1
  <2>2. [disk[d] EXCEPT !.id = i] \in File BY <2>1 DEF File
  <2>3. f \in File BY <2>2 DEF File
  <2>4. disk' = [disk EXCEPT ![d] = f] BY <1>1, <1>3, Zenon
  <2> HIDE DEF f
  <2>q. QED BY <1>1, <2>3, <2>4
<1>q. QED BY <1>2, <1>3

(* A directory more: the tasks of the others stay. *)
LEMMA MadeMore ==
  ASSUME TypeOK, NEW t \in Tasks, MakeDir(t)
  PROVE  /\ made' \in Seq(Tasks) /\ Len(made') = Len(made) + 1 /\ Len(made') \in Dirs
         /\ made'[Len(made')] = t /\ Len(made) \in Nat
         /\ \A d \in 1..Len(made) : made'[d] = made[d] /\ d \in 1..Len(made')
<1>1. made' = Append(made, t) /\ made \in Seq(Tasks) /\ Len(made) < MaxDirs
  BY DEF MakeDir, TypeOK
<1>2. Len(made) \in Nat BY <1>1, LenProperties
<1>q. QED BY <1>1, <1>2, AppendProperties, ReplayAssumption DEF Dirs

LEMMA RowsListed ==
  ASSUME TypeOK
  PROVE  /\ Listed \subseteq Rows
         /\ \A r \in Listed : disk[r.dir].recorded
<1>1. ASSUME NEW d \in Dirs PROVE RowId(d) \in Ids BY DEF TypeOK, RowId, Ids
<1>q. QED BY <1>1 DEF Listed, Rows

----------------------------------------------------------------------------
(* Types                                                                   *)

LEMMA PanelInit == Init => PanelInv
<1> SUFFICES ASSUME Init PROVE PanelInv OBVIOUS
<1>1. \A d \in Dirs : disk[d] = Absent BY DEF Init
<1>2. disk \in [Dirs -> [there : BOOLEAN, recorded : BOOLEAN, id : Tasks \cup {None}]]
  BY DEF Init, Absent
<1>s. made \in Seq(Tasks) /\ Len(made) <= MaxDirs BY ReplayAssumption, EmptySeq DEF Init
<1>3. TypeOK BY <1>2, <1>s DEF Init, TypeOK
<1>4. FilesOK BY <1>1 DEF Init, FilesOK, Absent
<1>5. RowsOK BY DEF Init, RowsOK
<1>q. QED BY <1>3, <1>4, <1>5 DEF PanelInv

Entry == [there : BOOLEAN, recorded : BOOLEAN, id : Tasks \cup {None}]

LEMMA EntryKept ==
    ASSUME NEW e \in Entry, NEW b \in BOOLEAN, NEW id \in Tasks \cup {None}
    PROVE  /\ [e EXCEPT !.there = b] \in Entry /\ [e EXCEPT !.recorded = b] \in Entry
           /\ [e EXCEPT !.id = id] \in Entry
BY DEF Entry

(* One directory changes, in one field. *)
LEMMA DiskKept ==
    ASSUME NEW disk1 \in [Dirs -> Entry], NEW d \in Dirs, NEW b \in BOOLEAN,
           NEW id \in Tasks \cup {None}
    PROVE  /\ [disk1 EXCEPT ![d].there = b] \in [Dirs -> Entry]
           /\ [disk1 EXCEPT ![d].recorded = b] \in [Dirs -> Entry]
           /\ [disk1 EXCEPT ![d].id = id] \in [Dirs -> Entry]
<1>1. disk1[d] \in Entry OBVIOUS
<1>2. ASSUME NEW e \in Entry PROVE [disk1 EXCEPT ![d] = e] \in [Dirs -> Entry] OBVIOUS
<1>q. QED BY <1>1, <1>2, EntryKept

LEMMA NextTypeOK == TypeOK /\ [Next]_vars => TypeOK'
<1> SUFFICES ASSUME TypeOK, [Next]_vars PROVE TypeOK' OBVIOUS
<1> USE Constants
<1>1. ASSUME NEW t \in Tasks, MakeDir(t) PROVE TypeOK'
  <2>1. made' \in Seq(Tasks) /\ Len(made') \in Dirs /\ Len(made') <= MaxDirs
    BY <1>1, MadeMore DEF Dirs
  <2>2. disk' \in [Dirs -> [there : BOOLEAN, recorded : BOOLEAN, id : Tasks \cup {None}]]
    <3>1. disk' = [disk EXCEPT ![Len(made')].there = TRUE] BY <1>1 DEF MakeDir
    <3>2. disk \in [Dirs -> Entry] BY DEF TypeOK, Entry
    <3>3. disk' \in [Dirs -> Entry] BY <2>1, <3>1, <3>2, DiskKept
    <3>q. QED BY <3>3 DEF Entry
  <2>3. writer' \in [dir : Dirs, task : Tasks, next : {"save", "empty", "text"}]
    BY <1>1, <2>1 DEF MakeDir
  <2>q. QED BY <1>1, <2>1, <2>2, <2>3 DEF MakeDir, TypeOK, panel
<1>2. CASE SaveRecording
  <2>1. writer \in [dir : Dirs, task : Tasks, next : {"save", "empty", "text"}]
    BY <1>2, WriterIs DEF SaveRecording
  <2>2. disk' \in [Dirs -> [there : BOOLEAN, recorded : BOOLEAN, id : Tasks \cup {None}]]
    <3>1. CASE disk' = [disk EXCEPT ![writer.dir].recorded = TRUE]
      <4>1. disk \in [Dirs -> Entry] BY DEF TypeOK, Entry
      <4>2. writer.dir \in Dirs BY <2>1
      <4>3. disk' \in [Dirs -> Entry] BY <3>1, <4>1, <4>2, DiskKept
      <4>q. QED BY <4>3 DEF Entry
    <3>2. CASE disk' = disk BY <3>2 DEF TypeOK
    <3>q. QED BY <1>2, <3>1, <3>2 DEF SaveRecording
  <2>3. writer' \in {Idle} \cup [dir : Dirs, task : Tasks, next : {"save", "empty", "text"}]
    BY <1>2, <2>1 DEF SaveRecording
  <2>q. QED BY <1>2, <2>2, <2>3 DEF SaveRecording, TypeOK, panel
<1>3. CASE WriteMetadata
  <2>1. writer \in [dir : Dirs, task : Tasks, next : {"save", "empty", "text"}]
    BY <1>3, WriterIs DEF WriteMetadata
  <2>2. disk' \in [Dirs -> [there : BOOLEAN, recorded : BOOLEAN, id : Tasks \cup {None}]]
    <3>1. PICK id \in Tasks \cup {None} : disk' = [disk EXCEPT ![writer.dir].id = id]
      <4>1. writer.task \in Tasks /\ writer.dir \in Dirs BY <2>1
      <4>2. disk[writer.dir].id \in Tasks \cup {None} BY <4>1 DEF TypeOK
      <4>q. QED BY <1>3, <4>1, <4>2 DEF WriteMetadata
    <3>2. writer.dir \in Dirs BY <2>1
    <3>3. disk \in [Dirs -> Entry] BY DEF TypeOK, Entry
    <3>4. disk' \in [Dirs -> Entry] BY <3>1, <3>2, <3>3, DiskKept
    <3>q. QED BY <3>4 DEF Entry
  <2>3. writer' \in [dir : Dirs, task : Tasks, next : {"save", "empty", "text"}]
    BY <1>3, <2>1 DEF WriteMetadata
  <2>q. QED BY <1>3, <2>2, <2>3 DEF WriteMetadata, TypeOK, panel
<1>4. CASE FinishRecording BY <1>4 DEF FinishRecording, TypeOK, panel
<1>5. CASE OpenDialog \/ Refresh
  BY <1>5, RowsListed DEF OpenDialog, Refresh, Load, TypeOK, service
<1>6. CASE ShowLive \/ ApplyConnection \/ RefuseReload
  BY <1>6 DEF ShowLive, ApplyConnection, RefuseReload, GoLive, TypeOK, service
<1>7. CASE OpenTask
  BY <1>7 DEF OpenTask, ShowRow, TypeOK, Rows, service
<1>8. CASE RequestDelete \/ CancelDelete
  BY <1>8 DEF RequestDelete, CancelDelete, TypeOK, service
<1>9. CASE ConfirmDelete
  <2>1. confirm.dir \in Dirs BY <1>9 DEF ConfirmDelete, TypeOK, Rows
  <2>2. disk' \in [Dirs -> [there : BOOLEAN, recorded : BOOLEAN, id : Tasks \cup {None}]]
    BY <1>9, <2>1 DEF ConfirmDelete, Removed, Absent, TypeOK
  <2>3. ASSUME NEW d \in Dirs PROVE RowId(d)' \in Ids BY <2>2 DEF RowId, Ids
  <2>4. list' \subseteq Rows
    BY <1>9, <2>3 DEF ConfirmDelete, ListAfterDelete, Listed, Rows
  <2>q. QED BY <1>9, <2>2, <2>4 DEF ConfirmDelete, AfterDelete, GoLive, TypeOK
<1>10. CASE DeleteFails
  <2>1. confirm.dir \in Dirs BY <1>10 DEF DeleteFails, TypeOK, Rows
  <2>2. \/ disk' = disk
        \/ \E i \in {None, disk[confirm.dir].id}, left \in BOOLEAN :
              disk' = [disk EXCEPT ![confirm.dir].id = i, ![confirm.dir].recorded = left]
    BY <1>10 DEF DeleteFails, NotRemoved
  <2>3. disk[confirm.dir].id \in Tasks \cup {None} BY <2>1 DEF TypeOK
  <2>4. disk' \in [Dirs -> [there : BOOLEAN, recorded : BOOLEAN, id : Tasks \cup {None}]]
    BY <2>1, <2>2, <2>3, DiskChange DEF File
  <2>q. QED BY <1>10, <2>4 DEF DeleteFails, TypeOK
<1>11. CASE UNCHANGED vars BY <1>11 DEF vars, service, panel, TypeOK
<1>q. QED
  BY <1>1, <1>2, <1>3, <1>4, <1>5, <1>6, <1>7, <1>8, <1>9, <1>10, <1>11 DEF Next
----------------------------------------------------------------------------
(* What a step does to the disk                                            *)

(* The actions that change neither the disk nor what was made. *)
PanelOnly ==
    \/ OpenDialog \/ Refresh \/ ShowLive \/ OpenTask \/ ApplyConnection \/ RefuseReload
    \/ RequestDelete \/ CancelDelete \/ UNCHANGED vars

LEMMA PanelOnlyIs ==
  ASSUME PanelOnly
  PROVE  disk' = disk /\ writer' = writer /\ made' = made
BY DEF PanelOnly, OpenDialog, Refresh, ShowLive, OpenTask, ApplyConnection, RefuseReload,
       RequestDelete, CancelDelete, vars, service

(* A directory is made; nothing is recorded in it yet. *)
LEMMA MakeDirIs ==
  ASSUME TypeOK, NEW t \in Tasks, MakeDir(t)
  PROVE  \A d \in Dirs : disk'[d].recorded = disk[d].recorded /\ disk'[d].id = disk[d].id
BY MadeMore DEF MakeDir, TypeOK

(* The thread writes in its own directory. *)
LEMMA SaveRecordingIs ==
  ASSUME TypeOK, SaveRecording
  PROVE  /\ writer.dir \in Dirs /\ writer # Idle
         /\ \A d \in Dirs : /\ disk'[d].id = disk[d].id
                            /\ disk[d].recorded => disk'[d].recorded
                            /\ disk'[d].recorded /\ d # writer.dir => disk[d].recorded
         /\ writer' # Idle => writer'.dir = writer.dir /\ writer'.task = writer.task
<1>1. writer # Idle /\ writer \in [dir : Dirs, task : Tasks, next : {"save", "empty", "text"}]
  BY WriterIs DEF SaveRecording
<1>2. CASE disk' = [disk EXCEPT ![writer.dir].recorded = TRUE]
           /\ writer' = [writer EXCEPT !.next = "empty"]
  BY <1>1, <1>2 DEF TypeOK
<1>3. CASE disk' = disk /\ writer' = Idle BY <1>1, <1>3
<1>q. QED BY <1>2, <1>3 DEF SaveRecording

LEMMA WriteMetadataIs ==
  ASSUME TypeOK, WriteMetadata
  PROVE  /\ writer.dir \in Dirs /\ writer # Idle
         /\ \A d \in Dirs : /\ disk'[d].recorded = disk[d].recorded
                            /\ \/ disk'[d].id \in {disk[d].id, None}
                               \/ d = writer.dir /\ disk'[d].id = writer.task
         /\ writer'.dir = writer.dir /\ writer'.task = writer.task
<1>1. writer # Idle /\ writer \in [dir : Dirs, task : Tasks, next : {"save", "empty", "text"}]
  BY WriterIs DEF WriteMetadata
<1> DEFINE says == IF writer.next = "text" THEN writer.task ELSE None
           now == IF disk[writer.dir].there THEN says ELSE disk[writer.dir].id
<1>2. disk' = [disk EXCEPT ![writer.dir].id = now] BY <1>1 DEF WriteMetadata, TypeOK
<1>3. now \in {disk[writer.dir].id, None, writer.task} OBVIOUS
<1> HIDE DEF now
<1>4. \A d \in Dirs : disk'[d].recorded = disk[d].recorded
                      /\ disk'[d].id = IF d = writer.dir THEN now ELSE disk[d].id
  BY <1>1, <1>2 DEF TypeOK
<1>5. writer'.dir = writer.dir /\ writer'.task = writer.task BY <1>1 DEF WriteMetadata
<1>q. QED BY <1>1, <1>3, <1>4, <1>5

(* The whole directory is gone, and no other. *)
LEMMA ConfirmDeleteIs ==
  ASSUME TypeOK, ConfirmDelete
  PROVE  /\ confirm \in Rows
         /\ disk'[confirm.dir] = Absent
         /\ \A d \in Dirs : d # confirm.dir => disk'[d] = disk[d]
BY DEF ConfirmDelete, Removed, TypeOK, Rows

(* What is left of the directory is what was there, or less. *)
LEMMA DeleteFailsIs ==
  ASSUME TypeOK, DeleteFails
  PROVE  \A d \in Dirs : /\ disk'[d].recorded => disk[d].recorded
                         /\ disk'[d].id \in {disk[d].id, None}
<1>1. confirm.dir \in Dirs BY DEF DeleteFails, TypeOK, Rows
<1>2. CASE disk' = disk BY <1>2
<1>3. ASSUME NEW i \in {None, disk[confirm.dir].id}, NEW left \in BOOLEAN,
             disk[confirm.dir].recorded,
             disk' = [disk EXCEPT ![confirm.dir].id = i, ![confirm.dir].recorded = left]
      PROVE  \A d \in Dirs : /\ disk'[d].recorded => disk[d].recorded
                             /\ disk'[d].id \in {disk[d].id, None}
  BY <1>1, <1>3 DEF TypeOK
<1>q. QED BY <1>2, <1>3 DEF DeleteFails, NotRemoved

----------------------------------------------------------------------------
(* Files and rows                                                          *)

LEMMA NextFilesOK == TypeOK /\ FilesOK /\ [Next]_vars => FilesOK'
<1> SUFFICES ASSUME TypeOK, FilesOK, [Next]_vars PROVE FilesOK' OBVIOUS
<1>1. ASSUME NEW t \in Tasks, MakeDir(t) PROVE FilesOK'
  <2>1. writer' = [dir |-> Len(made'), task |-> t, next |-> "save"] BY <1>1 DEF MakeDir
  <2>2. Len(made') \in 1..Len(made') BY <1>1, MadeMore
  <2>q. QED BY <1>1, <2>1, <2>2, MadeMore, MakeDirIs DEF FilesOK, Made
<1>2. CASE SaveRecording
  <2>1. made' = made BY <1>2 DEF SaveRecording
  <2>q. QED BY <1>2, <2>1, SaveRecordingIs DEF FilesOK, Made
<1>3. CASE WriteMetadata
  <2>1. made' = made BY <1>3 DEF WriteMetadata
  <2>q. QED BY <1>3, <2>1, WriteMetadataIs DEF FilesOK, Made
<1>4. CASE FinishRecording BY <1>4 DEF FinishRecording, FilesOK, Made
<1>5. CASE PanelOnly BY <1>5, PanelOnlyIs DEF FilesOK, Made
<1>6. CASE ConfirmDelete
  <2>1. made' = made /\ writer' = writer BY <1>6 DEF ConfirmDelete
  <2>2. ~ Absent.recorded /\ Absent.id = None BY DEF Absent
  <2>q. QED BY <1>6, <2>1, <2>2, ConfirmDeleteIs DEF FilesOK, Made
<1>7. CASE DeleteFails
  <2>1. made' = made /\ writer' = writer BY <1>7 DEF DeleteFails
  <2>q. QED BY <1>7, <2>1, DeleteFailsIs DEF FilesOK, Made
<1>q. QED BY <1>1, <1>2, <1>3, <1>4, <1>5, <1>6, <1>7 DEF Next, PanelOnly

(* Every row that is read from the disk names its directory. *)
LEMMA ListedNamed == ASSUME TypeOK, FilesOK PROVE \A r \in Listed : RowOK(r)
BY DEF FilesOK, Listed, RowId, RowOK, Names

(* A directory more leaves what the others are named. *)
LEMMA NamedStays ==
  ASSUME TypeOK, NEW t \in Tasks, MakeDir(t)
  PROVE  /\ \A d : Made(d) => Made(d)'
         /\ \A d, id : Made(d) /\ Names(id, d) => Names(id, d)'
BY MadeMore DEF Made, Names

LEMMA NextRowsOK == PanelInv /\ [Next]_vars => RowsOK'
<1> SUFFICES ASSUME PanelInv, [Next]_vars PROVE RowsOK' OBVIOUS
<1> USE DEF PanelInv
<1>n. NoRow.dir = None /\ NoRow.id = None BY DEF NoRow
<1>1. ASSUME NEW t \in Tasks, MakeDir(t) PROVE RowsOK'
  <2>1. UNCHANGED panel BY <1>1 DEF MakeDir
  <2>q. QED BY <1>1, <2>1, NamedStays DEF RowsOK, RowOK, panel
<1>2. CASE SaveRecording \/ WriteMetadata \/ FinishRecording
  BY <1>2 DEF SaveRecording, WriteMetadata, FinishRecording, panel, RowsOK, RowOK, Made, Names
<1>3. CASE OpenDialog \/ Refresh
  BY <1>3, ListedNamed
  DEF OpenDialog, Refresh, Load, service, RowsOK, RowOK, Made, Names
<1>4. CASE ShowLive \/ ApplyConnection \/ RefuseReload
  BY <1>4
  DEF ShowLive, ApplyConnection, RefuseReload, GoLive, service, RowsOK, RowOK, Made, Names
<1>5. CASE OpenTask
  <2>1. PICK r \in list : ShowRow(r) BY <1>5 DEF OpenTask
  <2>2. r.dir # None BY <2>1, Constants DEF TypeOK, Rows
  <2>q. QED BY <1>5, <2>1, <2>2 DEF OpenTask, ShowRow, service, RowsOK, RowOK, Made, Names
<1>6. CASE RequestDelete \/ CancelDelete
  BY <1>6 DEF RequestDelete, CancelDelete, service, RowsOK, RowOK, Made, Names
<1>7. CASE ConfirmDelete
  <2>1. TypeOK' /\ FilesOK' BY NextTypeOK, NextFilesOK
  <2>2. list' = Listed' /\ confirm' = NoRow /\ made' = made
    BY <1>7 DEF ConfirmDelete, ListAfterDelete
  <2>3. \A r \in list' : RowOK(r)'
    BY <2>1, <2>2 DEF FilesOK, Listed, RowId, RowOK, Names
  <2>q. QED BY <1>7, <2>2, <2>3 DEF ConfirmDelete, AfterDelete, GoLive, RowsOK, RowOK, Made, Names
<1>8. CASE DeleteFails
  BY <1>8 DEF DeleteFails, RowsOK, RowOK, Made, Names
<1>9. CASE UNCHANGED vars
  BY <1>9 DEF vars, service, panel, RowsOK, RowOK, Made, Names
<1>q. QED BY <1>1, <1>2, <1>3, <1>4, <1>5, <1>6, <1>7, <1>8, <1>9 DEF Next

LEMMA PanelStep == PanelInv /\ [Next]_vars => PanelInv'
BY NextTypeOK, NextFilesOK, NextRowsOK DEF PanelInv

----------------------------------------------------------------------------
(* What the panel says                                                     *)

LEMMA LabelStays ==
  ASSUME TypeOK, [Next]_vars, LabelAgrees, ~RefuseReload
  PROVE  LabelAgrees'
<1>1. CASE UNCHANGED <<selected, label, view>> BY <1>1 DEF LabelAgrees
<1>2. CASE GoLive BY <1>2 DEF GoLive, LabelAgrees
<1>3. ASSUME NEW r \in list, ShowRow(r) PROVE LabelAgrees'
  BY <1>3, Constants DEF ShowRow, LabelAgrees, TypeOK, Rows
<1>q. QED
  BY <1>1, <1>2, <1>3
  DEF Next, vars, panel, MakeDir, SaveRecording, WriteMetadata, FinishRecording, OpenDialog,
      Refresh, ShowLive, OpenTask, ApplyConnection, RequestDelete, CancelDelete,
      ConfirmDelete, AfterDelete, DeleteFails

LEMMA RowsStay ==
  ASSUME TypeOK, [Next]_vars, RowsAreRecorded, ~failed'
  PROVE  RowsAreRecorded'
<1>1. list \subseteq Rows BY DEF TypeOK
<1>2. ASSUME NEW t \in Tasks, MakeDir(t) PROVE RowsAreRecorded'
  BY <1>1, <1>2, MakeDirIs DEF MakeDir, panel, RowsAreRecorded, Rows
<1>3. CASE SaveRecording
  BY <1>1, <1>3, SaveRecordingIs DEF SaveRecording, panel, RowsAreRecorded, Rows
<1>4. CASE WriteMetadata
  BY <1>1, <1>4, WriteMetadataIs DEF WriteMetadata, panel, RowsAreRecorded, Rows
<1>5. CASE OpenDialog \/ Refresh
  <2>1. list' = Listed /\ disk' = disk
    BY <1>5 DEF OpenDialog, Refresh, Load, service
  <2>q. QED BY <2>1, RowsListed DEF RowsAreRecorded
<1>6. CASE ConfirmDelete
  <2>1. list' = Listed' BY <1>6 DEF ConfirmDelete, ListAfterDelete
  <2>q. QED BY <2>1 DEF RowsAreRecorded, Listed
<1>7. CASE \/ ApplyConnection \/ ShowLive \/ OpenTask \/ RefuseReload \/ RequestDelete
           \/ CancelDelete \/ FinishRecording \/ UNCHANGED vars
  <2>1. disk' = disk /\ (list' = list \/ list' = {})
    BY <1>7
    DEF ApplyConnection, ShowLive, OpenTask, RefuseReload, RequestDelete, CancelDelete,
        FinishRecording, vars, service, panel
  <2>q. QED BY <2>1 DEF RowsAreRecorded
<1>q. QED BY <1>2, <1>3, <1>4, <1>5, <1>6, <1>7 DEF Next, DeleteFails

(* A recording is taken from the disk by a deletion only. *)
LEMMA OnlyDeletionRemoves ==
  ASSUME TypeOK, [Next]_vars, NEW d \in Dirs, disk[d].recorded, ~disk'[d].recorded
  PROVE  (ConfirmDelete /\ d = confirm.dir) \/ (DeleteFails /\ failed' /\ view' = view)
<1>1. CASE \E t \in Tasks : MakeDir(t) BY <1>1, MakeDirIs
<1>2. CASE SaveRecording BY <1>2, SaveRecordingIs
<1>3. CASE WriteMetadata BY <1>3, WriteMetadataIs
<1>4. CASE PanelOnly \/ FinishRecording BY <1>4, PanelOnlyIs DEF FinishRecording
<1>5. CASE ConfirmDelete BY <1>5, ConfirmDeleteIs
<1>6. CASE DeleteFails BY <1>6 DEF DeleteFails
<1>q. QED BY <1>1, <1>2, <1>3, <1>4, <1>5, <1>6 DEF Next, PanelOnly

(* The deletion of what is shown goes live, unless the mark or the row     *)
(* stands for the directory by its name.                                   *)
LEMMA DeletionLeaves == ASSUME PanelInv, [Next]_vars PROVE DeletedLeaves
<1> SUFFICES ASSUME view' = view, Viewable(view), ~Viewable(view)', ~failed', LabelAgrees
             PROVE  confirm.dir \in {selected, confirm.id}
  BY DEF DeletedLeaves
<1> USE DEF PanelInv
<1>1. view # None /\ view \in Dirs BY DEF Viewable, TypeOK
<1>2. disk[view].recorded /\ ~disk'[view].recorded BY <1>1 DEF Viewable
<1>3. ConfirmDelete /\ view = confirm.dir BY <1>1, <1>2, OnlyDeletionRemoves
<1>4. selected # confirm.id BY <1>1, <1>3 DEF ConfirmDelete, AfterDelete, GoLive
<1>5. selected # None BY <1>1 DEF LabelAgrees
<1>6. Names(selected, view) /\ Names(confirm.id, confirm.dir)
  BY <1>3, <1>5 DEF RowsOK, RowOK, ConfirmDelete
<1>q. QED BY <1>3, <1>4, <1>6 DEF Names

(* Two rows with one id stand for recordings of one task. *)
LEMMA DeletionSpares == ASSUME PanelInv, [Next]_vars PROVE OthersStay
<1> SUFFICES ASSUME NEW d \in Dirs, view # None, disk[d].recorded, ~disk'[d].recorded,
                    view # view', view # d
             PROVE  made[view] = made[d]
  BY DEF OthersStay
<1> USE DEF PanelInv
<1>1. ConfirmDelete /\ d = confirm.dir BY OnlyDeletionRemoves
<1>2. selected = confirm.id BY <1>1 DEF ConfirmDelete, AfterDelete
<1>3. RowOK(confirm) /\ confirm.id \in Ids BY <1>1 DEF ConfirmDelete, RowsOK, TypeOK, Rows
<1>4. Names(selected, view) /\ Made(view) BY <1>2, <1>3, Constants DEF RowsOK
<1>5. made[view] \in Tasks /\ made[d] \in Tasks /\ view \in Dirs
  <2>1. made \in Seq(Tasks) /\ Made(d) BY <1>1, <1>3 DEF TypeOK, RowOK
  <2>2. view \in Dirs BY DEF TypeOK
  <2>q. QED BY <1>4, <2>1, <2>2, ElementOfSeq DEF Made
<1>q. QED BY <1>1, <1>2, <1>3, <1>4, <1>5, Constants DEF Names, RowOK

----------------------------------------------------------------------------
(* Theorems                                                                *)

LEMMA PanelHolds == Spec => []PanelInv
<1>q. QED BY PanelInit, PanelStep, PTL DEF Spec

(* Every cell of the replay list and of the disk keeps its type: a row has *)
(* a directory and an id, also while task.json is being written.           *)
(* Code: replay_tasks_in, replay_ui.                                       *)
THEOREM PanelTypeCorrect == Spec => []TypeOK
<1>1. PanelInv => TypeOK BY DEF PanelInv
<1>q. QED BY <1>1, PanelHolds, PTL

(* Label, mark and viewer agree until a reload is refused, and every row   *)
(* has a recording unless an error is shown, for any number of tasks and   *)
(* recordings.  Code: replay_ui, apply_connection.                         *)
THEOREM PanelTellsTheTruth == Spec => PanelStaysTrue
<1>1. PanelInv /\ [Next]_vars =>
        [/\ LabelAgrees => LabelAgrees' \/ RefuseReload
         /\ RowsAreRecorded => RowsAreRecorded' \/ failed']_vars
  BY LabelStays, RowsStay DEF PanelInv
<1>q. QED BY <1>1, PanelHolds, PTL DEF Spec, PanelStaysTrue

(* A deletion takes the recording it deletes off the screen and no other   *)
(* task's, whatever the service writes meanwhile and whatever the earlier  *)
(* listings read.  Code: delete_replay_task, replay_ui.                    *)
THEOREM DeletionTakesItsOwn == Spec => DeletionIsExact
<1>1. PanelInv /\ [Next]_vars => [DeletedLeaves /\ OthersStay]_vars
  BY DeletionLeaves, DeletionSpares
<1>q. QED BY <1>1, PanelHolds, PTL DEF Spec, DeletionIsExact
=============================================================================
