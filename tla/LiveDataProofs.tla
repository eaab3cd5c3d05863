--------------------------- MODULE LiveDataProofs ---------------------------
(***************************************************************************)
(* Theorems about what the viewer draws live: LiveView, for every set of   *)
(* robots and any number of versions, and OccupancyMask, the decoders of   *)
(* the dynamic map, for words and masks of any size and any runs.          *)
(*                                                                         *)
(* PosesFitTheMap says nothing of a stream that is down; what the          *)
(* signature stands for then is in SignatureInv, which is what a new       *)
(* connection with unchanged metadata relies on.  The loop invariant of    *)
(* both decoders: with the first `done' runs filled in, a cell is occupied *)
(* when one of them is occupied and covers it, else inflated when one of   *)
(* them covers it, else free.                                              *)
(***************************************************************************)
EXTENDS LiveView, OccupancyMask, SequenceTheorems, TLAPS

-----------------------------------------------------------------------------
(* LiveView: images, map and poses.                                        *)

(* A signature that is not empty is that of the frame's map, and the map   *)
(* on the screen is no older and no newer than the robot's, unless its     *)
(* image did not arrive; a stream is only open when there is one. *)
SignatureInv ==
    /\ signature # 0 => frame = Of(settings, signature)
    /\ signature # 0 /\ ~missed =>
          /\ live.map.robot = settings
          /\ live.map.version \in signature..maps[settings]
    /\ conn # "down" => signature # 0

(* TypeOK without its Boolean, which has a prover of its own. *)
CellsOK ==
    /\ settings \in Robots
    /\ conn \in {"down", "open", "live"}
    /\ signature \in 0..MaxVersion /\ identity \in 0..MaxVersion
    /\ frame \in Thing
    /\ live \in [map : Thing, image : Thing, pose : Robots \cup {None}]
    /\ rec \in [open : BOOLEAN, image : Thing, early : Thing]
    /\ maps \in [Robots -> 1..MaxVersion]
    /\ frames \in [Robots -> 0..MaxVersion]

MissedOK == missed \in BOOLEAN

IInv ==
    /\ CellsOK /\ MissedOK
    /\ SignatureInv /\ CachedIsShown /\ OneRobotOnScreen /\ RecordingHasTheImage

LEMMA TypeHalves == TypeOK <=> CellsOK /\ MissedOK
  BY Zenon DEF TypeOK, CellsOK, MissedOK

LEMMA InitInv == Init => IInv
<1> SUFFICES ASSUME Init PROVE IInv
  OBVIOUS
<1>1. MissedOK
  BY Zenon DEF Init, MissedOK
<1>2. CellsOK
  BY ViewAssumption DEF Init, CellsOK, Nothing, Of, Thing, Closed
<1>3. SignatureInv /\ CachedIsShown /\ OneRobotOnScreen
  BY DEF Init, SignatureInv, CachedIsShown, OneRobotOnScreen, Nothing, Of
<1>4. RecordingHasTheImage
  BY DEF Init, RecordingHasTheImage, Closed
<1> QED
  BY <1>1, <1>2, <1>3, <1>4 DEF IInv

(* A map that is new: its metadata are kept, and its image is shown if it  *)
(* arrives. *)
LEMMA NewMapStep ==
  ASSUME IInv, NEW i \in 0..MaxVersion, NewMap(i), UNCHANGED <<settings, identity, rec, frames>>,
         conn' \in {"open", "live"}
  PROVE  IInv'
<1> DEFINE m == maps[settings]
<1>1. /\ Of(settings, m) \in Thing /\ m \in 1..MaxVersion /\ settings \in Robots
      /\ Of(settings, i) \in Thing /\ MaxVersion \in Nat
  BY ViewAssumption DEF IInv, CellsOK, Of, Thing
<1>2. signature' = m /\ frame' = Of(settings, m)
  BY DEF NewMap
<1>3. MissedOK'
  BY Zenon DEF NewMap, MissedOK
<1>4. /\ live' \in [map : Thing, image : Thing, pose : Robots \cup {None}]
      /\ live'.image = live.image /\ live'.pose = live.pose
      /\ maps' \in [Robots -> 1..MaxVersion]
      /\ ~missed' => live'.map = Of(settings, i) /\ i \in m..maps'[settings]
  <2>1. CASE i = 0 /\ missed' = TRUE /\ UNCHANGED <<live, maps>>
    BY <2>1 DEF IInv, CellsOK
  <2>2. CASE /\ i >= m /\ missed' = FALSE
             /\ maps' = [maps EXCEPT ![settings] = i]
             /\ live' = [live EXCEPT !.map = Of(settings, i)]
    <3>1. i \in 1..MaxVersion /\ i \in m..i
      BY <1>1, <2>2
    <3>2. maps' \in [Robots -> 1..MaxVersion] /\ maps'[settings] = i
      BY <1>1, <2>2, <3>1 DEF IInv, CellsOK
    <3>3. /\ live' \in [map : Thing, image : Thing, pose : Robots \cup {None}]
          /\ live'.image = live.image /\ live'.pose = live.pose
          /\ live'.map = Of(settings, i)
      BY <1>1, <2>2 DEF IInv, CellsOK
    <3> QED
      BY <3>1, <3>2, <3>3
  <2> QED
    BY <2>1, <2>2 DEF NewMap
<1> HIDE DEF m
<1>5. CellsOK'
  BY <1>1, <1>2, <1>4 DEF IInv, CellsOK
<1>6. SignatureInv'
  <2>1. settings' = settings
    OBVIOUS
  <2> QED
    BY <1>1, <1>2, <1>4, <2>1 DEF SignatureInv, Of
<1>7. CachedIsShown' /\ OneRobotOnScreen' /\ RecordingHasTheImage'
  BY <1>4 DEF IInv, CachedIsShown, OneRobotOnScreen, RecordingHasTheImage, Of
<1> QED
  BY <1>3, <1>5, <1>6, <1>7 DEF IInv

(* An image or a pose, into the screen and into the recording of the       *)
(* message. *)
LEMMA LogImagesStep ==
  ASSUME IInv, NEW v \in 0..MaxVersion, NEW arrives \in BOOLEAN, NEW p \in {settings, None},
         NEW r \in {rec, Closed, Started}, LogImages(v, arrives, r, p),
         settings' = settings
  PROVE  /\ identity' \in 0..MaxVersion
         /\ live' \in [map : Thing, image : Thing, pose : Robots \cup {None}]
         /\ rec' \in [open : BOOLEAN, image : Thing, early : Thing]
         /\ live'.map = live.map
         /\ CachedIsShown' /\ OneRobotOnScreen' /\ RecordingHasTheImage'
<1> DEFINE i == Of(settings, v)
<1>1. i \in Thing /\ i.robot = settings /\ Nothing \in Thing /\ settings \in Robots
  BY ViewAssumption DEF IInv, CellsOK, Of, Nothing, Thing
<1>2. live \in [map : Thing, image : Thing, pose : Robots \cup {None}]
  BY DEF IInv, CellsOK
<1>3. r \in [open : BOOLEAN, image : Thing, early : Thing]
  <2>1. Closed \in [open : BOOLEAN, image : Thing, early : Thing]
    BY <1>1 DEF Closed
  <2>2. Started \in [open : BOOLEAN, image : Thing, early : Thing]
    BY <1>1, <1>2 DEF Started
  <2> QED
    BY <2>1, <2>2 DEF IInv, CellsOK
<1>4. r.open => \/ r.image = live.image
                \/ r.image = Nothing /\ live.image = r.early
  BY DEF IInv, RecordingHasTheImage, Started, Closed
<1> HIDE DEF i
<1>5. CASE arrives
  <2>1. /\ v # 0 /\ identity' = v
        /\ live' = [live EXCEPT !.image = i, !.pose = p]
        /\ rec' = IF r.open THEN [r EXCEPT !.image = i] ELSE r
    BY <1>5 DEF LogImages, IdentityAfter, i
  <2>2. /\ live'.image = i /\ live'.pose = p /\ live'.map = live.map
        /\ live' \in [map : Thing, image : Thing, pose : Robots \cup {None}]
    BY <1>1, <1>2, <2>1
  <2>3. CASE r.open
    <3>1. rec' = [r EXCEPT !.image = i]
      BY <2>1, <2>3
    <3>2. rec' \in [open : BOOLEAN, image : Thing, early : Thing] /\ rec'.image = i
      BY <1>1, <1>3, <3>1
    <3> QED
      BY <1>1, <2>1, <2>2, <3>2
         DEF CachedIsShown, OneRobotOnScreen, RecordingHasTheImage, i, Of
  <2>4. CASE ~r.open
    <3>1. rec' = r
      BY <2>1, <2>4
    <3> QED
      BY <1>1, <1>3, <2>1, <2>2, <2>4, <3>1
         DEF CachedIsShown, OneRobotOnScreen, RecordingHasTheImage, i, Of
  <2> QED
    BY <2>3, <2>4
<1>6. CASE ~arrives
  <2>1. identity' = identity /\ live' = [live EXCEPT !.pose = p] /\ rec' = r
    <3>1. identity' = identity /\ rec' = r /\ live' = [live EXCEPT !.image = @, !.pose = p]
      BY <1>6 DEF LogImages, IdentityAfter
    <3> QED
      BY <1>2, <3>1
  <2>2. /\ live'.image = live.image /\ live'.pose = p /\ live'.map = live.map
        /\ live' \in [map : Thing, image : Thing, pose : Robots \cup {None}]
    BY <1>1, <1>2, <2>1
  <2> QED
    BY <1>3, <1>4, <2>1, <2>2
       DEF IInv, CellsOK, CachedIsShown, OneRobotOnScreen, RecordingHasTheImage, Of, Nothing
<1> QED
  BY <1>5, <1>6

LEMMA Step == IInv /\ [Next]_vars => IInv'
<1> SUFFICES ASSUME IInv, [Next]_vars PROVE IInv'
  OBVIOUS
<1>1. /\ settings \in Robots /\ None \notin Robots /\ MaxVersion \in Nat
      /\ \A r \in Robots : maps[r] \in 1..MaxVersion /\ frames[r] \in 0..MaxVersion
      /\ live \in [map : Thing, image : Thing, pose : Robots \cup {None}]
      /\ Nothing \in Thing
  BY ViewAssumption DEF IInv, CellsOK, Nothing, Of, Thing
(* A step that leaves the map's part alone. *)
<1>2. ASSUME UNCHANGED <<settings, signature, frame, maps, missed>>, live'.map = live.map,
             conn' = "down" \/ conn # "down"
      PROVE  SignatureInv' /\ MissedOK'
  <2>1. MissedOK'
    BY <1>2, Zenon DEF IInv, MissedOK
  <2>2. SignatureInv'
    BY <1>2 DEF IInv, SignatureInv, Of
  <2> QED
    BY <2>1, <2>2
<1>3. CASE UNCHANGED vars
  <2>1. SignatureInv' /\ MissedOK'
    BY <1>3, Zenon DEF IInv, SignatureInv, MissedOK, vars, logger, robot
  <2>2. CellsOK' /\ CachedIsShown' /\ OneRobotOnScreen' /\ RecordingHasTheImage'
    BY <1>3 DEF IInv, CellsOK, CachedIsShown, OneRobotOnScreen, RecordingHasTheImage, Of,
                Nothing, Thing, vars, logger, robot
  <2> QED
    BY <2>1, <2>2 DEF IInv
<1>4. CASE Connect
  <2>1. ASSUME NEW i \in 0..MaxVersion, NewMap(i)
        PROVE  IInv'
    BY <1>4, <2>1, NewMapStep DEF Connect
  <2>2. CASE SameMap
    <3>1. SignatureInv' /\ MissedOK'
      <4>1. signature # 0
        BY <1>1, <2>2 DEF SameMap
      <4>2. MissedOK'
        BY <2>2, Zenon DEF SameMap, IInv, MissedOK
      <4>3. SignatureInv'
        BY <1>4, <2>2, <4>1 DEF Connect, SameMap, IInv, SignatureInv, Of
      <4> QED
        BY <4>2, <4>3
    <3>2. CellsOK' /\ CachedIsShown' /\ OneRobotOnScreen' /\ RecordingHasTheImage'
      BY <1>4, <2>2 DEF Connect, SameMap, IInv, CellsOK, CachedIsShown, OneRobotOnScreen,
                        RecordingHasTheImage, Of, Nothing, Thing, robot
    <3> QED
      BY <3>1, <3>2 DEF IInv
  <2> QED
    BY <1>4, <2>1, <2>2 DEF Connect
<1>5. CASE PollMap
  <2>1. PICK i \in 0..MaxVersion : NewMap(i)
    BY <1>5 DEF PollMap
  <2> QED
    BY <1>5, <2>1, NewMapStep DEF PollMap, IInv, CellsOK
<1>6. CASE Disconnect
  <2>1. SignatureInv' /\ MissedOK'
    BY <1>2, <1>6 DEF Disconnect, robot
  <2>2. CellsOK' /\ CachedIsShown' /\ OneRobotOnScreen' /\ RecordingHasTheImage'
    BY <1>6 DEF Disconnect, IInv, CellsOK, CachedIsShown, OneRobotOnScreen,
                RecordingHasTheImage, Of, Nothing, Thing, robot
  <2> QED
    BY <2>1, <2>2 DEF IInv
<1>7. CASE LogPose
  <2>1. PICK p \in {settings, None} : live' = [live EXCEPT !.pose = p]
    BY <1>7 DEF LogPose
  <2>2. /\ live' \in [map : Thing, image : Thing, pose : Robots \cup {None}]
        /\ live'.map = live.map /\ live'.image = live.image /\ live'.pose = p
    BY <1>1, <2>1
  <2>3. SignatureInv' /\ MissedOK'
    BY <1>2, <1>7, <2>2 DEF LogPose, logger, robot
  <2>4. CellsOK' /\ CachedIsShown' /\ OneRobotOnScreen' /\ RecordingHasTheImage'
    BY <1>7, <2>2 DEF LogPose, IInv, CellsOK, CachedIsShown, OneRobotOnScreen,
                      RecordingHasTheImage, Of, Nothing, Thing, logger, robot
  <2> QED
    BY <2>3, <2>4 DEF IInv
<1>8. CASE LogTaskStatus
  <2>1. rec' \in [open : BOOLEAN, image : Thing, early : Thing]
    <3>1. Closed \in [open : BOOLEAN, image : Thing, early : Thing]
      BY <1>1 DEF Closed
    <3>2. Started \in [open : BOOLEAN, image : Thing, early : Thing]
      BY <1>1 DEF Started
    <3> QED
      BY <1>8, <3>1, <3>2 DEF LogTaskStatus
  <2>2. SignatureInv' /\ MissedOK'
    BY <1>2, <1>8 DEF LogTaskStatus, logger, robot
  <2>3. RecordingHasTheImage'
    BY <1>8 DEF LogTaskStatus, RecordingHasTheImage, Closed, Started, Nothing, Of
  <2>4. CellsOK' /\ CachedIsShown' /\ OneRobotOnScreen'
    BY <1>8, <2>1 DEF LogTaskStatus, IInv, CellsOK, CachedIsShown, OneRobotOnScreen, Of,
                      Thing, logger, robot
  <2> QED
    BY <2>2, <2>3, <2>4 DEF IInv
<1>9. ASSUME NEW arrives \in BOOLEAN, LogSnapshot(arrives)
      PROVE  IInv'
  <2>1. PICK r \in {rec, Closed, Started}, p \in {settings, None} :
          LogImages(frames[settings], arrives, r, p)
    BY <1>9 DEF LogSnapshot
  <2>2. /\ identity' \in 0..MaxVersion
        /\ live' \in [map : Thing, image : Thing, pose : Robots \cup {None}]
        /\ rec' \in [open : BOOLEAN, image : Thing, early : Thing]
        /\ live'.map = live.map
        /\ CachedIsShown' /\ OneRobotOnScreen' /\ RecordingHasTheImage'
    BY <1>1, <1>9, <2>1, LogImagesStep DEF LogSnapshot
  <2>3. SignatureInv' /\ MissedOK'
    BY <1>2, <1>9, <2>2 DEF LogSnapshot, robot
  <2>4. CellsOK'
    BY <1>9, <2>2 DEF LogSnapshot, IInv, CellsOK, Thing, robot
  <2> QED
    BY <2>2, <2>3, <2>4 DEF IInv
<1>10. ASSUME NEW arrives \in BOOLEAN, NEW r \in Robots, NEW v \in 1..MaxVersion,
              AnnounceImage(r, v, arrives)
       PROVE  IInv'
  <2>1. /\ frames' \in [Robots -> 0..MaxVersion]
        /\ UNCHANGED <<settings, conn, signature, frame, maps, missed>>
    BY <1>1, <1>10 DEF AnnounceImage, IInv, CellsOK
  <2>2. /\ identity' \in 0..MaxVersion
        /\ live' \in [map : Thing, image : Thing, pose : Robots \cup {None}]
        /\ rec' \in [open : BOOLEAN, image : Thing, early : Thing]
        /\ live'.map = live.map
        /\ CachedIsShown' /\ OneRobotOnScreen' /\ RecordingHasTheImage'
    <3>1. CASE LogImages(v, arrives, rec, live.pose)
      <4>1. v \in 0..MaxVersion /\ live.pose \in {settings, None}
        BY <1>1 DEF IInv, OneRobotOnScreen
      <4> QED
        BY <2>1, <3>1, <4>1, LogImagesStep
    <3>2. CASE UNCHANGED <<identity, live, rec>>
      BY <2>1, <3>2 DEF IInv, CellsOK, CachedIsShown, OneRobotOnScreen, RecordingHasTheImage,
                        Of, Nothing, Thing
    <3> QED
      BY <1>10, <3>1, <3>2 DEF AnnounceImage
  <2>3. SignatureInv' /\ MissedOK'
    BY <1>2, <2>1, <2>2 DEF IInv, SignatureInv
  <2>4. CellsOK'
    BY <2>1, <2>2 DEF IInv, CellsOK, Thing
  <2> QED
    BY <2>2, <2>3, <2>4 DEF IInv
<1>11. ASSUME NEW r \in Robots, UpdateSettings(r)
       PROVE  IInv'
  <2>1. /\ settings' = r /\ signature' = 0 /\ identity' = 0 /\ frame' = Nothing
        /\ live' = [live EXCEPT !.image = Nothing, !.pose = None] /\ rec' = Closed
        /\ conn = "down" /\ UNCHANGED <<conn, robot, missed>>
    BY <1>11 DEF UpdateSettings, ForgetMap, ForgetImages, Cleared, RecordingOnSwitch
  <2>2. MissedOK'
    BY <2>1, Zenon DEF IInv, MissedOK
  <2>3. /\ live' \in [map : Thing, image : Thing, pose : Robots \cup {None}]
        /\ live'.image = Nothing /\ live'.pose = None
    BY <1>1, <2>1
  <2>4. CellsOK'
    BY <1>1, <2>1, <2>3 DEF IInv, CellsOK, Closed, robot, Thing
  <2>5. SignatureInv' /\ CachedIsShown' /\ OneRobotOnScreen' /\ RecordingHasTheImage'
    BY <2>1, <2>3 DEF SignatureInv, CachedIsShown, OneRobotOnScreen, RecordingHasTheImage,
                      Nothing, Of, Closed
  <2> QED
    BY <2>2, <2>4, <2>5 DEF IInv
<1>12. ASSUME NEW r \in Robots, RestartService(r)
       PROVE  IInv'
  <2>1. /\ settings' = r /\ signature' = 0 /\ identity' = 0 /\ frame' = Nothing
        /\ live' = [map |-> Nothing, image |-> Nothing, pose |-> None] /\ rec' = Closed
        /\ conn' = "down" /\ UNCHANGED <<robot, missed>>
    BY <1>12 DEF RestartService
  <2>2. MissedOK'
    BY <2>1, Zenon DEF IInv, MissedOK
  <2>3. CellsOK'
    BY <1>1, <2>1 DEF IInv, CellsOK, Closed, robot, Thing
  <2>4. SignatureInv' /\ CachedIsShown' /\ OneRobotOnScreen' /\ RecordingHasTheImage'
    BY <2>1 DEF SignatureInv, CachedIsShown, OneRobotOnScreen, RecordingHasTheImage,
                Nothing, Of, Closed
  <2> QED
    BY <2>2, <2>3, <2>4 DEF IInv
<1>13. ASSUME NEW r \in Robots, MapChanges(r)
       PROVE  IInv'
  <2>1. maps' \in [Robots -> 1..MaxVersion]
    BY <1>1, <1>13 DEF MapChanges, IInv, CellsOK
  <2>2. SignatureInv' /\ MissedOK'
    <3>1. /\ UNCHANGED <<settings, conn, signature, frame, live, missed>>
          /\ maps'[settings] \in {maps[settings], maps[settings] + 1}
      BY <1>1, <1>13 DEF MapChanges, logger, IInv, CellsOK
    <3>2. MissedOK' /\ (missed' <=> missed)
      BY <3>1, Zenon DEF IInv, MissedOK
    <3> QED
      BY <1>1, <3>1, <3>2 DEF IInv, CellsOK, SignatureInv, Of
  <2>3. CellsOK' /\ CachedIsShown' /\ OneRobotOnScreen' /\ RecordingHasTheImage'
    BY <1>13, <2>1 DEF MapChanges, IInv, CellsOK, CachedIsShown, OneRobotOnScreen,
                       RecordingHasTheImage, Of, Nothing, Thing, logger
  <2> QED
    BY <2>2, <2>3 DEF IInv
<1> QED
  BY <1>3, <1>4, <1>5, <1>6, <1>7, <1>8, <1>9, <1>10, <1>11, <1>12, <1>13 DEF Next, Announce

----------------------------------------------------------------------------

(* The inductive invariant holds in every reachable state. *)
THEOREM Inductive == Spec => []IInv
  BY InitInv, Step, PTL DEF Spec

(* Every cell of the view keeps its type. *)
THEOREM TypeCorrect == Spec => []TypeOK
<1>1. IInv => TypeOK
  BY TypeHalves DEF IInv
<1> QED
  BY <1>1, Inductive, PTL

(* An image that will not be asked for again is on the screen, and is the  *)
(* present robot's. *)
THEOREM CacheIsHonest == Spec => []CachedIsShown
<1>1. IInv => CachedIsShown
  BY DEF IInv
<1> QED
  BY <1>1, Inductive, PTL

(* Pose and image on the screen are the present robot's. *)
THEOREM NoMixedView == Spec => []OneRobotOnScreen
<1>1. IInv => OneRobotOnScreen
  BY DEF IInv
<1> QED
  BY <1>1, Inductive, PTL

(* An open stream draws poses with the scale of the map on the screen,     *)
(* unless the last metadata came without an image. *)
THEOREM ScaleIsTheMaps == Spec => []PosesFitTheMap
<1>1. IInv => PosesFitTheMap
  BY DEF IInv, SignatureInv, PosesFitTheMap
<1> QED
  BY <1>1, Inductive, PTL

(* The recording in progress has the image on the screen, or that image    *)
(* was there before the recording began. *)
THEOREM ImageIsRecorded == Spec => []RecordingHasTheImage
<1>1. IInv => RecordingHasTheImage
  BY DEF IInv
<1> QED
  BY <1>1, Inductive, PTL

-----------------------------------------------------------------------------
(* OccupancyMask: the decoders of the dynamic map.                         *)

(* Whether one of the first n entries is of class c and covers cell i. *)
Hit(m, n, c, i) ==
    \E k \in 1..n : Ordered(m)[k].class = c /\ Covers(Ordered(m)[k].run, i)

ClassAfter(m, n, i) ==
    IF Hit(m, n, Occupied, i) THEN Occupied
    ELSE IF Hit(m, n, Inflated, i) THEN Inflated ELSE Free

Loop(d) ==
    d.at = "filling" =>
        /\ Drawable(message)
        /\ d.done \in 0..Len(Ordered(message))
        /\ d.mask = [i \in 0..(Cells(message) - 1) |-> ClassAfter(message, d.done, i)]

(* What is on one screen while the other decoder is still at the message. *)
Agree ==
    ~gaveUp =>
        /\ (viewer.at = "idle" /\ sidecar.at = "filling") => viewer.screen = Picture(message)
        /\ (sidecar.at = "idle" /\ viewer.at = "filling") => sidecar.screen = Picture(message)
        /\ (viewer.at = "idle" /\ sidecar.at = "idle") => viewer.screen = sidecar.screen

MaskIInv == MaskTypeOK /\ Loop(viewer) /\ Loop(sidecar) /\ Agree

----------------------------------------------------------------------------

(* The runs of a message form sequences. *)
LEMMA RunsAreSequences ==
    ASSUME MaskAssumption
    PROVE
    \A m \in Message :
        /\ m.inflated \in Seq(Run) /\ m.occupied \in Seq(Run)
        /\ Inflations(m) \in Nat /\ Occupations(m) \in Nat
        /\ Inflations(m) + Occupations(m) <= MaxRuns
        /\ DOMAIN m.inflated = 1..Inflations(m)
        /\ DOMAIN m.occupied = 1..Occupations(m)
<1>1. ASSUME NEW r \in Runs PROVE r \in Seq(Run)
  <2>1. PICK n \in 0..MaxRuns : r \in [1..n -> Sent] BY DEF Runs
  <2>2. r \in [1..n -> Run] /\ n \in Nat BY <2>1, MaskAssumption DEF MaskAssumption
  <2>q. QED BY <2>2, SeqDef
<1>2. <<>> \in Seq(Run) /\ Len(<<>>) = 0 OBVIOUS
<1>3. Empty.inflated = <<>> /\ Empty.occupied = <<>> BY DEF Empty
<1>4. Inflations(Empty) = 0 /\ Occupations(Empty) = 0
  BY <1>2, <1>3, Zenon DEF Inflations, Occupations
<1>5. ASSUME NEW m \in Message, m # Empty
      PROVE  /\ m.inflated \in Runs /\ m.occupied \in Runs
             /\ Inflations(m) + Occupations(m) <= MaxRuns
  BY <1>5 DEF Message
<1>6. ASSUME NEW r \in Seq(Run) PROVE Len(r) \in Nat /\ DOMAIN r = 1..Len(r)
  OBVIOUS
<1>7. TAKE m \in Message
<1>8. m.inflated \in Seq(Run) /\ m.occupied \in Seq(Run)
  BY <1>1, <1>2, <1>3, <1>5, Zenon
<1>9. Inflations(m) + Occupations(m) <= MaxRuns
  <2>1. CASE m = Empty BY <1>4, <2>1, MaskAssumption DEF MaskAssumption
  <2>2. CASE m # Empty BY <1>5, <2>2
  <2>q. QED BY <2>1, <2>2
<1>10. /\ Inflations(m) \in Nat /\ Occupations(m) \in Nat
       /\ DOMAIN m.inflated = 1..Inflations(m) /\ DOMAIN m.occupied = 1..Occupations(m)
  BY <1>6, <1>8, Zenon DEF Inflations, Occupations
<1>q. QED BY <1>8, <1>9, <1>10

(* Ordered lists every run once, the inflated ones first. *)
LEMMA OrderedRuns ==
    ASSUME MaskAssumption
    PROVE
    \A m \in Message :
        /\ Len(Ordered(m)) = Inflations(m) + Occupations(m)
        /\ Len(Ordered(m)) \in 0..MaxRuns
        /\ \A n \in 1..Len(Ordered(m)) :
            /\ Ordered(m)[n].run \in Run
            /\ n <= Inflations(m) =>
                   Ordered(m)[n].run = m.inflated[n] /\ Ordered(m)[n].class = Inflated
            /\ n > Inflations(m) =>
                   /\ Ordered(m)[n].run = m.occupied[n - Inflations(m)]
                   /\ Ordered(m)[n].class = Occupied
<1> TAKE m \in Message
<1> DEFINE N == Inflations(m) + Occupations(m)
<1>1. /\ N \in Nat /\ N \in 0..MaxRuns
      /\ Inflations(m) \in Nat /\ Occupations(m) \in Nat
  BY RunsAreSequences, MaskAssumption DEF MaskAssumption
<1>2. m.inflated \in [1..Inflations(m) -> Run] /\ m.occupied \in [1..Occupations(m) -> Run]
  <2>1. m.inflated \in Seq(Run) /\ m.occupied \in Seq(Run) BY RunsAreSequences
  <2>2. \A r \in Seq(Run) : r \in [1..Len(r) -> Run] OBVIOUS
  <2>q. QED BY <2>1, <2>2, Zenon DEF Inflations, Occupations
<1>3. Ordered(m) = [n \in 1..N |->
        IF n <= Inflations(m) THEN [run |-> m.inflated[n], class |-> Inflated]
        ELSE [run |-> m.occupied[n - Inflations(m)], class |-> Occupied]]
  BY DEF Ordered
<1>4. Len(Ordered(m)) = N BY <1>1, <1>3
<1>5. ASSUME NEW n \in 1..N, n <= Inflations(m)
      PROVE  Ordered(m)[n].run = m.inflated[n] /\ Ordered(m)[n].class = Inflated
             /\ m.inflated[n] \in Run
  <2>1. n \in 1..Inflations(m) BY <1>1, <1>5
  <2>2. Ordered(m)[n] = [run |-> m.inflated[n], class |-> Inflated] BY <1>3, <1>5
  <2>3. m.inflated[n] \in Run BY <1>2, <2>1
  <2>q. QED BY <2>2, <2>3
<1>6. ASSUME NEW n \in 1..N, n > Inflations(m)
      PROVE  Ordered(m)[n].run = m.occupied[n - Inflations(m)]
             /\ Ordered(m)[n].class = Occupied /\ m.occupied[n - Inflations(m)] \in Run
  <2>1. n - Inflations(m) \in 1..Occupations(m) BY <1>1, <1>6
  <2>2. ~(n <= Inflations(m)) BY <1>1, <1>6
  <2>3. Ordered(m)[n] = [run |-> m.occupied[n - Inflations(m)], class |-> Occupied]
    BY <1>3, <2>2
  <2>4. m.occupied[n - Inflations(m)] \in Run BY <1>2, <2>1
  <2>q. QED BY <2>3, <2>4
<1>7. ASSUME NEW n \in 1..N PROVE n <= Inflations(m) \/ n > Inflations(m)
  BY <1>1
<1>q. QED BY <1>1, <1>4, <1>5, <1>6, <1>7

(* With every run filled in, the mask is the picture of the message. *)
LEMMA AllRunsArePicture ==
    ASSUME MaskAssumption, NEW m \in Message
    PROVE  [i \in 0..(Cells(m) - 1) |-> ClassAfter(m, Len(Ordered(m)), i)] = Picture(m)
<1> DEFINE N == Len(Ordered(m))
<1>1. /\ Inflations(m) \in Nat /\ Occupations(m) \in Nat
      /\ DOMAIN m.inflated = 1..Inflations(m)
      /\ DOMAIN m.occupied = 1..Occupations(m)
      /\ N = Inflations(m) + Occupations(m)
  BY RunsAreSequences, OrderedRuns
<1>2. ASSUME NEW i \in 0..(Cells(m) - 1)
      PROVE  ClassAfter(m, N, i) = ClassOf(m, i)
  <2>1. ASSUME Hit(m, N, Occupied, i) PROVE Covered(m.occupied, i)
    <3>1. PICK k \in 1..N : Ordered(m)[k].class = Occupied /\ Covers(Ordered(m)[k].run, i)
      BY <2>1 DEF Hit
    <3>2. k > Inflations(m) BY <3>1, <1>1, OrderedRuns DEF Inflated, Occupied
    <3>3. k - Inflations(m) \in DOMAIN m.occupied BY <1>1, <3>2
    <3>4. Covers(m.occupied[k - Inflations(m)], i) BY <3>1, <3>2, OrderedRuns
    <3>q. QED BY <3>3, <3>4 DEF Covered
  <2>2. ASSUME Covered(m.occupied, i) PROVE Hit(m, N, Occupied, i)
    <3>1. PICK n \in DOMAIN m.occupied : Covers(m.occupied[n], i) BY <2>2 DEF Covered
    <3>2. n + Inflations(m) \in 1..N /\ n + Inflations(m) > Inflations(m)
          /\ (n + Inflations(m)) - Inflations(m) = n
      BY <1>1
    <3>3. /\ Ordered(m)[n + Inflations(m)].run = m.occupied[n]
          /\ Ordered(m)[n + Inflations(m)].class = Occupied
      BY <3>2, OrderedRuns
    <3>q. QED BY <3>1, <3>2, <3>3 DEF Hit
  <2>3. ASSUME Hit(m, N, Inflated, i) PROVE Covered(m.inflated, i)
    <3>1. PICK k \in 1..N : Ordered(m)[k].class = Inflated /\ Covers(Ordered(m)[k].run, i)
      BY <2>3 DEF Hit
    <3>2. k <= Inflations(m)
      <4>1. SUFFICES ASSUME k > Inflations(m) PROVE FALSE BY <1>1
      <4>2. Ordered(m)[k].class = Occupied BY <4>1, OrderedRuns
      <4>q. QED BY <3>1, <4>2 DEF Inflated, Occupied
    <3>3. k \in DOMAIN m.inflated BY <1>1, <3>2
    <3>4. Covers(m.inflated[k], i) BY <3>1, <3>2, OrderedRuns
    <3>q. QED BY <3>3, <3>4 DEF Covered
  <2>4. ASSUME Covered(m.inflated, i) PROVE Hit(m, N, Inflated, i)
    <3>1. PICK n \in DOMAIN m.inflated : Covers(m.inflated[n], i) BY <2>4 DEF Covered
    <3>2. n \in 1..N /\ n <= Inflations(m) BY <1>1
    <3>3. Ordered(m)[n].run = m.inflated[n] /\ Ordered(m)[n].class = Inflated
      BY <3>2, OrderedRuns
    <3>q. QED BY <3>1, <3>2, <3>3 DEF Hit
  <2>q. QED BY <2>1, <2>2, <2>3, <2>4 DEF ClassAfter, ClassOf
<1>q. QED BY <1>2 DEF Picture

(* One more run: what it covers takes its class, the rest stays. *)
LEMMA OneMoreRun ==
    ASSUME MaskAssumption, NEW m \in Message, NEW n \in 0..(Len(Ordered(m)) - 1), NEW i \in Nat
    PROVE  ClassAfter(m, n + 1, i) =
             IF Covers(Ordered(m)[n + 1].run, i) THEN Ordered(m)[n + 1].class
             ELSE ClassAfter(m, n, i)
<1> DEFINE f == Ordered(m)[n + 1]
<1>1. /\ Inflations(m) \in Nat /\ Len(Ordered(m)) \in Nat /\ n \in Nat
      /\ n + 1 \in 1..Len(Ordered(m))
  BY RunsAreSequences, OrderedRuns, MaskAssumption DEF MaskAssumption
<1>2. \A c : Hit(m, n + 1, c, i) <=> Hit(m, n, c, i) \/ (f.class = c /\ Covers(f.run, i))
  <2>1. 1..(n + 1) = (1..n) \cup {n + 1} BY <1>1
  <2>q. QED BY <2>1 DEF Hit
<1>3. CASE n + 1 <= Inflations(m)
  <2>1. f.class = Inflated BY <1>1, <1>3, OrderedRuns
  <2>2. ~Hit(m, n, Occupied, i)
    <3>1. \A k \in 1..n : Ordered(m)[k].class = Inflated
      <4>1. TAKE k \in 1..n
      <4>2. k \in 1..Len(Ordered(m)) /\ k <= Inflations(m) BY <1>1, <1>3
      <4>q. QED BY <4>2, OrderedRuns
    <3>q. QED BY <3>1 DEF Hit, Inflated, Occupied
  <2>q. QED BY <1>2, <2>1, <2>2 DEF ClassAfter, Inflated, Occupied
<1>4. CASE n + 1 > Inflations(m)
  <2>1. f.class = Occupied BY <1>1, <1>4, OrderedRuns
  <2>q. QED BY <1>2, <2>1 DEF ClassAfter, Inflated, Occupied
<1>q. QED BY <1>1, <1>3, <1>4

----------------------------------------------------------------------------
(* What one fill does                                                      *)

LEMMA CellsAreCounted ==
    ASSUME MaskAssumption
    PROVE
    \A m \in Message : Cells(m) \in Int /\ (Drawable(m) => Cells(m) \in 1..MaxWord)
<1>1. \A m \in Message : m.size[1] \in Nat /\ m.size[2] \in Nat
  <2>1. TAKE m \in Message
  <2>2. CASE m = Empty BY <2>2 DEF Empty
  <2>3. CASE m # Empty
    <3>1. m.size \in Sizes BY <2>3 DEF Message
    <3>q. QED BY <3>1, MaskAssumption DEF MaskAssumption
  <2>q. QED BY <2>2, <2>3
<1>q. QED BY <1>1 DEF Cells, Drawable

LEMMA ClassesOfCells ==
    \A m, n, i : ClassAfter(m, n, i) \in Classes
BY DEF ClassAfter, Classes, Free, Inflated, Occupied

(* A fill of the cells a run covers keeps the loop invariant. *)
LEMMA FillKeepsLoop ==
    ASSUME MaskAssumption
    PROVE
    \A m \in Message : \A n \in 0..(Len(Ordered(m)) - 1) : \A start, end :
        (/\ Drawable(m)
         /\ \A i \in 0..(Cells(m) - 1) :
               (start <= i /\ i < end) <=> Covers(Ordered(m)[n + 1].run, i))
        => Filled([i \in 0..(Cells(m) - 1) |-> ClassAfter(m, n, i)], start, end,
                  Ordered(m)[n + 1].class)
             = [i \in 0..(Cells(m) - 1) |-> ClassAfter(m, n + 1, i)]
<1> TAKE m \in Message
<1> TAKE n \in 0..(Len(Ordered(m)) - 1)
<1> TAKE start, end
<1> HAVE /\ Drawable(m)
         /\ \A i \in 0..(Cells(m) - 1) :
               (start <= i /\ i < end) <=> Covers(Ordered(m)[n + 1].run, i)
<1> DEFINE Old == [i \in 0..(Cells(m) - 1) |-> ClassAfter(m, n, i)]
<1>1. \A i \in 0..(Cells(m) - 1) : i \in Nat BY CellsAreCounted
<1>2. ASSUME NEW i \in 0..(Cells(m) - 1)
      PROVE  (IF start <= i /\ i < end THEN Ordered(m)[n + 1].class ELSE Old[i])
               = ClassAfter(m, n + 1, i)
  <2>1. ClassAfter(m, n + 1, i) =
          IF Covers(Ordered(m)[n + 1].run, i) THEN Ordered(m)[n + 1].class
          ELSE ClassAfter(m, n, i)
    BY <1>1, OneMoreRun
  <2>2. (start <= i /\ i < end) <=> Covers(Ordered(m)[n + 1].run, i) OBVIOUS
  <2>3. Old[i] = ClassAfter(m, n, i) OBVIOUS
  <2>q. QED BY <2>1, <2>2, <2>3, Zenon
<1>3. DOMAIN Old = 0..(Cells(m) - 1) OBVIOUS
<1>q. QED BY <1>2, <1>3 DEF Filled


(* The viewer's words and the sidecar's integers end at the same cell, for *)
(* every cell of the mask.                                                 *)
LEMMA WordsCover ==
    ASSUME MaskAssumption, NEW r \in Run, NEW cells \in 0..MaxWord, NEW i \in 0..(cells - 1)
    PROVE  LET length == IF r.whole THEN Word(r.length) ELSE 0
           IN (/\ Word(r.start) <= i
               /\ i < Least(Plus(Word(r.start), length), cells)) <=> Covers(r, i)
BY MaskAssumption DEF MaskAssumption, Run, Word, AtLeastZero, Plus, Least, Covers

LEMMA IntegersCover ==
    ASSUME MaskAssumption, NEW r \in Run, r.whole, NEW cells \in 0..MaxWord, NEW i \in 0..(cells - 1)
    PROVE  (/\ First(r.start) <= i
            /\ i < Least(cells, First(r.start) + AtLeastZero(r.length))) <=> Covers(r, i)
BY MaskAssumption DEF MaskAssumption, Run, First, AtLeastZero, Least, Covers

LEMMA MasksAreMasks ==
    ASSUME MaskAssumption
    PROVE
    /\ Blank \in Masks
    /\ \A m \in Message : \A n :
         Drawable(m) => [i \in 0..(Cells(m) - 1) |-> ClassAfter(m, n, i)] \in Masks
<1>1. Blank \in [0..(0 - 1) -> Classes] BY DEF Blank
<1>2. 0 \in 0..MaxWord BY MaskAssumption DEF MaskAssumption
<1>3. ASSUME NEW m \in Message, NEW n, Drawable(m)
      PROVE  [i \in 0..(Cells(m) - 1) |-> ClassAfter(m, n, i)] \in Masks
  <2>1. Cells(m) \in 0..MaxWord BY <1>3, CellsAreCounted, MaskAssumption DEF MaskAssumption
  <2>2. [i \in 0..(Cells(m) - 1) |-> ClassAfter(m, n, i)] \in [0..(Cells(m) - 1) -> Classes]
    BY ClassesOfCells
  <2>q. QED BY <2>1, <2>2 DEF Masks
<1>q. QED BY <1>1, <1>2, <1>3 DEF Masks

(* A decoder whose last run is filled in holds the picture. *)
LEMMA LoopEnds ==
    ASSUME MaskAssumption, NEW d \in Decoder, message \in Message, Loop(d), d.at = "filling", ~Todo(d)
    PROVE  d.mask = Picture(message)
<1>1. d.done \in 0..Len(Ordered(message)) /\ Len(Ordered(message)) \in Nat
  BY OrderedRuns, MaskAssumption DEF MaskAssumption, Loop
<1>2. d.done = Len(Ordered(message)) BY <1>1 DEF Todo
<1>3. d.mask = [i \in 0..(Cells(message) - 1) |-> ClassAfter(message, d.done, i)]
  BY DEF Loop
<1>q. QED BY <1>2, <1>3, AllRunsArePicture, Zenon

(* No run is filled in yet. *)
LEMMA LoopBegins ==
    ASSUME MaskAssumption, NEW m \in Message, Drawable(m)
    PROVE  /\ 0 \in 0..Len(Ordered(m))
           /\ [i \in 0..(Cells(m) - 1) |-> Free]
                = [i \in 0..(Cells(m) - 1) |-> ClassAfter(m, 0, i)]
<1>1. 0 \in 0..Len(Ordered(m)) BY OrderedRuns, MaskAssumption DEF MaskAssumption
<1>2. \A i : ClassAfter(m, 0, i) = Free BY DEF ClassAfter, Hit
<1>q. QED BY <1>1, <1>2

(* One fill of either program, given the cells it writes. *)
LEMMA FillStep ==
    ASSUME MaskAssumption, NEW d \in Decoder, message \in Message, Loop(d), Todo(d), NEW start, NEW end,
           \A i \in 0..(Cells(message) - 1) :
               (start <= i /\ i < end) <=> Covers(NextFill(d).run, i)
    PROVE  LET e == [d EXCEPT !.done = d.done + 1,
                              !.mask = Filled(d.mask, start, end, NextFill(d).class)]
           IN /\ e \in Decoder /\ e.at = "filling" /\ e.screen = d.screen
              /\ Loop(e)
<1> DEFINE n == d.done
           e == [d EXCEPT !.done = d.done + 1,
                          !.mask = Filled(d.mask, start, end, NextFill(d).class)]
<1>1. /\ d.at = "filling" /\ Drawable(message)
      /\ n \in 0..(Len(Ordered(message)) - 1) /\ n + 1 \in 0..Len(Ordered(message))
      /\ n + 1 \in 0..MaxRuns
      /\ d.mask = [i \in 0..(Cells(message) - 1) |-> ClassAfter(message, n, i)]
  BY OrderedRuns, MaskAssumption DEF MaskAssumption, Loop, Todo
<1>2. NextFill(d) = Ordered(message)[n + 1] BY DEF NextFill
<1>3. Filled(d.mask, start, end, NextFill(d).class)
        = [i \in 0..(Cells(message) - 1) |-> ClassAfter(message, n + 1, i)]
  <2>1. \A i \in 0..(Cells(message) - 1) :
            (start <= i /\ i < end) <=> Covers(Ordered(message)[n + 1].run, i)
    BY <1>2
  <2>2. Filled([i \in 0..(Cells(message) - 1) |-> ClassAfter(message, n, i)], start, end,
               Ordered(message)[n + 1].class)
          = [i \in 0..(Cells(message) - 1) |-> ClassAfter(message, n + 1, i)]
    <3> HIDE DEF n
    <3>1. \A k \in 0..(Len(Ordered(message)) - 1) : \A s, t :
             (/\ Drawable(message)
              /\ \A i \in 0..(Cells(message) - 1) :
                    (s <= i /\ i < t) <=> Covers(Ordered(message)[k + 1].run, i))
             => Filled([i \in 0..(Cells(message) - 1) |-> ClassAfter(message, k, i)], s, t,
                       Ordered(message)[k + 1].class)
                  = [i \in 0..(Cells(message) - 1) |-> ClassAfter(message, k + 1, i)]
      BY FillKeepsLoop
    <3>q. QED BY <1>1, <2>1, <3>1
  <2>q. QED BY <1>1, <1>2, <2>2, Zenon
<1>4. Filled(d.mask, start, end, NextFill(d).class) \in Masks
  <2>1. message \in Message /\ Drawable(message) BY <1>1
  <2>2. [i \in 0..(Cells(message) - 1) |-> ClassAfter(message, n + 1, i)] \in Masks
    <3> HIDE DEF n
    <3>q. QED BY <2>1, MasksAreMasks
  <2>q. QED BY <1>3, <2>2, Zenon
<1>5. /\ e.at = "filling" /\ e.done = n + 1 /\ e.screen = d.screen
      /\ e.mask = Filled(d.mask, start, end, NextFill(d).class)
      /\ e \in Decoder
  BY <1>1, <1>4 DEF Decoder
<1>6. Loop(e)
  <2>1. e.mask = [i \in 0..(Cells(message) - 1) |-> ClassAfter(message, e.done, i)]
    BY <1>3, <1>5
  <2>q. QED BY <1>1, <1>5, <2>1 DEF Loop
<1>q. QED BY <1>5, <1>6

----------------------------------------------------------------------------
(* The inductive invariant                                                 *)

LEMMA InitMaskIInv == ASSUME MaskAssumption PROVE MaskInit => MaskIInv
<1> SUFFICES ASSUME MaskInit PROVE MaskIInv OBVIOUS
<1>1. Idle \in Decoder /\ Idle.at = "idle" BY MasksAreMasks, MaskAssumption DEF MaskAssumption, Idle, Decoder
<1>2. MaskTypeOK BY <1>1 DEF MaskInit, MaskTypeOK, Message
<1>q. QED BY <1>1, <1>2 DEF MaskInit, MaskIInv, Loop, Agree, Idle

LEMMA NextIInv == ASSUME MaskAssumption PROVE MaskIInv /\ [MaskNext]_maskVars => MaskIInv'
<1> SUFFICES ASSUME MaskIInv, [MaskNext]_maskVars PROVE MaskIInv' OBVIOUS
<1> USE DEF MaskIInv
<1>t. message \in Message /\ viewer \in Decoder /\ sidecar \in Decoder /\ gaveUp \in BOOLEAN
  BY DEF MaskTypeOK
<1>a. viewer.at \in {"idle", "filling"} /\ sidecar.at \in {"idle", "filling"}
  BY <1>t DEF Decoder
<1>1. CASE Receive
  <2>1. /\ message' \in Message /\ (message'.clear \/ Drawable(message')) /\ gaveUp' = FALSE
        /\ viewer' = Received(viewer, message') /\ sidecar' = Received(sidecar, message')
        /\ viewer.at = "idle" /\ sidecar.at = "idle"
    BY <1>1 DEF Receive
  <2>2. CASE message'.clear
    <3>1. /\ viewer' = [viewer EXCEPT !.screen = Blank]
          /\ sidecar' = [sidecar EXCEPT !.screen = Blank]
      BY <2>1, <2>2 DEF Received
    <3>2. /\ viewer' \in Decoder /\ viewer'.at = "idle" /\ viewer'.screen = Blank
          /\ sidecar' \in Decoder /\ sidecar'.at = "idle" /\ sidecar'.screen = Blank
      BY <1>t, <2>1, <3>1, MasksAreMasks DEF Decoder
    <3>q. QED BY <2>1, <3>2 DEF MaskTypeOK, Loop, Agree
  <2>3. CASE ~message'.clear
    <3> DEFINE New == [i \in 0..(Cells(message') - 1) |-> Free]
    <3>1. Drawable(message') BY <2>1, <2>3
    <3>2. /\ viewer' = [viewer EXCEPT !.at = "filling", !.done = 0, !.mask = New]
          /\ sidecar' = [sidecar EXCEPT !.at = "filling", !.done = 0, !.mask = New]
      BY <2>1, <2>3, <3>1 DEF Received
    <3>3. New = [i \in 0..(Cells(message') - 1) |-> ClassAfter(message', 0, i)]
          /\ 0 \in 0..Len(Ordered(message'))
      BY <2>1, <3>1, LoopBegins
    <3>4. New \in Masks BY <2>1, <3>1, <3>3, MasksAreMasks, Zenon
    <3>5. /\ viewer' \in Decoder /\ viewer'.at = "filling" /\ viewer'.done = 0
          /\ viewer'.mask = New
          /\ sidecar' \in Decoder /\ sidecar'.at = "filling" /\ sidecar'.done = 0
          /\ sidecar'.mask = New
      <4>1. 0 \in 0..MaxRuns BY MaskAssumption DEF MaskAssumption
      <4>q. QED BY <1>t, <3>2, <3>4, <4>1 DEF Decoder
    <3>6. Loop(viewer)' /\ Loop(sidecar)' BY <3>1, <3>3, <3>5 DEF Loop
    <3>q. QED BY <2>1, <3>5, <3>6 DEF MaskTypeOK, Agree
  <2>q. QED BY <2>2, <2>3
<1>2. CASE Ignore \/ UNCHANGED maskVars
  <2>1. message' = message /\ viewer' = viewer /\ sidecar' = sidecar /\ gaveUp' = gaveUp
    BY <1>2 DEF Ignore, maskVars
  <2>2. Loop(viewer)' /\ Loop(sidecar)' BY <2>1 DEF Loop, Drawable, Cells, ClassAfter, Hit
  <2>3. Picture(message)' = Picture(message) BY <2>1
  <2>q. QED BY <2>1, <2>2, <2>3 DEF MaskTypeOK, Agree
<1>3. CASE ViewerFill
  <2> DEFINE f == NextFill(viewer)
             start == Word(f.run.start)
             length == IF f.run.whole THEN Word(f.run.length) ELSE 0
             end == Least(Plus(start, length), Cells(message))
  <2>1. /\ Todo(viewer)
        /\ viewer' = [viewer EXCEPT !.done = viewer.done + 1,
                                    !.mask = Filled(viewer.mask, start, end, f.class)]
        /\ message' = message /\ sidecar' = sidecar /\ gaveUp' = gaveUp
    BY <1>3 DEF ViewerFill
  <2>2. f.run \in Run /\ Cells(message) \in 0..MaxWord
    <3>1. Drawable(message) /\ viewer.done + 1 \in 1..Len(Ordered(message))
      BY <1>t, <2>1, OrderedRuns, MaskAssumption DEF MaskAssumption, Loop, Todo
    <3>q. QED BY <1>t, <3>1, OrderedRuns, CellsAreCounted, MaskAssumption DEF MaskAssumption, NextFill
  <2>3. \A i \in 0..(Cells(message) - 1) : (start <= i /\ i < end) <=> Covers(f.run, i)
    BY <2>2, WordsCover
  <2>4. /\ viewer' \in Decoder /\ viewer'.at = "filling" /\ viewer'.screen = viewer.screen
        /\ Loop(viewer')
    <3> DEFINE e == [viewer EXCEPT !.done = viewer.done + 1,
                                   !.mask = Filled(viewer.mask, start, end, f.class)]
    <3>1. e \in Decoder /\ e.at = "filling" /\ e.screen = viewer.screen /\ Loop(e)
      <4> HIDE DEF start, end
      <4>q. QED BY <1>t, <2>1, <2>3, FillStep
    <3>2. viewer' = e BY <2>1
    <3>q. QED BY <3>1, <3>2
  <2>5. viewer.at = "filling" BY <2>1 DEF Todo
  <2>6. Loop(viewer)' BY <2>1, <2>4 DEF Loop, Drawable, Cells, ClassAfter, Hit
  <2>7. Loop(sidecar)' BY <2>1 DEF Loop, Drawable, Cells, ClassAfter, Hit
  <2>8. Agree'
    <3>1. Picture(message)' = Picture(message) BY <2>1
    <3>q. QED BY <2>1, <2>4, <2>5, <3>1 DEF Agree
  <2>q. QED BY <1>t, <2>1, <2>4, <2>6, <2>7, <2>8 DEF MaskTypeOK
<1>4. CASE ViewerDraw
  <2>1. /\ viewer.at = "filling" /\ ~Todo(viewer)
        /\ viewer' = [viewer EXCEPT !.at = "idle", !.mask = Blank, !.screen = viewer.mask]
        /\ message' = message /\ sidecar' = sidecar /\ gaveUp' = gaveUp
    BY <1>4 DEF ViewerDraw, Drew
  <2>2. viewer.mask = Picture(message) BY <1>t, <2>1, LoopEnds
  <2>3. viewer' \in Decoder /\ viewer'.at = "idle" /\ viewer'.screen = Picture(message)
    BY <1>t, <2>1, <2>2, MasksAreMasks DEF Decoder
  <2>4. Loop(viewer)' BY <2>3 DEF Loop
  <2>5. Loop(sidecar)' BY <2>1 DEF Loop, Drawable, Cells, ClassAfter, Hit
  <2>6. Agree'
    <3>1. Picture(message)' = Picture(message) BY <2>1
    <3>q. QED BY <1>a, <2>1, <2>3, <3>1 DEF Agree
  <2>q. QED BY <1>t, <2>1, <2>3, <2>4, <2>5, <2>6 DEF MaskTypeOK
<1>5. CASE SidecarFill
  <2> DEFINE f == NextFill(sidecar)
             start == First(f.run.start)
             end == Least(Cells(message), start + AtLeastZero(f.run.length))
  <2>1. /\ Todo(sidecar) /\ f.run.whole
        /\ sidecar' = [sidecar EXCEPT !.done = sidecar.done + 1,
                                      !.mask = Filled(sidecar.mask, start, end, f.class)]
        /\ message' = message /\ viewer' = viewer /\ gaveUp' = gaveUp
    BY <1>5 DEF SidecarFill
  <2>2. f.run \in Run /\ Cells(message) \in 0..MaxWord
    <3>1. Drawable(message) /\ sidecar.done + 1 \in 1..Len(Ordered(message))
      BY <1>t, <2>1, OrderedRuns, MaskAssumption DEF MaskAssumption, Loop, Todo
    <3>q. QED BY <1>t, <3>1, OrderedRuns, CellsAreCounted, MaskAssumption DEF MaskAssumption, NextFill
  <2>3. \A i \in 0..(Cells(message) - 1) : (start <= i /\ i < end) <=> Covers(f.run, i)
    BY <2>1, <2>2, IntegersCover
  <2>4. /\ sidecar' \in Decoder /\ sidecar'.at = "filling" /\ sidecar'.screen = sidecar.screen
        /\ Loop(sidecar')
    <3> DEFINE e == [sidecar EXCEPT !.done = sidecar.done + 1,
                                    !.mask = Filled(sidecar.mask, start, end, f.class)]
    <3>1. e \in Decoder /\ e.at = "filling" /\ e.screen = sidecar.screen /\ Loop(e)
      <4> HIDE DEF start, end
      <4>q. QED BY <1>t, <2>1, <2>3, FillStep
    <3>2. sidecar' = e BY <2>1
    <3>q. QED BY <3>1, <3>2
  <2>5. sidecar.at = "filling" BY <2>1 DEF Todo
  <2>6. Loop(sidecar)' BY <2>1, <2>4 DEF Loop, Drawable, Cells, ClassAfter, Hit
  <2>7. Loop(viewer)' BY <2>1 DEF Loop, Drawable, Cells, ClassAfter, Hit
  <2>8. Agree'
    <3>1. Picture(message)' = Picture(message) BY <2>1
    <3>q. QED BY <2>1, <2>4, <2>5, <3>1 DEF Agree
  <2>q. QED BY <1>t, <2>1, <2>4, <2>6, <2>7, <2>8 DEF MaskTypeOK
<1>6. CASE SidecarRaises
  <2>1. /\ sidecar' = [sidecar EXCEPT !.at = "idle", !.mask = Blank] /\ gaveUp' = TRUE
        /\ message' = message /\ viewer' = viewer
    BY <1>6 DEF SidecarRaises
  <2>2. sidecar' \in Decoder /\ sidecar'.at = "idle"
    BY <1>t, <2>1, MasksAreMasks DEF Decoder
  <2>3. Loop(viewer)' BY <2>1 DEF Loop, Drawable, Cells, ClassAfter, Hit
  <2>q. QED BY <1>t, <2>1, <2>2, <2>3 DEF MaskTypeOK, Loop, Agree
<1>7. CASE SidecarDraw
  <2>1. /\ sidecar.at = "filling" /\ ~Todo(sidecar)
        /\ sidecar' = [sidecar EXCEPT !.at = "idle", !.mask = Blank, !.screen = sidecar.mask]
        /\ message' = message /\ viewer' = viewer /\ gaveUp' = gaveUp
    BY <1>7 DEF SidecarDraw, Drew
  <2>2. sidecar.mask = Picture(message) BY <1>t, <2>1, LoopEnds
  <2>3. sidecar' \in Decoder /\ sidecar'.at = "idle" /\ sidecar'.screen = Picture(message)
    BY <1>t, <2>1, <2>2, MasksAreMasks DEF Decoder
  <2>4. Loop(sidecar)' BY <2>3 DEF Loop
  <2>5. Loop(viewer)' BY <2>1 DEF Loop, Drawable, Cells, ClassAfter, Hit
  <2>6. Agree'
    <3>1. Picture(message)' = Picture(message) BY <2>1
    <3>q. QED BY <1>a, <2>1, <2>3, <3>1 DEF Agree
  <2>q. QED BY <1>t, <2>1, <2>3, <2>4, <2>5, <2>6 DEF MaskTypeOK
<1>q. QED BY <1>1, <1>2, <1>3, <1>4, <1>5, <1>6, <1>7 DEF MaskNext

LEMMA MaskInductive == ASSUME MaskAssumption PROVE MaskSpec => []MaskIInv
<1>1. MaskInit => MaskIInv BY InitMaskIInv
<1>2. MaskIInv /\ [MaskNext]_maskVars => MaskIInv' BY NextIInv
<1>q. QED BY <1>1, <1>2, PTL DEF MaskSpec

----------------------------------------------------------------------------

(* Message, decoders and screens keep their types, for words and masks of  *)
(* any size and any runs.                                                  *)
THEOREM MaskTypeCorrect == ASSUME MaskAssumption PROVE MaskSpec => []MaskTypeOK
<1>1. MaskIInv => MaskTypeOK BY DEF MaskIInv
<1>2. MaskSpec => []MaskIInv BY MaskInductive
<1>q. QED BY <1>1, <1>2, PTL

(* The viewer draws exactly what the runs say, whatever their order,       *)
(* overlaps and lengths: saturating words lose nothing.                    *)
THEOREM ViewerDraws == ASSUME MaskAssumption PROVE MaskSpec => []ViewerDrawsTheRuns
<1>1. MaskIInv => ViewerDrawsTheRuns
  BY LoopEnds DEF MaskIInv, MaskTypeOK, ViewerDrawsTheRuns, HasFilled
<1>2. MaskSpec => []MaskIInv BY MaskInductive
<1>q. QED BY <1>1, <1>2, PTL

(* So does the Python sidecar. *)
THEOREM SidecarDraws == ASSUME MaskAssumption PROVE MaskSpec => []SidecarDrawsTheRuns
<1>1. MaskIInv => SidecarDrawsTheRuns
  BY LoopEnds DEF MaskIInv, MaskTypeOK, SidecarDrawsTheRuns, HasFilled
<1>2. MaskSpec => []MaskIInv BY MaskInductive
<1>q. QED BY <1>1, <1>2, PTL

(* The two programs show the same picture of every message both can read.  *)
THEOREM TheyAgree == ASSUME MaskAssumption PROVE MaskSpec => []DecodersAgree
<1>1. MaskIInv => DecodersAgree BY DEF MaskIInv, Agree, DecodersAgree
<1>2. MaskSpec => []MaskIInv BY MaskInductive
<1>q. QED BY <1>1, <1>2, PTL
=============================================================================
