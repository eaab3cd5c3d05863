------------------------------ MODULE LiveView ------------------------------
(***************************************************************************)
(* What the Woosh viewer draws of the robot: NavigationLogger in           *)
(* native_sidecar.rs writes map, camera image and pose to the live Rerun   *)
(* stream and to the task recording in progress, and keeps two caches that *)
(* decide what is downloaded at all: the signature of the map's metadata   *)
(* and the identity of the last image.                                     *)
(*                                                                         *)
(* Two robots use the same URLs and may have the same metadata, so neither *)
(* a signature nor an identity says whose map or image it is.  The logger  *)
(* belongs to one thread: one message is one step.  A message is handled   *)
(* in the step in which the robot sends it.                                *)
(***************************************************************************)
EXTENDS Naturals

CONSTANTS Robots,      \* robot endpoints
          None,        \* no robot
          MaxVersion   \* bound on the versions of a robot's map and image

ASSUME ViewAssumption ==
    /\ Robots # {} /\ None \notin Robots
    /\ MaxVersion \in Nat \ {0}

VARIABLES
    settings,   \* NavigationLogger::settings
    conn,       \* the stream: down, open and not yet read, or read
    signature,  \* map_signature: the version it was computed from, 0 for ""
    frame,      \* map: the origin and scale that poses are drawn with
    identity,   \* images: the version of the last image logged, 0 for none
    live,       \* the live stream: the map, image and pose it shows
    rec,        \* task_rec: whether it is there, and the image it holds
    maps,       \* external: the version of each robot's map
    frames,     \* external: the version of each robot's image, 0 for none
    missed      \* history: the last new metadata came without an image

logger == <<settings, conn, signature, frame, identity>>
robot  == <<maps, frames>>
vars   == <<logger, live, rec, robot, missed>>

Of(r, v) == [robot |-> r, version |-> v]
Nothing == Of(None, 0)
Thing == [robot : Robots \cup {None}, version : 0..MaxVersion]

(* early is history: the live image at the start of the recording. *)
Closed == [open |-> FALSE, image |-> Nothing, early |-> Nothing]
Started == [open |-> TRUE, image |-> Nothing, early |-> live.image]

TypeOK ==
    /\ settings \in Robots
    /\ conn \in {"down", "open", "live"}
    /\ signature \in 0..MaxVersion /\ identity \in 0..MaxVersion
    /\ frame \in Thing
    /\ live \in [map : Thing, image : Thing, pose : Robots \cup {None}]
    /\ rec \in [open : BOOLEAN, image : Thing, early : Thing]
    /\ maps \in [Robots -> 1..MaxVersion]
    /\ frames \in [Robots -> 0..MaxVersion]
    /\ missed \in BOOLEAN

----------------------------------------------------------------------------
(* The map: refresh_map.                                                   *)

(* The metadata differ from the last ones: their origin and scale are      *)
(* taken and their signature kept, whether or not an image comes with them *)
(* (image_path is null, or the request for it fails: i = 0).  The image is *)
(* a request of its own, and the robot may have got another map, number i, *)
(* since it answered the first.                                            *)
NewMap(i) ==
    LET m == maps[settings] IN
    /\ signature # m
    /\ signature' = m /\ frame' = Of(settings, m)
    /\ \/ i = 0 /\ missed' = TRUE /\ UNCHANGED <<live, maps>>
       \/ /\ i >= m /\ missed' = FALSE
          /\ maps' = [maps EXCEPT ![settings] = i]
          /\ live' = [live EXCEPT !.map = Of(settings, i)]

SameMap ==
    /\ signature = maps[settings]
    /\ UNCHANGED <<signature, frame, live, maps, missed>>

(* The WebSocket opens; a first refresh_map that fails closes it again. *)
Connect ==
    /\ conn = "down"
    /\ conn' = "open"
    /\ SameMap \/ \E i \in 0..MaxVersion : NewMap(i)
    /\ UNCHANGED <<settings, identity, rec, frames>>

(* The refresh every five seconds, when it finds something new. *)
PollMap ==
    /\ conn # "down"
    /\ \E i \in 0..MaxVersion : NewMap(i)
    /\ UNCHANGED <<settings, conn, identity, rec, frames>>

----------------------------------------------------------------------------
(* Images: log_images.                                                     *)

(* Mutated form: the identity is kept before the download. *)
IdentityAfter_Early(v, arrives) == v

(* The identity is kept once the image is logged. *)
IdentityAfter(v, arrives) == IF arrives THEN v ELSE identity

(* The image of version v is announced: one that was logged is not asked   *)
(* for again.  r is the recording it goes to, p the pose of the message.   *)
LogImages(v, arrives, r, p) ==
    LET new == v # 0 /\ v # identity
        i == Of(settings, v)
    IN
    /\ arrives => new
    /\ identity' = IF new THEN IdentityAfter(v, arrives) ELSE identity
    /\ live' = [live EXCEPT !.image = IF arrives THEN i ELSE @, !.pose = p]
    /\ rec' = IF arrives /\ r.open THEN [r EXCEPT !.image = i] ELSE r

(* image_update: a new image, or an update that keeps the last version.    *)
(* Nobody announces an image again because its download has failed.        *)
AnnounceImage(r, v, arrives) ==
    /\ v \in {frames[r], frames[r] + 1} \cap 1..MaxVersion
    /\ frames' = [frames EXCEPT ![r] = v]
    /\ IF conn = "live" /\ r = settings
       THEN LogImages(v, arrives, rec, live.pose)
       ELSE ~arrives /\ UNCHANGED <<identity, live, rec>>
    /\ UNCHANGED <<settings, conn, signature, frame, maps, missed>>

----------------------------------------------------------------------------
(* The other messages.                                                     *)

(* pose_update: a pose, or null, which clears it. *)
LogPose ==
    /\ conn = "live"
    /\ \E p \in {settings, None} : live' = [live EXCEPT !.pose = p]
    /\ UNCHANGED <<logger, rec, robot, missed>>

(* The parts of a snapshot, in order: its task may end the recording or    *)
(* start one, then pose and images.                                        *)
LogSnapshot(arrives) ==
    /\ conn = "open"
    /\ conn' = "live"
    /\ \E r \in {rec, Closed, Started}, p \in {settings, None} :
          LogImages(frames[settings], arrives, r, p)
    /\ UNCHANGED <<settings, signature, frame, robot, missed>>

(* task_status: finish_task_recording and start_task_recording, which      *)
(* writes the cached map and no image.                                     *)
LogTaskStatus ==
    /\ conn = "live"
    /\ rec' \in {Closed, Started}
    /\ UNCHANGED <<logger, live, robot, missed>>

----------------------------------------------------------------------------
(* The connection                                                          *)

Disconnect ==
    /\ conn # "down"
    /\ conn' = "down"
    /\ UNCHANGED <<settings, signature, frame, identity, live, rec, robot, missed>>

(* Mutated forms: one of the caches outlives the robot. *)
ForgetMap_Kept == frame' = Nothing /\ UNCHANGED signature
ForgetImages_Kept == UNCHANGED identity

ForgetMap == signature' = 0 /\ frame' = Nothing
ForgetImages == identity' = 0

(* The entities that update_settings clears; world/map is not among them.  *)
Cleared == [live EXCEPT !.image = Nothing, !.pose = None]

(* Mutated form: the recording goes on with the new robot. *)
RecordingOnSwitch_Kept == rec

RecordingOnSwitch == Closed

(* update_settings with another endpoint. *)
UpdateSettings(r) ==
    /\ conn = "down" /\ r # settings
    /\ settings' = r
    /\ ForgetMap /\ ForgetImages
    /\ live' = Cleared /\ rec' = RecordingOnSwitch
    /\ UNCHANGED <<conn, robot, missed>>

(* The worker is replaced: a new logger and a new Rerun server. *)
RestartService(r) ==
    /\ settings' = r /\ conn' = "down"
    /\ signature' = 0 /\ frame' = Nothing /\ identity' = 0
    /\ live' = [map |-> Nothing, image |-> Nothing, pose |-> None]
    /\ rec' = Closed
    /\ UNCHANGED <<robot, missed>>

(* External: a robot gets another map. *)
MapChanges(r) ==
    /\ maps[r] < MaxVersion
    /\ maps' = [maps EXCEPT ![r] = @ + 1]
    /\ UNCHANGED <<logger, live, rec, frames, missed>>

----------------------------------------------------------------------------

Init ==
    /\ settings \in Robots /\ conn = "down"
    /\ signature = 0 /\ frame = Nothing /\ identity = 0
    /\ live = [map |-> Nothing, image |-> Nothing, pose |-> None]
    /\ rec = Closed
    /\ maps = [r \in Robots |-> 1] /\ frames = [r \in Robots |-> 0]
    /\ missed = FALSE

Announce(arrives) == \E r \in Robots, v \in 1..MaxVersion : AnnounceImage(r, v, arrives)

Next ==
    \/ Connect \/ PollMap \/ Disconnect \/ LogPose \/ LogTaskStatus
    \/ \E arrives \in BOOLEAN : LogSnapshot(arrives) \/ Announce(arrives)
    \/ \E r \in Robots : UpdateSettings(r) \/ RestartService(r) \/ MapChanges(r)

Spec == Init /\ [][Next]_vars

----------------------------------------------------------------------------
(* Safety                                                                  *)

(* An image that is not asked for again is on the screen, and it is this   *)
(* robot's: two robots announce the same URLs and versions, so a cache     *)
(* that outlived a switch would leave the camera blank.                    *)
CachedIsShown == identity # 0 => live.image = Of(settings, identity)

(* Pose and image on the screen are those of one robot, the one the viewer *)
(* was switched to last, from the moment of the switch on.                 *)
OneRobotOnScreen ==
    /\ live.image.robot \in {settings, None}
    /\ live.pose \in {settings, None}

(* With an open stream, poses are drawn with the scale of the map that is  *)
(* on the screen, or of one the robot had before it: then the metadata     *)
(* have changed since they were last read, and the next refresh replaces   *)
(* scale and map.  (Unless the metadata's image did not arrive, which      *)
(* leaves an older map, or another robot's, under the new poses; and for a *)
(* robot that does not go back to metadata it had before.)                 *)
PosesFitTheMap ==
    conn # "down" /\ ~missed =>
        /\ frame = Of(settings, signature)
        /\ live.map.robot = settings
        /\ live.map.version \in signature..maps[settings]

(* The recording in progress has the image that is on the screen, but for  *)
(* one that was already there when the recording began: the cache keeps    *)
(* that one from being logged to the recording until the robot has another. *)
RecordingHasTheImage ==
    rec.open => \/ rec.image = live.image
                \/ rec.image = Nothing /\ live.image = rec.early
=============================================================================
