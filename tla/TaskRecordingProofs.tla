------------------------ MODULE TaskRecordingProofs ------------------------
(***************************************************************************)
(* Theorems about TaskRecording, for every set of robots and tasks and any *)
(* number of directories.  The properties of the recordings are not        *)
(* inductive alone: what a message may be written to depends on how the    *)
(* logger's three fields hang together (Shape), on the recording in        *)
(* progress being that of the robot and task it was begun for (Current),   *)
(* on a terminal task.json of that recording meaning that the logger is    *)
(* about to close it (Unfinished), on whose status the panel has (Stream), *)
(* and on directories that were not made yet being empty (Unmade).         *)
(***************************************************************************)
EXTENDS TaskRecording, TLAPS

(* The three fields of a recording in progress are there together, and its *)
(* directory is the newest one. *)
Shape ==
    /\ open <=> dir # 0
    /\ open <=> task # None
    /\ dir # 0 => dir = used
    /\ failed => ~open
    /\ mapImage \in {settings, None}

Unmade == \A d \in 1..MaxRecordings : d > used => recordings[d] = Unused

(* What a directory may hold. *)
Pure(rec) ==
    /\ rec.data \subseteq {rec.robot} \X {rec.task, None}
    /\ rec.maps \subseteq {rec.robot}
    /\ rec.docs \subseteq {rec.robot}

AllPure == \A d \in 1..MaxRecordings : Pure(recordings[d])

(* The recording in progress, if it is still there, is that of the robot   *)
(* and the task the logger has.                                            *)
Current ==
    open /\ recordings[dir].rrd =>
        /\ recordings[dir].robot = settings
        /\ recordings[dir].task = task
        /\ recordings[dir].maps = {mapImage} \ {None}

(* A recording in progress whose task is over is about to be closed.       *)
Unfinished ==
    open /\ Terminal(recordings[dir].meta) => hand # "none" /\ Finishes(work)

(* A message is in hand only while the stream is up, and the status that   *)
(* goes into a recording came by this stream or an earlier one to the same *)
(* robot.                                                                  *)
Stream ==
    /\ hand # "none" => conn = "live"
    /\ open \/ conn = "live" => shown \in {settings, None}

Dirs == 1..MaxRecordings
Disk == [Dirs -> Recording]

(* What a message leaves of the logger's fields. *)
LoggerOK ==
    /\ task \in Tasks \cup {None}
    /\ dir \in 0..MaxRecordings
    /\ recordings \in Disk
    /\ used \in 0..MaxRecordings

FlagsOK == open \in BOOLEAN /\ failed \in BOOLEAN

RecInv == FlagsOK /\ LoggerOK /\ Shape /\ Unmade /\ AllPure /\ Current

----------------------------------------------------------------------------
(* The helpers that write to the recording in progress. *)

LEMMA UnusedIsRecording == Unused \in Recording /\ Pure(Unused)
  BY DEF Unused, Recording, Pure

(* rs has the same directories, with more in the one being recorded to. *)
More(rs) ==
    /\ rs \in Disk
    /\ \A i \in Dirs : i # dir => rs[i] = recordings[i]
    /\ rs[dir].robot = recordings[dir].robot /\ rs[dir].task = recordings[dir].task
    /\ rs[dir].dir = recordings[dir].dir /\ rs[dir].rrd = recordings[dir].rrd
    /\ rs[dir].maps = recordings[dir].maps
    /\ recordings[dir].data \subseteq rs[dir].data
    /\ Pure(rs[dir])

LEMMA OpenDir ==
  ASSUME RecInv, open
  PROVE  /\ dir \in Dirs /\ dir \in 1..used /\ dir = used
         /\ recordings \in Disk /\ recordings[dir] \in Recording /\ Pure(recordings[dir])
         /\ More(recordings)
<1>1. dir \in Dirs /\ dir \in 1..used /\ dir = used /\ recordings \in Disk
  BY DEF RecInv, LoggerOK, Shape, Dirs
<1>2. recordings[dir] \in Recording /\ Pure(recordings[dir])
  BY <1>1 DEF RecInv, AllPure, Disk, Dirs
<1> QED
  BY <1>1, <1>2 DEF More

(* LogTo adds one origin, if the file is there: data of the settings'      *)
(* robot and of the task being recorded, or of no task, keep it pure.      *)
LEMMA LogToIs ==
  ASSUME RecInv, open, NEW o \in Origins, o \in {settings} \X {task, None}
  PROVE  /\ More(LogTo(recordings, dir, o))
         /\ LogTo(recordings, dir, o)[dir].meta = recordings[dir].meta
<1> DEFINE rec == recordings[dir]
           new == [rec EXCEPT !.data = IF rec.rrd THEN @ \cup {o} ELSE @]
<1>1. /\ dir \in Dirs /\ recordings \in Disk /\ rec \in Recording /\ Pure(rec)
  BY OpenDir
<1>2. LogTo(recordings, dir, o) = [recordings EXCEPT ![dir] = new]
  BY <1>1 DEF LogTo, Disk, Recording
<1>3. /\ new \in Recording
      /\ new.robot = rec.robot /\ new.task = rec.task /\ new.dir = rec.dir
      /\ new.rrd = rec.rrd /\ new.maps = rec.maps /\ new.meta = rec.meta
      /\ new.docs = rec.docs /\ rec.data \subseteq new.data
      /\ new.data = IF rec.rrd THEN rec.data \cup {o} ELSE rec.data
  BY <1>1 DEF Recording
<1>4. rec.rrd => rec.robot = settings /\ rec.task = task
  BY DEF RecInv, Current
<1> HIDE DEF new
<1>5. Pure(new)
  BY <1>1, <1>3, <1>4 DEF Pure
<1> QED
  BY <1>1, <1>2, <1>3, <1>5 DEF More, Disk

(* A status document adds the robot whose status it shows. *)
LEMMA DocumentIs ==
  ASSUME RecInv, open, NEW rs, More(rs), NEW r \in {settings, None}, settings \in Robots,
         NEW ds \in WithDocument(rs, r)
  PROVE  More(ds) /\ ds[dir].meta = rs[dir].meta
<1> DEFINE rec == rs[dir]
           new == [rec EXCEPT !.docs = @ \cup ({r} \ {None})]
<1>1. dir \in Dirs /\ rs \in Disk /\ rec \in Recording /\ Pure(rec)
  BY OpenDir DEF More, Disk
<1>2. CASE ds = rs
  BY <1>2
<1>3. CASE rec.rrd /\ ds = [rs EXCEPT ![dir].docs = @ \cup ({r} \ {None})]
  <2>1. ds = [rs EXCEPT ![dir] = new]
    BY <1>1, <1>3 DEF Disk, Recording
  <2>2. /\ new \in Recording
        /\ new.robot = rec.robot /\ new.task = rec.task /\ new.dir = rec.dir
        /\ new.rrd = rec.rrd /\ new.maps = rec.maps /\ new.meta = rec.meta
        /\ new.data = rec.data
        /\ new.docs = rec.docs \cup ({r} \ {None})
    BY <1>1 DEF Recording
  <2>3. rec.robot = settings
    BY <1>3 DEF RecInv, Current, More
  <2> HIDE DEF new
  <2>4. Pure(new)
    BY <1>1, <2>2, <2>3 DEF Pure
  <2> QED
    BY <1>1, <2>1, <2>2, <2>4 DEF More, Disk
<1> QED
  BY <1>2, <1>3 DEF WithDocument

(* WriteMetadata writes the status of the directory, if it is there. *)
LEMMA WriteMetadataIs ==
  ASSUME RecInv, open, NEW s \in Status
  PROVE  /\ More(WriteMetadata(dir, s))
         /\ WriteMetadata(dir, s)[dir].meta \in {recordings[dir].meta, s}
<1> DEFINE rec == recordings[dir]
           new == [rec EXCEPT !.meta = IF rec.dir THEN s ELSE @]
<1>1. dir \in Dirs /\ recordings \in Disk /\ rec \in Recording /\ Pure(rec)
  BY OpenDir
<1>2. WriteMetadata(dir, s) = [recordings EXCEPT ![dir] = new]
  BY <1>1 DEF WriteMetadata, Disk, Recording
<1>3. /\ new \in Recording
      /\ new.robot = rec.robot /\ new.task = rec.task /\ new.dir = rec.dir
      /\ new.rrd = rec.rrd /\ new.maps = rec.maps /\ new.meta \in {rec.meta, s}
      /\ new.docs = rec.docs /\ new.data = rec.data
  BY <1>1 DEF Recording
<1> HIDE DEF new
<1>4. Pure(new)
  BY <1>1, <1>3 DEF Pure
<1> QED
  BY <1>1, <1>2, <1>3, <1>4 DEF More, Disk

(* More in the recording in progress keeps the invariant. *)
LEMMA MoreStep ==
  ASSUME RecInv, open, More(recordings'), settings' = settings, mapImage' = mapImage,
         UNCHANGED <<task, dir, open, used, failed>>
  PROVE  RecInv'
<1>1. /\ dir \in Dirs /\ dir = used /\ recordings \in Disk
  BY OpenDir
<1>2. FlagsOK' /\ (open' <=> open) /\ (failed' <=> failed)
  BY Zenon DEF RecInv, FlagsOK
<1>3. LoggerOK' /\ Shape'
  BY <1>2 DEF RecInv, LoggerOK, Shape, More
<1>4. Unmade'
  BY <1>1 DEF RecInv, LoggerOK, Unmade, More, Dirs
<1>5. AllPure'
  BY <1>1 DEF RecInv, AllPure, More, Dirs
<1>6. Current'
  BY <1>2 DEF RecInv, Current, More
<1> QED
  BY <1>2, <1>3, <1>4, <1>5, <1>6 DEF RecInv

----------------------------------------------------------------------------
(* What one message does to the recordings. *)

LEMMA OriginType ==
  ASSUME NEW r \in Robots, NEW w \in Work
  PROVE  /\ Origin(r, w) \in Origins
         /\ w.task \in Tasks \cup {None} /\ w.status \in Status
         /\ w.task = None => ~Active(w.status)
         /\ Origin(r, w) \in {r} \X {w.task, None}
<1>1. w.task \in Tasks \cup {None} /\ w.status \in Status
  BY DEF Work, Idle, Status
<1>2. w.task = None => ~Active(w.status)
  BY RecordingAssumption DEF Work, Idle, Active
<1>3. Origin(r, w) \in Origins /\ Origin(r, w) \in {r} \X {w.task, None}
  BY <1>1 DEF Origin, Origins
<1> QED
  BY <1>1, <1>2, <1>3

(* A new directory is the next one. *)
LEMMA MakeStep ==
  ASSUME RecInv, used < MaxRecordings, NEW rec \in Recording, Pure(rec),
         recordings' = [recordings EXCEPT ![used + 1] = rec], used' = used + 1
  PROVE  /\ recordings' \in Disk /\ used' \in Dirs
         /\ recordings'[used + 1] = rec
         /\ Unmade' /\ AllPure'
<1>1. used + 1 \in Dirs
  BY RecordingAssumption DEF RecInv, LoggerOK, Dirs
<1>2. recordings' \in Disk /\ used' \in Dirs /\ recordings'[used + 1] = rec
  BY <1>1 DEF RecInv, LoggerOK, Disk
<1>3. Unmade'
  BY RecordingAssumption, <1>1 DEF RecInv, LoggerOK, Unmade, Dirs, Disk
<1>4. AllPure'
  BY <1>1 DEF RecInv, LoggerOK, AllPure, Pure, Dirs, Disk
<1> QED
  BY <1>2, <1>3, <1>4

LEMMA StartStep ==
  ASSUME RecInv, settings \in Robots, NEW w \in Work, Starts(w), StartRecording(w),
         settings' = settings, mapImage' = mapImage
  PROVE  /\ RecInv'
         /\ ~failed' => open' /\ task' = w.task
         /\ open' => ~Terminal(recordings'[dir'].meta)
<1> DEFINE d == used + 1
           made(rrd) == [robot |-> settings, task |-> w.task, dir |-> TRUE, rrd |-> rrd,
                         meta |-> IF rrd THEN w.status ELSE "none",
                         data |-> {}, docs |-> {},
                         maps |-> IF rrd THEN MapsAtStart ELSE {}]
<1>1. /\ used < MaxRecordings /\ w.task \in Tasks /\ w.task # None
      /\ w.status = "processing"
  BY RecordingAssumption, OriginType DEF StartRecording, Starts, Active
<1>2. MapsAtStart \subseteq {settings} /\ MapsAtStart = {mapImage} \ {None}
  BY DEF MapsAtStart, RecInv, Shape
<1>3. ASSUME NEW b \in BOOLEAN
      PROVE  made(b) \in Recording /\ Pure(made(b))
  <2>1. made(b) \in Recording
    BY <1>1, <1>2 DEF Recording, Status
  <2>2. Pure(made(b))
    BY <1>1, <1>2 DEF Pure
  <2> QED
    BY <2>1, <2>2
<1>4. CASE Cleared /\ failed' = TRUE /\ UNCHANGED disk
  <2>1. /\ ~open' /\ failed' /\ FlagsOK'
        /\ task' = None /\ dir' = 0
    BY <1>4, Zenon DEF Cleared, FlagsOK
  <2>2. recordings' = recordings /\ used' = used
    BY <1>4 DEF disk
  <2>3. LoggerOK' /\ Shape'
    BY RecordingAssumption, <2>1, <2>2 DEF RecInv, LoggerOK, Shape
  <2>4. Unmade' /\ AllPure'
    BY <2>2 DEF RecInv, Unmade, AllPure, Pure, Unused
  <2>5. Current'
    BY <2>1 DEF Current
  <2> QED
    BY <2>1, <2>3, <2>4, <2>5 DEF RecInv
<1>5. CASE /\ Cleared /\ failed' = TRUE
           /\ recordings' = [recordings EXCEPT ![d] = made(FALSE)] /\ used' = d
  <2>1. /\ ~open' /\ failed' /\ FlagsOK'
        /\ task' = None /\ dir' = 0
    BY <1>5, Zenon DEF Cleared, FlagsOK
  <2>2. /\ recordings' \in Disk /\ used' \in Dirs
        /\ Unmade' /\ AllPure'
    <3>1. PICK rec \in Recording : Pure(rec) /\ recordings' = [recordings EXCEPT ![d] = rec]
      BY <1>3, <1>5, Zenon
    <3> QED
      BY <1>1, <1>5, <3>1, MakeStep
  <2>3. LoggerOK' /\ Shape'
    BY RecordingAssumption, <2>1, <2>2 DEF RecInv, LoggerOK, Shape, Dirs
  <2>4. Current'
    BY <2>1 DEF Current
  <2> QED
    BY <2>1, <2>2, <2>3, <2>4 DEF RecInv
<1>6. CASE /\ task' = w.task /\ dir' = d /\ open' = TRUE /\ failed' = FALSE
           /\ recordings' = [recordings EXCEPT ![d] = made(TRUE)] /\ used' = d
  <2>1. open' /\ ~failed' /\ FlagsOK' /\ task' = w.task /\ dir' = d /\ used' = d
    BY <1>6, Zenon DEF FlagsOK
  <2>2. PICK rec \in Recording :
          /\ Pure(rec) /\ recordings' = [recordings EXCEPT ![d] = rec]
          /\ rec.robot = settings /\ rec.task = w.task
          /\ rec.meta = "processing" /\ rec.maps = {mapImage} \ {None}
    <3>1. /\ made(TRUE).robot = settings /\ made(TRUE).task = w.task
          /\ made(TRUE).meta = "processing" /\ made(TRUE).maps = {mapImage} \ {None}
      BY <1>1, <1>2
    <3> HIDE DEF made
    <3> QED
      BY <1>3, <1>6, <3>1, Zenon
  <2>3. /\ recordings' \in Disk /\ used' \in Dirs
        /\ recordings'[d] = rec /\ Unmade' /\ AllPure'
    BY <1>1, <2>1, <2>2, MakeStep
  <2>4. LoggerOK' /\ Shape'
    BY RecordingAssumption, <1>1, <2>1, <2>3 DEF RecInv, LoggerOK, Shape, Dirs
  <2>5. Current' /\ ~Terminal(recordings'[dir'].meta)
    BY <2>1, <2>2, <2>3 DEF Current, Terminal
  <2> QED
    BY <2>1, <2>3, <2>4, <2>5 DEF RecInv
<1> QED
  BY <1>4, <1>5, <1>6 DEF StartRecording, Slot

(* What leaves the recordings and the task alone keeps the invariant. *)
LEMMA FrameStep ==
  ASSUME RecInv, settings' = settings, mapImage' = mapImage,
         UNCHANGED <<task, dir, open, recordings, used, failed>>
  PROVE  RecInv'
  BY DEF RecInv, FlagsOK, LoggerOK, Shape, Unmade, AllPure, Current, Pure, Disk, Dirs, Unused,
         Terminal

(* With no recording in progress, nothing depends on the settings. *)
LEMMA ClearStep ==
  ASSUME RecInv, Cleared, mapImage' \in {settings', None}, UNCHANGED <<disk, failed>>
  PROVE  RecInv' /\ ~open'
<1>1. ~open' /\ FlagsOK' /\ task' = None /\ dir' = 0
  BY Zenon DEF Cleared, RecInv, FlagsOK
<1>2. recordings' = recordings /\ used' = used
  BY DEF disk
<1>3. LoggerOK' /\ Shape'
  BY RecordingAssumption, <1>1, <1>2 DEF RecInv, LoggerOK, Shape
<1>4. Unmade' /\ AllPure'
  BY <1>2 DEF RecInv, Unmade, AllPure, Pure, Unused
<1> QED
  BY <1>1, <1>3, <1>4 DEF RecInv, Current

(* A message about the task: it is over, it begins, or it goes on. *)
LEMMA PrepareStep ==
  ASSUME RecInv, Unfinished, settings \in Robots, NEW w \in Work, PrepareTaskRecording(w),
         settings' = settings, mapImage' = mapImage, work' = w
  PROVE  /\ RecInv' /\ Unfinished'
         /\ Active(w.status) /\ ~failed' => open' /\ task' = w.task
<1>1. hand = "none" /\ hand' = "log"
  BY DEF PrepareTaskRecording
<1>2. /\ w.task \in Tasks \cup {None} /\ w.status \in Status
      /\ w.task = None => ~Active(w.status)
  BY OriginType
<1>3. CASE Starts(w) /\ StartRecording(w)
  BY <1>3, StartStep DEF Unfinished
<1>4. CASE /\ ~Starts(w)
           /\ recordings' = IF open /\ task = w.task
                            THEN WriteMetadata(dir, w.status) ELSE recordings
           /\ UNCHANGED <<task, dir, open, used, failed>>
  <2>1. /\ (open' <=> open) /\ (failed' <=> failed) /\ task' = task /\ dir' = dir
    BY <1>4, Zenon
  <2>2. Active(w.status) => open' /\ task' = w.task
    BY <1>2, <1>4, <2>1 DEF Starts, RecInv, Shape
  <2>3. CASE open /\ task = w.task
    <3>1. recordings' = WriteMetadata(dir, w.status)
      BY <1>4, <2>3, Zenon
    <3>2. More(recordings') /\ recordings'[dir].meta \in {recordings[dir].meta, w.status}
      BY <1>2, <2>3, <3>1, WriteMetadataIs
    <3>3. RecInv'
      BY <1>4, <2>3, <3>2, MoreStep
    <3>4. Unfinished'
      BY <1>1, <2>1, <2>3, <3>2 DEF Unfinished, Finishes, Terminal
    <3> QED
      BY <2>2, <3>3, <3>4
  <2>4. CASE ~(open /\ task = w.task)
    <3>1. recordings' = recordings
      BY <1>4, <2>4, Zenon
    <3>2. RecInv'
      BY <1>4, <3>1, FrameStep
    <3>3. Unfinished'
      BY <1>1, <2>1, <3>1 DEF Unfinished, Terminal
    <3> QED
      BY <2>2, <3>2, <3>3
  <2> QED
    BY <2>3, <2>4
<1> QED
  BY <1>3, <1>4 DEF PrepareTaskRecording

RestOK ==
    /\ settings \in Robots
    /\ conn \in {"down", "open", "live"}
    /\ mapImage \in Robots \cup {None}
    /\ hand \in {"none", "log", "finish"}
    /\ shown \in Robots \cup {None}
    /\ work \in Work

SignedOK == signed \in BOOLEAN

(* What the robot sends goes where the current task's data go, because the *)
(* running task is the one being recorded. *)
LEMMA CurrentOrigin ==
  ASSUME RecInv, RestOK, RunningTaskIsRecorded, open, conn = "live"
  PROVE  /\ Origin(settings, work) \in Origins
         /\ Origin(settings, work) \in {settings} \X {task, None}
<1>1. Origin(settings, work) \in Origins
  BY OriginType DEF RestOK
<1>2. CASE Active(work.status)
  <2>1. ~failed
    BY DEF RecInv, Shape
  <2>2. task = work.task
    BY <1>2, <2>1 DEF RunningTaskIsRecorded
  <2> QED
    BY <1>1, <1>2, <2>2 DEF Origin
<1>3. CASE ~Active(work.status)
  BY <1>1, <1>3 DEF Origin
<1> QED
  BY <1>2, <1>3

LEMMA MapStep ==
  ASSUME RecInv, RestOK, NewMap, UNCHANGED <<settings, task, dir, open, used, failed>>
  PROVE  /\ RecInv' /\ mapImage' \in Robots \cup {None}
         /\ open => recordings'[dir].meta = recordings[dir].meta
<1>1. CASE UNCHANGED <<mapImage, recordings>>
  BY <1>1, FrameStep DEF RestOK
<1>2. CASE /\ mapImage' = settings
           /\ recordings' =
                IF open /\ recordings[dir].rrd
                THEN [recordings EXCEPT ![dir].maps = @ \cup {settings}] ELSE recordings
  <2>1. FlagsOK' /\ (open' <=> open) /\ (failed' <=> failed)
    BY Zenon DEF RecInv, FlagsOK
  <2>2. CASE ~(open /\ recordings[dir].rrd)
    <3>1. recordings' = recordings
      BY <1>2, <2>2, Zenon
    <3>2. LoggerOK' /\ Shape'
      BY <1>2, <2>1, <3>1 DEF RecInv, LoggerOK, Shape
    <3>3. Unmade' /\ AllPure' /\ Current'
      BY <2>1, <2>2, <3>1 DEF RecInv, Unmade, AllPure, Pure, Unused, Current
    <3> QED
      BY <1>2, <2>1, <3>2, <3>3 DEF RecInv, RestOK
  <2>3. CASE open /\ recordings[dir].rrd
    <3>1. recordings' = [recordings EXCEPT ![dir].maps = @ \cup {settings}]
      BY <1>2, <2>3, Zenon
    <3>2. dir \in Dirs /\ dir = used /\ recordings \in Disk
      BY <2>3 DEF RecInv, LoggerOK, Shape, Dirs
    <3>3. /\ recordings[dir].robot = settings /\ recordings[dir].task = task
          /\ recordings[dir].maps = {mapImage} \ {None}
      BY <2>3 DEF RecInv, Current
    <3>4. /\ recordings' \in Disk
          /\ \A i \in Dirs : i # dir => recordings'[i] = recordings[i]
          /\ recordings'[dir].robot = settings /\ recordings'[dir].task = task
          /\ recordings'[dir].data = recordings[dir].data
          /\ recordings'[dir].docs = recordings[dir].docs
          /\ recordings'[dir].meta = recordings[dir].meta
          /\ recordings'[dir].maps = {settings}
      <4>1. mapImage \in {settings, None}
        BY DEF RecInv, Shape
      <4> QED
        BY <3>1, <3>2, <3>3, <4>1, RecordingAssumption DEF Disk, Recording, RestOK
    <3>5. LoggerOK' /\ Shape'
      BY <1>2, <2>1, <3>4 DEF RecInv, LoggerOK, Shape
    <3>6. Unmade' /\ AllPure'
      BY <3>2, <3>3, <3>4 DEF RecInv, LoggerOK, Unmade, AllPure, Pure, Dirs
    <3>7. Current'
      BY <1>2, <3>2, <3>3, <3>4, RecordingAssumption DEF Current, RestOK
    <3> QED
      BY <1>2, <2>1, <3>5, <3>6, <3>7 DEF RecInv, RestOK
  <2> QED
    BY <2>2, <2>3
<1> QED
  BY <1>1, <1>2 DEF NewMap

(* A deletion leaves nothing, or less than there was. *)
LEMMA DeleteStep ==
  ASSUME RecInv, NEW d \in 1..used, DeleteReplayTask(d)
  PROVE  /\ RecInv'
         /\ open => recordings'[dir].meta \in {recordings[dir].meta, "none"}
<1> DEFINE rec == recordings[d]
<1>1. /\ d \in Dirs /\ d <= used /\ rec \in Recording /\ Pure(rec)
      /\ recordings \in Disk
  <2>1. d \in Dirs /\ d <= used
    BY RecordingAssumption DEF RecInv, LoggerOK, Dirs
  <2>2. recordings \in Disk /\ rec \in Recording
    BY <2>1 DEF RecInv, LoggerOK, Disk
  <2>3. Pure(rec)
    BY <2>1 DEF RecInv, AllPure, Dirs
  <2> QED
    BY <2>1, <2>2, <2>3
<1>2. \E new \in Recording :
        /\ recordings' = [recordings EXCEPT ![d] = new]
        /\ Pure(new)
        /\ new.meta \in {rec.meta, "none"}
        /\ new.rrd => /\ rec.rrd /\ new.robot = rec.robot /\ new.task = rec.task
                      /\ new.maps = rec.maps
  <2>1. CASE recordings' = [recordings EXCEPT ![d] = Unused]
    <3>1. Unused.meta = "none" /\ ~Unused.rrd
      BY DEF Unused
    <3> QED
      BY <2>1, <3>1, UnusedIsRecording
  <2>2. ASSUME NEW m \in {rec.meta, "none"},
               recordings' = [recordings EXCEPT ![d] = [rec EXCEPT !.meta = m, !.rrd = FALSE,
                                                                   !.data = {}, !.maps = {},
                                                                   !.docs = {}]]
        PROVE  \E new \in Recording :
                 /\ recordings' = [recordings EXCEPT ![d] = new]
                 /\ Pure(new) /\ new.meta \in {rec.meta, "none"} /\ ~new.rrd
    <3> DEFINE new == [rec EXCEPT !.meta = m, !.rrd = FALSE, !.data = {}, !.maps = {},
                             !.docs = {}]
    <3>1. new \in Recording /\ new.meta = m
      BY <1>1 DEF Recording
    <3>2. ~new.rrd
      BY <1>1 DEF Recording
    <3>3. Pure(new)
      BY <1>1 DEF Recording, Pure
    <3> HIDE DEF new
    <3>4. recordings' = [recordings EXCEPT ![d] = new]
      BY <2>2, Zenon DEF new
    <3> QED
      BY <3>1, <3>2, <3>3, <3>4
  <2>3. CASE recordings' = [recordings EXCEPT ![d].meta = "none"]
    <3> DEFINE new == [rec EXCEPT !.meta = "none"]
    <3>1. /\ new \in Recording /\ new.meta = "none"
          /\ new.robot = rec.robot /\ new.task = rec.task /\ new.maps = rec.maps
          /\ new.data = rec.data /\ new.docs = rec.docs
      BY <1>1 DEF Recording
    <3>2. new.rrd => rec.rrd
      BY <1>1 DEF Recording
    <3>3. Pure(new)
      BY <1>1, <3>1 DEF Pure
    <3>4. recordings' = [recordings EXCEPT ![d] = new]
      BY <1>1, <2>3 DEF Disk
    <3> HIDE DEF new
    <3> QED
      BY <3>1, <3>2, <3>3, <3>4
  <2> QED
    BY <2>1, <2>2, <2>3 DEF DeleteReplayTask
<1>3. PICK new \in Recording :
        /\ recordings' = [recordings EXCEPT ![d] = new]
        /\ Pure(new)
        /\ new.meta \in {rec.meta, "none"}
        /\ new.rrd => /\ rec.rrd /\ new.robot = rec.robot /\ new.task = rec.task
                      /\ new.maps = rec.maps
  BY <1>2
<1>4. /\ UNCHANGED <<settings, task, dir, mapImage, used>>
      /\ (open' <=> open) /\ FlagsOK' /\ (failed' <=> failed)
  BY Zenon DEF DeleteReplayTask, logger, RecInv, FlagsOK
<1>5. /\ recordings' \in Disk /\ recordings'[d] = new
      /\ \A i \in Dirs : i # d => recordings'[i] = recordings[i]
  BY <1>1, <1>3 DEF Disk
<1>6. LoggerOK' /\ Shape'
  BY <1>4, <1>5 DEF RecInv, LoggerOK, Shape
<1>7. Unmade' /\ AllPure'
  BY <1>1, <1>3, <1>4, <1>5 DEF RecInv, LoggerOK, Unmade, AllPure, Pure, Dirs
<1>8. Current' /\ (open => recordings'[dir].meta \in {recordings[dir].meta, "none"})
  <2> SUFFICES ASSUME open
               PROVE  Current' /\ recordings'[dir].meta \in {recordings[dir].meta, "none"}
    BY <1>4 DEF Current
  <2>1. dir \in Dirs
    BY DEF RecInv, LoggerOK, Shape, Dirs
  <2>2. CASE dir = d
    BY <1>3, <1>4, <1>5, <2>2 DEF RecInv, Current
  <2>3. CASE dir # d
    BY <1>4, <1>5, <2>1, <2>3 DEF RecInv, Current
  <2> QED
    BY <2>2, <2>3
<1> QED
  BY <1>4, <1>6, <1>7, <1>8 DEF RecInv

----------------------------------------------------------------------------
(* The inductive invariant. *)

IInv ==
    /\ RestOK /\ SignedOK
    /\ RecInv /\ Unfinished /\ Stream
    /\ RunningTaskIsRecorded

LEMMA TypeParts == IInv => TypeOK
  BY Zenon DEF IInv, RestOK, SignedOK, RecInv, FlagsOK, LoggerOK, TypeOK, Disk, Dirs

LEMMA InitInv == Init => IInv
<1> SUFFICES ASSUME Init PROVE IInv
  OBVIOUS
<1>1. /\ ~open /\ ~failed /\ SignedOK /\ FlagsOK
      /\ settings \in Robots /\ conn = "down" /\ mapImage = None
      /\ hand = "none" /\ shown = None
      /\ task = None /\ dir = 0 /\ used = 0
      /\ recordings = [d \in 1..MaxRecordings |-> Unused]
      /\ work = Idle
  BY Zenon DEF Init, SignedOK, FlagsOK
<1>2. RestOK /\ Stream /\ Unfinished
  BY <1>1 DEF RestOK, Stream, Unfinished, Work
<1>3. /\ recordings \in Disk
      /\ \A d \in 1..MaxRecordings : recordings[d] = Unused /\ Pure(recordings[d])
  BY <1>1, UnusedIsRecording, Zenon DEF Disk, Dirs
<1>4. LoggerOK /\ Shape /\ Unmade /\ AllPure /\ Current
  BY RecordingAssumption, <1>1, <1>3 DEF LoggerOK, Shape, Unmade, AllPure, Current
<1>5. RunningTaskIsRecorded
  BY <1>1 DEF RunningTaskIsRecorded
<1> QED
  BY <1>1, <1>2, <1>4, <1>5 DEF IInv, RecInv

(* The rest of a message with a task: it is recorded, and then perhaps     *)
(* closes the recording. *)
LEMMA LogTaskStep ==
  ASSUME IInv, LogTask
  PROVE  /\ RecInv' /\ Unfinished'
         /\ open => More(recordings')
         /\ ~open => recordings' = recordings
<1>1. /\ (open' <=> open) /\ task' = task /\ dir' = dir /\ work' = work
      /\ settings' = settings /\ mapImage' = mapImage /\ used' = used
      /\ UNCHANGED <<task, dir, open, used, failed>>
      /\ hand # "none" /\ hand' # "none" /\ conn = "live"
  BY Zenon DEF LogTask, IInv, Stream
<1>2. CASE open
  <2>1. recordings' = LogTo(recordings, dir, Origin(settings, work))
    BY <1>2, Zenon DEF LogTask, Logged
  <2>2. More(recordings') /\ recordings'[dir].meta = recordings[dir].meta
    BY <1>1, <1>2, <2>1, CurrentOrigin, LogToIs DEF IInv
  <2>3. RecInv'
    BY <1>1, <1>2, <2>2, MoreStep DEF IInv
  <2>4. Unfinished'
    BY <1>1, <1>2, <2>2 DEF IInv, Unfinished, Finishes, Terminal
  <2> QED
    BY <1>2, <2>2, <2>3, <2>4
<1>3. CASE ~open
  <2>1. recordings' = recordings
    BY <1>3, Zenon DEF LogTask, Logged
  <2>2. RecInv'
    BY <1>1, <2>1, FrameStep DEF IInv
  <2> QED
    BY <1>1, <1>3, <2>1, <2>2 DEF Unfinished
<1> QED
  BY <1>2, <1>3

LEMMA FinishTaskStep ==
  ASSUME IInv, FinishTask
  PROVE  /\ RecInv' /\ Unfinished'
         /\ Active(work.status) => (open' <=> open) /\ task' = task
         /\ \/ Cleared /\ UNCHANGED disk
            \/ ~open /\ UNCHANGED <<disk, task, dir>>
            \/ open /\ More(recordings') /\ UNCHANGED <<used, task, dir>>
<1>1. /\ UNCHANGED <<settings, mapImage, shown, used, work, failed>>
      /\ RecInv /\ settings \in Robots /\ mapImage \in {settings, None}
      /\ conn = "live" /\ shown \in {settings, None}
  BY DEF FinishTask, IInv, RecInv, Shape, RestOK, Stream
<1>2. CASE Finishes(work)
  <2>1. Cleared /\ UNCHANGED <<disk, failed>>
    BY <1>1, <1>2 DEF FinishTask, disk
  <2>2. RecInv' /\ ~open'
    BY <1>1, <2>1, ClearStep
  <2> QED
    BY <1>2, <2>1, <2>2 DEF Unfinished, Finishes, Active, Terminal
<1>3. CASE ~Finishes(work)
  <2>1. /\ recordings' \in WithDocument(recordings, shown)
        /\ UNCHANGED <<task, dir, open>> /\ (open' <=> open)
    BY <1>3, Zenon DEF FinishTask
  <2>2. CASE open
    <3>1. More(recordings') /\ recordings'[dir].meta = recordings[dir].meta
      BY <1>1, <2>1, <2>2, OpenDir, DocumentIs
    <3>2. RecInv'
      BY <1>1, <2>1, <2>2, <3>1, MoreStep
    <3>3. ~Terminal(recordings[dir].meta)
      BY <1>3, <2>2 DEF IInv, Unfinished
    <3> QED
      BY <1>1, <2>1, <2>2, <3>1, <3>2, <3>3 DEF Unfinished, Terminal
  <2>3. CASE ~open
    <3>1. recordings' = recordings
      BY <2>1, <2>3, Zenon DEF WithDocument
    <3>2. RecInv'
      BY <1>1, <2>1, <3>1, FrameStep
    <3> QED
      BY <1>1, <2>1, <2>3, <3>1, <3>2 DEF Unfinished, disk
  <2> QED
    BY <2>2, <2>3
<1> QED
  BY <1>2, <1>3

LEMMA DataStep ==
  ASSUME IInv, LogData \/ Greeting
  PROVE  /\ RecInv' /\ Unfinished' /\ UNCHANGED <<used, task, dir>>
         /\ open => More(recordings')
         /\ ~open => recordings' = recordings
<1>1. /\ RecInv /\ settings \in Robots
      /\ UNCHANGED <<settings, mapImage, hand, used, work, task, dir, open, failed>>
  BY DEF LogData, Greeting, logger, IInv, RestOK
<1>2. open' <=> open
  BY <1>1, Zenon
<1>3. CASE open
  <2>1. More(recordings') /\ recordings'[dir].meta = recordings[dir].meta
    <3>1. CASE LogData
      <4> DEFINE rs == Logged
      <4>1. /\ shown' \in {settings, None} /\ conn = "live"
            /\ recordings' \in WithDocument(rs, shown')
        BY <3>1 DEF LogData, IInv, Stream
      <4>2. rs = LogTo(recordings, dir, Origin(settings, work))
        BY <1>3, Zenon DEF Logged
      <4> HIDE DEF rs
      <4>3. More(rs) /\ rs[dir].meta = recordings[dir].meta
        BY <1>1, <1>3, <4>1, <4>2, CurrentOrigin, LogToIs DEF IInv
      <4> QED
        BY <1>1, <1>3, <4>1, <4>3, DocumentIs
    <3>2. CASE Greeting
      <4>1. shown \in {settings, None} /\ recordings' \in WithDocument(recordings, shown)
        BY <1>3, <3>2 DEF Greeting, IInv, Stream
      <4> QED
        BY <1>1, <1>3, <4>1, OpenDir, DocumentIs
    <3> QED
      BY <3>1, <3>2
  <2>2. RecInv'
    BY <1>1, <1>3, <2>1, MoreStep
  <2>3. Unfinished'
    BY <1>1, <1>2, <2>1 DEF IInv, Unfinished, Finishes, Terminal
  <2> QED
    BY <1>1, <1>3, <2>1, <2>2, <2>3
<1>4. CASE ~open
  <2>1. recordings' = recordings
    BY <1>4, Zenon DEF LogData, Greeting, Logged, WithDocument
  <2>2. RecInv'
    BY <1>1, <2>1, FrameStep
  <2> QED
    BY <1>1, <1>2, <1>4, <2>1, <2>2 DEF Unfinished
<1> QED
  BY <1>3, <1>4

LEMMA RestStep == IInv /\ [Next]_vars => RestOK' /\ SignedOK' /\ Stream'
<1> SUFFICES ASSUME IInv, [Next]_vars PROVE RestOK' /\ SignedOK' /\ Stream'
  OBVIOUS
<1>1. RestOK /\ SignedOK /\ Stream
  BY DEF IInv
<1>2. CASE UNCHANGED vars
  <2>1. SignedOK' /\ (open' <=> open)
    BY <1>1, <1>2, Zenon DEF SignedOK, vars, logger
  <2> QED
    BY <1>1, <1>2, <2>1 DEF RestOK, Stream, vars, logger
<1>3. ASSUME NEW w \in Work, TaskStatus(w) \/ Snapshot(w)
      PROVE  RestOK' /\ SignedOK' /\ Stream'
  <2>1. SignedOK'
    BY <1>1, <1>3, Zenon DEF SignedOK, TaskStatus, Snapshot
  <2> QED
    BY <1>1, <1>3, <2>1 DEF RestOK, Stream, TaskStatus, Snapshot, PrepareTaskRecording
<1>4. CASE LogTask \/ FinishTask
  <2>1. SignedOK'
    BY <1>1, <1>4, Zenon DEF SignedOK, LogTask, FinishTask
  <2> QED
    BY <1>1, <1>4, <2>1 DEF RestOK, Stream, LogTask, FinishTask
<1>5. CASE LogData \/ Greeting \/ Reconfigure
  <2>1. SignedOK' /\ (open' <=> open)
    <3>1. signed' = signed /\ open' = open
      BY <1>5 DEF LogData, Greeting, Reconfigure, logger
    <3> QED
      BY <1>1, <3>1, Zenon DEF SignedOK
  <2> QED
    BY <1>1, <1>5, <2>1 DEF RestOK, Stream, LogData, Greeting, Reconfigure, logger
<1>6. CASE Connect \/ RefreshMap
  <2>1. SignedOK' /\ (open' <=> open)
    <3>1. (signed' = TRUE \/ signed' = signed) /\ open' = open
      BY <1>6 DEF Connect, RefreshMap, NewMap, SameMap
    <3> QED
      BY <1>1, <3>1, Zenon DEF SignedOK
  <2>2. mapImage' \in {mapImage, settings}
    BY <1>6 DEF Connect, RefreshMap, NewMap, SameMap
  <2> QED
    BY <1>1, <1>6, <2>1, <2>2 DEF RestOK, Stream, Connect, RefreshMap
<1>7. CASE Disconnect
  <2>1. SignedOK' /\ (open' <=> open)
    BY <1>1, <1>7, Zenon DEF SignedOK, Disconnect
  <2> QED
    BY <1>1, <1>7, <2>1 DEF RestOK, Stream, Disconnect, disk, Work
<1>8. ASSUME NEW r \in Robots, UpdateSettings(r) \/ RestartService(r)
      PROVE  RestOK' /\ SignedOK' /\ Stream'
  <2>1. SignedOK' /\ ~open'
    BY <1>8, Zenon DEF SignedOK, UpdateSettings, RestartService, ForgetMap, ForgetTask, Cleared
  <2> QED
    BY <1>1, <1>8, <2>1
       DEF RestOK, Stream, UpdateSettings, RestartService, ForgetMap, Work
<1>9. ASSUME NEW d \in 1..used, DeleteReplayTask(d)
      PROVE  RestOK' /\ SignedOK' /\ Stream'
  <2>1. SignedOK' /\ (open' <=> open)
    BY <1>1, <1>9, Zenon DEF SignedOK, DeleteReplayTask, logger
  <2> QED
    BY <1>1, <1>9, <2>1 DEF RestOK, Stream, DeleteReplayTask, logger
<1> QED
  BY <1>2, <1>3, <1>4, <1>5, <1>6, <1>7, <1>8, <1>9 DEF Next

LEMMA RecStep == IInv /\ [Next]_vars => RecInv' /\ Unfinished'
<1> SUFFICES ASSUME IInv, [Next]_vars PROVE RecInv' /\ Unfinished'
  OBVIOUS
<1>1. RecInv /\ RestOK /\ Unfinished /\ settings \in Robots
  BY DEF IInv, RestOK
(* A step that leaves the recordings and the message in hand alone. *)
<1>2. ASSUME settings' = settings, mapImage' = mapImage, hand' = hand, work' = work,
             UNCHANGED <<task, dir, open, recordings, used, failed>>
      PROVE  RecInv' /\ Unfinished'
  <2>1. open' <=> open
    BY <1>2, Zenon
  <2> QED
    BY <1>1, <1>2, <2>1, FrameStep DEF Unfinished, Finishes, Terminal
<1>3. CASE UNCHANGED vars \/ Reconfigure
  BY <1>2, <1>3 DEF vars, Reconfigure, logger, disk
<1>4. ASSUME NEW w \in Work, TaskStatus(w) \/ Snapshot(w)
      PROVE  RecInv' /\ Unfinished'
  BY <1>1, <1>4, PrepareStep DEF TaskStatus, Snapshot
<1>5. CASE LogTask \/ FinishTask \/ LogData \/ Greeting
  BY <1>5, LogTaskStep, FinishTaskStep, DataStep
<1>6. CASE Disconnect
  <2>1. RecInv' /\ (open' <=> open)
    BY <1>1, <1>6, FrameStep, Zenon DEF Disconnect, disk
  <2> QED
    BY <1>1, <1>6, <2>1 DEF Disconnect, disk, Unfinished, Terminal
<1>7. CASE Connect \/ RefreshMap
  <2>1. CASE NewMap
    <3>1. RecInv' /\ (open => recordings'[dir].meta = recordings[dir].meta)
      BY <1>1, <1>7, <2>1, MapStep DEF Connect, RefreshMap
    <3>2. (open' <=> open) /\ dir' = dir /\ hand' = hand /\ work' = work /\ task' = task
      <4>1. open' = open /\ dir' = dir /\ hand' = hand /\ work' = work /\ task' = task
        BY <1>7 DEF Connect, RefreshMap
      <4> QED
        BY <4>1, Zenon
    <3> QED
      BY <1>1, <3>1, <3>2 DEF Unfinished, Finishes, Terminal
  <2>2. CASE SameMap
    BY <1>2, <1>7, <2>2 DEF Connect, RefreshMap, NewMap, SameMap
  <2> QED
    BY <1>7, <2>1, <2>2 DEF Connect, RefreshMap
<1>8. ASSUME NEW r \in Robots, UpdateSettings(r) \/ RestartService(r)
      PROVE  RecInv' /\ Unfinished'
  BY <1>1, <1>8, ClearStep DEF UpdateSettings, RestartService, ForgetTask, ForgetMap, Unfinished
<1>9. ASSUME NEW d \in 1..used, DeleteReplayTask(d)
      PROVE  RecInv' /\ Unfinished'
  <2>1. RecInv' /\ (open => recordings'[dir].meta \in {recordings[dir].meta, "none"})
    BY <1>1, <1>9, DeleteStep
  <2>2. (open' <=> open) /\ dir' = dir /\ hand' = hand /\ work' = work /\ task' = task
    BY <1>9, Zenon DEF DeleteReplayTask, logger
  <2> QED
    BY <1>1, <2>1, <2>2 DEF Unfinished, Finishes, Terminal
<1> QED
  BY <1>3, <1>4, <1>5, <1>6, <1>7, <1>8, <1>9 DEF Next

LEMMA RunningStep == IInv /\ [Next]_vars => RunningTaskIsRecorded'
<1> SUFFICES ASSUME IInv, [Next]_vars, conn' = "live", Active(work'.status), ~failed'
             PROVE  open' /\ task' = work'.task
  BY DEF RunningTaskIsRecorded, Active
<1>1. RecInv /\ RestOK /\ Unfinished /\ settings \in Robots
  BY DEF IInv, RestOK
(* A step that changes neither the work nor the task. *)
<1>2. ASSUME conn = "live", work' = work, open' <=> open, task' = task, failed' <=> failed
      PROVE  open' /\ task' = work'.task
  BY <1>2 DEF IInv, RunningTaskIsRecorded
<1>3. CASE UNCHANGED vars \/ Reconfigure \/ LogData \/ Greeting
  <2>1. UNCHANGED <<conn, work, task, open, failed>>
    BY <1>3 DEF vars, logger, Reconfigure, LogData, Greeting
  <2>2. (open' <=> open) /\ (failed' <=> failed)
    BY <2>1, Zenon
  <2> QED
    BY <1>2, <2>1, <2>2
<1>4. ASSUME NEW w \in Work, TaskStatus(w) \/ Snapshot(w)
      PROVE  open' /\ task' = work'.task
  BY <1>1, <1>4, PrepareStep DEF TaskStatus, Snapshot
<1>5. CASE LogTask
  BY <1>2, <1>5, Zenon DEF LogTask
<1>6. CASE FinishTask
  <2>1. /\ conn = "live" /\ work' = work /\ (failed' <=> failed)
    BY <1>6, Zenon DEF FinishTask
  <2>2. Active(work.status)
    BY <2>1
  <2> QED
    BY <1>2, <1>6, <2>1, <2>2, FinishTaskStep
<1>7. CASE Disconnect \/ Connect
  BY <1>7 DEF Disconnect, Connect
<1>8. CASE RefreshMap
  BY <1>2, <1>8, Zenon DEF RefreshMap
<1>9. ASSUME NEW r \in Robots, UpdateSettings(r) \/ RestartService(r)
      PROVE  FALSE
  BY <1>9 DEF UpdateSettings, RestartService
<1>10. ASSUME NEW d \in 1..used, DeleteReplayTask(d)
       PROVE  open' /\ task' = work'.task
  BY <1>2, <1>10, Zenon DEF DeleteReplayTask, logger
<1> QED
  BY <1>3, <1>4, <1>5, <1>6, <1>7, <1>8, <1>9, <1>10 DEF Next

(* The inductive invariant holds in every reachable state. *)
THEOREM Inductive == Spec => []IInv
<1>1. IInv /\ [Next]_vars => IInv'
  BY RestStep, RecStep, RunningStep DEF IInv
<1> QED
  BY InitInv, <1>1, PTL DEF Spec

----------------------------------------------------------------------------
(* The invariants of TaskRecording. *)

(* Every field of the logger and every directory keeps its type. *)
THEOREM TypeCorrect == Spec => []TypeOK
  BY Inductive, TypeParts, PTL

(* A recording holds the data, the map and the status of one robot and no  *)
(* message from another task, whatever the stream missed. *)
THEOREM NoMixture == Spec => []OneRobotOneTask
<1>1. IInv => OneRobotOneTask
  <2> SUFFICES ASSUME IInv, NEW d \in 1..used PROVE Pure(recordings[d])
    BY DEF OneRobotOneTask, Pure
  <2>1. d \in 1..MaxRecordings
    BY RecordingAssumption DEF IInv, RecInv, LoggerOK
  <2> QED
    BY <2>1 DEF IInv, RecInv, AllPure
<1> QED
  BY <1>1, Inductive, PTL

(* The task of the robot the viewer listens to is being recorded, unless   *)
(* the file system refused. *)
THEOREM RunningIsRecorded == Spec => []RunningTaskIsRecorded
  BY Inductive, PTL DEF IInv

(* The recording in progress has the map of the live view. *)
THEOREM MapIsRecorded == Spec => []RecordingHasTheMap
<1>1. IInv => RecordingHasTheMap
  BY DEF IInv, RecInv, Current, RecordingHasTheMap
<1> QED
  BY <1>1, Inductive, PTL

----------------------------------------------------------------------------
(* What a step does to the directories: nothing, or it writes to the one   *)
(* in progress, or begins one, or deletes one. *)

Shown(rec) == rec.dir /\ rec.rrd

TaskGoesOn == task' = task /\ dir' = dir
TaskIsOver == task' = None /\ dir' = 0

Untouched ==
    /\ \A i \in Dirs : recordings'[i] = recordings[i]
    /\ used' = used
    /\ TaskGoesOn \/ TaskIsOver

Written ==
    /\ open /\ dir \in 1..used
    /\ \A i \in Dirs : i # dir => recordings'[i] = recordings[i]
    /\ recordings[dir].data \subseteq recordings'[dir].data
    /\ Shown(recordings'[dir]) => Shown(recordings[dir])
    /\ used' = used
    /\ TaskGoesOn \/ TaskIsOver

Begun ==
    /\ used + 1 \in Dirs /\ used' = used + 1
    /\ \A i \in Dirs : i # used' => recordings'[i] = recordings[i]
    /\ recordings[used'].data = {}
    /\ \/ TaskIsOver /\ recordings'[used'].data = {}
       \/ task' \in Tasks /\ task' # task /\ dir' = used'

Deleted ==
    /\ UNCHANGED <<used, task, dir>>
    /\ \E d \in 1..used :
          /\ Shown(recordings[d])
          /\ \A i \in Dirs : i # d => recordings'[i] = recordings[i]
          /\ \/ ~Shown(recordings'[d]) /\ recordings'[d].data = {}
             \/ /\ recordings'[d].data = recordings[d].data
                /\ recordings'[d].maps = recordings[d].maps
                /\ recordings'[d].docs = recordings[d].docs
                /\ recordings'[d].meta \in {recordings[d].meta, "none"}

LEMMA BegunStep ==
  ASSUME RecInv, NEW w \in Work, Starts(w), StartRecording(w)
  PROVE  Untouched \/ Begun
<1> DEFINE d == used + 1
           made(rrd) == [robot |-> settings, task |-> w.task, dir |-> TRUE, rrd |-> rrd,
                         meta |-> IF rrd THEN w.status ELSE "none",
                         data |-> {}, docs |-> {},
                         maps |-> IF rrd THEN MapsAtStart ELSE {}]
<1>1. /\ d \in Dirs /\ recordings[d].data = {} /\ recordings \in Disk
      /\ w.task \in Tasks /\ w.task # task
  <2>1. used < MaxRecordings /\ w.task \in Tasks /\ w.task # task
    <3>1. w.task \in Tasks \cup {None}
      BY DEF Work, Idle
    <3> QED
      BY <3>1 DEF StartRecording, Starts
  <2>2. d \in Dirs /\ d > used /\ recordings \in Disk
    BY RecordingAssumption, <2>1 DEF RecInv, LoggerOK, Dirs
  <2>3. recordings[d] = Unused
    BY <2>2 DEF RecInv, Unmade, Dirs
  <2> QED
    BY <2>1, <2>2, <2>3 DEF Unused
<1>2. CASE Cleared /\ failed' = TRUE /\ UNCHANGED disk
  BY <1>2 DEF Untouched, TaskIsOver, Cleared, disk
<1>3. CASE /\ Cleared /\ failed' = TRUE
           /\ recordings' = [recordings EXCEPT ![d] = made(FALSE)] /\ used' = d
  <2>1. made(FALSE).data = {}
    OBVIOUS
  <2> HIDE DEF made
  <2>2. PICK rec : rec.data = {} /\ recordings' = [recordings EXCEPT ![d] = rec]
    BY <1>3, <2>1, Zenon
  <2> QED
    BY <1>1, <1>3, <2>2 DEF Begun, TaskIsOver, Cleared, Disk
<1>4. CASE /\ task' = w.task /\ dir' = d /\ open' = TRUE /\ failed' = FALSE
           /\ recordings' = [recordings EXCEPT ![d] = made(TRUE)] /\ used' = d
  <2> HIDE DEF made
  <2>1. PICK rec : recordings' = [recordings EXCEPT ![d] = rec]
    BY <1>4, Zenon
  <2> QED
    BY <1>1, <1>4, <2>1 DEF Begun, Disk
<1> QED
  BY <1>2, <1>3, <1>4 DEF StartRecording, Slot

LEMMA WrittenStep ==
  ASSUME RecInv, open, More(recordings'), UNCHANGED <<used, task, dir>>
  PROVE  Written
  BY OpenDir DEF More, Written, TaskGoesOn, Shown

LEMMA StatusEffect ==
  ASSUME RecInv, NEW w \in Work, PrepareTaskRecording(w)
  PROVE  Untouched \/ Written \/ Begun
<1>1. CASE Starts(w) /\ StartRecording(w)
  BY <1>1, BegunStep
<1>2. CASE /\ recordings' = IF open /\ task = w.task
                            THEN WriteMetadata(dir, w.status) ELSE recordings
           /\ UNCHANGED <<task, dir, open, used, failed>>
  <2>1. CASE open /\ task = w.task
    <3>1. recordings' = WriteMetadata(dir, w.status)
      BY <1>2, <2>1, Zenon
    <3>2. More(recordings')
      <4>1. w.status \in Status
        BY DEF Work, Idle, Status
      <4>2. More(WriteMetadata(dir, w.status))
        BY <2>1, <4>1, WriteMetadataIs
      <4> QED
        BY <3>1, <4>2
    <3> QED
      BY <1>2, <2>1, <3>2, WrittenStep
  <2>2. CASE ~(open /\ task = w.task)
    <3>1. recordings' = recordings
      BY <1>2, <2>2, Zenon
    <3> QED
      BY <1>2, <3>1 DEF Untouched, TaskGoesOn
  <2> QED
    BY <2>1, <2>2
<1> QED
  BY <1>1, <1>2 DEF PrepareTaskRecording

LEMMA MapEffect ==
  ASSUME RecInv, NewMap, UNCHANGED <<task, dir, used>>
  PROVE  Untouched \/ Written
<1>1. CASE recordings' = recordings
  BY <1>1 DEF Untouched, TaskGoesOn
<1>2. CASE /\ open /\ recordings[dir].rrd
           /\ recordings' = [recordings EXCEPT ![dir].maps = @ \cup {settings}]
  <2>1. dir \in Dirs /\ dir \in 1..used /\ recordings \in Disk
    BY <1>2 DEF RecInv, LoggerOK, Shape, Dirs
  <2>2. /\ \A i \in Dirs : i # dir => recordings'[i] = recordings[i]
        /\ recordings'[dir].data = recordings[dir].data
        /\ recordings'[dir].dir = recordings[dir].dir
        /\ recordings'[dir].rrd = recordings[dir].rrd
    BY <1>2, <2>1 DEF Disk, Recording
  <2> QED
    BY <1>2, <2>1, <2>2 DEF Written, TaskGoesOn, Shown
<1> QED
  BY <1>1, <1>2 DEF NewMap

LEMMA DeleteEffect ==
  ASSUME RecInv, NEW d \in 1..used, DeleteReplayTask(d)
  PROVE  Deleted
<1> DEFINE rec == recordings[d]
<1>1. d \in Dirs /\ recordings \in Disk /\ rec \in Recording
  BY RecordingAssumption DEF RecInv, LoggerOK, Dirs, Disk
<1>2. UNCHANGED <<used, task, dir>> /\ Shown(rec)
  BY DEF DeleteReplayTask, logger, Listed, Shown
<1>3. /\ \A i \in Dirs : i # d => recordings'[i] = recordings[i]
      /\ \/ ~Shown(recordings'[d]) /\ recordings'[d].data = {}
         \/ /\ recordings'[d].data = rec.data
            /\ recordings'[d].maps = rec.maps
            /\ recordings'[d].docs = rec.docs
            /\ recordings'[d].meta \in {rec.meta, "none"}
  <2>1. CASE recordings' = [recordings EXCEPT ![d] = Unused]
    <3>1. ~Shown(Unused) /\ Unused.data = {}
      BY DEF Unused, Shown
    <3> QED
      BY <1>1, <2>1, <3>1 DEF Disk
  <2>2. ASSUME NEW m,
               recordings' = [recordings EXCEPT ![d] = [rec EXCEPT !.meta = m, !.rrd = FALSE,
                                                                   !.data = {}, !.maps = {},
                                                                   !.docs = {}]]
        PROVE  /\ \A i \in Dirs : i # d => recordings'[i] = recordings[i]
               /\ ~Shown(recordings'[d]) /\ recordings'[d].data = {}
    <3> DEFINE new == [rec EXCEPT !.meta = m, !.rrd = FALSE, !.data = {}, !.maps = {},
                             !.docs = {}]
    <3>1. ~new.rrd /\ new.data = {}
      BY <1>1 DEF Recording
    <3> HIDE DEF new
    <3>2. recordings' = [recordings EXCEPT ![d] = new]
      BY <2>2, Zenon DEF new
    <3> QED
      BY <1>1, <3>1, <3>2 DEF Disk, Shown
  <2>3. CASE recordings' = [recordings EXCEPT ![d].meta = "none"]
    BY <1>1, <2>3 DEF Disk, Recording
  <2> QED
    BY <2>1, <2>2, <2>3 DEF DeleteReplayTask
<1> QED
  BY <1>2, <1>3 DEF Deleted

LEMMA Effects == IInv /\ [Next]_vars => Untouched \/ Written \/ Begun \/ Deleted
<1> SUFFICES ASSUME IInv, [Next]_vars PROVE Untouched \/ Written \/ Begun \/ Deleted
  OBVIOUS
<1>1. RecInv /\ RestOK
  BY DEF IInv
<1>2. CASE UNCHANGED <<disk, task, dir>>
  BY <1>2 DEF Untouched, TaskGoesOn, disk
<1>3. CASE UNCHANGED vars \/ Reconfigure \/ Disconnect
  BY <1>2, <1>3 DEF vars, logger, Reconfigure, Disconnect
<1>4. ASSUME NEW w \in Work, TaskStatus(w) \/ Snapshot(w)
      PROVE  Untouched \/ Written \/ Begun \/ Deleted
  BY <1>1, <1>4, StatusEffect DEF TaskStatus, Snapshot
<1>5. CASE LogTask
  <2>1. UNCHANGED <<used, task, dir>>
    BY <1>5 DEF LogTask
  <2>2. CASE open
    BY <1>1, <1>5, <2>1, <2>2, LogTaskStep, WrittenStep
  <2>3. CASE ~open
    BY <1>2, <1>5, <2>1, <2>3, LogTaskStep DEF disk
  <2> QED
    BY <2>2, <2>3
<1>6. CASE FinishTask
  <2>1. CASE Cleared /\ UNCHANGED disk
    BY <2>1 DEF Untouched, TaskIsOver, Cleared, disk
  <2> QED
    BY <1>1, <1>2, <1>6, <2>1, FinishTaskStep, WrittenStep
<1>7. CASE LogData \/ Greeting
  BY <1>1, <1>2, <1>7, DataStep, WrittenStep DEF disk
<1>8. CASE Connect \/ RefreshMap
  BY <1>1, <1>2, <1>8, MapEffect DEF Connect, RefreshMap, SameMap, disk
<1>9. ASSUME NEW r \in Robots, UpdateSettings(r) \/ RestartService(r)
      PROVE  Untouched
  BY <1>9 DEF UpdateSettings, RestartService, ForgetTask, Cleared, Untouched, TaskIsOver, disk
<1>10. ASSUME NEW d \in 1..used, DeleteReplayTask(d)
       PROVE  Deleted
  BY <1>1, <1>10, DeleteEffect
<1> QED
  BY <1>3, <1>4, <1>5, <1>6, <1>7, <1>8, <1>9, <1>10 DEF Next

----------------------------------------------------------------------------
(* The action properties and the implementation of TaskRecorder. *)

(* A recording whose task.json says the task is over gets the message that *)
(* ended the task, which the logger has in hand, and is complete then.     *)
THEOREM FinishedStaysFrozen == Spec => FinishedIsFrozen
<1> DEFINE Frozen == \A d \in 1..used :
             Terminal(recordings[d].meta) /\ ~Finishing(d) /\ Listed(d)' =>
                 /\ recordings'[d].data = recordings[d].data
                 /\ recordings'[d].maps = recordings[d].maps
                 /\ recordings'[d].docs = recordings[d].docs
                 /\ recordings'[d].meta \in {recordings[d].meta, "none"}
<1>1. IInv /\ [Next]_vars => [Frozen]_vars
  <2> SUFFICES ASSUME IInv, [Next]_vars, NEW d \in 1..used,
                      Terminal(recordings[d].meta), ~Finishing(d), Shown(recordings'[d])
               PROVE  /\ recordings'[d].data = recordings[d].data
                      /\ recordings'[d].maps = recordings[d].maps
                      /\ recordings'[d].docs = recordings[d].docs
                      /\ recordings'[d].meta \in {recordings[d].meta, "none"}
    BY DEF Listed, Shown
  <2>1. d \in Dirs /\ d # used + 1
    BY RecordingAssumption DEF IInv, RecInv, LoggerOK, Dirs
  <2>2. open => d # dir
    BY DEF IInv, Unfinished, Finishing
  <2>3. CASE Untouched \/ Written \/ Begun
    BY <2>1, <2>2, <2>3 DEF Untouched, Written, Begun
  <2>4. CASE Deleted
    BY <2>1, <2>4 DEF Deleted
  <2> QED
    BY <2>3, <2>4, Effects
<1> QED
  BY <1>1, Inductive, PTL DEF Spec, FinishedIsFrozen

(* A task that left the list of replays does not come back: a start makes  *)
(* a new directory, and writing brings no file back. *)
THEOREM DeletedIsGone == Spec => DeletedStaysDeleted
<1> DEFINE Gone == \A d \in 1..used : ~Listed(d) => ~Listed(d)'
<1>1. IInv /\ [Next]_vars => [Gone]_vars
  <2> SUFFICES ASSUME IInv, [Next]_vars, NEW d \in 1..used, ~Shown(recordings[d])
               PROVE  ~Shown(recordings'[d])
    BY DEF Listed, Shown
  <2>1. d \in Dirs /\ d # used + 1
    BY RecordingAssumption DEF IInv, RecInv, LoggerOK, Dirs
  <2>2. CASE Untouched \/ Begun
    BY <2>1, <2>2 DEF Untouched, Begun
  <2>3. CASE Written
    BY <2>1, <2>3 DEF Written
  <2>4. CASE Deleted
    BY <2>1, <2>4 DEF Deleted
  <2> QED
    BY <2>2, <2>3, <2>4, Effects
<1> QED
  BY <1>1, Inductive, PTL DEF Spec, DeletedStaysDeleted

(* The logger of the viewer implements the abstract recorder: every step   *)
(* begins a task in the next directory, ends one, writes to the one in     *)
(* progress, or loses one, or changes nothing the recorder knows of. *)
THEOREM ImplementsRecorder == Spec => IsTaskRecorder
<1> DEFINE content == [d \in 1..MaxRecordings |-> recordings[d].data]
<1>1. Init => Recorder!Init
  <2> SUFFICES ASSUME Init PROVE Recorder!Init
    OBVIOUS
  <2>1. Unused.data = {}
    BY DEF Unused
  <2>2. /\ task = None /\ dir = 0 /\ used = 0
        /\ recordings = [d \in 1..MaxRecordings |-> Unused]
    BY DEF Init
  <2>3. content = [d \in 1..MaxRecordings |-> {}]
    BY <2>1, <2>2
  <2> QED
    BY <2>2, <2>3 DEF Recorder!Init
<1>2. IInv /\ IInv' /\ [Next]_vars => [Recorder!Next]_<<task, dir, used, content>>
  <2> SUFFICES ASSUME IInv, IInv', [Next]_vars
               PROVE  Recorder!Next \/ UNCHANGED <<task, dir, used, content>>
    OBVIOUS
  <2>1. /\ content' \in [1..MaxRecordings -> SUBSET Origins]
        /\ \A i \in 1..MaxRecordings : content[i] = recordings[i].data
        /\ \A i \in 1..MaxRecordings : content'[i] = recordings'[i].data
    BY DEF IInv, RecInv, LoggerOK, Disk, Dirs, Recording
  <2>2. /\ content \in [1..MaxRecordings -> SUBSET Origins]
        /\ used \in Nat /\ dir \in 0..used /\ (open => dir # 0)
    BY DEF IInv, RecInv, LoggerOK, Shape, Disk, Dirs, Recording
  <2> HIDE DEF content
  <2>3. ASSUME \A i \in 1..MaxRecordings : recordings'[i].data = recordings[i].data
        PROVE  content' = content
    BY <2>3 DEF content
  <2>4. CASE Untouched
    <3>1. content' = content
      BY <2>3, <2>4 DEF Untouched, Dirs
    <3>2. CASE TaskGoesOn
      BY <2>4, <3>1, <3>2 DEF Untouched, TaskGoesOn
    <3>3. CASE TaskIsOver
      BY <2>1, <2>2, <2>4, <3>1, <3>3
         DEF Untouched, TaskIsOver, Recorder!Next, Recorder!End, Recorder!Grows, content
    <3> QED
      BY <2>4, <3>2, <3>3 DEF Untouched
  <2>5. CASE Written
    <3>1. /\ dir # 0 /\ used' = used
          /\ \A i \in 1..MaxRecordings : content[i] \subseteq content'[i]
          /\ \A i \in 1..MaxRecordings : i # dir => content'[i] = content[i]
      BY <2>1, <2>2, <2>5 DEF Written, Dirs
    <3>2. Recorder!Grows({dir})
      BY <2>1, <2>2, <3>1 DEF Recorder!Grows, content
    <3>3. CASE TaskGoesOn
      BY <3>1, <3>2, <3>3 DEF TaskGoesOn, Recorder!Next, Recorder!Write
    <3>4. CASE TaskIsOver
      BY <2>2, <3>1, <3>2, <3>4 DEF TaskIsOver, Recorder!Next, Recorder!End
    <3> QED
      BY <2>5, <3>3, <3>4 DEF Written
  <2>6. CASE Begun
    <3>1. /\ used' = used + 1 /\ used' \in 1..MaxRecordings
          /\ \A i \in 1..MaxRecordings : i # used' => content'[i] = content[i]
          /\ content[used'] = {}
      BY <2>1, <2>6 DEF Begun, Dirs
    <3>2. CASE TaskIsOver /\ recordings'[used'].data = {}
      <4>1. content' = content
        <5>1. \A i \in 1..MaxRecordings : recordings'[i].data = recordings[i].data
          BY <2>6, <3>2 DEF Begun, Dirs
        <5> QED
          BY <2>3, <5>1
      <4>2. Recorder!Grows({dir})
        BY <2>1, <2>2, <4>1 DEF Recorder!Grows, content
      <4> QED
        BY <2>2, <3>1, <3>2, <4>2 DEF TaskIsOver, Recorder!Next, Recorder!End
    <3>3. CASE task' \in Tasks /\ task' # task /\ dir' = used'
      <4>1. Recorder!Grows({dir, used'})
        BY <2>1, <2>2, <3>1 DEF Recorder!Grows, content
      <4>2. Recorder!Begin(task')
        BY <3>1, <3>3, <4>1 DEF Recorder!Begin
      <4> QED
        BY <3>3, <4>2 DEF Recorder!Next
    <3> QED
      BY <2>6, <3>2, <3>3 DEF Begun
  <2>7. CASE Deleted
    <3>1. UNCHANGED <<used, task, dir>>
      BY <2>7 DEF Deleted
    <3>2. PICK d \in 1..used :
            /\ \A i \in Dirs : i # d => recordings'[i] = recordings[i]
            /\ recordings'[d].data \in {{}, recordings[d].data}
      BY <2>7 DEF Deleted
    <3>3. d \in 1..MaxRecordings
      BY RecordingAssumption DEF IInv, RecInv, LoggerOK
    <3>4. CASE recordings'[d].data = recordings[d].data
      <4>1. \A i \in 1..MaxRecordings : recordings'[i].data = recordings[i].data
        BY <3>2, <3>4 DEF Dirs
      <4> QED
        BY <2>3, <3>1, <4>1
    <3>5. CASE recordings'[d].data = {}
      <4>1. content' = [content EXCEPT ![d] = {}]
        BY <2>1, <2>2, <3>2, <3>3, <3>5 DEF Dirs
      <4> QED
        BY <3>1, <3>3, <4>1 DEF Recorder!Next, Recorder!Lose, content
    <3> QED
      BY <3>2, <3>4, <3>5
  <2> QED
    BY <2>4, <2>5, <2>6, <2>7, Effects
<1> QED
  BY <1>1, <1>2, Inductive, PTL DEF Spec, IsTaskRecorder, Recorder!Spec, Recorder!vars
=============================================================================
