---------------------------- MODULE ReplayPanel ----------------------------
(***************************************************************************)
(* The list of task recordings of the Woosh viewer: replay_ui in main.rs   *)
(* with replay_tasks_in and delete_replay_task in native_sidecar.rs.       *)
(*                                                                         *)
(* Three things have to agree and are kept apart: the directory the Rerun  *)
(* viewer shows, the label and the marked row, and the directories on the  *)
(* disk.  The panel remembers the marked recording by its task id, the     *)
(* list reads that id from task.json or else takes the directory's name,   *)
(* and the service's thread writes task.json while the panel reads it.     *)
(* Directories are numbered in the order of their creation: their names    *)
(* begin with the time.  One click is one step.                            *)
(***************************************************************************)
EXTENDS Naturals, Sequences

CONSTANTS Tasks,      \* task ids of the robot
          None,       \* no task, no directory
          MaxDirs     \* bound on the directories ever made

ASSUME ReplayAssumption ==
    /\ MaxDirs \in Nat /\ Tasks \cap Nat = {}
    /\ None \notin Tasks \cup Nat

Dirs == 1..MaxDirs

VARIABLES
    disk,       \* history_dir: per directory whether it and its recording
                \* are there and the id in task.json, None if unreadable
    writer,     \* the service's thread: its directory, task and next write
    made,       \* the directories made so far, each as the task it is for
    list,       \* replay_tasks: the rows, of a directory and an id
    loaded,     \* replay_loaded
    confirm,    \* replay_delete_confirmation: a row or NoRow
    failed,     \* replay_error is set
    selected,   \* selected_replay: the id of the marked row
    label,      \* source_label: the directory it was opened from, None: live
    view        \* the Rerun viewer: the directory it shows, None for live

service == <<disk, writer, made>>
panel   == <<list, loaded, confirm, failed, selected, label, view>>
vars    == <<service, panel>>

Ids == Tasks \cup Dirs
Rows == [dir : Dirs, id : Ids]
NoRow == [dir |-> None, id |-> None]
Absent == [there |-> FALSE, recorded |-> FALSE, id |-> None]
Idle == [dir |-> None, task |-> None, next |-> "none"]

TypeOK ==
    /\ disk \in [Dirs -> [there : BOOLEAN, recorded : BOOLEAN, id : Tasks \cup {None}]]
    /\ writer \in {Idle} \cup [dir : Dirs, task : Tasks, next : {"save", "empty", "text"}]
    /\ made \in Seq(Tasks) /\ Len(made) <= MaxDirs
    /\ list \subseteq Rows /\ confirm \in Rows \cup {NoRow}
    /\ loaded \in BOOLEAN /\ failed \in BOOLEAN
    /\ selected \in Ids \cup {None}
    /\ label \in Dirs \cup {None} /\ view \in Dirs \cup {None}

----------------------------------------------------------------------------
(* The service's thread: start_task_recording and write_task_metadata.     *)

MakeDir(t) ==
    /\ writer = Idle /\ Len(made) < MaxDirs
    /\ made' = Append(made, t)
    /\ disk' = [disk EXCEPT ![Len(made')].there = TRUE]
    /\ writer' = [dir |-> Len(made'), task |-> t, next |-> "save"]
    /\ UNCHANGED panel

SaveRecording ==
    /\ writer.next = "save"
    /\ \/ /\ disk' = [disk EXCEPT ![writer.dir].recorded = TRUE]
          /\ writer' = [writer EXCEPT !.next = "empty"]
       \/ UNCHANGED disk /\ writer' = Idle
    /\ UNCHANGED <<made, panel>>

(* fs::write empties task.json and then writes it; in a directory that was *)
(* deleted meanwhile it fails.                                             *)
WriteMetadata ==
    /\ writer.next \in {"empty", "text"}
    /\ LET says == IF writer.next = "text" THEN writer.task ELSE None IN
       disk' = [disk EXCEPT ![writer.dir].id = IF disk[writer.dir].there THEN says ELSE @]
    /\ writer' = [writer EXCEPT !.next = IF @ = "text" THEN "empty" ELSE "text"]
    /\ UNCHANGED <<made, panel>>

FinishRecording ==
    /\ writer.next = "empty"
    /\ writer' = Idle
    /\ UNCHANGED <<disk, made, panel>>

----------------------------------------------------------------------------
(* The list                                                                *)

(* Mutated form: no name for a recording whose task.json is unreadable. *)
RowId_Unnamed(d) == disk[d].id

(* The task id, or else the name of the directory. *)
RowId(d) == IF disk[d].id = None THEN d ELSE disk[d].id

(* replay_tasks_in: one row for each directory with a recording. *)
Listed == {[dir |-> d, id |-> RowId(d)] : d \in {e \in Dirs : disk[e].recorded}}

Load == list' = Listed /\ loaded' = TRUE /\ failed' = FALSE

(* The button that opens the dialog loads the list once. *)
OpenDialog == ~loaded /\ Load /\ UNCHANGED <<service, confirm, selected, label, view>>

Refresh == Load /\ UNCHANGED <<service, confirm, selected, label, view>>

----------------------------------------------------------------------------
(* What the viewer shows                                                   *)

GoLive == selected' = None /\ label' = None /\ view' = None

ShowLive == GoLive /\ UNCHANGED <<service, list, loaded, confirm, failed>>

(* Mutated form: the row is marked, the name in the panel is the old one. *)
ShowRow_SilentLabel(r) == selected' = r.id /\ view' = r.dir /\ UNCHANGED label

ShowRow(r) == selected' = r.id /\ label' = r.dir /\ view' = r.dir

OpenTask ==
    /\ \E r \in list : ShowRow(r)
    /\ UNCHANGED <<service, list, loaded, confirm, failed>>

(* A new connection, or a reload of the live data, opens the live source;  *)
(* a deletion that waits for its confirmation goes on waiting.             *)
ApplyConnection ==
    /\ GoLive
    /\ list' = {} /\ loaded' = FALSE /\ failed' = FALSE
    /\ UNCHANGED <<service, confirm>>

(* The reload of the live data when the connection form is not valid: the  *)
(* mark and the label are gone, and nothing is opened.                     *)
RefuseReload ==
    /\ selected' = None /\ label' = None
    /\ UNCHANGED <<service, list, loaded, confirm, failed, view>>

----------------------------------------------------------------------------
(* Deletion                                                                *)

RequestDelete ==
    /\ confirm' \in list /\ failed' = FALSE
    /\ UNCHANGED <<service, list, loaded, selected, label, view>>

CancelDelete ==
    /\ confirm # NoRow
    /\ confirm' = NoRow
    /\ UNCHANGED <<service, list, loaded, failed, selected, label, view>>

(* delete_replay_task: a directory without a recording is refused; then    *)
(* all of it is removed, or some of its files and an error.                *)
Removed == disk[confirm.dir].recorded /\ disk' = [disk EXCEPT ![confirm.dir] = Absent]
NotRemoved ==
    \/ UNCHANGED disk
    \/ /\ disk[confirm.dir].recorded
       /\ \E i \in {None, disk[confirm.dir].id}, left \in BOOLEAN :
            disk' = [disk EXCEPT ![confirm.dir].id = i, ![confirm.dir].recorded = left]

(* Mutated form: the viewer goes live whatever was deleted. *)
AfterDelete_Always == GoLive

(* The viewer goes live when the deleted row has the id of the marked one. *)
AfterDelete == IF selected = confirm.id THEN GoLive ELSE UNCHANGED <<selected, label, view>>

(* The list is read from the disk again. *)
ListAfterDelete == list' = Listed'

ConfirmDelete ==
    /\ confirm # NoRow /\ confirm' = NoRow
    /\ Removed
    /\ AfterDelete /\ ListAfterDelete
    /\ failed' = FALSE
    /\ UNCHANGED <<writer, made, loaded>>

(* The error is shown; list, mark and viewer stay as they were. *)
DeleteFails ==
    /\ confirm # NoRow /\ confirm' = NoRow
    /\ NotRemoved
    /\ failed' = TRUE
    /\ UNCHANGED <<writer, made, list, loaded, selected, label, view>>

----------------------------------------------------------------------------

Init ==
    /\ disk = [d \in Dirs |-> Absent] /\ writer = Idle /\ made = <<>>
    /\ list = {} /\ loaded = FALSE
    /\ confirm = NoRow /\ failed = FALSE
    /\ selected = None /\ label = None /\ view = None

Next ==
    \/ \E t \in Tasks : MakeDir(t)
    \/ SaveRecording \/ WriteMetadata \/ FinishRecording
    \/ OpenDialog \/ Refresh \/ ShowLive \/ OpenTask \/ ApplyConnection \/ RefuseReload
    \/ RequestDelete \/ CancelDelete \/ ConfirmDelete \/ DeleteFails

Spec == Init /\ [][Next]_vars

----------------------------------------------------------------------------
(* Safety                                                                  *)

(* The label names what the viewer shows, and a row is marked exactly      *)
(* while a recording is shown.                                             *)
LabelAgrees == label = view /\ (selected = None <=> view = None)

(* Every row can be opened and deleted: it has a recording on the disk.    *)
RowsAreRecorded == \A r \in list : disk[r.dir].recorded

(* What the panel says stays true.  Only a reload that the form's settings *)
(* refuse separates the label from the viewer: from then on "live data"    *)
(* stands over an old recording.  And only a deletion that failed half way *)
(* leaves a row without a recording; the panel shows the error at that     *)
(* moment.                                                                 *)
PanelStaysTrue ==
    [][/\ LabelAgrees => LabelAgrees' \/ RefuseReload
       /\ RowsAreRecorded => RowsAreRecorded' \/ failed']_vars

Viewable(d) == d = None \/ disk[d].recorded

(* A recording that is deleted while the viewer shows it leaves the screen *)
(* with the same click - unless the deletion failed half way, the label    *)
(* was wrong before, or task.json was unreadable in one of the two         *)
(* listings, so that the recording was marked under another id than it is  *)
(* deleted under.                                                          *)
DeletedLeaves ==
    view' = view /\ Viewable(view) /\ ~Viewable(view)' =>
        failed' \/ ~LabelAgrees \/ confirm.dir \in {selected, confirm.id}

(* Deleting one recording does not take another one off the screen, unless *)
(* both are recordings of one task: rows are marked by task id.            *)
OthersStay ==
    \A d \in Dirs :
        view # None /\ disk[d].recorded /\ ~disk'[d].recorded =>
            view \in {view', d} \/ made[view] = made[d]

(* A deletion clears the screen of the recording it deletes and of no      *)
(* other, but for the cases named above.                                   *)
DeletionIsExact == [][DeletedLeaves /\ OthersStay]_vars
=============================================================================
