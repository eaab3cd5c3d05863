---------------------------- MODULE TaskRecorder ----------------------------
(***************************************************************************)
(* What a recorder of tasks promises, whoever implements it: the viewer's  *)
(* NavigationLogger and the Python sidecar's ObservedNavigation are both   *)
(* shown to implement this specification.                                  *)
(*                                                                         *)
(* Recordings are numbered in the order they are begun.  At most one is    *)
(* being written, which is always the newest; what a recording holds only  *)
(* grows while it is that one, and afterwards it can only be lost as a     *)
(* whole.  A task that is being recorded is not begun a second time.       *)
(***************************************************************************)
EXTENDS Naturals

CONSTANTS Tasks, None,   \* tasks, and no task
          Slots,         \* the numbers of recordings
          Items          \* what a recording may hold

VARIABLES
    task,      \* the task being recorded
    current,   \* the number of its recording, 0 for none
    count,     \* recordings begun so far
    content    \* what each recording holds

vars == <<task, current, count, content>>

Init ==
    /\ task = None /\ current = 0 /\ count = 0
    /\ content = [i \in Slots |-> {}]

(* Only the recordings of S may get more. *)
Grows(S) ==
    /\ content' \in [Slots -> SUBSET Items]
    /\ \A i \in Slots :
          /\ content[i] \subseteq content'[i]
          /\ i \notin S => content'[i] = content[i]

(* A task begins: it gets the next recording, and what was being recorded  *)
(* is over, perhaps with a last entry.                                     *)
Begin(t) ==
    /\ t # task
    /\ count' = count + 1
    /\ task' = t /\ current' = count'
    /\ Grows({current, count'})

(* The recording is over, or a new one could not be begun, which may leave *)
(* an empty recording behind.                                              *)
End ==
    /\ task' = None /\ current' = 0
    /\ count' \in {count, count + 1}
    /\ Grows({current})

Write ==
    /\ current # 0
    /\ Grows({current})
    /\ UNCHANGED <<task, current, count>>

(* A recording is deleted, also the one being written. *)
Lose(i) ==
    /\ content' = [content EXCEPT ![i] = {}]
    /\ UNCHANGED <<task, current, count>>

Next ==
    \/ \E t \in Tasks : Begin(t)
    \/ End \/ Write
    \/ \E i \in Slots : Lose(i)

Spec == Init /\ [][Next]_vars
=============================================================================
