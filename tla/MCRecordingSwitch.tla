-------------------------- MODULE MCRecordingSwitch --------------------------
(* RecordingSwitch with the bounds of its configuration. *)
EXTENDS RecordingSwitch
=============================================================================
