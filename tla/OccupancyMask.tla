--------------------------- MODULE OccupancyMask ---------------------------
(***************************************************************************)
(* The dynamic map: the robot sends runs of inflated and of occupied cells *)
(* and both programs fill a mask from them and draw it, the viewer's       *)
(* native service (log_dynamic_map and apply_runs in native_sidecar.rs)    *)
(* and the Python sidecar (_log_dynamic_map in rerun_sink.py).  The first  *)
(* counts in machine words, the second in unbounded integers; the first    *)
(* reads what is missing or negative as zero, the second raises at a run   *)
(* that is cut short and draws nothing.                                    *)
(*                                                                         *)
(* One fill is one step.  The robot is not part of the repository.         *)
(***************************************************************************)
EXTENDS Integers, Sequences

CONSTANTS MaxWord,    \* the largest usize
          Sizes,      \* the <<width, height>> a robot sends
          Sent,       \* the runs it sends
          MaxRuns     \* bound on the runs of one message

(* A run; whole when it is a pair of integers, else it is cut short. *)
Run == [start : Int, length : Int, whole : BOOLEAN]

(* What the theorems assume of the constants. *)
MaskAssumption ==
    /\ MaxWord \in Nat /\ MaxRuns \in Nat
    /\ Sizes \subseteq (0..MaxWord) \X (0..MaxWord)
    /\ Sent \subseteq {r \in Run : r.start <= MaxWord /\ r.length <= MaxWord}

VARIABLES
    message,   \* the last dynamic_map_update that was not ignored
    viewer,    \* the native service
    sidecar,   \* the Python sidecar
    gaveUp     \* history: the sidecar raised at the last message

maskVars == <<message, viewer, sidecar, gaveUp>>

Classes == 0..2
Free == 0
Inflated == 1
Occupied == 2

Runs == UNION {[1..n -> Sent] : n \in 0..MaxRuns}

(* What a message that clears carries besides is not looked at. *)
Empty == [clear |-> TRUE, size |-> <<0, 0>>, inflated |-> <<>>, occupied |-> <<>>]

Inflations(m) == Len(m.inflated)
Occupations(m) == Len(m.occupied)

Message ==
    {m \in [clear : {FALSE}, size : Sizes, inflated : Runs, occupied : Runs] :
        Inflations(m) + Occupations(m) <= MaxRuns}
    \cup {Empty}

Cells(m) == m.size[1] * m.size[2]
Masks == UNION {[0..(n - 1) -> Classes] : n \in 0..MaxWord}

(* Nothing is drawn. *)
Blank == [i \in {} |-> Free]

(* mask has been filled with the first done runs; screen is what was drawn *)
(* last.                                                                   *)
Decoder == [at : {"idle", "filling"}, mask : Masks, done : 0..MaxRuns, screen : Masks]

MaskTypeOK ==
    /\ message \in Message
    /\ viewer \in Decoder /\ sidecar \in Decoder
    /\ gaveUp \in BOOLEAN

Idle == [at |-> "idle", mask |-> Blank, done |-> 0, screen |-> Blank]

MaskInit == message = Empty /\ viewer = Idle /\ sidecar = Idle /\ gaveUp = FALSE

----------------------------------------------------------------------------
(* Both: what a message begins and how it ends                             *)

(* A mask that is empty, or larger than a word can count, is not made. *)
Drawable(m) == Cells(m) \in 1..MaxWord

(* A message that clears draws nothing, one without cells is ignored. *)
Received(d, m) ==
    IF m.clear THEN [d EXCEPT !.screen = Blank]
    ELSE IF ~Drawable(m) THEN d
    ELSE [d EXCEPT !.at = "filling", !.done = 0,
                   !.mask = [i \in 0..(Cells(m) - 1) |-> Free]]

Receive ==
    /\ viewer.at = "idle" /\ sidecar.at = "idle"
    /\ message' \in {m \in Message : m.clear \/ Drawable(m)}
    /\ viewer' = Received(viewer, message')
    /\ sidecar' = Received(sidecar, message')
    /\ gaveUp' = FALSE

Ignore ==
    /\ viewer.at = "idle" /\ sidecar.at = "idle"
    /\ \E m \in Message : ~m.clear /\ ~Drawable(m)
    /\ UNCHANGED maskVars

(* The runs in the order they are filled in: inflated ones first. *)
Ordered(m) ==
    [n \in 1..(Inflations(m) + Occupations(m)) |->
        IF n <= Inflations(m) THEN [run |-> m.inflated[n], class |-> Inflated]
        ELSE [run |-> m.occupied[n - Inflations(m)], class |-> Occupied]]

Todo(d) == d.at = "filling" /\ d.done < Len(Ordered(message))
NextFill(d) == Ordered(message)[d.done + 1]

(* slice.fill(class): the cells from start to before end. *)
Filled(mask, start, end, class) ==
    [i \in DOMAIN mask |-> IF start <= i /\ i < end THEN class ELSE mask[i]]

Drew(d) == [d EXCEPT !.at = "idle", !.mask = Blank, !.screen = d.mask]

Least(a, b) == IF a < b THEN a ELSE b
AtLeastZero(n) == IF n < 0 THEN 0 ELSE n

----------------------------------------------------------------------------
(* The viewer: words                                                       *)

(* saturating_add. *)
Plus(a, b) == Least(a + b, MaxWord)

(* as_u64().unwrap_or(0); a run that is cut short has no length. *)
Word(n) == AtLeastZero(n)

ViewerFill ==
    /\ Todo(viewer)
    /\ LET f == NextFill(viewer)
           start == Word(f.run.start)
           length == IF f.run.whole THEN Word(f.run.length) ELSE 0
           end == Least(Plus(start, length), Cells(message))
       IN viewer' = [viewer EXCEPT !.done = @ + 1,
                                   !.mask = Filled(@, start, end, f.class)]
    /\ UNCHANGED <<message, sidecar, gaveUp>>

ViewerDraw ==
    /\ viewer.at = "filling" /\ ~Todo(viewer)
    /\ viewer' = Drew(viewer)
    /\ UNCHANGED <<message, sidecar, gaveUp>>

----------------------------------------------------------------------------
(* The sidecar: unbounded integers                                         *)

First(n) == AtLeastZero(n)

SidecarFill ==
    /\ Todo(sidecar)
    /\ LET f == NextFill(sidecar)
           start == First(f.run.start)
           end == Least(Cells(message), start + AtLeastZero(f.run.length))
       IN /\ f.run.whole
          /\ sidecar' = [sidecar EXCEPT !.done = @ + 1,
                                        !.mask = Filled(@, start, end, f.class)]
    /\ UNCHANGED <<message, viewer, gaveUp>>

(* Unpacking the run raises; the worker logs it and draws nothing. *)
SidecarRaises ==
    /\ Todo(sidecar)
    /\ ~NextFill(sidecar).run.whole
    /\ sidecar' = [sidecar EXCEPT !.at = "idle", !.mask = Blank]
    /\ gaveUp' = TRUE
    /\ UNCHANGED <<message, viewer>>

SidecarDraw ==
    /\ sidecar.at = "filling" /\ ~Todo(sidecar)
    /\ sidecar' = Drew(sidecar)
    /\ UNCHANGED <<message, viewer, gaveUp>>

----------------------------------------------------------------------------

MaskNext ==
    \/ Receive \/ Ignore
    \/ ViewerFill \/ ViewerDraw
    \/ SidecarFill \/ SidecarRaises \/ SidecarDraw

MaskSpec == MaskInit /\ [][MaskNext]_maskVars

----------------------------------------------------------------------------
(* Properties                                                              *)

(* What a run says, in plain integers: the cells from start on, a negative *)
(* start being the first cell.                                             *)
Covers(r, i) ==
    r.whole /\ AtLeastZero(r.start) <= i /\ i < AtLeastZero(r.start) + r.length

Covered(rs, i) == \E n \in DOMAIN rs : Covers(rs[n], i)

ClassOf(m, i) ==
    IF Covered(m.occupied, i) THEN Occupied
    ELSE IF Covered(m.inflated, i) THEN Inflated ELSE Free

Picture(m) == [i \in 0..(Cells(m) - 1) |-> ClassOf(m, i)]

HasFilled(d) == d.at = "filling" /\ ~Todo(d)

(* The viewer draws what the message says: a cell of an occupied run is    *)
(* occupied whatever inflated run covers it too, and neither the order of  *)
(* overlapping runs nor a run that reaches past the mask or past the word  *)
(* loses or adds a cell.  Code: log_dynamic_map, apply_runs.               *)
ViewerDrawsTheRuns == HasFilled(viewer) => viewer.mask = Picture(message)

(* So does the Python sidecar.  Code: _log_dynamic_map.                    *)
SidecarDrawsTheRuns == HasFilled(sidecar) => sidecar.mask = Picture(message)

(* With a message handled by both, the two programs show the same picture, *)
(* words or not, unless the sidecar gave the message up for a run that is  *)
(* not a pair.  Code: apply_runs against _log_dynamic_map.                 *)
DecodersAgree ==
    (viewer.at = "idle" /\ sidecar.at = "idle" /\ ~gaveUp) => viewer.screen = sidecar.screen
============================================================================
