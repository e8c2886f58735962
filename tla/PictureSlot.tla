---------------------------- MODULE PictureSlot ----------------------------
(***************************************************************************)
(* What CVideoPlayer promises about its one picture (m_VideoPic): it is    *)
(* written, then full, then shown, then empty again.  A writer never       *)
(* touches a picture that is full or being shown in its turn, and the      *)
(* display never shows one in its turn that is being written.  Load may    *)
(* drop a full picture and Stop may abandon one that is being written.     *)
(*                                                                         *)
(* Out of turn, the display may repaint the picture in whatever state it   *)
(* is, and the writer may begin, finish or go on while it does so: a torn  *)
(* image is possible then.  It does so only once the player has been       *)
(* paused or stopped, never in the middle of showing, and it leaves the    *)
(* slot alone.                                                             *)
(***************************************************************************)
VARIABLES
    slot,     \* what the picture holds
    repaint,  \* the display shows it out of turn
    steady    \* the player has been neither paused nor stopped

TypeOK == /\ slot \in {"empty", "writing", "full", "showing"}
          /\ repaint \in BOOLEAN /\ steady \in BOOLEAN

Init == slot = "empty" /\ repaint = FALSE /\ steady = TRUE

Step(from, to) == slot = from /\ slot' = to /\ UNCHANGED <<repaint, steady>>

Begin   == Step("empty", "writing")
Finish  == Step("writing", "full")
Show    == ~repaint /\ Step("full", "showing")
Release == Step("showing", "empty")
Drop    == Step("full", "empty")
Abandon == Step("writing", "empty")

Repaint ==
    /\ ~repaint /\ ~steady /\ slot # "showing"
    /\ repaint' = TRUE
    /\ UNCHANGED <<slot, steady>>
Painted == repaint /\ repaint' = FALSE /\ UNCHANGED <<slot, steady>>

Interrupt == steady /\ steady' = FALSE /\ UNCHANGED <<slot, repaint>>

Next == \/ Begin \/ Finish \/ Show \/ Release \/ Drop \/ Abandon
        \/ Repaint \/ Painted \/ Interrupt

vars == <<slot, repaint, steady>>
Spec == Init /\ [][Next]_vars
=============================================================================
