------------------------------- MODULE MainWnd -------------------------------
(***************************************************************************)
(* The main window: its cams, page by page, and the Router with the        *)
(* commands of the thread pool.  A click on a cam selects it in both.      *)
(* What device a cam's copy holds, and whether with a token, is the        *)
(* business of Rooms: here any.                                            *)
(***************************************************************************)
EXTENDS CamLayout, Router

ASSUME MainWndAssumption == Cams = Items /\ FirstCam = 0

vars == <<layoutVars, routerVars>>

TypeOK == LayoutTypeOK /\ RouterTypeOK
Init == LayoutInit /\ RouterInit

ClickCam(i) == SelectItem(i) /\ SelectCam(i)

(* Any other handler of the window's thread. *)
Paging == Rest /\ LayoutNext /\ UNCHANGED routerVars
Routing == RouterNext /\ UNCHANGED layoutVars

Next == ~fault /\ (Paging \/ Routing \/ \E i \in Items : ClickCam(i))

Spec == Init /\ [][Next]_vars

(* The cam that is marked is the one the commands are for. *)
MarkedIsRouted == selected = {rt.camCtrl} /\ rt.mediaPlayer = rt.camCtrl
==============================================================================
