------------------------------ MODULE CamLayout ------------------------------
(***************************************************************************)
(* The cams of the main window, 1, 4, 9 or 16 to a page: CCamLayoutUI      *)
(* (LoganManager/UI.cpp) shows those from m_iStartPos on, CMainWnd         *)
(* (MainWnd.cpp) keeps the page.  The two are told of each change apart.   *)
(*                                                                         *)
(* camLayoutCount, videoNum and m_iPosCount agree from the first           *)
(* notification on, which lays out 4 cams: here they are one.              *)
(***************************************************************************)
EXTENDS Integers, FiniteSets

CONSTANTS
    N,           \* NUM_OF_VIDEO, 16 in the code
    Layouts,     \* the layouts that have a button
    MaxRecords   \* cams that may be recording, 4 in the code

ASSUME CamLayoutAssumption ==
    /\ N \in Nat \ {0}
    /\ {1, 4} \subseteq Layouts /\ Layouts \subseteq {1, 4, 9, 16}
    /\ MaxRecords \in Nat

Items == 0..(N - 1)

VARIABLES
    layout,       \* camLayoutCount
    currentPage,
    pageCount,
    m_iStartPos,  \* the first cam that is shown
    visible,      \* the cams that are
    selected,     \* m_bSelect of each cam
    recording,    \* m_bResSelect of each cam
    kept          \* history: the cam shown is one that another layout showed

shown == <<layout, m_iStartPos, visible, kept>>
layoutVars == <<shown, currentPage, pageCount, selected, recording>>

LayoutTypeOK ==
    /\ layout \in Layouts
    /\ currentPage \in Nat /\ pageCount \in Nat
    /\ m_iStartPos \in Items
    /\ visible \subseteq Items /\ selected \subseteq Items /\ recording \subseteq Items
    /\ kept \in BOOLEAN

Window(start, n) == {i \in Items : start <= i /\ i < start + n}

(* UpdateTextPage *)
PageCount(n) == IF N % n = 0 THEN N \div n ELSE N \div n + 1

LayoutInit ==
    /\ layout = 4 /\ m_iStartPos = 0 /\ visible = Window(0, 4)
    /\ currentPage = 1 /\ pageCount = PageCount(4)
    /\ selected = {0} /\ recording = {}
    /\ kept = FALSE

-----------------------------------------------------------------------------
(* SetPos1, SetPosSquare: hide the cams before and after, show the others.  *)
SetPos(n, start) ==
    /\ m_iStartPos' = start
    /\ visible' = Window(start, n)

(* A button for 1 cam: the first of those that are shown stays, and is      *)
(* page 1.                                                                  *)
OnBtnNO_1 ==
    /\ layout # 1
    /\ layout' = 1
    /\ SetPos(1, m_iStartPos)
    /\ kept' = (m_iStartPos # 0)
    /\ currentPage' = 1 /\ pageCount' = PageCount(1)
    /\ UNCHANGED <<selected, recording>>

(* OnBtnNO_4, OnBtnNO_9 and OnBtnNO_16 show the first cams. *)
OnBtnNO(n) ==
    /\ layout # n
    /\ layout' = n
    /\ SetPos(n, 0)
    /\ kept' = FALSE
    /\ currentPage' = 1 /\ pageCount' = PageCount(n)
    /\ UNCHANGED <<selected, recording>>

OnBtnPageUp ==
    /\ currentPage # 1
    /\ currentPage' = currentPage - 1
    /\ SetPos(layout, (currentPage - 2) * layout)
    /\ kept' = FALSE
    /\ UNCHANGED <<layout, pageCount, selected, recording>>

(* Mutant: the page is counted on past the last. *)
OnBtnPageDown_Past ==
    /\ currentPage' = currentPage + 1
    /\ IF currentPage * layout < N
       THEN SetPos(layout, currentPage * layout) /\ kept' = FALSE
       ELSE UNCHANGED <<m_iStartPos, visible, kept>>
    /\ currentPage <= N
    /\ UNCHANGED <<layout, pageCount, selected, recording>>

(* The layout ignores a start past the last cam; the page, apart from that, *)
(* does not go past the last page.                                          *)
OnBtnPageDown ==
    /\ IF currentPage * layout < N
       THEN SetPos(layout, currentPage * layout) /\ kept' = FALSE
       ELSE UNCHANGED <<m_iStartPos, visible, kept>>
    /\ currentPage' = IF currentPage = pageCount THEN currentPage ELSE currentPage + 1
    /\ UNCHANGED <<layout, pageCount, selected, recording>>

(* Mutant: a new size shows the first cams again. *)
OnSize_FromFirst ==
    /\ SetPos(layout, 0)
    /\ UNCHANGED <<layout, kept, currentPage, pageCount, selected, recording>>

(* CCamLayoutUI::SetPos, for a new size: start 0 means to stay.             *)
OnSize ==
    /\ SetPos(layout, m_iStartPos)
    /\ UNCHANGED <<layout, kept, currentPage, pageCount, selected, recording>>

(* CCamCtrolUI's DoEvent: a click on the cam ...                            *)
SelectItem(i) ==
    /\ i \in visible
    /\ selected' = {i}
    /\ UNCHANGED <<shown, currentPage, pageCount, recording>>

(* ... and on its button for recording.                                     *)
ClickRecord(i) ==
    /\ i \in visible
    /\ i \in recording \/ Cardinality(recording) < MaxRecords
    /\ recording' = IF i \in recording THEN recording \ {i} ELSE recording \cup {i}
    /\ UNCHANGED <<shown, currentPage, pageCount, selected>>

LayoutNext ==
    \/ OnBtnNO_1 \/ (\E n \in Layouts \ {1} : OnBtnNO(n))
    \/ OnBtnPageUp \/ OnBtnPageDown \/ OnSize
    \/ \E i \in Items : ClickRecord(i)

-----------------------------------------------------------------------------
(* The page that the text names is the one that is shown, after any change  *)
(* of the layout, the page or the size, except for a cam that was kept.     *)
PageIsShown ==
    /\ visible = Window(m_iStartPos, layout)
    /\ IF kept THEN layout = 1 /\ currentPage = 1
       ELSE m_iStartPos = (currentPage - 1) * layout

(* There is a page with cams for each number up to the last page and a page *)
(* for each cam.                                                            *)
PagesCoverCams ==
    /\ currentPage \in 1..pageCount
    /\ (pageCount - 1) * layout < N /\ N <= pageCount * layout
    /\ visible # {}

(* However the cams are paged in between, no more than four are recording.  *)
FewRecordings == Cardinality(recording) <= MaxRecords
=============================================================================
