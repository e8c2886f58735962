---------------------------- MODULE MainWndProofs ----------------------------
(***************************************************************************)
(* Proofs about MainWnd, for any number of cams, of recordings, of devices,*)
(* of commands under way at a time and of presets called.                  *)
(***************************************************************************)
EXTENDS MainWnd, TLAPS, FiniteSetTheorems

(* The pages that are counted are those of the layout that is shown. *)
PagesInv ==
    /\ layout \in Layouts /\ currentPage \in Nat /\ pageCount \in Nat
    /\ m_iStartPos \in Items /\ visible \subseteq Items /\ kept \in BOOLEAN
    /\ pageCount = PageCount(layout)
    /\ PageIsShown
    /\ PagesCoverCams

RecordsInv == recording \subseteq Items /\ FewRecordings

-----------------------------------------------------------------------------
(* Arithmetic of pages *)

(* What the arguments about pages need of the layouts. *)
LEMMA LayoutCases ==
    ASSUME NEW n \in Layouts
    PROVE  n = 1 \/ n = 4 \/ n = 9 \/ n = 16
BY CamLayoutAssumption

(* The pages are just enough for the cams. *)
LEMMA PagesFit ==
    ASSUME NEW n \in Layouts
    PROVE  /\ PageCount(n) \in Nat /\ PageCount(n) >= 1
           /\ (PageCount(n) - 1) * n < N /\ N <= PageCount(n) * n
<1>1. N \in Nat /\ N >= 1
  BY CamLayoutAssumption
<1>2. CASE n = 1
  BY <1>1, <1>2 DEF PageCount
<1>3. CASE n = 4
  BY <1>1, <1>3 DEF PageCount
<1>4. CASE n = 9
  BY <1>1, <1>4 DEF PageCount
<1>5. CASE n = 16
  BY <1>1, <1>5 DEF PageCount
<1>6. QED
  BY <1>2, <1>3, <1>4, <1>5, LayoutCases

(* A page up to the last one starts at a cam. *)
LEMMA PageStart ==
    ASSUME NEW n \in Layouts, NEW p \in Nat, 1 <= p, p <= PageCount(n)
    PROVE  (p - 1) * n \in Items
<1>1. N \in Nat /\ N >= 1
  BY CamLayoutAssumption
<1>2. PageCount(n) \in Nat /\ (PageCount(n) - 1) * n < N
  BY PagesFit
<1>3. CASE n = 1
  BY <1>1, <1>2, <1>3 DEF Items
<1>4. CASE n = 4
  BY <1>1, <1>2, <1>4 DEF Items
<1>5. CASE n = 9
  BY <1>1, <1>2, <1>5 DEF Items
<1>6. CASE n = 16
  BY <1>1, <1>2, <1>6 DEF Items
<1>7. QED
  BY <1>3, <1>4, <1>5, <1>6, LayoutCases

(* A window that starts at a cam shows that cam at least. *)
LEMMA WindowShows ==
    ASSUME NEW s \in Items, NEW n \in Layouts
    PROVE  Window(s, n) # {} /\ Window(s, n) \subseteq Items
<1>1. s \in Int /\ n \in Nat /\ n >= 1
  BY LayoutCases, CamLayoutAssumption DEF Items
<1>2. s \in Window(s, n)
  BY <1>1 DEF Window
<1>3. QED
  BY <1>2 DEF Window

(* A page with cams behind it is not the last, and one without is. *)
LEMMA NextPage ==
    ASSUME NEW n \in Layouts, NEW p \in Nat, 1 <= p, p <= PageCount(n)
    PROVE  (p * n < N) <=> (p # PageCount(n))
<1>1. N \in Nat /\ N >= 1
  BY CamLayoutAssumption
<1>2. /\ PageCount(n) \in Nat /\ (PageCount(n) - 1) * n < N
      /\ N <= PageCount(n) * n
  BY PagesFit
<1>3. CASE n = 1
  BY <1>1, <1>2, <1>3
<1>4. CASE n = 4
  BY <1>1, <1>2, <1>4
<1>5. CASE n = 9
  BY <1>1, <1>2, <1>5
<1>6. CASE n = 16
  BY <1>1, <1>2, <1>6
<1>7. QED
  BY <1>3, <1>4, <1>5, <1>6, LayoutCases

-----------------------------------------------------------------------------
(* The layout *)

(* Whoever shows page p from its first cam on, and says so, is right. *)
LEMMA ShowPage ==
    ASSUME NEW n \in Layouts, NEW p \in Nat, 1 <= p, p <= PageCount(n),
           layout' = n, currentPage' = p, pageCount' = PageCount(n),
           m_iStartPos' = (p - 1) * n, visible' = Window(m_iStartPos', n),
           kept' = FALSE
    PROVE  PagesInv'
<1>1. (p - 1) * n \in Items
  BY PageStart
<1>2. Window((p - 1) * n, n) # {} /\ Window((p - 1) * n, n) \subseteq Items
  BY <1>1, WindowShows
<1>3. /\ PageCount(n) \in Nat /\ (PageCount(n) - 1) * n < N
      /\ N <= PageCount(n) * n
  BY PagesFit
<1>4. m_iStartPos' = (p - 1) * n /\ visible' = Window((p - 1) * n, n)
  OBVIOUS
<1>5. PageIsShown'
  BY <1>4 DEF PageIsShown, Window, Items
<1>6. PagesCoverCams'
  BY <1>2, <1>3, <1>4 DEF PagesCoverCams
<1>7. QED
  BY <1>1, <1>2, <1>3, <1>4, <1>5, <1>6 DEF PagesInv, PageCount, Items

(* Nothing of this depends on what is marked or recording. *)
LEMMA PagesKept ==
    ASSUME PagesInv, UNCHANGED <<shown, currentPage, pageCount>>
    PROVE  PagesInv'
BY DEF PagesInv, shown, PageIsShown, PagesCoverCams, PageCount, Window, Items

LEMMA RecordsKept ==
    ASSUME RecordsInv, UNCHANGED recording
    PROVE  RecordsInv'
BY DEF RecordsInv, FewRecordings, Items

(* One more recording is started only below the limit. *)
LEMMA RecordStep ==
    ASSUME RecordsInv, NEW i \in Items, ClickRecord(i)
    PROVE  RecordsInv'
<1>1. IsFiniteSet(Items)
  BY FS_Interval, CamLayoutAssumption DEF Items
<1>2. IsFiniteSet(recording) /\ Cardinality(recording) \in Nat
  BY <1>1, FS_Subset, FS_CardinalityType DEF RecordsInv
<1>3. MaxRecords \in Nat
  BY CamLayoutAssumption
<1>4. CASE i \in recording
  <2>1. recording' = recording \ {i}
    BY <1>4 DEF ClickRecord
  <2>2. Cardinality(recording \ {i}) = Cardinality(recording) - 1
    BY <1>2, <1>4, FS_RemoveElement
  <2>3. QED
    BY <2>1, <2>2, <1>2, <1>3 DEF RecordsInv, FewRecordings, Items
<1>5. CASE i \notin recording
  <2>1. recording' = recording \cup {i} /\ Cardinality(recording) < MaxRecords
    BY <1>5 DEF ClickRecord
  <2>2. Cardinality(recording \cup {i}) = Cardinality(recording) + 1
    BY <1>2, <1>5, FS_AddElement
  <2>3. QED
    BY <2>1, <2>2, <1>2, <1>3 DEF RecordsInv, FewRecordings, Items
<1>6. QED
  BY <1>4, <1>5

(* Every change of the layout, the page or the size keeps the pages.        *)
LEMMA PagesStep ==
    ASSUME PagesInv, LayoutNext
    PROVE  PagesInv'
<1> USE DEF PagesInv
<1>1. layout \in Nat /\ layout >= 1 /\ N \in Nat
  BY LayoutCases, CamLayoutAssumption
<1>2. CASE OnBtnNO_1
  <2>1. /\ layout' = 1 /\ currentPage' = 1 /\ pageCount' = PageCount(1)
        /\ m_iStartPos' = m_iStartPos /\ visible' = Window(m_iStartPos, 1)
    BY <1>2 DEF OnBtnNO_1, SetPos
  <2>2. 1 \in Layouts
    BY CamLayoutAssumption
  <2>3. Window(m_iStartPos, 1) # {} /\ Window(m_iStartPos, 1) \subseteq Items
    BY <2>2, WindowShows
  <2>4. /\ PageCount(1) \in Nat /\ PageCount(1) >= 1
        /\ (PageCount(1) - 1) * 1 < N /\ N <= PageCount(1) * 1
    BY <2>2, PagesFit
  <2>5. PageIsShown'
    <3>1. visible' = Window(m_iStartPos', layout')
      BY <2>1
    <3>2. CASE m_iStartPos = 0
      <4>1. m_iStartPos' = (1 - 1) * 1
        BY <2>1, <3>2
      <4>2. ~kept'
        BY <1>2, <3>2, Zenon DEF OnBtnNO_1
      <4>3. QED
        BY <2>1, <3>1, <4>1, <4>2 DEF PageIsShown
    <3>3. CASE m_iStartPos # 0
      <4>1. kept'
        BY <1>2, <3>3 DEF OnBtnNO_1
      <4>2. QED
        BY <2>1, <3>1, <4>1 DEF PageIsShown
    <3>4. QED
      BY <3>2, <3>3
  <2>6. PagesCoverCams'
    BY <2>1, <2>3, <2>4 DEF PagesCoverCams
  <2>7. kept' \in BOOLEAN
    BY <1>2, Zenon DEF OnBtnNO_1
  <2>8. QED
    BY <2>1, <2>2, <2>3, <2>4, <2>5, <2>6, <2>7 DEF Items, PageCount
<1>3. ASSUME NEW n \in Layouts \ {1}, OnBtnNO(n) PROVE PagesInv'
  <2> DEFINE p == 1
  <2>1. p \in Nat /\ 1 <= p /\ (p - 1) * n = 0 /\ p <= PageCount(n)
    BY LayoutCases, PagesFit
  <2>2. /\ m_iStartPos' = (p - 1) * n /\ visible' = Window(m_iStartPos', n)
        /\ layout' = n /\ currentPage' = p /\ pageCount' = PageCount(n)
        /\ kept' = FALSE
    BY <1>3, <2>1 DEF OnBtnNO, SetPos
  <2> HIDE DEF p
  <2>3. QED
    BY <2>1, <2>2, ShowPage
<1>4. CASE OnBtnPageUp
  <2>1. /\ currentPage - 1 \in Nat /\ 1 <= currentPage - 1
        /\ currentPage - 1 <= PageCount(layout)
        /\ (currentPage - 2) * layout = ((currentPage - 1) - 1) * layout
    BY <1>1, <1>4 DEF OnBtnPageUp, PagesCoverCams
  <2>2. /\ m_iStartPos' = ((currentPage - 1) - 1) * layout
        /\ visible' = Window(m_iStartPos', layout)
    BY <1>4, <2>1 DEF OnBtnPageUp, SetPos
  <2>3. QED
    BY <1>4, <2>1, <2>2, ShowPage DEF OnBtnPageUp
<1>5. CASE OnBtnPageDown
  <2>1. (currentPage * layout < N) <=> (currentPage # pageCount)
    BY NextPage DEF PagesCoverCams
  <2>2. CASE currentPage = pageCount
    BY <1>5, <2>1, <2>2, PagesKept DEF OnBtnPageDown, shown
  <2>3. CASE currentPage # pageCount
    <3>1. /\ currentPage + 1 \in Nat /\ 1 <= currentPage + 1
          /\ currentPage + 1 <= PageCount(layout)
          /\ (currentPage + 1) - 1 = currentPage
      BY <2>3 DEF PagesCoverCams
    <3>2. /\ m_iStartPos' = ((currentPage + 1) - 1) * layout
          /\ visible' = Window(m_iStartPos', layout) /\ kept' = FALSE
      BY <1>5, <2>1, <2>3, <3>1 DEF OnBtnPageDown, SetPos
    <3>3. /\ currentPage' = currentPage + 1 /\ layout' = layout
          /\ pageCount' = pageCount
      BY <1>5, <2>3 DEF OnBtnPageDown
    <3>4. QED
      BY <3>1, <3>2, <3>3, ShowPage
  <2>4. QED
    BY <2>2, <2>3
<1>6. CASE OnSize
  BY <1>6, PagesKept DEF OnSize, SetPos, PageIsShown, shown
<1>7. ASSUME NEW i \in Items, ClickRecord(i) PROVE PagesInv'
  BY <1>7, PagesKept DEF ClickRecord
<1>8. QED
  BY <1>2, <1>3, <1>4, <1>5, <1>6, <1>7 DEF LayoutNext

LEMMA RecordsStep ==
    ASSUME RecordsInv, LayoutNext
    PROVE  RecordsInv'
<1>1. CASE UNCHANGED recording
  BY <1>1, RecordsKept
<1>2. ASSUME NEW i \in Items, ClickRecord(i) PROVE RecordsInv'
  BY <1>2, RecordStep
<1>3. QED
  BY <1>1, <1>2 DEF LayoutNext, OnBtnNO_1, OnBtnNO, OnBtnPageUp, OnBtnPageDown,
                    OnSize
-----------------------------------------------------------------------------
(* The Router and the commands *)

(* A command that is under way, as seen from a Router that names the        *)
(* devices of S, and the device t (or none) with its token: all of them     *)
(* have been selected since its button, and so has what it has read of      *)
(* them; it is for no preset later than the last.                           *)
Good(k, S, t, p) ==
    /\ k \in Commands
    /\ k.pc # "free" => S \subseteq k.during /\ t \in k.during \cup {None}
    /\ k.pc \in {"reading", "ready"} =>
         /\ "ip" \notin k.todo => k.ip \in k.during
         /\ "model" \notin k.todo => k.model \in k.during
         /\ "port" \notin k.todo => k.port \in k.during
         /\ "token" \notin k.todo => k.token \in k.during \cup {None}
    /\ k.pc = "ready" => k.todo = {}
    /\ k.pc = "free" => k.place = 0
    /\ k.place <= p

Named(r) == {r.ip, r.model, r.port}

CmdInv == /\ DOMAIN cmd = Cmds /\ cmd = [c \in Cmds |-> cmd[c]]
          /\ \A c \in Cmds : Good(cmd[c], Named(rt), rt.token, preset)

(* Only between the assignment of the ip and its own does a field of the    *)
(* Router still name another device.                                        *)
TokenInv ==
    /\ rt \in Routers
    /\ ui \in [pc : UiPcs, from : Nat]
    /\ ui.pc # "model" => rt.model = rt.ip
    /\ ui.pc \notin {"model", "port"} => rt.port = rt.ip
    /\ ui.pc \notin {"model", "port", "token"} => rt.token \in {rt.ip, None}

(* The last preset was sent, or a command that will send it is under way.   *)
PresetInv ==
    /\ preset \in 0..MaxPresses /\ sent \subseteq 1..preset
    /\ \/ preset = 0 \/ preset \in sent
       \/ \E c \in Cmds : cmd[c].place > 0
                          /\ (cmd[c].pc = "queued" \/ cmd[c].place = preset)

RouterInv == TokenInv /\ CmdInv /\ PresetInv /\ fault \in BOOLEAN

(* Nothing of the commands changes when the Router names no other device    *)
(* than it did.                                                             *)
LEMMA CommandsKept ==
    ASSUME CmdInv, PresetInv, UNCHANGED cmds, Named(rt') \subseteq Named(rt),
           rt'.token \in {rt.token, None} \cup Named(rt)
    PROVE  CmdInv' /\ PresetInv'
<1>1. cmd' = cmd /\ preset' = preset /\ sent' = sent
  BY DEF cmds
<1>2. ASSUME NEW c \in Cmds PROVE Good(cmd[c], Named(rt'), rt'.token, preset)
  <2>1. Good(cmd[c], Named(rt), rt.token, preset)
    BY DEF CmdInv
  <2>2. QED
    BY <2>1 DEF Good
<1>3. CmdInv'
  BY <1>1, <1>2 DEF CmdInv
<1>4. PresetInv'
  BY <1>1 DEF PresetInv
<1>5. QED
  BY <1>3, <1>4

(* A button submits a command for the device that is selected.              *)
LEMMA SubmittedIsGood ==
    ASSUME RouterInv, Rest, NEW p \in 0..MaxPresses
    PROVE  Good(Submitted(p), Named(rt), rt.token, p)
<1>1. /\ Free.pc = "free" /\ Free.place = 0
      /\ Free.todo = {} /\ Free.during = {}
      /\ DOMAIN Free = {"pc", "place", "ip", "model", "port", "token", "todo",
                        "during"}
  BY DEF Free
<1>2. /\ rt.ip \in Device /\ rt.token \in {rt.ip, None} /\ None \in Device
      /\ rt.model = rt.ip /\ rt.port = rt.ip
  BY DEF RouterInv, TokenInv, Routers, Rest, Device
<1>3. {rt.ip} \subseteq Device /\ {} \subseteq Fields /\ Named(rt) = {rt.ip}
  BY <1>2 DEF Named
<1>4. Free \in Commands
  BY <1>2, RouterAssumption DEF Free, Commands
<1>5. /\ Submitted(p) \in Commands
      /\ Submitted(p).pc = "queued" /\ Submitted(p).place = p
      /\ Submitted(p).during = {rt.ip}
  BY <1>1, <1>3, <1>4 DEF Submitted, Commands
<1>6. p \in Nat
  BY RouterAssumption
<1>7. QED
  BY <1>2, <1>3, <1>5, <1>6 DEF Good

(* What is good stays so when more presets are called.                      *)
LEMMA GoodLater ==
    ASSUME NEW k, NEW S, NEW t, NEW p \in Nat, NEW q \in Nat, p <= q,
           Good(k, S, t, p)
    PROVE  Good(k, S, t, q)
<1>1. k.place \in Nat
  BY DEF Good, Commands
<1>2. QED
  BY <1>1 DEF Good

LEMMA SelectCamStep ==
    ASSUME RouterInv, NEW i \in Cams, SelectCam(i)
    PROVE  RouterInv' /\ rt'.camCtrl = i /\ rt'.mediaPlayer = i
<1>1. /\ rt' = [rt EXCEPT !.camCtrl = i, !.mediaPlayer = i]
      /\ ui' = [pc |-> "ip", from |-> 0]
      /\ UNCHANGED cmds /\ fault' = fault /\ ui.pc = "rest"
  BY DEF SelectCam, Rest
<1>2. /\ rt' \in Routers /\ rt'.camCtrl = i /\ rt'.mediaPlayer = i
      /\ rt'.ip = rt.ip /\ rt'.model = rt.model /\ rt'.port = rt.port
      /\ rt'.token = rt.token
  BY <1>1 DEF RouterInv, TokenInv, Routers
<1>3. TokenInv'
  BY <1>1, <1>2 DEF RouterInv, TokenInv, UiPcs, Fields
<1>4. Named(rt') = Named(rt)
  BY <1>2 DEF Named
<1>5. QED
  BY <1>1, <1>2, <1>3, <1>4, CommandsKept DEF RouterInv

(* The ip is assigned: whatever is under way has its device among those     *)
(* that were selected since its button.                                     *)
LEMMA AssignIpStep ==
    ASSUME RouterInv, NEW d \in Device, AssignIp(d)
    PROVE  RouterInv' /\ rt'.camCtrl = rt.camCtrl /\ rt'.mediaPlayer = rt.mediaPlayer
<1>1. /\ ui.pc = "ip" /\ rt' = [rt EXCEPT !.ip = d]
      /\ ui' = [ui EXCEPT !.pc = "model"]
      /\ preset' = preset /\ sent' = sent /\ fault' = fault
  BY DEF AssignIp
<1>2. /\ rt' \in Routers /\ rt'.ip = d /\ rt'.token = rt.token
      /\ rt'.model = rt.model /\ rt'.port = rt.port
      /\ rt'.camCtrl = rt.camCtrl /\ rt'.mediaPlayer = rt.mediaPlayer
  BY <1>1 DEF RouterInv, TokenInv, Routers
<1>3. TokenInv'
  BY <1>1, <1>2 DEF RouterInv, TokenInv, UiPcs, Fields
<1>4. cmd' = [c \in Cmds |-> IF cmd[c].pc = "free" THEN cmd[c]
                             ELSE [cmd[c] EXCEPT !.during = @ \cup {d}]]
  BY DEF AssignIp
<1>5. Named(rt') \subseteq Named(rt) \cup {d}
  BY <1>2 DEF Named
<1>6. ASSUME NEW c \in Cmds
      PROVE  /\ Good(cmd'[c], Named(rt'), rt.token, preset)
             /\ cmd'[c].place = cmd[c].place /\ cmd'[c].pc = cmd[c].pc
  <2>1. Good(cmd[c], Named(rt), rt.token, preset)
    BY DEF RouterInv, CmdInv
  <2>2. CASE cmd[c].pc = "free"
    BY <1>4, <2>1, <2>2 DEF Good
  <2>3. CASE cmd[c].pc # "free"
    <3>1. cmd'[c] = [cmd[c] EXCEPT !.during = @ \cup {d}]
      BY <1>4, <2>3
    <3> DEFINE k == [cmd[c] EXCEPT !.during = @ \cup {d}]
    <3>2. /\ k \in Commands /\ k.during = cmd[c].during \cup {d}
          /\ k.pc = cmd[c].pc /\ k.place = cmd[c].place
          /\ k.todo = cmd[c].todo /\ k.ip = cmd[c].ip /\ k.model = cmd[c].model
          /\ k.port = cmd[c].port /\ k.token = cmd[c].token
      BY <2>1 DEF Good, Commands
    <3> HIDE DEF k
    <3>3. Named(rt') \subseteq k.during
      BY <1>5, <2>1, <2>3, <3>2 DEF Good
    <3>4. Good(k, Named(rt'), rt.token, preset)
      BY <2>1, <2>3, <3>2, <3>3 DEF Good
    <3>5. QED
      BY <3>1, <3>2, <3>4 DEF k
  <2>4. QED
    BY <2>2, <2>3
<1>7. CmdInv'
  BY <1>1, <1>2, <1>4, <1>6 DEF CmdInv
<1>8. PresetInv'
  BY <1>1, <1>6 DEF RouterInv, PresetInv
<1>9. QED
  BY <1>1, <1>2, <1>3, <1>7, <1>8 DEF RouterInv

(* Its model, ... *)
LEMMA AssignModelStep ==
    ASSUME RouterInv, AssignModel
    PROVE  RouterInv' /\ rt'.camCtrl = rt.camCtrl /\ rt'.mediaPlayer = rt.mediaPlayer
<1>1. /\ ui.pc = "model" /\ ui' = [ui EXCEPT !.pc = "port"]
      /\ rt' = [rt EXCEPT !.model = rt.ip] /\ UNCHANGED cmds /\ fault' = fault
  BY DEF AssignModel
<1>2. /\ rt' \in Routers /\ rt'.ip = rt.ip /\ rt'.model = rt.ip
      /\ rt'.port = rt.port /\ rt'.token = rt.token
      /\ rt'.camCtrl = rt.camCtrl /\ rt'.mediaPlayer = rt.mediaPlayer
  BY <1>1 DEF RouterInv, TokenInv, Routers
<1>3. TokenInv'
  BY <1>1, <1>2 DEF RouterInv, TokenInv, UiPcs, Fields
<1>4. Named(rt') \subseteq Named(rt)
  BY <1>2 DEF Named
<1>5. QED
  BY <1>1, <1>2, <1>3, <1>4, CommandsKept DEF RouterInv

(* ... its port, ... *)
LEMMA AssignPortStep ==
    ASSUME RouterInv, AssignPort
    PROVE  RouterInv' /\ rt'.camCtrl = rt.camCtrl /\ rt'.mediaPlayer = rt.mediaPlayer
<1>1. /\ ui.pc = "port" /\ ui' = [ui EXCEPT !.pc = "token"]
      /\ rt' = [rt EXCEPT !.port = rt.ip] /\ UNCHANGED cmds /\ fault' = fault
  BY DEF AssignPort
<1>2. /\ rt' \in Routers /\ rt'.ip = rt.ip /\ rt'.model = rt.model
      /\ rt'.port = rt.ip /\ rt'.token = rt.token
      /\ rt'.camCtrl = rt.camCtrl /\ rt'.mediaPlayer = rt.mediaPlayer
  BY <1>1 DEF RouterInv, TokenInv, Routers
<1>3. TokenInv'
  BY <1>1, <1>2 DEF RouterInv, TokenInv, UiPcs, Fields
<1>4. Named(rt') \subseteq Named(rt)
  BY <1>2 DEF Named
<1>5. QED
  BY <1>1, <1>2, <1>3, <1>4, CommandsKept DEF RouterInv

(* ... and its token: its own, or none. *)
LEMMA AssignTokenStep ==
    ASSUME RouterInv, NEW ok \in BOOLEAN, AssignToken(ok)
    PROVE  RouterInv' /\ rt'.camCtrl = rt.camCtrl /\ rt'.mediaPlayer = rt.mediaPlayer
<1>1. /\ ui.pc = "token" /\ ui' = [ui EXCEPT !.pc = "urls"]
      /\ UNCHANGED cmds /\ fault' = fault
  BY DEF AssignToken
<1>2. PICK t \in {rt.ip, None} : rt' = [rt EXCEPT !.token = t]
  BY DEF AssignToken
<1>3. /\ rt' \in Routers /\ rt'.ip = rt.ip /\ rt'.model = rt.model
      /\ rt'.port = rt.port /\ rt'.token = t
      /\ rt'.camCtrl = rt.camCtrl /\ rt'.mediaPlayer = rt.mediaPlayer
  BY <1>2 DEF RouterInv, TokenInv, Routers, Device
<1>4. TokenInv'
  BY <1>1, <1>3 DEF RouterInv, TokenInv, UiPcs, Fields
<1>5. Named(rt') = Named(rt) /\ rt.ip \in Named(rt)
  BY <1>3 DEF Named
<1>6. QED
  BY <1>1, <1>2, <1>3, <1>4, <1>5, CommandsKept DEF RouterInv

(* Whatever else the window's thread assigns leaves them alone. *)
LEMMA AssignRestStep ==
    ASSUME RouterInv,
           \E n \in Names \cup {None} : AssignUrls(n, FALSE)
    PROVE  RouterInv' /\ rt'.camCtrl = rt.camCtrl /\ rt'.mediaPlayer = rt.mediaPlayer
<1>1. UNCHANGED cmds /\ fault' \in BOOLEAN
  BY DEF RouterInv, AssignUrls
<1>2. /\ rt' \in Routers /\ rt'.ip = rt.ip /\ rt'.model = rt.model
      /\ rt'.port = rt.port /\ rt'.token = rt.token
      /\ rt'.camCtrl = rt.camCtrl /\ rt'.mediaPlayer = rt.mediaPlayer
  BY DEF RouterInv, TokenInv, Routers, AssignUrls
<1>3. TokenInv'
  BY <1>2 DEF RouterInv, TokenInv, AssignUrls, UiPcs
<1>4. Named(rt') = Named(rt)
  BY <1>2 DEF Named
<1>5. QED
  BY <1>1, <1>2, <1>3, <1>4, CommandsKept DEF RouterInv

(* A command is replaced by k, which is good with the presets called so far *)
(* when the last of them is sent or will be.                                *)
LEMMA CommandReplaced ==
    ASSUME RouterInv, NEW c \in Cmds, NEW k, NEW p \in preset..MaxPresses,
           cmd' = [cmd EXCEPT ![c] = k], preset' = p, rt' = rt, ui' = ui,
           fault' \in BOOLEAN,
           Good(k, Named(rt), rt.token, p), PresetInv'
    PROVE  RouterInv'
<1>1. p \in Nat /\ preset \in Nat /\ preset <= p
  BY RouterAssumption DEF RouterInv, PresetInv
<1>2. DOMAIN cmd = Cmds
  BY DEF RouterInv, CmdInv
<1>3. ASSUME NEW b \in Cmds PROVE Good(cmd'[b], Named(rt), rt.token, p)
  <2>1. CASE b = c
    BY <1>2, <2>1
  <2>2. CASE b # c
    <3>1. cmd'[b] = cmd[b] /\ Good(cmd[b], Named(rt), rt.token, preset)
      BY <1>2, <2>2 DEF RouterInv, CmdInv
    <3>2. QED
      BY <1>1, <3>1, GoodLater
  <2>3. QED
    BY <2>1, <2>2
<1>4. CmdInv'
  BY <1>2, <1>3 DEF RouterInv, CmdInv
<1>5. QED
  BY <1>4 DEF RouterInv, TokenInv

LEMMA SubmitStep ==
    ASSUME RouterInv, NEW c \in Cmds, Submits(c)
    PROVE  RouterInv' /\ rt' = rt
<1>1. rt' = rt /\ ui' = ui /\ sent' = sent /\ fault' = fault
      /\ Rest /\ cmd[c].pc = "free"
  BY DEF Submits, OnBtnMove, OnPrePlace
<1>2. /\ DOMAIN cmd = Cmds /\ cmd[c].place = 0
      /\ preset \in Nat /\ preset <= MaxPresses /\ MaxPresses \in Nat
      /\ sent \subseteq 1..preset
  BY <1>1, RouterAssumption DEF RouterInv, CmdInv, Good, PresetInv
<1>3. CASE OnBtnMove(c)
  <2>1. cmd' = [cmd EXCEPT ![c] = Submitted(0)] /\ preset' = preset
    BY <1>3 DEF OnBtnMove
  <2>2. Good(Submitted(0), Named(rt), rt.token, 0)
    BY <1>1, <1>2, SubmittedIsGood
  <2>3. Good(Submitted(0), Named(rt), rt.token, preset)
    BY <1>2, <2>2, GoodLater
  <2>4. \A b \in Cmds : cmd[b].place > 0 => cmd'[b] = cmd[b]
    BY <1>2, <2>1
  <2>5. PresetInv'
    BY <1>1, <2>1, <2>4 DEF RouterInv, PresetInv
  <2>6. preset \in preset..MaxPresses
    BY <1>2
  <2>7. QED
    BY <1>1, <2>1, <2>3, <2>5, <2>6, CommandReplaced DEF RouterInv
<1>4. CASE OnPrePlace(c)
  <2>1. /\ cmd' = [cmd EXCEPT ![c] = Submitted(preset + 1)]
        /\ preset' = preset + 1 /\ preset < MaxPresses
    BY <1>4 DEF OnPrePlace
  <2>2. preset + 1 \in preset..MaxPresses /\ preset + 1 \in 0..MaxPresses
    BY <1>2, <2>1
  <2>3. Good(Submitted(preset + 1), Named(rt), rt.token, preset + 1)
    BY <1>1, <2>2, SubmittedIsGood
  <2>4. cmd'[c].place > 0 /\ cmd'[c].pc = "queued"
    BY <1>2, <2>1 DEF Submitted, Free
  <2>5. PresetInv'
    BY <1>1, <1>2, <2>1, <2>4 DEF PresetInv
  <2>6. QED
    BY <1>1, <2>1, <2>2, <2>3, <2>5, CommandReplaced DEF RouterInv
<1>5. QED
  BY <1>3, <1>4 DEF Submits

LEMMA ReadArgsStep ==
    ASSUME RouterInv, NEW c \in Cmds, ReadArgs(c)
    PROVE  RouterInv' /\ rt' = rt
<1> DEFINE k == [cmd[c] EXCEPT !.pc = "reading", !.todo = Fields,
                               !.place = IF @ = 0 THEN 0 ELSE preset]
<1>1. /\ rt' = rt /\ ui' = ui /\ sent' = sent /\ fault' = fault
      /\ preset' = preset /\ cmd[c].pc = "queued"
  BY DEF ReadArgs
<1>2. /\ DOMAIN cmd = Cmds /\ preset \in 0..MaxPresses /\ MaxPresses \in Nat
      /\ Good(cmd[c], Named(rt), rt.token, preset)
  BY RouterAssumption DEF RouterInv, CmdInv, PresetInv
<1>3. cmd' = [cmd EXCEPT ![c] = k]
  BY <1>2 DEF ReadArgs, Good, Commands
<1>4. /\ k \in Commands /\ k.pc = "reading" /\ k.todo = Fields
      /\ k.place = (IF cmd[c].place = 0 THEN 0 ELSE preset)
      /\ k.during = cmd[c].during
  BY <1>2 DEF Good, Commands
<1>5. Good(k, Named(rt), rt.token, preset)
  BY <1>1, <1>2, <1>4 DEF Good, Fields
<1>6. PresetInv'
  <2>1. ASSUME NEW b \in Cmds, cmd[b].place > 0,
               cmd[b].pc = "queued" \/ cmd[b].place = preset
        PROVE  /\ preset # 0 => cmd'[b].place > 0
               /\ cmd'[b].pc = "queued" \/ cmd'[b].place = preset
    <3>1. CASE b = c
      BY <1>2, <1>3, <1>4, <2>1, <3>1
    <3>2. CASE b # c
      BY <1>2, <1>3, <2>1, <3>2
    <3>3. QED
      BY <3>1, <3>2
  <2>2. QED
    BY <1>1, <2>1 DEF RouterInv, PresetInv
<1>7. preset \in preset..MaxPresses
  BY <1>2
<1> HIDE DEF k
<1>8. QED
  BY <1>1, <1>3, <1>5, <1>6, <1>7, CommandReplaced DEF RouterInv
LEMMA ReadFieldStep ==
    ASSUME RouterInv, NEW c \in Cmds, NEW f \in Fields, ReadField(c, f)
    PROVE  RouterInv' /\ rt' = rt
<1>1. /\ rt' = rt /\ ui' = ui /\ sent' = sent /\ preset' = preset
      /\ fault' \in BOOLEAN /\ cmd[c].pc = "reading" /\ f \in cmd[c].todo
  BY DEF ReadField
<1>2. /\ DOMAIN cmd = Cmds /\ preset \in 0..MaxPresses /\ MaxPresses \in Nat
      /\ preset \in preset..MaxPresses
      /\ Good(cmd[c], Named(rt), rt.token, preset)
      /\ rt.ip \in Device /\ rt.model \in Device /\ rt.port \in Device
      /\ rt.token \in Device
  BY RouterAssumption DEF RouterInv, TokenInv, Routers, CmdInv, PresetInv
<1>3. CASE cmd' = cmd
  <2>1. UNCHANGED cmds /\ Named(rt') = Named(rt) /\ rt'.token = rt.token
    BY <1>1, <1>3 DEF cmds
  <2>2. TokenInv'
    BY <1>1 DEF RouterInv, TokenInv
  <2>3. QED
    BY <1>1, <2>1, <2>2, CommandsKept DEF RouterInv
<1>4. ASSUME NEW k, cmd' = [cmd EXCEPT ![c] = k],
             Good(k, Named(rt), rt.token, preset), k.place = cmd[c].place
      PROVE  RouterInv'
  <2>1. cmd[c].pc # "queued"
    BY <1>1
  <2>2. \A b \in Cmds : /\ cmd'[b].place = cmd[b].place
                        /\ cmd[b].pc = "queued" => cmd'[b].pc = "queued"
    BY <1>2, <1>4, <2>1
  <2>3. PresetInv'
    <3>1. ASSUME NEW b \in Cmds, cmd[b].place > 0,
                 cmd[b].pc = "queued" \/ cmd[b].place = preset
          PROVE  /\ cmd'[b].place > 0
                 /\ cmd'[b].pc = "queued" \/ cmd'[b].place = preset
      BY <2>2, <3>1
    <3>2. QED
      BY <1>1, <3>1 DEF RouterInv, PresetInv
  <2>4. QED
    BY <1>1, <1>2, <1>4, <2>3, CommandReplaced
<1>5. CASE /\ f = "ip"
           /\ cmd' = [cmd EXCEPT ![c].todo = @ \ {f}, ![c][f] = rt[f],
                        ![c].pc = IF cmd[c].todo = {f} THEN "ready" ELSE "reading"]
  <2> DEFINE k == [cmd[c] EXCEPT !.todo = @ \ {"ip"}, !.ip = rt.ip,
                     !.pc = IF cmd[c].todo = {"ip"} THEN "ready" ELSE "reading"]
  <2>1. cmd' = [cmd EXCEPT ![c] = k]
    BY <1>2, <1>5 DEF Good, Commands
  <2>2. /\ k \in Commands /\ k.todo = cmd[c].todo \ {"ip"} /\ k.ip = rt.ip
        /\ k.model = cmd[c].model /\ k.port = cmd[c].port
        /\ k.token = cmd[c].token /\ k.during = cmd[c].during
        /\ k.place = cmd[c].place /\ k.pc \in {"ready", "reading"}
        /\ k.pc = "ready" => cmd[c].todo = {"ip"}
    BY <1>2 DEF Good, Commands
  <2> HIDE DEF k
  <2>3. Good(k, Named(rt), rt.token, preset)
    BY <1>1, <1>2, <2>2 DEF Good, Named
  <2>4. QED
    BY <1>1, <1>4, <2>1, <2>2, <2>3
<1>6. CASE /\ f = "model"
           /\ cmd' = [cmd EXCEPT ![c].todo = @ \ {f}, ![c][f] = rt[f],
                        ![c].pc = IF cmd[c].todo = {f} THEN "ready" ELSE "reading"]
  <2> DEFINE k == [cmd[c] EXCEPT !.todo = @ \ {"model"}, !.model = rt.model,
                     !.pc = IF cmd[c].todo = {"model"} THEN "ready" ELSE "reading"]
  <2>1. cmd' = [cmd EXCEPT ![c] = k]
    BY <1>2, <1>6 DEF Good, Commands
  <2>2. /\ k \in Commands /\ k.todo = cmd[c].todo \ {"model"} /\ k.model = rt.model
        /\ k.ip = cmd[c].ip /\ k.port = cmd[c].port
        /\ k.token = cmd[c].token /\ k.during = cmd[c].during
        /\ k.place = cmd[c].place /\ k.pc \in {"ready", "reading"}
        /\ k.pc = "ready" => cmd[c].todo = {"model"}
    BY <1>2 DEF Good, Commands
  <2> HIDE DEF k
  <2>3. Good(k, Named(rt), rt.token, preset)
    BY <1>1, <1>2, <2>2 DEF Good, Named
  <2>4. QED
    BY <1>1, <1>4, <2>1, <2>2, <2>3
<1>7. CASE /\ f = "port"
           /\ cmd' = [cmd EXCEPT ![c].todo = @ \ {f}, ![c][f] = rt[f],
                        ![c].pc = IF cmd[c].todo = {f} THEN "ready" ELSE "reading"]
  <2> DEFINE k == [cmd[c] EXCEPT !.todo = @ \ {"port"}, !.port = rt.port,
                     !.pc = IF cmd[c].todo = {"port"} THEN "ready" ELSE "reading"]
  <2>1. cmd' = [cmd EXCEPT ![c] = k]
    BY <1>2, <1>7 DEF Good, Commands
  <2>2. /\ k \in Commands /\ k.todo = cmd[c].todo \ {"port"} /\ k.port = rt.port
        /\ k.ip = cmd[c].ip /\ k.model = cmd[c].model
        /\ k.token = cmd[c].token /\ k.during = cmd[c].during
        /\ k.place = cmd[c].place /\ k.pc \in {"ready", "reading"}
        /\ k.pc = "ready" => cmd[c].todo = {"port"}
    BY <1>2 DEF Good, Commands
  <2> HIDE DEF k
  <2>3. Good(k, Named(rt), rt.token, preset)
    BY <1>1, <1>2, <2>2 DEF Good, Named
  <2>4. QED
    BY <1>1, <1>4, <2>1, <2>2, <2>3
<1>8. CASE /\ f = "token"
           /\ cmd' = [cmd EXCEPT ![c].todo = @ \ {f}, ![c][f] = rt[f],
                        ![c].pc = IF cmd[c].todo = {f} THEN "ready" ELSE "reading"]
  <2> DEFINE k == [cmd[c] EXCEPT !.todo = @ \ {"token"}, !.token = rt.token,
                     !.pc = IF cmd[c].todo = {"token"} THEN "ready" ELSE "reading"]
  <2>1. cmd' = [cmd EXCEPT ![c] = k]
    BY <1>2, <1>8 DEF Good, Commands
  <2>2. /\ k \in Commands /\ k.todo = cmd[c].todo \ {"token"} /\ k.token = rt.token
        /\ k.ip = cmd[c].ip /\ k.model = cmd[c].model
        /\ k.port = cmd[c].port /\ k.during = cmd[c].during
        /\ k.place = cmd[c].place /\ k.pc \in {"ready", "reading"}
        /\ k.pc = "ready" => cmd[c].todo = {"token"}
    BY <1>2 DEF Good, Commands
  <2> HIDE DEF k
  <2>3. Good(k, Named(rt), rt.token, preset)
    BY <1>1, <1>2, <2>2 DEF Good, Named
  <2>4. QED
    BY <1>1, <1>4, <2>1, <2>2, <2>3
<1>9. QED
  BY <1>1, <1>3, <1>5, <1>6, <1>7, <1>8 DEF ReadField, Fields

LEMMA SendStep ==
    ASSUME RouterInv, NEW c \in Cmds, Send(c)
    PROVE  RouterInv' /\ rt' = rt
<1>1. /\ rt' = rt /\ ui' = ui /\ preset' = preset /\ fault' = fault
      /\ cmd' = [cmd EXCEPT ![c] = Free] /\ cmd[c].pc = "ready"
      /\ sent' = IF cmd[c].place = 0 THEN sent ELSE sent \cup {cmd[c].place}
  BY DEF Send
<1>2. /\ DOMAIN cmd = Cmds /\ preset \in 0..MaxPresses /\ MaxPresses \in Nat
      /\ preset \in preset..MaxPresses /\ sent \subseteq 1..preset
      /\ Good(cmd[c], Named(rt), rt.token, preset)
  BY RouterAssumption DEF RouterInv, CmdInv, PresetInv
<1>3. Good(Free, Named(rt), rt.token, preset)
  BY <1>2, RouterAssumption DEF Good, Free, Commands, Device
<1>4. cmd[c].place \in 0..preset
  BY <1>2 DEF Good, Commands
<1>5. PresetInv'
  <2>1. sent' \subseteq 1..preset /\ sent \subseteq sent'
    <3>1. CASE cmd[c].place = 0
      BY <1>1, <1>2, <3>1
    <3>2. CASE cmd[c].place # 0
      <4>1. sent' = sent \cup {cmd[c].place} /\ cmd[c].place \in 1..preset
        BY <1>1, <1>2, <1>4, <3>2
      <4>2. QED
        BY <1>2, <4>1
    <3>3. QED
      BY <3>1, <3>2
  <2>2. ASSUME NEW b \in Cmds, cmd[b].place > 0,
               cmd[b].pc = "queued" \/ cmd[b].place = preset
        PROVE  \/ preset \in sent'
               \/ cmd'[b].place > 0 /\ (cmd'[b].pc = "queued" \/ cmd'[b].place = preset)
    <3>1. CASE b = c
      BY <1>1, <2>2, <3>1
    <3>2. CASE b # c
      BY <1>1, <1>2, <2>2, <3>2
    <3>3. QED
      BY <3>1, <3>2
  <2>3. QED
    BY <1>1, <1>2, <2>1, <2>2 DEF RouterInv, PresetInv
<1>6. QED
  BY <1>1, <1>2, <1>3, <1>5, CommandReplaced DEF RouterInv

(* Every step of the Router, once a cam is selected. *)
LEMMA RouterStep ==
    ASSUME RouterInv, RouterNext
    PROVE  /\ RouterInv'
           /\ rt'.camCtrl = rt.camCtrl /\ rt'.mediaPlayer = rt.mediaPlayer
<1>1. ASSUME NEW c \in Cmds, Runs(c) PROVE RouterInv' /\ rt' = rt
  BY <1>1, ReadArgsStep, ReadFieldStep, SendStep DEF Runs
<1>2. QED
  BY <1>1, AssignIpStep, AssignModelStep, AssignPortStep, AssignTokenStep,
      AssignRestStep, SubmitStep
     DEF RouterNext

-----------------------------------------------------------------------------
(* The main window *)

(* The cam that is marked is one of those that the Router knows. *)
MarkInv == selected \subseteq Items /\ MarkedIsRouted

MainInv == PagesInv /\ RecordsInv /\ RouterInv /\ MarkInv

LEMMA InitInv == Init => MainInv
<1> SUFFICES ASSUME Init PROVE MainInv
  OBVIOUS
<1> USE DEF Init
<1>1. N \in Nat /\ N >= 1 /\ 4 \in Layouts /\ MaxRecords \in Nat
      /\ MaxPresses \in Nat /\ 0 \in Cams /\ 0 \in Items
  BY CamLayoutAssumption, RouterAssumption, MainWndAssumption DEF Items
<1>2. PagesInv
  <2>1. /\ PageCount(4) \in Nat /\ PageCount(4) >= 1
        /\ (PageCount(4) - 1) * 4 < N /\ N <= PageCount(4) * 4
    BY <1>1, PagesFit
  <2>2. Window(0, 4) # {} /\ Window(0, 4) \subseteq Items
    BY <1>1, WindowShows
  <2>3. /\ layout = 4 /\ m_iStartPos = 0 /\ visible = Window(0, 4)
        /\ currentPage = 1 /\ pageCount = PageCount(4) /\ kept = FALSE
    BY DEF LayoutInit
  <2>4. PageIsShown
    BY <2>3 DEF PageIsShown
  <2>5. PagesCoverCams
    BY <2>1, <2>2, <2>3 DEF PagesCoverCams
  <2>6. QED
    BY <1>1, <2>1, <2>2, <2>3, <2>4, <2>5 DEF PagesInv
<1>3. RecordsInv
  BY <1>1, FS_EmptySet DEF LayoutInit, RecordsInv, FewRecordings
<1>4. RouterInv
  <2>1. TokenInv
    BY <1>1, MainWndAssumption
       DEF RouterInit, TokenInv, Routers, Device, UiPcs
  <2>2. CmdInv
    BY <1>1 DEF RouterInit, CmdInv, Good, Free, Commands, Device, Named
  <2>3. PresetInv
    BY <1>1 DEF RouterInit, PresetInv
  <2>4. QED
    BY <2>1, <2>2, <2>3 DEF RouterInit, RouterInv
<1>5. MarkInv
  BY <1>1, MainWndAssumption
     DEF LayoutInit, RouterInit, MarkInv, MarkedIsRouted
<1>6. QED
  BY <1>2, <1>3, <1>4, <1>5 DEF MainInv

LEMMA NextInv == MainInv /\ [Next]_vars => MainInv'
<1> SUFFICES ASSUME MainInv, [Next]_vars PROVE MainInv'
  OBVIOUS
<1>1. CASE Paging
  <2>1. LayoutNext /\ UNCHANGED routerVars
    BY <1>1 DEF Paging
  <2>2. selected' = selected
    BY <2>1 DEF LayoutNext, OnBtnNO_1, OnBtnNO, OnBtnPageUp, OnBtnPageDown,
                OnSize, ClickRecord
  <2>3. PagesInv' /\ RecordsInv'
    BY <2>1, PagesStep, RecordsStep DEF MainInv
  <2>4. RouterInv' /\ rt' = rt
    BY <2>1 DEF MainInv, RouterInv, TokenInv, CmdInv, PresetInv, routerVars, cmds
  <2>5. QED
    BY <2>2, <2>3, <2>4 DEF MainInv, MarkInv, MarkedIsRouted, Items
<1>2. CASE Routing
  <2>1. RouterNext /\ UNCHANGED layoutVars
    BY <1>2 DEF Routing
  <2>2. RouterInv' /\ rt'.camCtrl = rt.camCtrl /\ rt'.mediaPlayer = rt.mediaPlayer
    BY <2>1, RouterStep DEF MainInv
  <2>3. PagesInv' /\ RecordsInv' /\ selected' = selected
    BY <2>1, PagesKept, RecordsKept DEF MainInv, layoutVars
  <2>4. QED
    BY <2>2, <2>3 DEF MainInv, MarkInv, MarkedIsRouted, Items
<1>3. ASSUME NEW i \in Items, ClickCam(i) PROVE MainInv'
  <2>1. SelectItem(i) /\ SelectCam(i) /\ i \in Cams
    BY <1>3, MainWndAssumption DEF ClickCam
  <2>2. RouterInv' /\ rt'.camCtrl = i /\ rt'.mediaPlayer = i
    BY <2>1, SelectCamStep DEF MainInv
  <2>3. PagesInv' /\ RecordsInv' /\ selected' = {i}
    BY <2>1, PagesKept, RecordsKept DEF MainInv, SelectItem
  <2>4. QED
    BY <2>2, <2>3 DEF MainInv, MarkInv, MarkedIsRouted, Items
<1>4. CASE UNCHANGED vars
  <2>1. UNCHANGED layoutVars /\ UNCHANGED routerVars
    BY <1>4 DEF vars
  <2>2. PagesInv' /\ RecordsInv' /\ selected' = selected
    BY <2>1, PagesKept, RecordsKept DEF MainInv, layoutVars
  <2>3. RouterInv' /\ rt' = rt
    BY <2>1 DEF MainInv, RouterInv, TokenInv, CmdInv, PresetInv, routerVars, cmds
  <2>4. QED
    BY <2>2, <2>3 DEF MainInv, MarkInv, MarkedIsRouted, Items
<1>5. QED
  BY <1>1, <1>2, <1>3, <1>4 DEF Next

(* The invariant behind the theorems that follow: the pages that are        *)
(* counted are those of the layout, no command has read anything that was   *)
(* not selected since its button, and the last preset is on its way.        *)
THEOREM MainInductive == Spec => []MainInv
BY InitInv, NextInv, PTL DEF Spec

(* The variables of the window, its layout and its Router keep their types, *)
(* for any number of cams, devices, commands and presets.                   *)
THEOREM MainTypes == Spec => []TypeOK
<1>1. MainInv => TypeOK
  <2> SUFFICES ASSUME MainInv PROVE TypeOK
    OBVIOUS
  <2>1. LayoutTypeOK
    BY DEF MainInv, PagesInv, RecordsInv, MarkInv, LayoutTypeOK
  <2>2. cmd \in [Cmds -> Commands]
    BY DEF MainInv, RouterInv, CmdInv, Good
  <2>3. QED
    BY <2>1, <2>2 DEF MainInv, RouterInv, TokenInv, PresetInv, TypeOK, RouterTypeOK
<1>2. QED
  BY <1>1, MainInductive, PTL

(* The page that the text names is the one that is shown: OnBtnNO,          *)
(* OnBtnPageUp, OnBtnPageDown and OnSize tell CMainWnd and CCamLayoutUI the *)
(* same, for any number of cams.                                            *)
THEOREM PageNamed == Spec => []PageIsShown
<1>1. MainInv => PageIsShown
  BY DEF MainInv, PagesInv
<1>2. QED
  BY <1>1, MainInductive, PTL

(* Every page up to the last shows a cam, and every cam has a page:         *)
(* OnBtnPageDown stops in time, though the layout and the page are told     *)
(* apart from each other.                                                   *)
THEOREM PagesComplete == Spec => []PagesCoverCams
<1>1. MainInv => PagesCoverCams
  BY DEF MainInv, PagesInv
<1>2. QED
  BY <1>1, MainInductive, PTL

(* At most MaxRecords cams record, whatever is paged in between.            *)
THEOREM RecordingsFew == Spec => []FewRecordings
<1>1. MainInv => FewRecordings
  BY DEF MainInv, RecordsInv
<1>2. QED
  BY <1>1, MainInductive, PTL

(* The cam with the mark is the one that Router's commands are for.         *)
THEOREM MarkRouted == Spec => []MarkedIsRouted
<1>1. MainInv => MarkedIsRouted
  BY DEF MainInv, MarkInv
<1>2. QED
  BY <1>1, MainInductive, PTL

(* A command of the thread pool, which reads the Router without a lock,     *)
(* takes its ip, its model and its port from devices that were selected     *)
(* since its button, and never has the token of one that was not: the three *)
(* may be of different devices only if another one was selected meanwhile.  *)
THEOREM CommandsAim == Spec => []CommandAims
<1>1. MainInv => CommandAims
  BY DEF MainInv, RouterInv, CmdInv, Good, CommandAims
<1>2. QED
  BY <1>1, MainInductive, PTL

(* selprecall is read when a command runs: some preset may be sent twice,   *)
(* and still the one called last is sent.                                   *)
THEOREM LastPresetGoes == Spec => []LastPresetSent
<1>1. MainInv => LastPresetSent
  BY DEF MainInv, RouterInv, PresetInv, CmdInv, LastPresetSent
<1>2. QED
  BY <1>1, MainInductive, PTL
=============================================================================
