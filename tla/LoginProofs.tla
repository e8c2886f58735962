----------------------------- MODULE LoginProofs -----------------------------
(***************************************************************************)
(* Proofs about Login, for any users, passwords and servers, and for a     *)
(* table of any size.                                                      *)
(***************************************************************************)
EXTENDS Login, TLAPS

(* The newest row of a key is a record, and none when there is no row. *)
LEMMA NewestType ==
    ASSUME TypeOK, NEW k \in Keys
    PROVE  Newest(k) \in Records \cup {None}
<1>1. table[k] \in Seq(Records)
  BY DEF TypeOK
<1>2. CASE table[k] = <<>>
  BY <1>2 DEF Newest
<1>3. CASE table[k] # <<>>
  <2>1. Len(table[k]) \in 1..Len(table[k])
    BY <1>1, <1>3
  <2>2. table[k][Len(table[k])] \in Records
    BY <1>1, <2>1
  <2>3. QED
    BY <1>3, <2>2 DEF Newest
<1>4. QED
  BY <1>2, <1>3

LEMMA LoadType ==
    ASSUME TypeOK, NEW ip \in Ips
    PROVE  Load(ip) \in [Users -> Records \cup {None}]
<1>1. ASSUME NEW u \in Users PROVE Newest(<<u, ip>>) \in Records \cup {None}
  BY NewestType DEF Keys
<1>2. QED
  BY <1>1 DEF Load

LEMMA NoneIsNoRecord == None \notin Records
BY LoginAssumption DEF Records

(* What the handlers make of the controls. *)
LEMMA OnBtnLoginType ==
    ASSUME NEW f \in Forms
    PROVE  OnBtnLogin(f) \in Forms
BY DEF OnBtnLogin, Forms, Tabs

LEMMA OnItemSelectType ==
    ASSUME NEW f \in Forms, NEW u \in Users, NEW row \in Records
    PROVE  OnItemSelect(f, u, row) \in Forms
<1> DEFINE auto == IF f.box = row.auto THEN row.auto ELSE ~row.auto
           g == [f EXCEPT !.user = u, !.pwd = row.pwd, !.rem = TRUE,
                          !.auto = auto, !.box = row.auto]
<1>1. row.auto \in BOOLEAN /\ row.pwd \in Pwds
  BY DEF Records
<1>2. auto \in BOOLEAN
  BY <1>1
<1> HIDE DEF auto
<1>3. g \in Forms
  BY <1>1, <1>2 DEF Forms
<1>4. OnItemSelect(f, u, row) = IF auto THEN OnBtnLogin(g) ELSE g
  BY DEF OnItemSelect, auto
<1> HIDE DEF g
<1>5. QED
  BY <1>3, <1>4, OnBtnLoginType

LEMMA LoadUserType ==
    ASSUME NEW f \in Forms, NEW u \in Users, NEW row \in Records
    PROVE  LoadUser(f, u, row) \in Forms
BY OnItemSelectType, OnBtnLoginType DEF LoadUser

LEMMA LoadNobodyType ==
    ASSUME NEW f \in Forms
    PROVE  LoadNobody(f) \subseteq Forms
<1> DEFINE fs == {[f EXCEPT !.pwd = p] : p \in Pwds \cup {NoText}}
<1>1. fs \subseteq Forms
  BY DEF Forms
<1>2. LoadNobody(f) = fs \cup {OnBtnLogin(g) : g \in fs}
  BY DEF LoadNobody
<1> HIDE DEF fs
<1>3. QED
  BY <1>1, <1>2, OnBtnLoginType

LEMMA LoadedType ==
    ASSUME NEW f \in Forms, NEW list \in [Users -> Records \cup {None}]
    PROVE  Loaded(f, list) \subseteq Forms
<1>1. CASE Listed(list) = {}
  BY <1>1, LoadNobodyType DEF Loaded
<1>2. CASE Listed(list) # {}
  <2>1. ASSUME NEW u \in Listed(list) PROVE LoadUser(f, u, list[u]) \in Forms
    BY LoadUserType DEF Listed
  <2>2. QED
    BY <1>2, <2>1 DEF Loaded
<1>3. QED
  BY <1>1, <1>2

LEMMA NewFormType == NewForm \in Forms
BY DEF NewForm, Forms, Tabs

-----------------------------------------------------------------------------
(* Before and during the user's actions nothing is under way: such a step   *)
(* keeps everything but the types as it is.                                 *)
LEMMA QuietStep ==
    ASSUME LoginInv, pc = "rest", posted = <<>>, prog' = "login",
           UNCHANGED timer, TypeOK'
    PROVE  LoginInv'
<1>1. /\ pc' = "rest" /\ posted' = <<>> /\ again' = again /\ model' = model
      /\ lost' = lost
  BY DEF timer
<1>2. again = FALSE
  BY DEF LoginInv, TypeOK, HandlerInv
<1>3. HandlerInv'
  BY <1>1, <1>2 DEF HandlerInv, FirstResult
<1>4. ConfInv' /\ SavedInv' /\ RightWindow'
  BY <1>1 DEF ConfInv, SavedInv, RightWindow, Done, AtTheEnd
<1>5. QED
  BY <1>3, <1>4 DEF LoginInv

LEMMA StartStep == LoginInv /\ Start => LoginInv'
<1> SUFFICES ASSUME LoginInv, Start PROVE LoginInv'
  OBVIOUS
<1>1. pc = "rest" /\ posted = <<>>
  BY DEF LoginInv, HandlerInv, Start
<1>2. Load(Ip) \in [Users -> Records \cup {None}]
  BY LoadType DEF LoginInv, TypeOK
<1>3. form' \in Forms
  BY <1>2, LoadedType, NewFormType DEF Start
<1>4. TypeOK'
  BY <1>2, <1>3 DEF LoginInv, TypeOK, Start, timer
<1>5. QED
  BY <1>1, <1>4, QuietStep DEF Start

(* The user's actions. *)
Inputs ==
    \/ Type \/ (\E u \in Users : Choose(u)) \/ ClickRem \/ ClickAuto
    \/ ClickServer \/ Enter \/ OnBtnSet \/ OnBtnOk \/ OnBtnCancle
    \/ OnBtnLogout \/ OnBtnErrorOk \/ Refused

LEMMA InputStep == LoginInv /\ Inputs => LoginInv'
<1> SUFFICES ASSUME LoginInv, Inputs PROVE LoginInv'
  OBVIOUS
<1>1. /\ pc = "rest" /\ posted = <<>> /\ prog = "login"
      /\ UNCHANGED timer /\ prog' = prog
      /\ table' = table /\ conf' = conf
  BY DEF Inputs, Type, Choose, ClickRem, ClickAuto, ClickServer, Enter, OnBtnSet,
         OnBtnOk, OnBtnCancle, OnBtnLogout, OnBtnErrorOk, Refused, On, Input
<1>2. form \in Forms /\ Ip \in Ips /\ userList \in [Users -> Records \cup {None}]
      /\ isCloud \in BOOLEAN
  BY DEF LoginInv, TypeOK
<1>3. form' \in Forms
  <2>1. CASE Type
    BY <1>2, <2>1 DEF Type, Forms
  <2>2. ASSUME NEW u \in Users, Choose(u) PROVE form' \in Forms
    <3>1. userList[u] \in Records
      BY <1>2, <2>2 DEF Choose, Listed
    <3>2. QED
      BY <1>2, <2>2, <3>1, OnItemSelectType DEF Choose
  <2>3. CASE ClickRem \/ ClickAuto \/ OnBtnSet \/ OnBtnCancle
             \/ OnBtnLogout \/ OnBtnErrorOk \/ Refused
    BY <1>2, <2>3 DEF ClickRem, ClickAuto, OnBtnSet, OnBtnCancle, OnBtnLogout,
                      OnBtnErrorOk, Refused, Forms, Tabs
  <2>4. CASE ClickServer
    BY <1>2, <2>4 DEF ClickServer
  <2>5. CASE Enter
    BY <1>2, <2>5, OnBtnLoginType DEF Enter
  <2>6. CASE OnBtnOk
    <3>1. PICK f \in Loaded(form, Load(Ip)) : form' = [f EXCEPT !.tab = "form"]
      BY <2>6 DEF OnBtnOk
    <3>2. f \in Forms
      BY <1>2, LoadType, LoadedType DEF LoginInv
    <3>3. QED
      BY <3>1, <3>2 DEF Forms, Tabs
  <2>7. QED
    BY <2>1, <2>2, <2>3, <2>4, <2>5, <2>6 DEF Inputs
<1>4. /\ Ip' \in Ips /\ isCloud' \in BOOLEAN
      /\ userList' \in [Users -> Records \cup {None}]
  <2>1. CASE OnBtnOk
    BY <1>2, <2>1, LoadType DEF OnBtnOk, LoginInv
  <2>2. CASE ~OnBtnOk
    BY <1>2, <2>2 DEF Inputs, Type, Choose, ClickRem, ClickAuto, ClickServer,
         Enter, OnBtnSet, OnBtnCancle, OnBtnLogout, OnBtnErrorOk, Refused
  <2>3. QED
    BY <2>1, <2>2
<1>5. TypeOK'
  BY <1>1, <1>3, <1>4 DEF LoginInv, TypeOK, timer
<1>6. QED
  BY <1>1, <1>5, QuietStep
-----------------------------------------------------------------------------
(* The steps of OnTimer *)

(* Both ways that UpLoadUser leads. *)
LEMMA UpLoadUserIs ==
    \/ form.rem /\ UpLoadUser = "delete"
    \/ ~form.rem /\ UpLoadUser = "close"
BY DEF UpLoadUser

LEMMA GrantedStep == LoginInv /\ Granted => LoginInv'
<1> SUFFICES ASSUME LoginInv, Granted PROVE LoginInv'
  OBVIOUS
<1>1. /\ pc = "rest" /\ posted = <<>> /\ prog = "login" /\ again = FALSE
      /\ form.user \in Users /\ form.pwd \in Pwds /\ isCloud \in BOOLEAN
  BY DEF LoginInv, TypeOK, Forms, HandlerInv, Granted, Input
<1>2. /\ posted' = <<>> /\ prog' = "login" /\ again' = FALSE /\ form' = form
      /\ lost' = FALSE
      /\ \/ model' = "cloud" /\ pc' = UpLoadUser
         \/ model' \in {"embed", "iMac"} /\ pc' = "truncate"
  BY <1>1 DEF Granted, ui
<1>3. TypeOK'
  BY <1>2, UpLoadUserIs DEF LoginInv, TypeOK, Granted, ui, Models
<1>4. HandlerInv'
  BY <1>1, <1>2, UpLoadUserIs DEF HandlerInv
<1>5. ConfInv' /\ RightWindow'
  BY <1>2 DEF ConfInv, Done, RightWindow
<1>6. SavedInv'
  BY <1>2, UpLoadUserIs DEF SavedInv, AtTheEnd, Done
<1>7. QED
  BY <1>3, <1>4, <1>5, <1>6 DEF LoginInv

LEMMA FileStep == LoginInv /\ (Truncate \/ Write) => LoginInv'
<1> SUFFICES ASSUME LoginInv, Truncate \/ Write PROVE LoginInv'
  OBVIOUS
<1>1. /\ pc \in {"truncate", "write"} /\ prog = "login" /\ again = FALSE
      /\ posted = <<>> /\ model # "cloud"
      /\ form.user \in Users /\ form.pwd \in Pwds
  BY DEF LoginInv, TypeOK, HandlerInv, Truncate, Write
<1>2. /\ prog' = "login" /\ posted' = <<>> /\ again' = FALSE /\ form' = form
      /\ model' = model /\ Ip' = Ip /\ lost' = lost
      /\ \/ pc' = "write" /\ conf' = None
         \/ pc' = UpLoadUser /\ conf' = [ip |-> Ip, model |-> model]
  BY <1>1 DEF Truncate, Write, ui
<1>3. conf' \in Logins \cup {None}
  <2>1. [ip |-> Ip, model |-> model] \in Logins
    BY DEF LoginInv, TypeOK, Logins
  <2>2. QED
    BY <1>2, <2>1
<1>4. TypeOK'
  BY <1>2, <1>3, UpLoadUserIs DEF LoginInv, TypeOK, Truncate, Write, ui
<1>5. HandlerInv'
  BY <1>1, <1>2, UpLoadUserIs DEF HandlerInv
<1>6. ConfInv' /\ RightWindow'
  BY <1>2 DEF ConfInv, Done, RightWindow
<1>7. SavedInv'
  BY <1>2, UpLoadUserIs DEF SavedInv, AtTheEnd, Done
<1>8. QED
  BY <1>4, <1>5, <1>6, <1>7 DEF LoginInv

(* The statements: only the last one, or an error, reaches the end. *)
LEMMA TableStep == LoginInv /\ (NotOpened \/ Delete \/ Insert) => LoginInv'
<1> SUFFICES ASSUME LoginInv, NotOpened \/ Delete \/ Insert PROVE LoginInv'
  OBVIOUS
<1>1. /\ pc \in {"delete", "insert"} /\ prog = "login" /\ form.rem
      /\ form.user \in Users /\ form.pwd \in Pwds
      /\ again => posted # <<>>
      /\ ~again => posted = <<>>
      /\ posted # <<>> => Head(posted) = FirstResult
  BY DEF LoginInv, HandlerInv, NotOpened, Delete, Insert
<1>2. /\ prog' = prog /\ posted' = posted /\ again' = again /\ form' = form
      /\ model' = model /\ Ip' = Ip /\ conf' = conf
      /\ userList' = userList /\ isCloud' = isCloud
      /\ pc' \in {"insert", "close"} /\ lost' \in BOOLEAN
  BY DEF NotOpened, Delete, Insert, ui, LoginInv, TypeOK
<1>3. Key \in Keys /\ Row \in Records
  BY <1>1 DEF LoginInv, TypeOK, Forms, Key, Keys, Row, Records
<1>4. table' \in [Keys -> Seq(Records)]
  <2>1. table \in [Keys -> Seq(Records)]
    BY DEF LoginInv, TypeOK
  <2>2. <<>> \in Seq(Records)
    OBVIOUS
  <2>3. Append(table[Key], Row) \in Seq(Records)
    BY <1>3, <2>1
  <2>4. QED
    BY <1>3, <2>1, <2>2, <2>3 DEF NotOpened, Delete, Insert
<1>5. TypeOK'
  BY <1>2, <1>4 DEF LoginInv, TypeOK
<1>6. HandlerInv'
  BY <1>1, <1>2 DEF HandlerInv, FirstResult
<1>7. ConfInv' /\ RightWindow'
  BY <1>1, <1>2 DEF LoginInv, ConfInv, Done, RightWindow
<1>8. SavedInv'
  <2>1. CASE lost' = TRUE \/ pc' = "insert"
    BY <1>2, <2>1 DEF SavedInv, AtTheEnd
  <2>2. CASE /\ table' = [table EXCEPT ![Key] = Append(@, Row)]
             /\ lost' = FALSE
    <3>1. Newest(Key)' = Row
      <4>1. table'[Key] = Append(table[Key], Row) /\ table[Key] \in Seq(Records)
        BY <1>3, <2>2 DEF LoginInv, TypeOK
      <4>2. /\ Append(table[Key], Row) # <<>>
            /\ Append(table[Key], Row)[Len(Append(table[Key], Row))] = Row
        BY <1>3, <4>1
      <4>3. Key' = Key
        BY <1>2 DEF Key
      <4>4. QED
        BY <4>1, <4>2, <4>3 DEF Newest
    <3>2. Row' = Row
      BY <1>2 DEF Row
    <3>3. QED
      BY <3>1, <3>2 DEF SavedInv
  <2>3. QED
    BY <2>1, <2>2 DEF NotOpened, Delete, Insert
<1>9. QED
  BY <1>5, <1>6, <1>7, <1>8 DEF LoginInv

(* What is posted: the result of the first attempt, then IDOK. *)
LEMMA ClosesStep == LoginInv /\ Closes => LoginInv'
<1> SUFFICES ASSUME LoginInv, Closes PROVE LoginInv'
  OBVIOUS
<1>1. /\ pc = "close" /\ prog = "login" /\ again \in BOOLEAN
      /\ form.user \in Users /\ form.pwd \in Pwds /\ form \in Forms
      /\ again => posted # <<>>
      /\ ~again => posted = <<>>
      /\ posted # <<>> => Head(posted) = FirstResult
      /\ posted \in Seq({"IDOK", "10086"})
  BY DEF LoginInv, TypeOK, HandlerInv, Closes
<1>2. /\ prog' = prog /\ table' = table /\ conf' = conf /\ lost' = lost
      /\ model' = model /\ Ip' = Ip /\ again' = ~again
      /\ form' = [form EXCEPT !.timer = FALSE]
      /\ posted' = Append(posted, Result)
      /\ pc' = IF again THEN "rest" ELSE UpLoadUser
  BY DEF Closes
<1>3. /\ form' \in Forms /\ form'.user = form.user /\ form'.pwd = form.pwd
      /\ form'.rem = form.rem /\ form'.auto = form.auto
  BY <1>1, <1>2 DEF Forms
<1>4. posted' \in Seq({"IDOK", "10086"}) /\ posted' # <<>>
      /\ Head(posted') = FirstResult
  <2>1. Result \in {"IDOK", "10086"} /\ (~again => Result = FirstResult)
    BY DEF Result, FirstResult
  <2>2. CASE posted = <<>>
    BY <1>1, <1>2, <2>1, <2>2
  <2>3. CASE posted # <<>>
    BY <1>1, <1>2, <2>1, <2>3
  <2>4. QED
    BY <2>2, <2>3
<1>5. TypeOK'
  <2>1. pc' \in {"rest", "delete", "close"}
    BY <1>1, <1>2, UpLoadUserIs
  <2>2. QED
    BY <1>1, <1>2, <1>3, <1>4, <2>1 DEF LoginInv, TypeOK, Closes
<1>6. HandlerInv'
  <2>1. FirstResult' = FirstResult
    BY <1>2 DEF FirstResult
  <2>2. CASE again
    BY <1>1, <1>2, <1>3, <1>4, <2>1, <2>2 DEF HandlerInv
  <2>3. CASE ~again
    BY <1>1, <1>2, <1>3, <1>4, <2>1, <2>3, UpLoadUserIs DEF HandlerInv
  <2>4. QED
    BY <2>2, <2>3
<1>7. ConfInv' /\ RightWindow'
  BY <1>1, <1>2 DEF LoginInv, ConfInv, Done, RightWindow
<1>8. SavedInv'
  <2>1. Newest(Key)' = Newest(Key) /\ Row' = Row
    BY <1>2, <1>3 DEF Newest, Key, Row
  <2>2. CASE again \/ ~form.rem
    BY <1>1, <1>2, <1>3, <2>1, <2>2 DEF LoginInv, SavedInv, AtTheEnd
  <2>3. CASE ~again /\ form.rem
    BY <1>2, <2>3, UpLoadUserIs DEF SavedInv, AtTheEnd
  <2>4. QED
    BY <2>2, <2>3
<1>9. QED
  BY <1>5, <1>6, <1>7, <1>8 DEF LoginInv

-----------------------------------------------------------------------------
(* The first result that was posted decides on the window. *)
LEMMA WmCloseStep == LoginInv /\ WmClose => LoginInv'
<1> SUFFICES ASSUME LoginInv, WmClose PROVE LoginInv'
  OBVIOUS
<1>1. /\ pc = "rest" /\ again = FALSE /\ posted # <<>>
      /\ Head(posted) = FirstResult /\ form \in Forms
  BY DEF LoginInv, TypeOK, HandlerInv, WmClose
<1>2. /\ prog' = Opens(FirstResult) /\ posted' = <<>>
      /\ form' = [form EXCEPT !.timer = FALSE]
      /\ table' = table /\ conf' = conf /\ lost' = lost /\ pc' = "rest"
      /\ model' = model /\ Ip' = Ip /\ again' = FALSE
  BY <1>1 DEF WmClose
<1>3. /\ form' \in Forms /\ form'.user = form.user /\ form'.pwd = form.pwd
      /\ form'.rem = form.rem /\ form'.auto = form.auto
  BY <1>1, <1>2 DEF Forms
<1>4. prog' = IF model = "cloud" THEN "main" ELSE "class mate"
  BY <1>2 DEF Opens, FirstResult
<1>5. TypeOK'
  <2>1. posted' \in Seq({"IDOK", "10086"})
    BY <1>2
  <2>2. QED
    BY <1>1, <1>2, <1>3, <1>4, <2>1 DEF LoginInv, TypeOK, WmClose
<1>6. HandlerInv'
  BY <1>2, <1>4 DEF HandlerInv
<1>7. ConfInv'
  BY <1>1, <1>2 DEF LoginInv, ConfInv, Done
<1>8. RightWindow'
  BY <1>2, <1>4 DEF LoginInv, TypeOK, Models, RightWindow
<1>9. SavedInv'
  <2>1. Newest(Key)' = Newest(Key) /\ Row' = Row
    BY <1>2, <1>3 DEF Newest, Key, Row
  <2>2. AtTheEnd
    BY <1>1 DEF AtTheEnd, Done
  <2>3. QED
    BY <1>2, <1>3, <2>1, <2>2 DEF LoginInv, SavedInv
<1>10. QED
  BY <1>5, <1>6, <1>7, <1>8, <1>9 DEF LoginInv

(* A crash leaves the table and the file, and nothing else. *)
LEMMA ExitStep == LoginInv /\ Exit => LoginInv'
<1> SUFFICES ASSUME LoginInv, Exit PROVE LoginInv'
  OBVIOUS
<1>1. /\ prog' = "none" /\ pc' = "rest" /\ again' = FALSE /\ posted' = <<>>
      /\ model' = "cloud" /\ lost' = FALSE /\ form' = NewForm
      /\ userList' = [u \in Users |-> None] /\ isCloud' = FALSE
  BY DEF Exit
<1>2. TypeOK'
  <2>1. posted' \in Seq({"IDOK", "10086"})
    BY <1>1
  <2>2. QED
    BY <1>1, <2>1, NewFormType DEF LoginInv, TypeOK, Exit, Models
<1>3. HandlerInv' /\ ConfInv' /\ SavedInv' /\ RightWindow'
  BY <1>1 DEF HandlerInv, ConfInv, SavedInv, RightWindow, Done, AtTheEnd
<1>4. QED
  BY <1>2, <1>3 DEF LoginInv
-----------------------------------------------------------------------------
LEMMA InitInv == Init => LoginInv
<1> SUFFICES ASSUME Init PROVE LoginInv
  OBVIOUS
<1>1. table \in [Keys -> Seq(Records)]
  <2>1. <<>> \in Seq(Records)
    OBVIOUS
  <2>2. \A r \in Records : <<r>> \in Seq(Records)
    OBVIOUS
  <2>3. {<<>>} \cup {<<r>> : r \in Records} \subseteq Seq(Records)
    BY <2>1, <2>2
  <2>4. table \in [Keys -> {<<>>} \cup {<<r>> : r \in Records}]
    BY DEF Init
  <2>5. QED
    BY <2>3, <2>4
<1>2. TypeOK
  <2>1. posted \in Seq({"IDOK", "10086"})
    BY DEF Init
  <2>2. QED
    BY <1>1, <2>1, NewFormType DEF Init, TypeOK, Models
<1>3. HandlerInv /\ ConfInv /\ SavedInv /\ RightWindow
  BY DEF Init, HandlerInv, ConfInv, SavedInv, RightWindow, Done, AtTheEnd
<1>4. QED
  BY <1>2, <1>3 DEF LoginInv

LEMMA NextInv == LoginInv /\ [Next]_vars => LoginInv'
<1>1. CASE UNCHANGED vars
  <2>1. UNCHANGED <<table, conf, prog, form, userList, Ip, isCloud, pc, again,
                    model, posted, lost>>
    BY <1>1 DEF vars, ui, timer
  <2>2. LoginInv => LoginInv'
    <3> SUFFICES ASSUME LoginInv PROVE LoginInv'
      OBVIOUS
    <3>1. TypeOK'
      BY <2>1 DEF LoginInv, TypeOK
    <3>2. HandlerInv' /\ ConfInv' /\ RightWindow'
      BY <2>1 DEF LoginInv, HandlerInv, ConfInv, RightWindow, Done, FirstResult
    <3>3. SavedInv'
      BY <2>1 DEF LoginInv, SavedInv, AtTheEnd, Done, Newest, Key, Row
    <3>4. QED
      BY <3>1, <3>2, <3>3 DEF LoginInv
  <2>3. QED
    BY <2>2
<1>2. LoginInv /\ Next => LoginInv'
  BY StartStep, InputStep, GrantedStep, FileStep, TableStep, ClosesStep,
     WmCloseStep, ExitStep DEF Next, Inputs, OnTimer
<1>3. QED
  BY <1>1, <1>2

(* The invariant behind the theorems that follow: what OnTimer has done so  *)
(* far, the results it has posted, the file and the table agree at each     *)
(* step, whatever fails and wherever the program dies.                      *)
THEOREM LoginInductive == Spec => []LoginInv
BY InitInv, NextInv, PTL DEF Spec

(* The class room's server opens the class mate window and the cloud server *)
(* the main window: the second Close of OnTimer never decides.              *)
THEOREM WindowRight == Spec => []RightWindow
<1>1. LoginInv => RightWindow
  BY DEF LoginInv
<1>2. QED
  BY <1>1, LoginInductive, PTL

(* The class mate window finds the granted login in banban.conf, which the  *)
(* last run may have left cut short.                                        *)
THEOREM ConfWritten == Spec => []ConfOfLogin
<1>1. LoginInv => ConfOfLogin
  BY DEF LoginInv, RightWindow, ConfInv, Done, ConfOfLogin
<1>2. QED
  BY <1>1, LoginInductive, PTL

(* A login to be remembered is the newest row of its user when the next     *)
(* window opens, unless the second attempt to save it failed.               *)
THEOREM RememberedIsSaved == Spec => []LoginRemembered
<1>1. LoginInv => LoginRemembered
  BY DEF LoginInv, HandlerInv, SavedInv, AtTheEnd, Done, LoginRemembered
<1>2. QED
  BY <1>1, LoginInductive, PTL

-----------------------------------------------------------------------------
(* Choosing a user turns bAuto to the row's flag when the box agrees with   *)
(* it already, and logs in with the user's password in that case.           *)
LEMMA ChooseStep ==
    ASSUME LoginInv, NEW u \in Users, Choose(u), ~form.timer,
           form.box = userList[u].auto
    PROVE  form'.timer = userList[u].auto
<1> DEFINE row == userList[u]
           g == [form EXCEPT !.user = u, !.pwd = row.pwd, !.rem = TRUE,
                             !.auto = row.auto, !.box = row.auto]
<1>1. form \in Forms /\ form.timer = FALSE
  BY DEF LoginInv, TypeOK, Forms
<1>2. row \in Records
  BY DEF LoginInv, TypeOK, Choose, Listed
<1>3. row.auto \in BOOLEAN /\ row.pwd \in Pwds
  BY <1>2 DEF Records
<1>4. form' = IF row.auto THEN OnBtnLogin(g) ELSE g
  BY DEF Choose, OnItemSelect
<1>5. g \in Forms /\ g.user = u /\ g.pwd = row.pwd /\ g.timer = FALSE
  BY <1>1, <1>3 DEF Forms
<1>6. u # NoText /\ row.pwd # NoText
  BY <1>3, LoginAssumption
<1> HIDE DEF g, row
<1>7. CASE row.auto
  <2>1. form' = [g EXCEPT !.tab = "logging in", !.timer = TRUE]
    BY <1>4, <1>5, <1>6, <1>7 DEF OnBtnLogin
  <2>2. form'.timer = TRUE
    BY <1>5, <2>1 DEF Forms
  <2>3. QED
    BY <1>3, <1>7, <2>2 DEF row
<1>8. CASE ~row.auto
  BY <1>3, <1>4, <1>5, <1>8 DEF row
<1>9. QED
  BY <1>7, <1>8

(* Choosing a user logs in exactly if that user's row says so, provided     *)
(* that OnOptionSelect is not called on the way.                            *)
THEOREM AutoLogsIn == Spec => AutoAsSaved
<1>1. LoginInv /\ [Next]_vars =>
        [\A u \in Users :
           Choose(u) /\ ~form.timer /\ form.box = userList[u].auto
              => form'.timer = userList[u].auto]_vars
  BY ChooseStep
<1>2. QED
  BY <1>1, LoginInductive, PTL DEF Spec, AutoAsSaved

-----------------------------------------------------------------------------
(* The refinement *)

savedBar == [k \in Keys |-> Newest(k)]

LEMMA SavedInit == Init => Saved!Init
<1> SUFFICES ASSUME Init PROVE savedBar \in [Keys -> Records \cup {None}]
  BY DEF Saved!Init, Saved!TypeOK, savedBar
<1>1. TypeOK
  BY InitInv DEF LoginInv
<1>2. QED
  BY <1>1, NewestType DEF savedBar

LEMMA TableKept ==
    ASSUME UNCHANGED table
    PROVE  savedBar' = savedBar
BY DEF savedBar, Newest

LEMMA DeleteForgets ==
    ASSUME LoginInv, Delete
    PROVE  [Saved!Next]_savedBar
<1>1. Key \in Keys
  BY DEF LoginInv, TypeOK, HandlerInv, Delete, Key, Keys
<1>2. CASE table' = table
  BY <1>2, TableKept
<1>3. CASE table' = [table EXCEPT ![Key] = <<>>]
  <2>1. savedBar' = [savedBar EXCEPT ![Key] = None]
    BY <1>1, <1>3 DEF savedBar, Newest, LoginInv, TypeOK
  <2>2. Saved!Forget(Key)
    BY <2>1 DEF Saved!Forget, savedBar
  <2>3. QED
    BY <1>1, <2>2 DEF Saved!Next
<1>4. QED
  BY <1>2, <1>3 DEF Delete

LEMMA InsertStores ==
    ASSUME LoginInv, Insert
    PROVE  [Saved!Next]_savedBar
<1>1. Key \in Keys /\ Row \in Records
  BY DEF LoginInv, TypeOK, HandlerInv, Forms, Insert, Key, Keys, Row, Records
<1>2. CASE table' = table
  BY <1>2, TableKept
<1>3. CASE table' = [table EXCEPT ![Key] = Append(@, Row)]
  <2>1. table \in [Keys -> Seq(Records)] /\ table[Key] \in Seq(Records)
    BY <1>1 DEF LoginInv, TypeOK
  <2>2. table'[Key] = Append(table[Key], Row)
    BY <1>1, <1>3, <2>1
  <2>3. /\ Append(table[Key], Row) # <<>>
        /\ Append(table[Key], Row)[Len(Append(table[Key], Row))] = Row
    BY <1>1, <2>1
  <2>4. Newest(Key)' = Row
    <3>1. Key' = Key
      BY DEF Insert, ui, Key
    <3>2. QED
      BY <2>2, <2>3, <3>1 DEF Newest
  <2>5. \A k \in Keys \ {Key} : Newest(k)' = Newest(k)
    BY <1>3, <2>1 DEF Newest
  <2>6. savedBar' = [savedBar EXCEPT ![Key] = Row]
    <3>1. Key' = Key
      BY DEF Insert, ui, Key
    <3>2. QED
      BY <1>1, <2>4, <2>5, <3>1 DEF savedBar
  <2>7. Saved!Store(Key, Row)
    BY <2>6 DEF Saved!Store, savedBar
  <2>8. QED
    BY <1>1, <2>7 DEF Saved!Next
<1>4. QED
  BY <1>2, <1>3 DEF Insert

(* Whichever statement fails and wherever the program dies, DataBase::Modify*)
(* stores or forgets one login and touches nobody else's.                   *)
THEOREM RefinesSavedLogins == Spec => SavedSpec
<1>1. LoginInv /\ [Next]_vars => [Saved!Next]_savedBar
  <2> SUFFICES ASSUME LoginInv, [Next]_vars PROVE [Saved!Next]_savedBar
    OBVIOUS
  <2>1. CASE Delete
    BY <2>1, DeleteForgets
  <2>2. CASE Insert
    BY <2>2, InsertStores
  <2>3. CASE ~Delete /\ ~Insert
    <3>1. table' = table
      BY <2>3 DEF Next, vars, Start, Type, Choose, ClickRem, ClickAuto,
         ClickServer, Enter, OnBtnSet, OnBtnOk, OnBtnCancle, OnBtnLogout,
         OnBtnErrorOk, OnTimer, Refused, Granted, Truncate, Write, NotOpened,
         Closes, WmClose, Exit
    <3>2. QED
      BY <3>1, TableKept
  <2>4. QED
    BY <2>1, <2>2, <2>3
<1>2. QED
  BY <1>1, SavedInit, LoginInductive, PTL DEF Spec, SavedSpec, Saved!Spec, savedBar
=============================================================================
