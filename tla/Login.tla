-------------------------------- MODULE Login --------------------------------
(***************************************************************************)
(* The login window (LoganManager/LoginWnd.cpp), the table of users it     *)
(* reads and writes (DataBase.cpp), the file it leaves for ClassMateWnd    *)
(* (ConfigFile.cpp) and the window that WinMain opens next.                *)
(*                                                                         *)
(* The window has one thread.  A handler is one step, except OnTimer: its  *)
(* request, the file and each SQL statement are steps of their own, and    *)
(* the program may die between any two of them and be started again.       *)
(*                                                                         *)
(* The table is kept as the rows of each key, in the order of their        *)
(* rowids: all that Load and the map userList depend on.  Every row has    *)
(* rem = 1, because UpLoadUser writes no other.  An address stands for     *)
(* the address and the port, and for the files that hold them: Ip is read  *)
(* back from its file whenever the file was written.                       *)
(***************************************************************************)
EXTENDS Integers, Sequences, FiniteSets

CONSTANTS
    Users,     \* user names
    Pwds,      \* passwords
    Ips,       \* addresses of servers
    NoText,    \* an empty edit control
    None,      \* no row; no login
    MaxRows    \* bound: rows that Init and Insert let the table have

ASSUME LoginAssumption ==
    /\ MaxRows \in Nat
    /\ NoText \notin Users /\ NoText \notin Pwds
    /\ \A p \in Pwds, a \in BOOLEAN : None # [pwd |-> p, auto |-> a]

Keys == Users \X Ips
Records == [pwd : Pwds, auto : BOOLEAN]
Models == {"cloud", "embed", "iMac"}
(* What ClassMateWnd reads of the file: the server and its model.  The user *)
(* and the password are written with them.                                  *)
Logins == [ip : Ips, model : Models]

VARIABLES
    table,    \* userTable
    conf,     \* the login in banban.conf, None when the file was cut short
    prog,     \* the window that is open
    form,     \* the controls of the login window, and what follows them
    userList, \* the logins LoadUser has read
    Ip,       \* the address of the server
    isCloud,
    pc,       \* where OnTimer is
    again,    \* OnTimer is at its second UpLoadUser
    model,    \* how the server has granted the login
    posted,   \* results of Close whose WM_CLOSE is still in the queue
    lost      \* history: the last attempt to save the login failed

ui == <<form, userList, Ip, isCloud>>
timer == <<pc, again, model, posted, lost>>
vars == <<table, conf, prog, ui, timer>>

Tabs == {"form", "settings", "logging in", "error"}
Forms == [user : Users \cup {NoText}, pwd : Pwds \cup {NoText},
          rem : BOOLEAN, auto : BOOLEAN,   \* bRem, bAuto
          box : BOOLEAN,                   \* whether opt_auto is ticked
          tab : Tabs,
          timer : BOOLEAN]                 \* TIME_LOGIN_ID is set

TypeOK ==
    /\ table \in [Keys -> Seq(Records)]
    /\ conf \in Logins \cup {None}
    /\ prog \in {"none", "login", "main", "class mate"}
    /\ form \in Forms
    /\ userList \in [Users -> Records \cup {None}]
    /\ Ip \in Ips
    /\ isCloud \in BOOLEAN
    /\ pc \in {"rest", "truncate", "write", "delete", "insert", "close"}
    /\ again \in BOOLEAN
    /\ model \in Models
    /\ posted \in Seq({"IDOK", "10086"})
    /\ lost \in BOOLEAN

-----------------------------------------------------------------------------
Rows == Cardinality(UNION {{k} \X DOMAIN table[k] : k \in Keys})

(* The newest row of a key: the last that Load returns and the one that     *)
(* userList keeps.                                                          *)
Newest(k) == IF table[k] = <<>> THEN None ELSE table[k][Len(table[k])]

Load(ip) == [u \in Users |-> Newest(<<u, ip>>)]
Listed(list) == {u \in Users : list[u] # None}

(* The handlers, as what they make of the controls. *)
OnBtnLogin(f) ==
    IF f.user # NoText /\ f.pwd # NoText
    THEN [f EXCEPT !.tab = "logging in", !.timer = TRUE]
    ELSE [f EXCEPT !.tab = "error"]

(* Mutant: the notification is sent whether or not the box changes. *)
OnItemSelect_Notifies(f, u, row) ==
    LET g == [f EXCEPT !.user = u, !.pwd = row.pwd, !.rem = TRUE,
                       !.auto = ~row.auto, !.box = row.auto]
    IN IF g.auto THEN OnBtnLogin(g) ELSE g

(* Setting opt_auto calls OnOptionSelect when that changes the box, and     *)
(* OnOptionSelect turns bAuto round.                                        *)
OnItemSelect(f, u, row) ==
    LET auto == IF f.box = row.auto THEN row.auto ELSE ~row.auto
        g == [f EXCEPT !.user = u, !.pwd = row.pwd, !.rem = TRUE,
                       !.auto = auto, !.box = row.auto]
    IN IF auto THEN OnBtnLogin(g) ELSE g

(* LoadUser fills the list, selects its first user, which calls             *)
(* OnItemSelect, and presses the login button if that one's row says so.    *)
(* Which user is the first depends on the names: here any.                  *)
LoadUser(f, u, row) ==
    LET g == OnItemSelect(f, u, row)
    IN IF row.auto THEN OnBtnLogin(g) ELSE g

(* With nobody to show it reads the first element of an empty map: it may   *)
(* fault, or find any password and any flag there.                          *)
LoadNobody(f) ==
    LET fs == {[f EXCEPT !.pwd = p] : p \in Pwds \cup {NoText}}
    IN fs \cup {OnBtnLogin(g) : g \in fs}

Loaded(f, list) ==
    IF Listed(list) = {} THEN LoadNobody(f)
    ELSE {LoadUser(f, u, list[u]) : u \in Listed(list)}

NewForm == [user |-> NoText, pwd |-> NoText, rem |-> FALSE, auto |-> FALSE,
            box |-> FALSE, tab |-> "form", timer |-> FALSE]

(* The table an earlier run may have left. *)
Init ==
    /\ table \in [Keys -> {<<>>} \cup {<<r>> : r \in Records}]
    /\ Rows <= MaxRows
    /\ conf = None
    /\ prog = "none"
    /\ form = NewForm
    /\ userList = [u \in Users |-> None]
    /\ Ip \in Ips
    /\ isCloud = FALSE
    /\ pc = "rest" /\ again = FALSE /\ model = "cloud"
    /\ posted = <<>> /\ lost = FALSE

-----------------------------------------------------------------------------
(* A user's action reaches the window while it is open and no handler runs; *)
(* WM_CLOSE comes before any input.                                         *)
Input == prog = "login" /\ pc = "rest" /\ posted = <<>>
On(tab) == Input /\ form.tab = tab

(* WinMain opens the window, which reads the table. *)
Start ==
    /\ prog = "none"
    /\ prog' = "login"
    /\ userList' = Load(Ip)
    /\ form' \in Loaded(NewForm, Load(Ip))
    /\ isCloud' = FALSE
    /\ UNCHANGED <<table, conf, Ip, timer>>

(* Both controls are filled in, or both cleared. *)
Type ==
    /\ On("form")
    /\ \E u \in Users \cup {NoText}, p \in Pwds \cup {NoText} :
         /\ (u = NoText) = (p = NoText)
         /\ form' = [form EXCEPT !.user = u, !.pwd = p]
    /\ UNCHANGED <<table, conf, prog, userList, Ip, isCloud, timer>>

Choose(u) ==
    /\ On("form") /\ u \in Listed(userList)
    /\ form' = OnItemSelect(form, u, userList[u])
    /\ UNCHANGED <<table, conf, prog, userList, Ip, isCloud, timer>>

(* OnOptionSelect: a click on one of the boxes. *)
ClickRem ==
    /\ On("form")
    /\ form' = [form EXCEPT !.rem = ~@]
    /\ UNCHANGED <<table, conf, prog, userList, Ip, isCloud, timer>>

ClickAuto ==
    /\ On("form")
    /\ form' = [form EXCEPT !.auto = ~@, !.box = ~@]
    /\ UNCHANGED <<table, conf, prog, userList, Ip, isCloud, timer>>

ClickServer ==
    /\ On("settings")
    /\ isCloud' \in BOOLEAN
    /\ UNCHANGED <<table, conf, prog, form, userList, Ip, timer>>

(* The login button, or the return key in any edit control. *)
Enter ==
    /\ On("form") \/ On("settings")
    /\ form' = OnBtnLogin(form)
    /\ UNCHANGED <<table, conf, prog, userList, Ip, isCloud, timer>>

(* The button for the settings is in the caption, always within reach. *)
OnBtnSet ==
    /\ Input
    /\ form' = [form EXCEPT !.tab = "settings"]
    /\ UNCHANGED <<table, conf, prog, userList, Ip, isCloud, timer>>

(* OK, with any address typed in: LoadUser still has the old address,       *)
(* ReadConfig sets the new one.                                             *)
OnBtnOk ==
    /\ On("settings")
    /\ userList' = Load(Ip)
    /\ \E f \in Loaded(form, Load(Ip)) : form' = [f EXCEPT !.tab = "form"]
    /\ Ip' \in Ips
    /\ UNCHANGED <<table, conf, prog, isCloud, timer>>

OnBtnCancle ==
    /\ On("settings")
    /\ form' = [form EXCEPT !.tab = "form"]
    /\ UNCHANGED <<table, conf, prog, userList, Ip, isCloud, timer>>

OnBtnLogout ==
    /\ On("logging in")
    /\ form' = [form EXCEPT !.tab = "form", !.timer = FALSE]
    /\ UNCHANGED <<table, conf, prog, userList, Ip, isCloud, timer>>

OnBtnErrorOk ==
    /\ On("error")
    /\ form' = [form EXCEPT !.tab = "form"]
    /\ UNCHANGED <<table, conf, prog, userList, Ip, isCloud, timer>>

-----------------------------------------------------------------------------
(* OnTimer *)

Key == <<form.user, Ip>>
Row == [pwd |-> form.pwd, auto |-> form.auto]
(* UpLoadUser saves what is to be remembered. *)
UpLoadUser == IF form.rem THEN "delete" ELSE "close"

(* Mutant: a refused login is tried again and again. *)
Refused_Retries ==
    /\ Input /\ form.timer
    /\ form' = [form EXCEPT !.tab = "error"]
    /\ UNCHANGED <<table, conf, prog, userList, Ip, isCloud, timer>>

(* No server grants the login. *)
Refused ==
    /\ Input /\ form.timer
    /\ form' = [form EXCEPT !.tab = "error", !.timer = FALSE]
    /\ UNCHANGED <<table, conf, prog, userList, Ip, isCloud, timer>>

(* A server grants it: the cloud server, or else the one in the class room  *)
(* as either of its models.  None grants an empty name or password, which   *)
(* the form may hold by now.                                                *)
Granted ==
    /\ Input /\ form.timer /\ form.user # NoText /\ form.pwd # NoText
    /\ model' \in IF isCloud THEN {"cloud"} ELSE {"embed", "iMac"}
    /\ pc' = IF isCloud THEN UpLoadUser ELSE "truncate"
    /\ lost' = FALSE
    /\ UNCHANGED <<table, conf, prog, ui, again, posted>>

(* ConfigFile::save opens the file, which empties it, and writes it anew. *)
Truncate ==
    /\ pc = "truncate"
    /\ conf' = None
    /\ pc' = "write"
    /\ UNCHANGED <<table, prog, ui, again, model, posted, lost>>

(* Mutant: the model of the first attempt is written. *)
Write_Embed ==
    /\ pc = "write"
    /\ conf' = [ip |-> Ip, model |-> "embed"]
    /\ pc' = UpLoadUser
    /\ UNCHANGED <<table, prog, ui, again, model, posted, lost>>

Write ==
    /\ pc = "write"
    /\ conf' = [ip |-> Ip, model |-> model]
    /\ pc' = UpLoadUser
    /\ UNCHANGED <<table, prog, ui, again, model, posted, lost>>

(* DataBase::Modify: the table may not open; *)
NotOpened ==
    /\ pc = "delete"
    /\ lost' = TRUE
    /\ pc' = "close"
    /\ UNCHANGED <<table, conf, prog, ui, again, model, posted>>

(* Mutant: the rows of the user are deleted for every server. *)
Delete_AllServers ==
    /\ pc = "delete"
    /\ table' = [k \in Keys |-> IF k[1] = form.user THEN <<>> ELSE table[k]]
    /\ pc' = "insert"
    /\ UNCHANGED <<conf, prog, ui, again, model, posted, lost>>

(* the old rows are deleted, or not: the result is not looked at;           *)
Delete ==
    /\ pc = "delete"
    /\ table' \in {table, [table EXCEPT ![Key] = <<>>]}
    /\ pc' = "insert"
    /\ UNCHANGED <<conf, prog, ui, again, model, posted, lost>>

(* Mutant: the two flags of the statement are swapped. *)
Insert_Swapped ==
    /\ pc = "insert"
    /\ \/ /\ Rows < MaxRows
          /\ table' = [table EXCEPT ![Key] = Append(@, [Row EXCEPT !.auto = form.rem])]
          /\ lost' = FALSE
       \/ table' = table /\ lost' = TRUE
    /\ pc' = "close"
    /\ UNCHANGED <<conf, prog, ui, again, model, posted>>

(* the new row is inserted, or not.                                         *)
Insert ==
    /\ pc = "insert"
    /\ \/ /\ Rows < MaxRows
          /\ table' = [table EXCEPT ![Key] = Append(@, Row)]
          /\ lost' = FALSE
       \/ table' = table /\ lost' = TRUE
    /\ pc' = "close"
    /\ UNCHANGED <<conf, prog, ui, again, model, posted>>

(* The window is closed, and everything done once more, with IDOK. *)
Result == IF again \/ model = "cloud" THEN "IDOK" ELSE "10086"

Closes ==
    /\ pc = "close"
    /\ posted' = Append(posted, Result)
    /\ again' = ~again
    /\ pc' = IF again THEN "rest" ELSE UpLoadUser
    /\ form' = [form EXCEPT !.timer = FALSE]
    /\ UNCHANGED <<table, conf, prog, userList, Ip, isCloud, model, lost>>

-----------------------------------------------------------------------------
Opens(result) == IF result = "IDOK" THEN "main" ELSE "class mate"

(* Mutant: the last of the results counts. *)
WmClose_Last ==
    /\ prog = "login" /\ pc = "rest" /\ posted # <<>>
    /\ prog' = Opens(posted[Len(posted)])
    /\ posted' = <<>>
    /\ form' = [form EXCEPT !.timer = FALSE]
    /\ UNCHANGED <<table, conf, userList, Ip, isCloud, pc, again, model, lost>>

(* ShowModal returns with the first result, and WinMain goes on by it.      *)
WmClose ==
    /\ prog = "login" /\ pc = "rest" /\ posted # <<>>
    /\ prog' = Opens(Head(posted))
    /\ posted' = <<>>
    /\ form' = [form EXCEPT !.timer = FALSE]
    /\ UNCHANGED <<table, conf, userList, Ip, isCloud, pc, again, model, lost>>

(* The program ends, by OnBtnClose for one, or dies, wherever it is; the    *)
(* table and the files stay.                                                *)
Exit ==
    /\ prog # "none"
    /\ prog' = "none"
    /\ form' = NewForm
    /\ userList' = [u \in Users |-> None]
    /\ isCloud' = FALSE
    /\ pc' = "rest" /\ again' = FALSE /\ model' = "cloud"
    /\ posted' = <<>> /\ lost' = FALSE
    /\ UNCHANGED <<table, conf, Ip>>

OnTimer == \/ Refused \/ Granted \/ Truncate \/ Write \/ NotOpened \/ Delete
           \/ Insert \/ Closes

Next == \/ Start \/ Type \/ (\E u \in Users : Choose(u)) \/ ClickRem
        \/ ClickAuto \/ ClickServer \/ Enter \/ OnBtnSet
        \/ OnBtnOk \/ OnBtnCancle \/ OnBtnLogout \/ OnBtnErrorOk
        \/ OnTimer \/ WmClose \/ Exit

Spec == Init /\ [][Next]_vars
(* The timer fires, its request ends with curl's timeout at the latest, the *)
(* handler goes on, and a message that was posted is dispatched.            *)
FairSpec == Spec /\ WF_vars(OnTimer) /\ WF_vars(WmClose)

-----------------------------------------------------------------------------
(* The invariant of the handler: what it has done so far is what its place, *)
(* the posted results and, in the end, the window that opens say.           *)
Done(where) == pc \in where \/ posted # <<>> \/ prog \in {"main", "class mate"}
FirstResult == IF model = "cloud" THEN "IDOK" ELSE "10086"

HandlerInv ==
    /\ prog # "login" => pc = "rest" /\ posted = <<>>
    /\ pc # "rest" => form.user \in Users /\ form.pwd \in Pwds
    /\ pc \in {"truncate", "write"} => model # "cloud" /\ ~again
    /\ pc \in {"delete", "insert"} => form.rem
    /\ again => pc # "rest"
    /\ again => posted # <<>>
    /\ ~again /\ pc # "rest" => posted = <<>>
    /\ posted # <<>> => Head(posted) = FirstResult

ConfInv ==
    model # "cloud" /\ Done({"delete", "insert", "close"})
        => conf = [ip |-> Ip, model |-> model]

AtTheEnd == pc = "close" \/ (pc = "rest" /\ Done({}))
SavedInv == form.rem /\ ~lost /\ AtTheEnd => Newest(Key) = Row

-----------------------------------------------------------------------------
(* What is remembered of each user at each server. *)
Saved == INSTANCE SavedLogins WITH saved <- [k \in Keys |-> Newest(k)]

(* The table of users implements the abstract one: whichever statement      *)
(* fails, and wherever the program dies, one login is stored or forgotten   *)
(* at a time and nobody else's is touched.                                  *)
SavedSpec == Saved!Spec

(* The class room's server opens the class mate window and the cloud server *)
(* the main window, though OnTimer closes the login window twice, the       *)
(* second time always with IDOK.                                            *)
RightWindow ==
    /\ prog = "class mate" => model \in {"embed", "iMac"}
    /\ prog = "main" => model = "cloud"

(* The class mate window finds the login that has just been granted in the  *)
(* file, even when the program died before while it was writing it.         *)
ConfOfLogin == prog = "class mate" => conf = [ip |-> Ip, model |-> model]

(* A login that is to be remembered is, with the password that was granted, *)
(* unless the second of the two attempts to save it failed: the first one   *)
(* does not count, because the second deletes what it has saved.            *)
LoginRemembered ==
    prog \in {"main", "class mate"} /\ form.rem /\ ~lost => Newest(Key) = Row

LoginInv == TypeOK /\ HandlerInv /\ ConfInv /\ SavedInv /\ RightWindow

(* Choosing a user logs in exactly if that user's row says so, provided     *)
(* that the box opt_auto need not change.                                   *)
AutoAsSaved ==
    [][\A u \in Users :
         Choose(u) /\ ~form.timer /\ form.box = userList[u].auto
            => form'.timer = userList[u].auto]_vars

(* A login that has been started is granted, refused or given up.           *)
LoginDecided == form.timer ~> ~form.timer
==============================================================================
