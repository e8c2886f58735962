----------------------------- MODULE HttpRequest -----------------------------
(***************************************************************************)
(* Concurrent HttpRequest::LookUpUrl calls (LoganManager/HttpRequest.cpp), *)
(* as LoadSource (MainWnd.cpp) and LoadOtherUrl (ClassMateWnd.cpp) make    *)
(* them.  The answer of a request goes through a queue of the process-wide *)
(* map NetEasyData, under the id the caller chose; nothing is locked.      *)
(*                                                                         *)
(* A URL is the item that it was asked for.  Two threads that race on the  *)
(* map's tree, or on one queue so that it is popped empty, are undefined   *)
(* behaviour: the model records it in "fault" and ends there.              *)
(***************************************************************************)
EXTENDS Integers, Sequences

CONSTANTS
    Jobs,     \* the threads
    Work,     \* the lookups of each: a sequence of [item, id, login]
    NoUrl     \* the empty string

Lookups(j) == {Work[j][i] : i \in DOMAIN Work[j]}
Items == {w.item : w \in UNION {Lookups(j) : j \in Jobs}}
Ids   == {w.id : w \in UNION {Lookups(j) : j \in Jobs}}

(* LoadSource: a thread of the pool for each device, which logs in and looks *)
(* up three streams, each under the address of a member of that device's    *)
(* own _videoURL.                                                           *)
Lookup(item, id, login) == [item |-> item, id |-> id, login |-> login]
LoadSource == [d \in Jobs |->
    << Lookup(<<d, "lurl">>, <<d, "ip">>, TRUE),
       Lookup(<<d, "durl">>, <<d, "port">>, FALSE),
       Lookup(<<d, "sublurl">>, <<d, "token">>, FALSE) >>]

ASSUME WorkAssumption ==
    /\ DOMAIN Work = Jobs
    /\ \A j \in Jobs : Work[j] \in Seq([item : Items, id : Ids, login : BOOLEAN])
    /\ NoUrl \notin Items

VARIABLES
    NetEasyData,   \* the queues of the ids that have been used
    pc,            \* where each thread is
    at,            \* the lookup it is at
    status,        \* the status of its request's answer (netCode)
    res,           \* LookUpUrl's local result
    url,           \* the URL stored for each item
    answered,      \* history: the lookups of each thread that were granted a URL
    fault

vars == <<NetEasyData, pc, at, status, res, url, answered, fault>>

Pcs == {"login", "request", "access", "insert", "clear", "clearPop", "push",
        "drain", "drainPop", "store", "done"}

TypeOK ==
    /\ DOMAIN NetEasyData \subseteq Ids
    /\ NetEasyData \in [DOMAIN NetEasyData -> Seq(Items)]
    /\ pc \in [Jobs -> Pcs]
    /\ at \in [Jobs -> Nat] /\ \A j \in Jobs : at[j] \in 1..(Len(Work[j]) + 1)
    /\ status \in [Jobs -> BOOLEAN]
    /\ res \in [Jobs -> Items \cup {NoUrl}]
    /\ url \in [Items -> Items \cup {NoUrl}]
    /\ answered \in [Jobs -> SUBSET Nat]
    /\ \A j \in Jobs : answered[j] \subseteq DOMAIN Work[j]
    /\ fault \in {"none", "map", "pop"}

Now(j) == Work[j][at[j]]
(* Mutant: all lookups share one id. *)
Id_Shared(j) == CHOOSE i \in Ids : TRUE
Id(j) == Now(j).id

(* What a thread does at its n-th lookup; a lookup that begins a device's   *)
(* turn logs in first.                                                      *)
Start(j, n) == IF n > Len(Work[j]) THEN "done"
               ELSE IF Work[j][n].login THEN "login" ELSE "request"

Init ==
    /\ NetEasyData = <<>>
    /\ at = [j \in Jobs |-> 1]
    /\ pc = [j \in Jobs |-> Start(j, 1)]
    /\ status = [j \in Jobs |-> FALSE]
    /\ res = [j \in Jobs |-> NoUrl]
    /\ url = [i \in Items |-> NoUrl]
    /\ answered = [j \in Jobs |-> {}]
    /\ fault = "none"

Goto(j, p) == pc' = [pc EXCEPT ![j] = p]

-----------------------------------------------------------------------------
(* The device's lookups are skipped when the login fails. *)
NextTurn(j, n) ==
    /\ n \in DOMAIN Work[j] => Work[j][n].login
    /\ \A k \in (at[j] + 1)..(n - 1) : ~Work[j][k].login

LogIn(j) ==
    /\ pc[j] = "login"
    /\ \/ Goto(j, "request") /\ at' = at
       \/ \E n \in (at[j] + 1)..(Len(Work[j]) + 1) :
            /\ NextTurn(j, n)
            /\ at' = [at EXCEPT ![j] = n]
            /\ Goto(j, Start(j, n))
    /\ UNCHANGED <<NetEasyData, status, res, url, answered, fault>>

(* GetRespond, and startRequestMainDataNode up to its callback: no answer, *)
(* a refusal, with data or without, or the data that was asked for.         *)
Request(j) ==
    /\ pc[j] = "request"
    /\ res' = [res EXCEPT ![j] = NoUrl]
    /\ \E ok \in BOOLEAN :
         /\ status' = [status EXCEPT ![j] = ok]
         /\ \/ Goto(j, "access")
            \/ ~ok /\ Goto(j, "store")
    /\ UNCHANGED <<NetEasyData, at, url, answered, fault>>

-----------------------------------------------------------------------------
(* Every NetEasyData[id] searches the map's tree: undefined while another   *)
(* thread is inserting a key.                                               *)
Inserting(j) == \E k \in Jobs \ {j} : pc[k] = "insert"

Fault(kind) == fault' = kind /\ UNCHANGED <<NetEasyData, pc, res, answered>>

(* Thread j, at "from", uses the map; "act" is what it does. *)
UsesMap(j, from, act) ==
    /\ pc[j] = from
    /\ \/ act
       \/ Inserting(j) /\ Fault("map")
    /\ UNCHANGED <<at, status, url>>

Queue(j) == NetEasyData[Id(j)]
SetQueue(j, q) == NetEasyData' = [NetEasyData EXCEPT ![Id(j)] = q]
Empty(j) == Queue(j) = <<>>

(* callSubData's first use of the id, which makes a queue for a new one ... *)
Access(j) == UsesMap(j, "access",
    /\ Goto(j, IF Id(j) \in DOMAIN NetEasyData THEN "clear" ELSE "insert")
    /\ UNCHANGED <<NetEasyData, res, answered, fault>>)

Insert(j) == UsesMap(j, "insert",
    /\ NetEasyData' = [i \in DOMAIN NetEasyData \cup {Id(j)} |->
                         IF i \in DOMAIN NetEasyData THEN NetEasyData[i]
                         ELSE <<>>]
    /\ Goto(j, "clear")
    /\ UNCHANGED <<res, answered, fault>>)

(* ... its loop that empties the queue: the test, then the pop ... *)
Clear(j) == UsesMap(j, "clear",
    /\ Goto(j, IF Empty(j) THEN "push" ELSE "clearPop")
    /\ UNCHANGED <<NetEasyData, res, answered, fault>>)

ClearPop(j) == UsesMap(j, "clearPop",
    IF Empty(j) THEN Fault("pop")
    ELSE /\ SetQueue(j, Tail(Queue(j)))
         /\ Goto(j, "clear")
         /\ UNCHANGED <<res, answered, fault>>)

(* ... and the answer, whose list of URLs may be empty.  LookUpUrl reads it *)
(* only if the status is true.                                              *)
Push(j) == UsesMap(j, "push",
    /\ \/ /\ SetQueue(j, Append(Queue(j), Now(j).item))
          /\ answered' = IF status[j] THEN [answered EXCEPT ![j] = @ \cup {at[j]}]
                         ELSE answered
       \/ UNCHANGED <<NetEasyData, answered>>
    /\ Goto(j, IF status[j] THEN "drain" ELSE "store")
    /\ UNCHANGED <<res, fault>>)

(* LookUpUrl's loop: the last of the queue's strings is the result. *)
Drain(j) == UsesMap(j, "drain",
    /\ Goto(j, IF Empty(j) THEN "store" ELSE "drainPop")
    /\ UNCHANGED <<NetEasyData, res, answered, fault>>)

DrainPop(j) == UsesMap(j, "drainPop",
    IF Empty(j) THEN Fault("pop")
    ELSE /\ res' = [res EXCEPT ![j] = Head(Queue(j))]
         /\ SetQueue(j, Tail(Queue(j)))
         /\ Goto(j, "drain")
         /\ UNCHANGED <<answered, fault>>)

(* The caller stores the result, an empty one included. *)
Store(j) ==
    /\ pc[j] = "store"
    /\ url' = [url EXCEPT ![Now(j).item] = res[j]]
    /\ at' = [at EXCEPT ![j] = @ + 1]
    /\ Goto(j, Start(j, at[j] + 1))
    /\ UNCHANGED <<NetEasyData, status, res, answered, fault>>

JobStep(j) == \/ LogIn(j) \/ Request(j) \/ Access(j) \/ Insert(j) \/ Clear(j)
              \/ ClearPop(j) \/ Push(j) \/ Drain(j) \/ DrainPop(j) \/ Store(j)

Next == fault = "none" /\ \E j \in Jobs : JobStep(j)

Spec == Init /\ [][Next]_vars

-----------------------------------------------------------------------------
(* "Concurrency through the id": the URL stored for an item is the one its  *)
(* own request was answered with, whatever the other threads look up.       *)
UrlBelongs == \A i \in Items : url[i] \in {i, NoUrl}

(* An answer is not lost: the lookup that was granted a URL stores it. *)
AnswerStored ==
    \A j \in Jobs : \A n \in answered[j] :
        n < at[j] => url[Work[j][n].item] = Work[j][n].item

(* No queue is popped empty. *)
NoEmptyPop == fault # "pop"

=============================================================================
