-------------------------- MODULE HttpRequestProofs --------------------------
(***************************************************************************)
(* Proofs about HttpRequest: lookups do not mix up when no two threads use *)
(* the same id, and no answer is lost when no two ask for the same item.   *)
(***************************************************************************)
EXTENDS HttpRequest, TLAPS

(* The ids of a thread are its own.  LoadSource takes them from addresses   *)
(* of fields of the device; LoadOtherUrl does not have this.                *)
OwnIds ==
    \A j, k \in Jobs : j # k =>
        \A m \in DOMAIN Work[j], n \in DOMAIN Work[k] : Work[j][m].id # Work[k][n].id

(* No two lookups are for the same item. *)
OwnItems ==
    \A j, k \in Jobs : \A m \in DOMAIN Work[j], n \in DOMAIN Work[k] :
        Work[j][m].item = Work[k][n].item => j = k /\ m = n

UsesQueue == {"clear", "clearPop", "push", "drain", "drainPop"}

(* What a thread at its place knows of its queue and of its result.         *)
JobInv(j) ==
    /\ pc[j] # "done" => at[j] \in DOMAIN Work[j]
    /\ pc[j] \in UsesQueue => Id(j) \in DOMAIN NetEasyData
    /\ pc[j] \in {"clearPop", "drainPop"} => Queue(j) # <<>>
    /\ pc[j] = "push" => Queue(j) = <<>>
    /\ pc[j] \in {"drain", "drainPop"} =>
         \A i \in DOMAIN Queue(j) : Queue(j)[i] = Now(j).item
    /\ pc[j] \in {"drain", "drainPop", "store"} => res[j] \in {Now(j).item, NoUrl}
    /\ pc[j] \in {"access", "insert", "clear", "clearPop", "push"} => res[j] = NoUrl

QueuesInv ==
    /\ TypeOK
    /\ \A j \in Jobs : JobInv(j)
    /\ UrlBelongs
    /\ NoEmptyPop

(* An element of a sequence is one of its set, and no index lies elsewhere. *)
LEMMA ElementIn ==
    ASSUME NEW S, NEW s \in Seq(S), NEW n \in DOMAIN s
    PROVE  s[n] \in S /\ Len(s) \in Nat /\ DOMAIN s = 1..Len(s)
OBVIOUS

(* A job's lookups have their types. *)
LEMMA WorkTypes ==
    ASSUME NEW j \in Jobs, NEW n \in DOMAIN Work[j]
    PROVE  /\ Work[j][n].item \in Items /\ Work[j][n].id \in Ids
           /\ Work[j][n].login \in BOOLEAN
           /\ Len(Work[j]) \in Nat /\ DOMAIN Work[j] = 1..Len(Work[j])
           /\ Work[j][n].item # NoUrl
<1>1. /\ Work[j] \in Seq([item : Items, id : Ids, login : BOOLEAN])
      /\ NoUrl \notin Items
  BY WorkAssumption
<1>2. Work[j][n] \in [item : Items, id : Ids, login : BOOLEAN]
  BY <1>1, ElementIn
<1>3. QED
  BY <1>1, <1>2

LEMMA WorkLen ==
    ASSUME NEW j \in Jobs
    PROVE  Len(Work[j]) \in Nat /\ DOMAIN Work[j] = 1..Len(Work[j])
BY WorkAssumption

(* Where a job goes on is within its work, or it is done. *)
LEMMA StartsInWork ==
    ASSUME NEW j \in Jobs, NEW n \in 1..(Len(Work[j]) + 1)
    PROVE  /\ Start(j, n) \in {"login", "request", "done"}
           /\ Start(j, n) # "done" => n \in DOMAIN Work[j]
BY WorkLen DEF Start

(* A job that changes nothing but its own place and its own queue leaves    *)
(* what the others know.                                                    *)
LEMMA OthersKept ==
    ASSUME OwnIds, NEW j \in Jobs, at[j] \in DOMAIN Work[j],
           NEW k \in Jobs, k # j, JobInv(k),
           pc'[k] = pc[k], at'[k] = at[k], res'[k] = res[k],
           \A i \in DOMAIN NetEasyData :
               /\ i \in DOMAIN NetEasyData'
               /\ i # Work[j][at[j]].id => NetEasyData'[i] = NetEasyData[i]
    PROVE  JobInv(k)'
<1>1. CASE pc[k] = "done"
  BY <1>1 DEF JobInv, UsesQueue
<1>2. CASE pc[k] # "done"
  <2>1. at[k] \in DOMAIN Work[k] /\ Work[j][at[j]].id # Work[k][at[k]].id
    BY <1>2 DEF JobInv, OwnIds
  <2>2. pc[k] \in UsesQueue => /\ Id(k) \in DOMAIN NetEasyData
                               /\ Id(k) \in DOMAIN NetEasyData'
                               /\ NetEasyData'[Id(k)] = NetEasyData[Id(k)]
    BY <2>1 DEF JobInv, Id, Now
  <2>3. QED
    BY <2>1, <2>2 DEF JobInv, UsesQueue, Queue, Id, Now
<1>3. QED
  BY <1>1, <1>2

(* The parts of the invariant after a step of j. *)
LEMMA Combine ==
    ASSUME OwnIds, QueuesInv, NEW j \in Jobs, at[j] \in DOMAIN Work[j],
           TypeOK', JobInv(j)', UrlBelongs', NoEmptyPop',
           \A k \in Jobs \ {j} : pc'[k] = pc[k] /\ at'[k] = at[k] /\ res'[k] = res[k],
           \A i \in DOMAIN NetEasyData :
               /\ i \in DOMAIN NetEasyData'
               /\ i # Work[j][at[j]].id => NetEasyData'[i] = NetEasyData[i]
    PROVE  QueuesInv'
<1>1. ASSUME NEW k \in Jobs, k # j PROVE JobInv(k)'
  <2>1. JobInv(k) /\ pc'[k] = pc[k] /\ at'[k] = at[k] /\ res'[k] = res[k]
    BY <1>1 DEF QueuesInv
  <2>2. QED
    BY <1>1, <2>1, OthersKept
<1>2. QED
  BY <1>1 DEF QueuesInv

(* A race on the map is recorded and changes nothing else. *)
LEMMA RaceStep ==
    ASSUME QueuesInv, fault' = "map",
           UNCHANGED <<NetEasyData, pc, at, status, res, url, answered>>
    PROVE  QueuesInv'
<1>1. TypeOK'
  BY DEF QueuesInv, TypeOK, Pcs
<1>2. UrlBelongs' /\ NoEmptyPop'
  BY DEF QueuesInv, UrlBelongs, NoEmptyPop
<1>3. ASSUME NEW j \in Jobs PROVE JobInv(j)'
  BY <1>3 DEF QueuesInv, JobInv, UsesQueue, Queue, Id, Now
<1>4. QED
  BY <1>1, <1>2, <1>3 DEF QueuesInv

LEMMA LogInStep ==
    ASSUME OwnIds, QueuesInv, NEW j \in Jobs, LogIn(j)
    PROVE  QueuesInv'
<1>1. /\ pc[j] = "login" /\ DOMAIN pc = Jobs /\ DOMAIN at = Jobs
      /\ at[j] \in DOMAIN Work[j] /\ at[j] \in Nat
      /\ Len(Work[j]) \in Nat /\ DOMAIN Work[j] = 1..Len(Work[j])
  BY WorkLen DEF LogIn, QueuesInv, TypeOK, JobInv
<1>2. /\ UNCHANGED <<NetEasyData, status, res, url, answered, fault>>
  BY DEF LogIn
<1>3. PICK n \in 1..(Len(Work[j]) + 1), p \in {"login", "request", "done"} :
        /\ at' = [at EXCEPT ![j] = n] /\ pc' = [pc EXCEPT ![j] = p]
        /\ p # "done" => n \in DOMAIN Work[j]
  <2>1. CASE Goto(j, "request") /\ at' = at
    <3>1. at' = [at EXCEPT ![j] = at[j]] /\ at[j] \in 1..(Len(Work[j]) + 1)
      BY <2>1, <1>1 DEF QueuesInv, TypeOK
    <3>2. QED
      BY <3>1, <2>1, <1>1 DEF Goto
  <2>2. CASE \E n \in (at[j] + 1)..(Len(Work[j]) + 1) :
               /\ at' = [at EXCEPT ![j] = n]
               /\ Goto(j, Start(j, n))
    <3>1. PICK n \in (at[j] + 1)..(Len(Work[j]) + 1) :
               /\ at' = [at EXCEPT ![j] = n]
               /\ pc' = [pc EXCEPT ![j] = Start(j, n)]
      BY <2>2 DEF Goto
    <3>2. n \in 1..(Len(Work[j]) + 1)
      BY <1>1
    <3>3. QED
      BY <3>1, <3>2, StartsInWork
  <2>3. QED
    BY <2>1, <2>2 DEF LogIn
<1>4. TypeOK'
  BY <1>1, <1>2, <1>3 DEF QueuesInv, TypeOK, Pcs
<1>5. JobInv(j)'
  BY <1>1, <1>3 DEF JobInv, UsesQueue
<1>6. UrlBelongs' /\ NoEmptyPop'
  BY <1>2 DEF QueuesInv, UrlBelongs, NoEmptyPop
<1>7. /\ \A k \in Jobs \ {j} : pc'[k] = pc[k] /\ at'[k] = at[k] /\ res'[k] = res[k]
      /\ NetEasyData' = NetEasyData
  BY <1>1, <1>2, <1>3
<1>8. QED
  BY <1>1, <1>4, <1>5, <1>6, <1>7, Combine

LEMMA RequestStep ==
    ASSUME OwnIds, QueuesInv, NEW j \in Jobs, Request(j)
    PROVE  QueuesInv'
<1>1. /\ pc[j] = "request" /\ DOMAIN pc = Jobs /\ DOMAIN at = Jobs
      /\ DOMAIN res = Jobs /\ DOMAIN status = Jobs
      /\ at[j] \in DOMAIN Work[j]
  BY DEF Request, QueuesInv, TypeOK, JobInv
<1>2. PICK ok \in BOOLEAN, p \in {"access", "store"} :
        /\ status' = [status EXCEPT ![j] = ok] /\ pc' = [pc EXCEPT ![j] = p]
        /\ res' = [res EXCEPT ![j] = NoUrl]
        /\ UNCHANGED <<NetEasyData, at, url, answered, fault>>
  BY DEF Request, Goto
<1>3. TypeOK'
  BY <1>1, <1>2 DEF QueuesInv, TypeOK, Pcs
<1>4. JobInv(j)'
  BY <1>1, <1>2 DEF JobInv, UsesQueue
<1>5. UrlBelongs' /\ NoEmptyPop'
  BY <1>2 DEF QueuesInv, UrlBelongs, NoEmptyPop
<1>6. /\ \A k \in Jobs \ {j} : pc'[k] = pc[k] /\ at'[k] = at[k] /\ res'[k] = res[k]
      /\ NetEasyData' = NetEasyData
  BY <1>1, <1>2
<1>7. QED
  BY <1>1, <1>3, <1>4, <1>5, <1>6, Combine

(* Steps that use the map: the place and the queue of j change, nothing     *)
(* else does.                                                               *)
LEMMA MapStep ==
    ASSUME OwnIds, QueuesInv, fault = "none", NEW j \in Jobs,
           Access(j) \/ Insert(j) \/ Clear(j) \/ ClearPop(j) \/ Push(j)
                     \/ Drain(j) \/ DrainPop(j)
    PROVE  QueuesInv'
<1> USE DEF UsesMap, Fault, Goto, SetQueue, Empty
<1>1. /\ DOMAIN pc = Jobs /\ DOMAIN at = Jobs /\ DOMAIN res = Jobs
      /\ at' = at /\ status' = status /\ url' = url
      /\ pc[j] \in UsesQueue \cup {"access", "insert"}
      /\ at[j] \in DOMAIN Work[j] /\ JobInv(j)
  BY DEF QueuesInv, TypeOK, JobInv, UsesQueue, Access, Insert, Clear, ClearPop, Push, Drain, DrainPop
<1>2. Id(j) = Work[j][at[j]].id /\ Id(j) \in Ids
  BY <1>1, WorkTypes DEF Id, Now
<1>3. Now(j).item \in Items /\ Now(j).item # NoUrl
  BY <1>1, WorkTypes DEF Now
<1>4. pc[j] \in UsesQueue => Id(j) \in DOMAIN NetEasyData /\ Queue(j) \in Seq(Items)
  BY <1>1 DEF JobInv, Queue, QueuesInv, TypeOK
<1>5. CASE Inserting(j) /\ Fault("map")
  BY <1>1, <1>5, RaceStep
<1>6. CASE Access(j) /\ ~Fault("map")
  <2>1. /\ pc[j] = "access" /\ UNCHANGED <<NetEasyData, res, answered, fault>>
        /\ pc' = [pc EXCEPT ![j] = IF Id(j) \in DOMAIN NetEasyData THEN "clear"
                                   ELSE "insert"]
    BY <1>6 DEF Access
  <2>2. TypeOK'
    BY <1>1, <2>1 DEF QueuesInv, TypeOK, Pcs
  <2>3. JobInv(j)'
    BY <1>1, <1>2, <2>1 DEF JobInv, UsesQueue, Id, Now
  <2>4. QED
    BY <1>1, <2>1, <2>2, <2>3, Combine DEF QueuesInv, UrlBelongs, NoEmptyPop
<1>7. CASE Insert(j) /\ ~Fault("map")
  <2>1. /\ pc[j] = "insert" /\ UNCHANGED <<res, answered, fault>>
        /\ pc' = [pc EXCEPT ![j] = "clear"]
        /\ NetEasyData' = [i \in DOMAIN NetEasyData \cup {Id(j)} |->
                             IF i \in DOMAIN NetEasyData THEN NetEasyData[i] ELSE <<>>]
    BY <1>7 DEF Insert
  <2>2. DOMAIN NetEasyData' = DOMAIN NetEasyData \cup {Id(j)}
    BY <2>1
  <2>3. <<>> \in Seq(Items)
    OBVIOUS
  <2>4. NetEasyData' \in [DOMAIN NetEasyData' -> Seq(Items)]
    BY <2>1, <2>3 DEF QueuesInv, TypeOK
  <2>5. TypeOK'
    BY <1>1, <1>2, <2>1, <2>2, <2>4 DEF QueuesInv, TypeOK, Pcs
  <2>6. JobInv(j)'
    BY <1>1, <1>2, <2>1, <2>2 DEF JobInv, UsesQueue, Id, Now
  <2>7. QED
    BY <1>1, <2>1, <2>2, <2>5, <2>6, Combine DEF QueuesInv, UrlBelongs, NoEmptyPop
<1>8. CASE Clear(j) /\ ~Fault("map")
  <2>1. /\ pc[j] = "clear" /\ UNCHANGED <<NetEasyData, res, answered, fault>>
        /\ pc' = [pc EXCEPT ![j] = IF Queue(j) = <<>> THEN "push" ELSE "clearPop"]
    BY <1>8 DEF Clear
  <2>2. TypeOK'
    BY <1>1, <2>1 DEF QueuesInv, TypeOK, Pcs
  <2>3. JobInv(j)'
    BY <1>1, <1>2, <2>1 DEF JobInv, UsesQueue, Id, Now, Queue
  <2>4. QED
    BY <1>1, <2>1, <2>2, <2>3, Combine DEF QueuesInv, UrlBelongs, NoEmptyPop
<1>9. CASE Drain(j) /\ ~Fault("map")
  <2>1. /\ pc[j] = "drain" /\ UNCHANGED <<NetEasyData, res, answered, fault>>
        /\ pc' = [pc EXCEPT ![j] = IF Queue(j) = <<>> THEN "store" ELSE "drainPop"]
    BY <1>9 DEF Drain
  <2>2. TypeOK'
    BY <1>1, <2>1 DEF QueuesInv, TypeOK, Pcs
  <2>3. JobInv(j)'
    BY <1>1, <1>2, <2>1 DEF JobInv, UsesQueue, Id, Now, Queue
  <2>4. QED
    BY <1>1, <2>1, <2>2, <2>3, Combine DEF QueuesInv, UrlBelongs, NoEmptyPop
<1>10. CASE ClearPop(j) /\ ~Fault("map")
  <2>1. pc[j] = "clearPop" /\ Queue(j) # <<>>
    BY <1>1, <1>10 DEF ClearPop, JobInv
  <2>2. /\ UNCHANGED <<res, answered, fault>>
        /\ pc' = [pc EXCEPT ![j] = "clear"]
        /\ NetEasyData' = [NetEasyData EXCEPT ![Id(j)] = Tail(Queue(j))]
    BY <1>10, <2>1 DEF ClearPop
  <2>3. DOMAIN NetEasyData' = DOMAIN NetEasyData /\ Tail(Queue(j)) \in Seq(Items)
    BY <2>1, <2>2, <1>4 DEF UsesQueue
  <2>4. TypeOK'
    BY <1>1, <2>1, <2>2, <2>3 DEF QueuesInv, TypeOK, Pcs
  <2>5. JobInv(j)'
    BY <1>1, <1>4, <2>1, <2>2, <2>3 DEF JobInv, UsesQueue, Id, Now
  <2>6. QED
    BY <1>1, <1>2, <2>2, <2>3, <2>4, <2>5, Combine DEF QueuesInv, UrlBelongs, NoEmptyPop
<1>11. CASE DrainPop(j) /\ ~Fault("map")
  <2>1. pc[j] = "drainPop" /\ Queue(j) # <<>> /\ Queue(j) \in Seq(Items)
    BY <1>1, <1>4, <1>11 DEF DrainPop, JobInv, UsesQueue
  <2>2. /\ UNCHANGED <<answered, fault>>
        /\ pc' = [pc EXCEPT ![j] = "drain"]
        /\ res' = [res EXCEPT ![j] = Head(Queue(j))]
        /\ NetEasyData' = [NetEasyData EXCEPT ![Id(j)] = Tail(Queue(j))]
    BY <1>11, <2>1 DEF DrainPop
  <2>3. /\ DOMAIN NetEasyData' = DOMAIN NetEasyData /\ Id(j) \in DOMAIN NetEasyData
        /\ Tail(Queue(j)) \in Seq(Items)
        /\ \A i \in DOMAIN Tail(Queue(j)) : Tail(Queue(j))[i] = Now(j).item
        /\ Head(Queue(j)) = Now(j).item
    BY <1>1, <2>1, <2>2, <1>4 DEF UsesQueue, JobInv
  <2>4. TypeOK'
    BY <1>1, <1>3, <2>1, <2>2, <2>3 DEF QueuesInv, TypeOK, Pcs
  <2>5. JobInv(j)'
    BY <1>1, <2>1, <2>2, <2>3 DEF JobInv, UsesQueue, Id, Now, Queue
  <2>6. QED
    BY <1>1, <1>2, <2>2, <2>3, <2>4, <2>5, Combine DEF QueuesInv, UrlBelongs, NoEmptyPop
<1>12. CASE Push(j) /\ ~Fault("map")
  <2>1. pc[j] = "push" /\ Queue(j) = <<>> /\ Id(j) \in DOMAIN NetEasyData /\ res[j] = NoUrl
    BY <1>1, <1>4, <1>12 DEF Push, JobInv, UsesQueue
  <2>2. PICK r \in {<<>>, Append(Queue(j), Now(j).item)} :
          /\ UNCHANGED <<res, fault>>
          /\ pc' = [pc EXCEPT ![j] = IF status[j] THEN "drain" ELSE "store"]
          /\ NetEasyData' = [NetEasyData EXCEPT ![Id(j)] = r]
    <3>1. CASE UNCHANGED <<NetEasyData, answered>>
      <4>1. NetEasyData' = [NetEasyData EXCEPT ![Id(j)] = <<>>]
        BY <3>1, <2>1 DEF Queue, QueuesInv, TypeOK
      <4>2. QED
        BY <4>1, <1>12 DEF Push
    <3>2. CASE SetQueue(j, Append(Queue(j), Now(j).item))
      BY <3>2, <1>12 DEF Push
    <3>3. QED
      BY <3>1, <3>2, <1>12 DEF Push
  <2>3. r \in Seq(Items) /\ \A i \in DOMAIN r : r[i] = Now(j).item
    <3>1. CASE r = <<>>
      BY <3>1
    <3>2. CASE r = Append(Queue(j), Now(j).item)
      BY <3>2, <2>1, <1>3, <1>4 DEF UsesQueue
    <3>3. QED
      BY <3>1, <3>2
  <2>4. answered' = answered \/ answered' = [answered EXCEPT ![j] = @ \cup {at[j]}]
    BY <1>12 DEF Push
  <2>5. /\ answered' \in [Jobs -> SUBSET Nat]
        /\ \A k \in Jobs : answered'[k] \subseteq DOMAIN Work[k]
    <3>1. /\ answered \in [Jobs -> SUBSET Nat] /\ at[j] \in Nat
          /\ \A k \in Jobs : answered[k] \subseteq DOMAIN Work[k]
      BY DEF QueuesInv, TypeOK
    <3>2. CASE answered' = answered
      BY <3>1, <3>2
    <3>3. CASE answered' = [answered EXCEPT ![j] = @ \cup {at[j]}]
      <4>1. answered[j] \cup {at[j]} \in SUBSET Nat
        BY <3>1
      <4>2. /\ answered'[j] = answered[j] \cup {at[j]}
            /\ \A k \in Jobs : k # j => answered'[k] = answered[k]
        BY <3>1, <3>3
      <4>3. answered' \in [Jobs -> SUBSET Nat]
        BY <3>1, <3>3, <4>1
      <4>4. QED
        BY <1>1, <3>1, <4>2, <4>3
    <3>4. QED
      BY <3>2, <3>3, <2>4
  <2>6. DOMAIN NetEasyData' = DOMAIN NetEasyData
    BY <2>2
  <2>7. NetEasyData' \in [DOMAIN NetEasyData -> Seq(Items)]
    BY <2>2, <2>3 DEF QueuesInv, TypeOK
  <2>8. TypeOK'
    BY <1>1, <2>2, <2>5, <2>6, <2>7 DEF QueuesInv, TypeOK, Pcs
  <2>9. JobInv(j)'
    BY <1>1, <2>1, <2>2, <2>3 DEF JobInv, UsesQueue, Id, Now, Queue
  <2>10. QED
    BY <1>1, <1>2, <2>2, <2>6, <2>8, <2>9, Combine DEF QueuesInv, UrlBelongs, NoEmptyPop
<1>13. QED
  BY <1>5, <1>6, <1>7, <1>8, <1>9, <1>10, <1>11, <1>12
     DEF Access, Insert, Clear, ClearPop, Push, Drain, DrainPop

LEMMA StoreStep ==
    ASSUME OwnIds, QueuesInv, NEW j \in Jobs, Store(j)
    PROVE  QueuesInv'
<1>1. /\ pc[j] = "store" /\ DOMAIN pc = Jobs /\ DOMAIN at = Jobs /\ DOMAIN url = Items
      /\ at[j] \in DOMAIN Work[j] /\ at[j] \in Nat
      /\ Len(Work[j]) \in Nat /\ DOMAIN Work[j] = 1..Len(Work[j])
      /\ res[j] \in {Now(j).item, NoUrl}
  BY WorkLen DEF Store, QueuesInv, TypeOK, JobInv
<1>2. Now(j).item \in Items
  BY <1>1, WorkTypes DEF Now
<1>3. at[j] + 1 \in 1..(Len(Work[j]) + 1)
  BY <1>1
<1>4. PICK p \in {"login", "request", "done"} :
        /\ pc' = [pc EXCEPT ![j] = p]
        /\ p # "done" => at[j] + 1 \in DOMAIN Work[j]
  BY <1>3, StartsInWork DEF Store, Goto
<1>5. /\ UNCHANGED <<NetEasyData, status, res, answered, fault>>
      /\ url' = [url EXCEPT ![Now(j).item] = res[j]]
      /\ at' = [at EXCEPT ![j] = at[j] + 1]
  BY DEF Store
<1>6. TypeOK'
  BY <1>1, <1>2, <1>3, <1>4, <1>5 DEF QueuesInv, TypeOK, Pcs
<1>7. JobInv(j)'
  BY <1>1, <1>4, <1>5 DEF JobInv, UsesQueue
<1>8. UrlBelongs' /\ NoEmptyPop'
  BY <1>1, <1>2, <1>5 DEF QueuesInv, UrlBelongs, NoEmptyPop
<1>9. /\ \A k \in Jobs \ {j} : pc'[k] = pc[k] /\ at'[k] = at[k] /\ res'[k] = res[k]
      /\ NetEasyData' = NetEasyData
  BY <1>1, <1>4, <1>5
<1>10. QED
  BY <1>1, <1>6, <1>7, <1>8, <1>9, Combine

LEMMA QueuesInit ==
    ASSUME Init PROVE QueuesInv
<1>1. ASSUME NEW j \in Jobs PROVE 1 \in 1..(Len(Work[j]) + 1) /\ Len(Work[j]) \in Nat
  <2>1. Len(Work[j]) \in Nat
    BY WorkLen
  <2>2. QED
    BY <2>1
<1>2. \A j \in Jobs : /\ pc[j] \in {"login", "request", "done"} /\ at[j] = 1
                      /\ pc[j] # "done" => at[j] \in DOMAIN Work[j]
  <2>1. SUFFICES ASSUME NEW j \in Jobs
                 PROVE  /\ pc[j] \in {"login", "request", "done"} /\ at[j] = 1
                        /\ pc[j] # "done" => at[j] \in DOMAIN Work[j]
    OBVIOUS
  <2>2. pc[j] = Start(j, 1) /\ at[j] = 1
    BY DEF Init
  <2>3. 1 \in 1..(Len(Work[j]) + 1)
    BY <1>1
  <2>4. QED
    BY <2>2, <2>3, StartsInWork
<1>3. NetEasyData \in [DOMAIN NetEasyData -> Seq(Items)] /\ DOMAIN NetEasyData = {}
  BY DEF Init
<1>4. TypeOK
  BY <1>1, <1>2, <1>3 DEF Init, TypeOK, Pcs
<1>5. QED
  BY <1>2, <1>4 DEF Init, QueuesInv, JobInv, UsesQueue, UrlBelongs, NoEmptyPop

LEMMA QueuesStep ==
    ASSUME OwnIds, QueuesInv, [Next]_vars PROVE QueuesInv'
<1>1. CASE UNCHANGED vars
  <2>1. UNCHANGED <<NetEasyData, pc, at, status, res, url, answered, fault>>
    BY <1>1 DEF vars
  <2>2. TypeOK' /\ UrlBelongs' /\ NoEmptyPop'
    BY <2>1 DEF QueuesInv, TypeOK, UrlBelongs, NoEmptyPop
  <2>3. ASSUME NEW j \in Jobs PROVE JobInv(j)'
    BY <2>1, <2>3 DEF QueuesInv, JobInv, UsesQueue, Queue, Id, Now
  <2>4. QED
    BY <2>2, <2>3 DEF QueuesInv
<1>2. CASE Next
  <2>1. PICK j \in Jobs : JobStep(j)
    BY <1>2 DEF Next
  <2>2. fault = "none"
    BY <1>2 DEF Next
  <2>3. QED
    BY <2>1, <2>2, LogInStep, RequestStep, MapStep, StoreStep DEF JobStep
<1>3. QED
  BY <1>1, <1>2

(* QueuesInv is inductive when the ids of each thread are its own.          *)
THEOREM QueuesInductive == ASSUME OwnIds PROVE Spec => []QueuesInv
<1>1. Init => QueuesInv
  BY QueuesInit
<1>2. QueuesInv /\ [Next]_vars => QueuesInv'
  BY QueuesStep
<1>3. QED
  BY <1>1, <1>2, PTL DEF Spec

(* The comment "concurrency through the id" holds of LookUpUrl for threads  *)
(* that do not share an id: whatever answers and races there are, the URL   *)
(* stored for an item is the one its own request was answered with.         *)
THEOREM UrlsBelong == ASSUME OwnIds PROVE Spec => []UrlBelongs
<1>1. QueuesInv => UrlBelongs
  BY DEF QueuesInv
<1>2. QED
  BY <1>1, QueuesInductive, PTL

(* Then the loops of callSubData and LookUpUrl never pop an empty queue,    *)
(* although the test and the pop are two steps.                             *)
THEOREM PopsNotEmpty == ASSUME OwnIds PROVE Spec => []NoEmptyPop
<1>1. QueuesInv => NoEmptyPop
  BY DEF QueuesInv
<1>2. QED
  BY <1>1, QueuesInductive, PTL

-----------------------------------------------------------------------------
(* The answer to the lookup a thread is at is in its hand or in its queue.  *)
AnswerInv(j) ==
    /\ \A n \in answered[j] : n <= at[j]
    /\ at[j] \in answered[j] =>
         /\ pc[j] \in {"drain", "drainPop", "store"}
         /\ \/ res[j] = Now(j).item
            \/ pc[j] # "store" /\ Queue(j) # <<>>

AnswersInv == (\A j \in Jobs : AnswerInv(j)) /\ AnswerStored

LEMMA OtherAnswersKept ==
    ASSUME OwnIds, QueuesInv, NEW j \in Jobs, at[j] \in DOMAIN Work[j],
           NEW k \in Jobs, k # j, AnswerInv(k),
           pc'[k] = pc[k], at'[k] = at[k], res'[k] = res[k], answered'[k] = answered[k],
           \A i \in DOMAIN NetEasyData :
               i # Work[j][at[j]].id => NetEasyData'[i] = NetEasyData[i]
    PROVE  AnswerInv(k)'
<1>1. CASE at[k] \notin answered[k]
  BY <1>1 DEF AnswerInv
<1>2. CASE at[k] \in answered[k]
  <2>1. pc[k] # "done" /\ (pc[k] # "store" => pc[k] \in UsesQueue)
    BY <1>2 DEF AnswerInv, UsesQueue
  <2>2. at[k] \in DOMAIN Work[k] /\ (pc[k] # "store" => Id(k) \in DOMAIN NetEasyData)
    BY <2>1 DEF QueuesInv, JobInv
  <2>3. Work[j][at[j]].id # Work[k][at[k]].id
    BY <2>2 DEF OwnIds
  <2>4. pc[k] # "store" => NetEasyData'[Id(k)] = NetEasyData[Id(k)]
    BY <2>2, <2>3 DEF Id, Now
  <2>5. QED
    BY <1>2, <2>4 DEF AnswerInv, Queue, Id, Now
<1>3. QED
  BY <1>1, <1>2

(* The answers after a step of j that stores nothing.                       *)
LEMMA AnswersCombine ==
    ASSUME OwnIds, QueuesInv, AnswersInv, NEW j \in Jobs, at[j] \in DOMAIN Work[j],
           url' = url, AnswerInv(j)',
           \A n \in answered'[j] : n < at'[j] => n \in answered[j] /\ n < at[j],
           \A k \in Jobs \ {j} : /\ pc'[k] = pc[k] /\ at'[k] = at[k]
                                 /\ res'[k] = res[k] /\ answered'[k] = answered[k],
           \A i \in DOMAIN NetEasyData :
               i # Work[j][at[j]].id => NetEasyData'[i] = NetEasyData[i]
    PROVE  AnswersInv'
<1>1. ASSUME NEW k \in Jobs, k # j PROVE AnswerInv(k)'
  <2>1. /\ AnswerInv(k) /\ pc'[k] = pc[k] /\ at'[k] = at[k] /\ res'[k] = res[k]
        /\ answered'[k] = answered[k]
    BY <1>1 DEF AnswersInv
  <2>2. QED
    BY <1>1, <2>1, OtherAnswersKept
<1>2. AnswerStored'
  BY DEF AnswersInv, AnswerStored
<1>3. QED
  BY <1>1, <1>2 DEF AnswersInv

LEMMA AnswersStep ==
    ASSUME OwnIds, OwnItems, QueuesInv, AnswersInv, fault = "none",
           NEW j \in Jobs, JobStep(j)
    PROVE  AnswersInv'
<1>1. /\ DOMAIN pc = Jobs /\ DOMAIN at = Jobs /\ DOMAIN res = Jobs
      /\ DOMAIN answered = Jobs /\ at[j] \in Nat /\ at[j] \in DOMAIN Work[j]
      /\ answered[j] \subseteq Nat /\ AnswerInv(j) /\ JobInv(j)
      /\ pc[j] # "done"
  BY DEF QueuesInv, TypeOK, JobInv, AnswersInv, JobStep, LogIn, Request, Access, Insert,
         Clear, ClearPop, Push, Drain, DrainPop, Store, UsesMap
<1>2. Id(j) = Work[j][at[j]].id
  BY DEF Id, Now
<1>3. CASE LogIn(j)
  <2>1. /\ pc[j] = "login" /\ UNCHANGED <<NetEasyData, res, url, answered>>
    BY <1>3 DEF LogIn
  <2>2. at[j] \notin answered[j] /\ \A n \in answered[j] : n < at[j]
    BY <1>1, <2>1 DEF AnswerInv
  <2>3. PICK n \in Nat, p \in {"login", "request", "done"} :
          at' = [at EXCEPT ![j] = n] /\ pc' = [pc EXCEPT ![j] = p] /\ n >= at[j]
    <3>1. CASE Goto(j, "request") /\ at' = at
      <4>1. at' = [at EXCEPT ![j] = at[j]]
        BY <3>1, <1>1 DEF QueuesInv, TypeOK
      <4>2. QED
        BY <3>1, <4>1, <1>1 DEF Goto
    <3>2. CASE \E n \in (at[j] + 1)..(Len(Work[j]) + 1) :
                 /\ at' = [at EXCEPT ![j] = n]
                 /\ Goto(j, Start(j, n))
      <4>1. PICK n \in (at[j] + 1)..(Len(Work[j]) + 1) :
                 /\ at' = [at EXCEPT ![j] = n]
                 /\ pc' = [pc EXCEPT ![j] = Start(j, n)]
        BY <3>2 DEF Goto
      <4>2. n \in Nat /\ n >= at[j]
        BY <1>1, WorkLen
      <4>3. Start(j, n) \in {"login", "request", "done"}
        BY DEF Start
      <4>4. QED
        BY <4>1, <4>2, <4>3
    <3>3. QED
      BY <3>1, <3>2, <1>3 DEF LogIn
  <2>4. at'[j] = n /\ answered'[j] = answered[j]
    BY <1>1, <2>1, <2>3
  <2>5. AnswerInv(j)'
    BY <1>1, <2>2, <2>3, <2>4 DEF AnswerInv
  <2>6. QED
    BY <1>1, <2>1, <2>2, <2>3, <2>4, <2>5, AnswersCombine
<1>4. CASE Request(j)
  <2>1. /\ pc[j] = "request" /\ UNCHANGED <<NetEasyData, at, url, answered>>
        /\ res' = [res EXCEPT ![j] = NoUrl]
        /\ (pc' = [pc EXCEPT ![j] = "access"] \/ pc' = [pc EXCEPT ![j] = "store"])
    BY <1>4 DEF Request, Goto
  <2>2. at[j] \notin answered[j] /\ AnswerInv(j)'
    BY <1>1, <2>1 DEF AnswerInv
  <2>3. QED
    BY <1>1, <2>1, <2>2, AnswersCombine
<1>5. CASE UNCHANGED <<NetEasyData, pc, at, res, url, answered>>
  BY <1>1, <1>5, AnswersCombine DEF AnswerInv, Now, Queue, Id
<1>6. CASE (Access(j) \/ Insert(j) \/ Clear(j) \/ ClearPop(j)) /\ ~Fault("map")
  <2>1. /\ pc[j] \in {"access", "insert", "clear", "clearPop"}
        /\ at' = at /\ url' = url /\ res' = res /\ answered' = answered
    BY <1>1, <1>6 DEF Access, Insert, Clear, ClearPop, UsesMap, Fault, JobInv, Empty
  <2>2. \E p \in Pcs : pc' = [pc EXCEPT ![j] = p]
    <3>1. pc[j] = "clearPop" => Queue(j) # <<>>
      BY <1>1 DEF JobInv
    <3>2. QED
      BY <1>6, <3>1 DEF Access, Insert, Clear, ClearPop, UsesMap, Goto, Pcs, Empty
  <2>3. \A i \in DOMAIN NetEasyData : i # Work[j][at[j]].id => NetEasyData'[i] = NetEasyData[i]
    <3>1. \/ NetEasyData' = NetEasyData
          \/ NetEasyData' = [i \in DOMAIN NetEasyData \cup {Id(j)} |->
                               IF i \in DOMAIN NetEasyData THEN NetEasyData[i] ELSE <<>>]
          \/ NetEasyData' = [NetEasyData EXCEPT ![Id(j)] = Tail(Queue(j))]
      BY <1>6 DEF Access, Insert, Clear, ClearPop, UsesMap, SetQueue, Fault
    <3>2. QED
      BY <3>1, <1>2
  <2>4. at[j] \notin answered[j]
    BY <1>1, <2>1 DEF AnswerInv
  <2>5. AnswerInv(j)'
    BY <1>1, <2>1, <2>4 DEF AnswerInv
  <2>6. QED
    BY <1>1, <2>1, <2>2, <2>3, <2>4, <2>5, AnswersCombine
<1>7. CASE Push(j) /\ ~Fault("map")
  <2>1. /\ pc[j] = "push" /\ at' = at /\ url' = url /\ res' = res
        /\ pc' = [pc EXCEPT ![j] = IF status[j] THEN "drain" ELSE "store"]
    BY <1>7 DEF Push, UsesMap, Goto
  <2>2. at[j] \notin answered[j] /\ Id(j) \in DOMAIN NetEasyData /\ Queue(j) = <<>>
    BY <1>1, <2>1 DEF AnswerInv, JobInv, UsesQueue
  <2>3. CASE UNCHANGED <<NetEasyData, answered>>
    <3>1. AnswerInv(j)'
      BY <1>1, <2>1, <2>2, <2>3 DEF AnswerInv
    <3>2. QED
      BY <1>1, <2>1, <2>2, <2>3, <3>1, AnswersCombine
  <2>4. CASE /\ NetEasyData' = [NetEasyData EXCEPT ![Id(j)] = Append(Queue(j), Now(j).item)]
             /\ answered' = IF status[j] THEN [answered EXCEPT ![j] = @ \cup {at[j]}]
                            ELSE answered
    <3>1. Append(Queue(j), Now(j).item) # <<>> /\ NetEasyData'[Id(j)] # <<>>
      BY <2>2, <2>4
    <3>2. AnswerInv(j)'
      BY <1>1, <2>1, <2>2, <2>4, <3>1 DEF AnswerInv, Queue, Id, Now
    <3>3. \A n \in answered'[j] : n < at'[j] => n \in answered[j] /\ n < at[j]
      BY <1>1, <2>1, <2>4
    <3>4. QED
      BY <1>1, <1>2, <2>1, <2>4, <3>2, <3>3, AnswersCombine
  <2>5. QED
    BY <1>7, <2>3, <2>4 DEF Push, UsesMap, SetQueue
<1>8. CASE Drain(j) /\ ~Fault("map")
  <2>1. /\ pc[j] = "drain" /\ UNCHANGED <<NetEasyData, at, url, res, answered>>
        /\ pc' = [pc EXCEPT ![j] = IF Queue(j) = <<>> THEN "store" ELSE "drainPop"]
    BY <1>8 DEF Drain, UsesMap, Goto, Empty
  <2>2. AnswerInv(j)'
    BY <1>1, <2>1 DEF AnswerInv, Queue, Id, Now
  <2>3. QED
    BY <1>1, <2>1, <2>2, AnswersCombine
<1>9. CASE DrainPop(j) /\ ~Fault("map")
  <2>1. /\ pc[j] = "drainPop" /\ Queue(j) # <<>> /\ Id(j) \in DOMAIN NetEasyData
        /\ Queue(j) \in Seq(Items)
    BY <1>1, <1>9 DEF DrainPop, UsesMap, JobInv, UsesQueue, Queue, QueuesInv, TypeOK
  <2>2. /\ at' = at /\ url' = url /\ answered' = answered
        /\ pc' = [pc EXCEPT ![j] = "drain"]
        /\ res' = [res EXCEPT ![j] = Head(Queue(j))]
        /\ NetEasyData' = [NetEasyData EXCEPT ![Id(j)] = Tail(Queue(j))]
    BY <1>9, <2>1 DEF DrainPop, UsesMap, Goto, Empty, SetQueue, Fault
  <2>3. Head(Queue(j)) = Now(j).item
    BY <1>1, <2>1 DEF JobInv
  <2>4. AnswerInv(j)'
    BY <1>1, <2>1, <2>2, <2>3 DEF AnswerInv, Now
  <2>5. QED
    BY <1>1, <1>2, <2>2, <2>4, AnswersCombine
<1>10. CASE Store(j)
  <2>1. /\ pc[j] = "store" /\ UNCHANGED <<NetEasyData, res, answered>>
        /\ url' = [url EXCEPT ![Now(j).item] = res[j]]
        /\ at' = [at EXCEPT ![j] = at[j] + 1]
        /\ pc' = [pc EXCEPT ![j] = Start(j, at[j] + 1)]
    BY <1>10 DEF Store, Goto
  <2>2. DOMAIN url = Items /\ Now(j).item \in Items
    BY <1>1, WorkTypes DEF QueuesInv, TypeOK, Now
  <2>3. AnswerInv(j)'
    BY <1>1, <2>1 DEF AnswerInv
  <2>4. ASSUME NEW k \in Jobs, k # j PROVE AnswerInv(k)'
    <3>1. AnswerInv(k) /\ pc'[k] = pc[k] /\ at'[k] = at[k]
      BY <1>1, <2>1, <2>4 DEF AnswersInv
    <3>2. QED
      BY <1>1, <2>1, <2>4, <3>1, OtherAnswersKept
  <2>5. ASSUME NEW k \in Jobs, NEW n \in answered[k], n < at'[k]
        PROVE  url'[Work[k][n].item] = Work[k][n].item
    <3>1. n \in DOMAIN Work[k] /\ n \in Nat /\ Work[k][n].item \in Items
      BY WorkTypes DEF QueuesInv, TypeOK
    <3>2. CASE k = j /\ n = at[j]
      BY <1>1, <2>1, <2>2, <3>2 DEF AnswerInv, Now
    <3>3. CASE ~(k = j /\ n = at[j])
      <4>1. n < at[k]
        BY <1>1, <2>1, <2>5, <3>1, <3>3
      <4>2. url[Work[k][n].item] = Work[k][n].item
        BY <4>1 DEF AnswersInv, AnswerStored
      <4>3. Work[k][n].item # Now(j).item
        BY <1>1, <3>1, <3>3 DEF OwnItems, Now
      <4>4. QED
        BY <2>1, <2>2, <3>1, <4>2, <4>3
    <3>4. QED
      BY <3>2, <3>3
  <2>6. AnswerStored'
    BY <2>1, <2>5 DEF AnswerStored
  <2>7. QED
    BY <2>3, <2>4, <2>6 DEF AnswersInv
<1>11. CASE pc[j] # "store" /\ pc[j] # "login" /\ pc[j] # "request" /\ Fault("map")
  <2>1. UNCHANGED <<at, status, url>>
    BY <1>11 DEF JobStep, LogIn, Request, Store, Access, Insert, Clear, ClearPop, Push, Drain, DrainPop, UsesMap
  <2>2. QED
    BY <1>5, <1>11, <2>1 DEF Fault
<1>12. QED
  <2>1. LogIn(j) \/ Request(j) \/ Store(j) \/ (pc[j] # "store" /\ pc[j] # "login" /\ pc[j] # "request")
    BY DEF JobStep, Access, Insert, Clear, ClearPop, Push, Drain, DrainPop, UsesMap
  <2>2. QED
    BY <2>1, <1>3, <1>4, <1>6, <1>7, <1>8, <1>9, <1>10, <1>11 DEF JobStep

(* No answer is lost, as LoadSource uses LookUpUrl: each device and stream  *)
(* is looked up once, under an id that no other thread has.  The lookup     *)
(* that was granted a URL stores that URL.                                  *)
THEOREM AnswersStored ==
    ASSUME OwnIds, OwnItems PROVE Spec => []AnswerStored
<1>1. Init => AnswersInv
  BY DEF Init, AnswersInv, AnswerInv, AnswerStored
<1>2. ASSUME QueuesInv, AnswersInv, [Next]_vars PROVE AnswersInv'
  <2>1. CASE UNCHANGED vars
    BY <1>2, <2>1 DEF vars, AnswersInv, AnswerInv, AnswerStored, Queue, Id, Now
  <2>2. CASE Next
    BY <1>2, <2>2, AnswersStep DEF Next
  <2>3. QED
    BY <1>2, <2>1, <2>2
<1>3. AnswersInv => AnswerStored
  BY DEF AnswersInv
<1>4. QED
  BY <1>1, <1>2, <1>3, QueuesInductive, PTL DEF Spec

-----------------------------------------------------------------------------
(* What LoadSource looks up: no two threads name the address of one member, *)
(* and no stream of a device is asked for twice.                            *)
LEMMA SourceLookups ==
    ASSUME Work = LoadSource
    PROVE  OwnIds /\ OwnItems
<1> DEFINE Ask == <<"lurl", "durl", "sublurl">>
           Under == <<"ip", "port", "token">>
<1>1. ASSUME NEW j \in Jobs
      PROVE  /\ DOMAIN Work[j] = {1, 2, 3}
             /\ \A n \in {1, 2, 3} : /\ Work[j][n].item = <<j, Ask[n]>>
                                    /\ Work[j][n].id = <<j, Under[n]>>
  BY <1>1 DEF LoadSource, Lookup
<1>2. \A m, n \in {1, 2, 3} : Ask[m] = Ask[n] => m = n
  OBVIOUS
<1> HIDE DEF Ask, Under
<1>3. OwnIds
  BY <1>1 DEF OwnIds
<1>4. OwnItems
  BY <1>1, <1>2 DEF OwnItems
<1>5. QED
  BY <1>3, <1>4

(* So, for any devices and whatever they answer, LoadSource stores for each *)
(* device and stream the URL it was granted, and no other, and no queue is  *)
(* popped empty.                                                            *)
THEOREM SourcesStored ==
    ASSUME Work = LoadSource
    PROVE  Spec => [](UrlBelongs /\ AnswerStored /\ NoEmptyPop)
<1>1. OwnIds /\ OwnItems
  BY SourceLookups
<1>2. Spec => []UrlBelongs
  BY <1>1, UrlsBelong
<1>3. Spec => []AnswerStored
  BY <1>1, AnswersStored
<1>4. Spec => []NoEmptyPop
  BY <1>1, PopsNotEmpty
<1>5. QED
  BY <1>2, <1>3, <1>4, PTL
===============================================================================
