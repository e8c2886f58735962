----------------------------- MODULE RoomsProofs -----------------------------
(***************************************************************************)
(* Proofs about Rooms, for any rooms, devices, cams and streams: first     *)
(* about the list, that counting its rows finds the places of the devices, *)
(* then about the copies that the cams and the Router keep.                *)
(***************************************************************************)
EXTENDS Rooms, FiniteSetTheorems, SequenceTheorems, WellFoundedInduction, TLAPS

(* Counting along the list, a device's row leads to its place.              *)
RowsFindPlaces ==
    /\ Order \in [DOMAIN Order -> Devices] /\ DOMAIN Order \subseteq Nat \ {0}
    /\ \A r \in DeviceRows : Index(r) \in Places /\ Order[Index(r)] = List[r]

-----------------------------------------------------------------------------
(* A set of numbers has a least one: the induction of the proofs below is   *)
(* by the least number at which a claim fails.                              *)
LEMMA LeastNumber ==
    ASSUME NEW S, S \subseteq Nat, S # {}
    PROVE  \E n \in S : \A m \in S : n <= m
<1>1. PICK n \in S : TRUE
  OBVIOUS
<1> DEFINE Below == {T \in SUBSET (0..n) : \E k \in S : T = 0..k}
           R == StrictSubsetOrdering(0..n)
<1>2. IsWellFoundedOn(R, SUBSET (0..n))
  <2>1. IsFiniteSet(0..n)
    BY <1>1, FS_Interval
  <2>2. FiniteSubsetsOf(0..n) = SUBSET (0..n)
    BY <2>1, FS_FiniteSubsetsOfFinite
  <2>3. QED
    BY <2>2, FS_StrictSubsetOrderingWellFounded
<1>3. Below \subseteq SUBSET (0..n) /\ Below # {}
  BY <1>1
<1>4. PICK T \in Below : \A U \in Below : ~(<<U, T>> \in R)
  <2> HIDE DEF Below, R
  <2>1. QED
    BY <1>2, <1>3, WFMin
<1>5. PICK k \in S : T = 0..k
  OBVIOUS
<1>6. ASSUME NEW m \in S, m < k PROVE FALSE
  <2>1. 0..m \in Below
    BY <1>5, <1>6
  <2>2. 0..m \subseteq 0..k /\ 0..m # 0..k
    BY <1>6
  <2>3. QED
    BY <1>4, <1>5, <2>1, <2>2 DEF StrictSubsetOrdering
<1>7. QED
  BY <1>6

(* F flattens the first n sequences of ss, as the function in FlattenSeq.   *)
Flattens(F, n, ss) ==
    F = [i \in 1..n |-> IF i = 1 THEN ss[i] ELSE F[i - 1] \o ss[i]]

(* The recursion of FlattenSeq defines a function.                          *)
LEMMA FlattenExists ==
    ASSUME NEW N \in Nat, N > 0, NEW ss
    PROVE  \E F : Flattens(F, N, ss)
<1> DEFINE Bad == {n \in 1..N : ~ \E F : Flattens(F, n, ss)}
<1>1. ASSUME Bad # {} PROVE FALSE
  <2>1. PICK n \in Bad : \A m \in Bad : n <= m
    <3>1. Bad \subseteq Nat
      OBVIOUS
    <3> HIDE DEF Bad
    <3>2. QED
      BY <1>1, <3>1, LeastNumber
  <2>2. CASE n = 1
    <3>1. Flattens([i \in 1..1 |-> ss[i]], 1, ss)
      BY DEF Flattens
    <3>2. QED
      BY <2>2, <3>1
  <2>3. CASE n > 1
    <3>1. n - 1 \in 1..N /\ n - 1 \notin Bad
      BY <2>1, <2>3
    <3>2. PICK F : Flattens(F, n - 1, ss)
      BY <3>1
    <3> DEFINE G == [i \in 1..n |-> IF i < n THEN F[i] ELSE F[n - 1] \o ss[n]]
    <3>3. ASSUME NEW i \in 1..n
          PROVE  G[i] = IF i = 1 THEN ss[i] ELSE G[i - 1] \o ss[i]
      <4>1. CASE i < n
        <5>1. i \in 1..(n - 1) /\ (i # 1 => i - 1 \in 1..n /\ i - 1 < n)
          BY <4>1, <2>3
        <5>2. F[i] = IF i = 1 THEN ss[i] ELSE F[i - 1] \o ss[i]
          BY <3>2, <5>1 DEF Flattens
        <5>3. QED
          BY <4>1, <5>1, <5>2
      <4>2. CASE i = n
        BY <2>3, <4>2
      <4>3. QED
        BY <4>1, <4>2
    <3>4. Flattens(G, n, ss)
      <4>1. G = [i \in 1..n |-> G[i]]
        OBVIOUS
      <4> HIDE DEF G
      <4>2. QED
        BY <3>3, <4>1 DEF Flattens
    <3>5. QED
      BY <3>4
  <2>4. QED
    BY <2>2, <2>3
<1>2. QED
  BY <1>1

(* What FlattenSeq returns is the last value of that function.              *)
LEMMA FlattenSeqSteps ==
    ASSUME NEW ss, Len(ss) \in Nat, Len(ss) > 0
    PROVE  \E F : Flattens(F, Len(ss), ss) /\ FlattenSeq(ss) = F[Len(ss)]
<1> DEFINE F == CHOOSE F : F = [i \in 1..Len(ss) |->
                  IF i = 1 THEN ss[i] ELSE F[i - 1] \o ss[i]]
<1>1. F = [i \in 1..Len(ss) |-> IF i = 1 THEN ss[i] ELSE F[i - 1] \o ss[i]]
  BY FlattenExists DEF Flattens
<1>2. FlattenSeq(ss) = F[Len(ss)]
  BY DEF FlattenSeq
<1>3. QED
  BY <1>1, <1>2 DEF Flattens

(* The rows of rooms among the first r. *)
RoomRows(g, r) == {q \in 1..r : g[q] = RoomRow}

(* f has the devices of the rows g of n rooms, in their order.              *)
Counted(f, g, n) ==
    /\ f \in Seq(Devices) /\ g \in Seq(Devices \cup {RoomRow})
    /\ Len(g) = Len(f) + n
    /\ Cardinality(RoomRows(g, Len(g))) = n
    /\ \A r \in 1..Len(g) : g[r] # RoomRow =>
         LET k == r - Cardinality(RoomRows(g, r))
         IN  k \in 1..Len(f) /\ f[k] = g[r]

(* Where the elements of two sequences are after they are put together.     *)
LEMMA Concatenated ==
    ASSUME NEW X, NEW s \in Seq(X), NEW t \in Seq(X)
    PROVE  /\ s \o t \in Seq(X) /\ Len(s \o t) = Len(s) + Len(t)
           /\ \A i \in 1..Len(s) : (s \o t)[i] = s[i]
           /\ \A i \in 1..Len(t) : (s \o t)[Len(s) + i] = t[i]
OBVIOUS

(* One more room, with or without devices, keeps rows and places together.  *)
LEMMA CountRoom ==
    ASSUME NEW f, NEW g, NEW n \in Nat, Counted(f, g, n), NEW d \in Seq(Devices)
    PROVE  Counted(f \o d, g \o (<<RoomRow>> \o d), n + 1)
<1> DEFINE row == <<RoomRow>> \o d
           f2 == f \o d
           g2 == g \o row
<1>1. /\ f \in Seq(Devices) /\ g \in Seq(Devices \cup {RoomRow})
      /\ Len(f) \in Nat /\ Len(g) \in Nat /\ Len(d) \in Nat
      /\ Len(g) = Len(f) + n /\ RoomRow \notin Devices
      /\ d \in Seq(Devices \cup {RoomRow})
  BY RoomsAssumption DEF Counted
<1>2. /\ row \in Seq(Devices \cup {RoomRow}) /\ Len(row) = Len(d) + 1
      /\ row[1] = RoomRow /\ \A j \in 1..Len(d) : row[j + 1] = d[j]
  BY <1>1
<1>3. /\ f2 \in Seq(Devices) /\ g2 \in Seq(Devices \cup {RoomRow})
      /\ Len(f2) = Len(f) + Len(d) /\ Len(g2) = Len(g) + Len(row)
      /\ \A k \in 1..Len(f) : f2[k] = f[k]
      /\ \A k \in 1..Len(d) : f2[Len(f) + k] = d[k]
      /\ \A r \in 1..Len(g) : g2[r] = g[r]
      /\ \A r \in 1..Len(row) : g2[Len(g) + r] = row[r]
  <2> HIDE DEF row
  <2>1. /\ f2 \in Seq(Devices) /\ Len(f2) = Len(f) + Len(d)
        /\ \A k \in 1..Len(f) : f2[k] = f[k]
        /\ \A k \in 1..Len(d) : f2[Len(f) + k] = d[k]
    BY <1>1, Concatenated
  <2>2. /\ g2 \in Seq(Devices \cup {RoomRow}) /\ Len(g2) = Len(g) + Len(row)
        /\ \A r \in 1..Len(g) : g2[r] = g[r]
        /\ \A r \in 1..Len(row) : g2[Len(g) + r] = row[r]
    <3> DEFINE X == Devices \cup {RoomRow}
    <3>1. g \in Seq(X) /\ row \in Seq(X)
      BY <1>1, <1>2
    <3> HIDE DEF X
    <3>2. /\ g \o row \in Seq(X) /\ Len(g \o row) = Len(g) + Len(row)
          /\ \A r \in 1..Len(g) : (g \o row)[r] = g[r]
          /\ \A r \in 1..Len(row) : (g \o row)[Len(g) + r] = row[r]
      BY <3>1, Concatenated
    <3>3. QED
      BY <3>2 DEF X
  <2>3. QED
    BY <2>1, <2>2
<1> HIDE DEF f2, g2, row
<1>4. ASSUME NEW r \in 1..Len(g) PROVE RoomRows(g2, r) = RoomRows(g, r)
  BY <1>1, <1>3 DEF RoomRows
<1>5. ASSUME NEW j \in 1..Len(row)
      PROVE  /\ RoomRows(g2, Len(g) + j) = RoomRows(g, Len(g)) \cup {Len(g) + 1}
             /\ Cardinality(RoomRows(g2, Len(g) + j)) = n + 1
  <2>1. ASSUME NEW q \in 1..(Len(g) + j), q > Len(g) + 1 PROVE g2[q] # RoomRow
    <3>1. /\ q - Len(g) \in 1..Len(row) /\ q - Len(g) - 1 \in 1..Len(d)
          /\ q = Len(g) + (q - Len(g)) /\ q - Len(g) = (q - Len(g) - 1) + 1
      BY <1>1, <1>2, <2>1
    <3>2. /\ g2[Len(g) + (q - Len(g))] = row[q - Len(g)]
          /\ row[(q - Len(g) - 1) + 1] = d[q - Len(g) - 1]
      BY <1>2, <1>3, <3>1
    <3>3. QED
      <4>1. g2[q] = d[q - Len(g) - 1]
        BY <3>1, <3>2
      <4>2. QED
        BY <1>1, <3>1, <4>1
  <2>2. g2[Len(g) + 1] = RoomRow
    BY <1>1, <1>2, <1>3
  <2>3. \A q \in 1..Len(g) : g2[q] = g[q]
    BY <1>3
  <2>4. RoomRows(g2, Len(g) + j) = RoomRows(g, Len(g)) \cup {Len(g) + 1}
    BY <1>1, <1>2, <2>1, <2>2, <2>3 DEF RoomRows
  <2>5. RoomRows(g, Len(g)) \subseteq 1..Len(g) /\ IsFiniteSet(RoomRows(g, Len(g)))
    <3>1. IsFiniteSet(1..Len(g))
      BY <1>1, FS_Interval, 1 \in Int
    <3>2. QED
      BY <3>1, FS_Subset DEF RoomRows
  <2>6. Len(g) + 1 \notin RoomRows(g, Len(g))
    BY <1>1, <2>5
  <2>7. Cardinality(RoomRows(g, Len(g))) = n
    BY DEF Counted
  <2>8. QED
    BY <2>4, <2>5, <2>6, <2>7, FS_AddElement
<1>6. Len(g2) = Len(f2) + (n + 1) /\ Cardinality(RoomRows(g2, Len(g2))) = n + 1
  BY <1>1, <1>2, <1>3, <1>5
<1>7. ASSUME NEW r \in 1..Len(g2), g2[r] # RoomRow
      PROVE  LET k == r - Cardinality(RoomRows(g2, r))
             IN  k \in 1..Len(f2) /\ f2[k] = g2[r]
  <2>1. CASE r \in 1..Len(g)
    <3> DEFINE k == r - Cardinality(RoomRows(g, r))
    <3>1. k \in 1..Len(f) /\ f[k] = g[r]
      BY <1>3, <1>7, <2>1 DEF Counted
    <3>2. k \in 1..Len(f2) /\ f2[k] = g2[r]
      <4> HIDE DEF k
      <4>1. QED
        BY <1>1, <1>3, <2>1, <3>1
    <3>3. QED
      BY <1>4, <2>1, <3>2
  <2>2. CASE r \notin 1..Len(g)
    <3> DEFINE j == r - Len(g)
    <3>1. j \in 1..Len(row) /\ r = Len(g) + j
      BY <1>1, <1>2, <1>3, <2>2
    <3>2. j # 1 /\ j - 1 \in 1..Len(d) /\ j = (j - 1) + 1
      BY <1>1, <1>2, <1>3, <1>7, <3>1
    <3>3. g2[r] = d[j - 1]
      BY ZenonT(60), <1>2, <1>3, <3>1, <3>2
    <3>4. r - (n + 1) = Len(f) + (j - 1)
      BY <1>1, <3>1
    <3>5. Len(f) + (j - 1) \in 1..Len(f2) /\ f2[Len(f) + (j - 1)] = d[j - 1]
      BY SMTT(30), <1>1, <1>3, <3>2
    <3>6. Cardinality(RoomRows(g2, r)) = n + 1
      BY <1>5, <3>1
    <3>7. QED
      BY <3>3, <3>4, <3>5, <3>6
  <2>3. QED
    BY <2>1, <2>2
<1>8. QED
  BY <1>3, <1>6, <1>7 DEF Counted, f2, g2, row

(* Counting down the rows of rooms finds the device of a row, whatever      *)
(* rooms there are: by induction on the number of rooms.                    *)
LEMMA RowsLeadToPlaces == RowsFindPlaces
<1> DEFINE N == Len(RoomList)
           rows == [i \in DOMAIN RoomList |-> <<RoomRow>> \o RoomList[i]]
<1>1. /\ N \in Nat /\ DOMAIN RoomList = 1..N /\ DOMAIN rows = 1..N
      /\ \A i \in 1..N : RoomList[i] \in Seq(Devices)
      /\ \A i \in 1..N : rows[i] = <<RoomRow>> \o RoomList[i]
  BY RoomsAssumption
<1>2. rows \in Seq(Seq(Devices \cup {RoomRow})) /\ Len(rows) = N
  <2>1. \A i \in 1..N : rows[i] \in Seq(Devices \cup {RoomRow})
    BY <1>1
  <2>2. rows \in [1..N -> Seq(Devices \cup {RoomRow})]
    BY <1>1, <2>1
  <2> HIDE DEF rows
  <2>3. QED
    BY SMTT(30), <1>1, <2>2, IsASeq
<1>3. Counted(<<>>, <<>>, 0)
  <2>1. RoomRows(<<>>, 0) = {} /\ Len(<<>>) = 0
    BY DEF RoomRows
  <2>2. QED
    BY <2>1, FS_EmptySet DEF Counted
<1>4. List = FlattenSeq(rows) /\ Order = FlattenSeq(RoomList)
  BY DEF List, Order
<1> HIDE DEF rows
<1>5. Counted(Order, List, N)
  <2>1. CASE N = 0
    <3>1. List = <<>> /\ Order = <<>>
      <4>1. List = rows /\ Order = RoomList
        BY <1>2, <1>4, <2>1 DEF FlattenSeq
      <4>2. QED
        BY <1>2, <2>1, <4>1, RoomsAssumption
    <3>2. QED
      BY <1>3, <2>1, <3>1
  <2>2. CASE N > 0
    <3>1. PICK F : Flattens(F, N, RoomList) /\ Order = F[N]
      BY <1>1, <1>4, <2>2, FlattenSeqSteps
    <3>2. PICK G : Flattens(G, N, rows) /\ List = G[N]
      BY <1>1, <1>2, <1>4, <2>2, FlattenSeqSteps
    <3> DEFINE Bad == {i \in 1..N : ~ Counted(F[i], G[i], i)}
    <3>3. ASSUME Bad # {} PROVE FALSE
      <4>1. PICK i \in Bad : \A m \in Bad : i <= m
        <5>1. Bad \subseteq Nat
          OBVIOUS
        <5> HIDE DEF Bad
        <5>2. QED
          BY <3>3, <5>1, LeastNumber
      <4>2. CASE i = 1
        <5>1. F[1] = RoomList[1] /\ G[1] = <<RoomRow>> \o RoomList[1]
          BY <1>1, <2>2, <3>1, <3>2 DEF Flattens
        <5>2. RoomList[1] \in Seq(Devices)
          BY <1>1, <2>2
        <5>3. Counted(<<>> \o RoomList[1], <<>> \o (<<RoomRow>> \o RoomList[1]), 0 + 1)
          BY <1>3, <5>2, CountRoom
        <5>4. /\ <<>> \o RoomList[1] = RoomList[1]
              /\ <<>> \o (<<RoomRow>> \o RoomList[1]) = <<RoomRow>> \o RoomList[1]
          BY <5>2
        <5>5. Counted(F[1], G[1], 1)
          BY <5>1, <5>3, <5>4
        <5>6. QED
          BY <4>1, <4>2, <5>5
      <4>3. CASE i > 1
        <5>1. i - 1 \in 1..N /\ i - 1 \notin Bad
          BY <4>1, <4>3
        <5>2. /\ i \in 1..N /\ i # 1 /\ F[i] = F[i - 1] \o RoomList[i]
              /\ G[i] = G[i - 1] \o rows[i]
          <6>1. i \in 1..N /\ i # 1
            BY <4>3
          <6>2. F[i] = F[i - 1] \o RoomList[i]
            BY <3>1, <6>1 DEF Flattens
          <6>3. G[i] = G[i - 1] \o rows[i]
            BY <3>2, <6>1 DEF Flattens
          <6>4. QED
            BY <6>1, <6>2, <6>3
        <5>3. Counted(F[i - 1], G[i - 1], i - 1)
          BY <5>1
        <5>4. QED
          BY <1>1, <4>3, <5>1, <5>2, <5>3, CountRoom, (i - 1) + 1 = i, i - 1 \in Nat
      <4>4. QED
        BY <4>2, <4>3
    <3>4. N \in 1..N /\ N \notin Bad
      BY <1>1, <2>2, <3>3
    <3>5. QED
      BY <3>1, <3>2, <3>4
  <2>3. QED
    BY <1>1, <2>1, <2>2
<1>6. Order \in [DOMAIN Order -> Devices] /\ DOMAIN Order = 1..Len(Order)
      /\ List \in Seq(Devices \cup {RoomRow}) /\ DOMAIN List = 1..Len(List)
  BY <1>5 DEF Counted
<1>7. ASSUME NEW r \in DeviceRows
      PROVE  Index(r) \in Places /\ Order[Index(r)] = List[r]
  <2>1. r \in 1..Len(List) /\ List[r] # RoomRow
    BY <1>6 DEF DeviceRows
  <2>2. Index(r) = r - Cardinality(RoomRows(List, r))
    BY DEF Index, RoomRows
  <2>3. QED
    BY <1>5, <1>6, <2>1, <2>2 DEF Counted, Places
<1>8. QED
  BY <1>6, <1>7 DEF RowsFindPlaces

-----------------------------------------------------------------------------
(* LoadSource fills a place, which stays its device's, and what is to be    *)
(* played there is set once.                                                *)
PlacesInv ==
    \A k \in Places : /\ videoURL[k].dev = Order[k]
                      /\ videoURL[k].play \in {None, "lurl"}

Assigning == ui.pc # "rest" /\ ui.from # 0

(* How far the Router's copy agrees with the source it is taken from.       *)
CopyInv ==
    /\ rt.mediaPlayer = rt.camCtrl
    /\ Assigning => ui.from \in Places
    /\ ui.pc = "cam" => ui.from # 0 /\ rt.play \in {None, From.play}
    /\ ui.pc \in {"model", "port", "token", "urls", "cam"} => rt.ip = From.dev
    /\ ui.pc \in {"port", "token", "urls", "cam"} => rt.model = From.dev
    /\ ui.pc \in {"token", "urls", "cam"} => rt.port = From.dev
    /\ ui.pc \in {"urls", "cam"} => rt.token \in {None, rt.ip}
    /\ ui.pc = "rest" => /\ rt.ip = cams[rt.camCtrl].videosrc.dev
                         /\ rt.model = rt.ip /\ rt.port = rt.ip
                         /\ rt.token \in {None, rt.ip}

(* A cam's title is ahead of its copy while a row is being selected for it. *)
CamInv(c) ==
    /\ cams[c].title = IF Assigning /\ c = rt.camCtrl THEN Order[ui.from]
                       ELSE cams[c].videosrc.dev
    /\ cams[c].videosrc.dev = None =>
           cams[c].videosrc.urls = {} /\ cams[c].videosrc.play = None
    /\ playing[c] \in {None, Url(cams[c].videosrc.dev, cams[c].videosrc.play)}

RoomsInv == TypeOK /\ PlacesInv /\ CopyInv /\ \A c \in Cams : CamInv(c)

-----------------------------------------------------------------------------
LEMMA RoomsInit == ASSUME RowsFindPlaces, Init PROVE RoomsInv
<1>1. /\ FirstCam \in Cams /\ "lurl" \in Names /\ MaxPresses \in Nat
      /\ Len(Streams) \in Nat
  BY RouterAssumption, RoomsAssumption DEF Range
<1>2. RouterTypeOK
  <2>1. RouterInit
    BY DEF Init
  <2>2. rt \in Routers
    BY <1>1, <2>1 DEF RouterInit, Routers, Device
  <2>3. ui \in [pc : UiPcs, from : Nat]
    BY <2>1 DEF RouterInit, UiPcs
  <2>4. Free \in Commands
    <3>1. {} \in SUBSET Fields /\ {} \in SUBSET Device /\ None \in Device
      BY DEF Device
    <3>2. 0 \in 0..MaxPresses
      BY <1>1
    <3>3. QED
      BY <3>1, <3>2 DEF Free, Commands
  <2>5. cmd \in [Cmds -> Commands]
    BY <2>1, <2>4 DEF RouterInit
  <2>6. preset \in 0..MaxPresses /\ sent \subseteq 1..preset
    BY <1>1, <2>1 DEF RouterInit
  <2>7. fault \in BOOLEAN
    BY <2>1 DEF RouterInit
  <2>8. QED
    BY <2>2, <2>3, <2>5, <2>6, <2>7 DEF RouterTypeOK
<1>3. videoURL \in [Places -> Source] /\ PlacesInv
  BY DEF Init, Nothing, Source, Device, RowsFindPlaces, Places, PlacesInv
<1>4. cams \in [Cams -> [title : Device, videosrc : Source]]
  BY DEF Init, Nothing, Source, Device
<1>5. TypeOK
  BY <1>1, <1>2, <1>3, <1>4 DEF Init, TypeOK
<1>6. CopyInv
  BY <1>1 DEF Init, RouterInit, CopyInv, Assigning, Nothing
<1>7. \A c \in Cams : CamInv(c)
  BY DEF Init, RouterInit, CamInv, Assigning, Nothing
<1>8. QED
  BY <1>3, <1>5, <1>6, <1>7 DEF RoomsInv

(* What a source may be, and what the window copies from. *)
LEMMA SourceFacts ==
    ASSUME RowsFindPlaces, RoomsInv
    PROVE  /\ \A k \in Places : Order[k] \in Devices /\ k \in Nat /\ k # 0
           /\ rt \in Routers /\ rt.camCtrl \in Cams
           /\ ui.pc # "rest" => From \in Source
           /\ Assigning => From = videoURL[ui.from] /\ From.dev = Order[ui.from]
           /\ ui.pc # "rest" /\ ui.from = 0 => From = cams[rt.camCtrl].videosrc
<1>1. /\ rt \in Routers /\ rt.camCtrl \in Cams
      /\ videoURL \in [Places -> Source]
      /\ cams \in [Cams -> [title : Device, videosrc : Source]]
  BY DEF RoomsInv, TypeOK, RouterTypeOK, Routers
<1>2. \A k \in Places : Order[k] \in Devices /\ k \in Nat /\ k # 0
  BY DEF RowsFindPlaces, Places
<1>3. Assigning => /\ ui.from \in Places /\ From = videoURL[ui.from]
                   /\ From.dev = Order[ui.from]
  BY DEF From, RoomsInv, CopyInv, Assigning, PlacesInv
<1>4. ui.from = 0 => From = cams[rt.camCtrl].videosrc
  BY DEF From
<1>5. ui.pc # "rest" => From \in Source
  <2>1. CASE ui.from = 0
    BY <1>1, <1>4, <2>1
  <2>2. CASE ui.from # 0 /\ Assigning
    BY <1>1, <1>3, <2>2
  <2>3. QED
    BY <2>1, <2>2 DEF Assigning
<1>6. QED
  BY <1>1, <1>2, <1>3, <1>4, <1>5

LEMMA LoadSourceStep ==
    ASSUME RowsFindPlaces, RoomsInv, NEW k \in Places, LoadSource(k)
    PROVE  RoomsInv'
<1>1. /\ videoURL \in [Places -> Source] /\ load \in [Places -> 0..(Len(Streams) + 1)]
      /\ Len(Streams) \in Nat /\ DOMAIN Streams = 1..Len(Streams)
      /\ Names = Range(Streams) /\ "lurl" \in Names
  BY RoomsAssumption DEF RoomsInv, TypeOK, Range
<1>2. UNCHANGED <<painted, cams, playing, rt, ui, cmd, preset, sent, fault>>
  BY DEF LoadSource, LogIn, LookUpUrl, shows, routerVars, cmds
<1>3. /\ videoURL' \in [Places -> Source] /\ load' \in [Places -> 0..(Len(Streams) + 1)]
      /\ \A j \in Places : /\ videoURL'[j].dev = videoURL[j].dev
                           /\ videoURL'[j].play \in {videoURL[j].play, "lurl"}
  <2>1. CASE LogIn(k)
    <3>1. PICK ok \in BOOLEAN :
            /\ videoURL' = [videoURL EXCEPT ![k].token = ok]
            /\ load' = [load EXCEPT ![k] = IF ok THEN 1 ELSE Done]
      BY <2>1 DEF LogIn
    <3>2. load' \in [Places -> 0..(Len(Streams) + 1)]
      BY <1>1, <3>1 DEF Done
    <3>3. [videoURL[k] EXCEPT !.token = ok] \in Source
      BY <1>1 DEF Source
    <3>4. videoURL' = [videoURL EXCEPT ![k] = [videoURL[k] EXCEPT !.token = ok]]
      BY <1>1, <3>1
    <3>5. ASSUME NEW j \in Places
          PROVE  /\ videoURL'[j] \in Source /\ videoURL'[j].dev = videoURL[j].dev
                 /\ videoURL'[j].play = videoURL[j].play
      <4>1. CASE j = k
        BY <1>1, <3>3, <3>4, <4>1 DEF Source
      <4>2. CASE j # k
        BY <1>1, <3>4, <4>2
      <4>3. QED
        BY <4>1, <4>2
    <3>6. QED
      BY <1>1, <3>2, <3>4, <3>5
  <2>2. CASE LookUpUrl(k)
    <3>1. PICK found \in {{}, {Streams[load[k]]}} :
            videoURL' = [videoURL EXCEPT ![k].urls = videoURL[k].urls \cup found,
              ![k].play = IF load[k] = Len(Streams)
                             /\ "lurl" \in videoURL[k].urls \cup found
                          THEN "lurl" ELSE @]
      BY <2>2 DEF LookUpUrl
    <3>2. load[k] \in 1..Len(Streams) /\ found \subseteq Names
      BY <1>1, <2>2, <3>1 DEF LookUpUrl, Range
    <3>3. load' \in [Places -> 0..(Len(Streams) + 1)]
      BY <1>1, <2>2, <3>2 DEF LookUpUrl
    <3>4. PICK new \in SUBSET Names : new = videoURL[k].urls \cup found
      BY <1>1, <3>2 DEF Source
    <3>5. PICK play \in {videoURL[k].play, "lurl"} :
            videoURL' = [videoURL EXCEPT ![k] =
                           [videoURL[k] EXCEPT !.urls = new, !.play = play]]
      BY <1>1, <3>1, <3>4
    <3>6. [videoURL[k] EXCEPT !.urls = new, !.play = play] \in Source
      BY ZenonT(60), <1>1, <3>4, <3>5 DEF Source
    <3>7. ASSUME NEW j \in Places
          PROVE  /\ videoURL'[j] \in Source /\ videoURL'[j].dev = videoURL[j].dev
                 /\ videoURL'[j].play \in {videoURL[j].play, "lurl"}
      <4>1. CASE j = k
        BY <1>1, <3>5, <3>6, <4>1 DEF Source
      <4>2. CASE j # k
        BY <1>1, <3>5, <4>2
      <4>3. QED
        BY <4>1, <4>2
    <3>8. QED
      BY <1>1, <3>3, <3>5, <3>7
  <2>3. QED
    BY <2>1, <2>2 DEF LoadSource
<1>4. TypeOK'
  BY <1>2, <1>3 DEF RoomsInv, TypeOK, RouterTypeOK
<1>5. PlacesInv'
  BY <1>3 DEF RoomsInv, PlacesInv
<1>6. CopyInv'
  BY <1>2, <1>3 DEF RoomsInv, CopyInv, PlacesInv, Assigning, From
<1>7. ASSUME NEW c \in Cams PROVE CamInv(c)'
  BY <1>2, <1>7 DEF RoomsInv, CamInv, Assigning
<1>8. QED
  BY <1>4, <1>5, <1>6, <1>7 DEF RoomsInv

(* The window turns to a source: a row's, or the copy of a cam.             *)
LEMMA SelectStep ==
    ASSUME RowsFindPlaces, RoomsInv,
           \/ \E row \in DeviceRows : OnSelectRoomItem(row)
           \/ \E c \in Cams : SelectCam(c) /\ UNCHANGED <<looks, shows>>
    PROVE  RoomsInv'
<1>1. /\ rt \in Routers /\ rt.camCtrl \in Cams
      /\ cams \in [Cams -> [title : Device, videosrc : Source]]
      /\ \A k \in Places : Order[k] \in Devices /\ k \in Nat /\ k # 0
  BY SourceFacts DEF RoomsInv, TypeOK
<1>2. CASE \E row \in DeviceRows : OnSelectRoomItem(row)
  <2>1. PICK row \in DeviceRows : OnSelectRoomItem(row)
    BY <1>2
  <2>2. /\ ui.pc = "rest" /\ ui' = [pc |-> "ip", from |-> Index(row)]
        /\ cams' = [cams EXCEPT ![rt.camCtrl].title = List[row]]
        /\ UNCHANGED <<videoURL, load, painted, playing, rt, cmd, preset, sent, fault>>
    BY <2>1 DEF OnSelectRoomItem, SelectPlace, Rest, looks, cmds
  <2>3. Index(row) \in Places /\ Order[Index(row)] = List[row]
    BY DEF RowsFindPlaces
  <2>4. Index(row) \in Nat /\ Index(row) # 0 /\ List[row] \in Devices
    BY <1>1, <2>3
  <2>5. TypeOK'
    BY <1>1, <2>2, <2>4 DEF RoomsInv, TypeOK, RouterTypeOK, Device, UiPcs, Fields
  <2>6. PlacesInv' /\ CopyInv'
    BY <2>2, <2>3, <2>4 DEF RoomsInv, PlacesInv, CopyInv, Assigning
  <2>7. ASSUME NEW c \in Cams PROVE CamInv(c)'
    <3>1. /\ cams'[c].videosrc = cams[c].videosrc
          /\ cams'[c].title = IF c = rt.camCtrl THEN List[row] ELSE cams[c].title
      BY <1>1, <2>2
    <3>2. QED
      BY <2>2, <2>3, <2>4, <3>1 DEF RoomsInv, CamInv, Assigning
  <2>8. QED
    BY <2>5, <2>6, <2>7 DEF RoomsInv
<1>3. CASE \E c \in Cams : SelectCam(c) /\ UNCHANGED <<looks, shows>>
  <2>1. PICK c \in Cams : SelectCam(c) /\ UNCHANGED <<looks, shows>>
    BY <1>3
  <2>2. /\ ui.pc = "rest" /\ ui' = [pc |-> "ip", from |-> 0]
        /\ rt' = [rt EXCEPT !.camCtrl = c, !.mediaPlayer = c]
        /\ UNCHANGED <<videoURL, load, painted, cams, playing, cmd, preset, sent, fault>>
    BY <2>1 DEF SelectCam, Rest, looks, shows, cmds
  <2>3. rt' \in Routers /\ rt'.mediaPlayer = rt'.camCtrl
    BY <1>1, <2>2 DEF Routers
  <2>4. TypeOK'
    BY <2>2, <2>3 DEF RoomsInv, TypeOK, RouterTypeOK, UiPcs, Fields
  <2>5. PlacesInv' /\ CopyInv'
    BY <2>2, <2>3 DEF RoomsInv, PlacesInv, CopyInv, Assigning
  <2>6. ASSUME NEW d \in Cams PROVE CamInv(d)'
    BY <2>2, <2>6 DEF RoomsInv, CamInv, Assigning
  <2>7. QED
    BY <2>4, <2>5, <2>6 DEF RoomsInv
<1>4. QED
  BY <1>2, <1>3

(* The Router's copy, field by field.                                       *)
LEMMA AssignRouterStep ==
    ASSUME RowsFindPlaces, RoomsInv, AssignRouter
    PROVE  RoomsInv'
<1>0. ui.pc # "rest"
  BY DEF AssignRouter, AssignIp, AssignModel, AssignPort, AssignToken, AssignUrls
<1>1. /\ rt \in Routers /\ rt.camCtrl \in Cams /\ From \in Source
      /\ ui \in [pc : UiPcs, from : Nat]
      /\ cmd \in [Cmds -> Commands] /\ fault \in BOOLEAN
  BY <1>0, SourceFacts DEF RoomsInv, TypeOK, RouterTypeOK
<1>2. /\ UNCHANGED <<videoURL, load, painted, cams, playing, preset, sent>>
  BY DEF AssignRouter, AssignIp, AssignModel, AssignPort, AssignToken, AssignUrls,
      looks, shows, cmds
<1>3. ASSUME rt' \in Routers, rt'.camCtrl = rt.camCtrl,
             rt'.mediaPlayer = rt.mediaPlayer, ui'.from = ui.from, ui.pc # "rest",
             ui' \in [pc : UiPcs, from : Nat],
             ui'.pc = "rest" => ui.from = 0,
             cmd' \in [Cmds -> Commands], fault' \in BOOLEAN
      PROVE  TypeOK' /\ PlacesInv' /\ (\A c \in Cams : CamInv(c)') /\ From' = From
  <2>1. TypeOK' /\ PlacesInv'
    BY <1>2, <1>3 DEF RoomsInv, TypeOK, RouterTypeOK, PlacesInv
  <2>2. \A c \in Cams : CamInv(c)'
    BY <1>2, <1>3 DEF RoomsInv, CamInv, Assigning
  <2>3. From' = From
    BY <1>2, <1>3 DEF From
  <2>4. QED
    BY <2>1, <2>2, <2>3
<1>4. CASE AssignIp(From.dev)
  <2>1. /\ ui.pc = "ip" /\ rt' = [rt EXCEPT !.ip = From.dev]
        /\ ui' = [ui EXCEPT !.pc = "model"] /\ fault' = fault
        /\ cmd' = [c \in Cmds |-> IF cmd[c].pc = "free" THEN cmd[c]
                       ELSE [cmd[c] EXCEPT !.during = @ \cup {From.dev}]]
    BY <1>4 DEF AssignIp
  <2>2. rt' \in Routers /\ From.dev \in Device
    BY <1>1, <2>1 DEF Routers, Source
  <2>3. cmd' \in [Cmds -> Commands]
    BY <1>1, <2>1, <2>2 DEF Commands
  <2>4. TypeOK' /\ PlacesInv' /\ (\A c \in Cams : CamInv(c)') /\ From' = From
    BY <1>1, <1>3, <2>1, <2>2, <2>3 DEF Routers, UiPcs, Fields
  <2>5. CopyInv'
    BY <1>1, <1>2, <2>1, <2>4 DEF RoomsInv, CopyInv, Assigning, Routers
  <2>6. QED
    BY <2>4, <2>5 DEF RoomsInv
<1>5. CASE AssignModel
  <2>1. /\ ui.pc = "model" /\ ui' = [ui EXCEPT !.pc = "port"]
        /\ rt' = [rt EXCEPT !.model = rt.ip]
        /\ UNCHANGED <<cmd, fault>>
    BY <1>5 DEF AssignModel, cmds
  <2>2. rt' \in Routers
    BY <1>1, <2>1 DEF Routers
  <2>3. TypeOK' /\ PlacesInv' /\ (\A c \in Cams : CamInv(c)') /\ From' = From
    BY <1>1, <1>3, <2>1, <2>2 DEF Routers, UiPcs, Fields
  <2>4. CopyInv'
    BY <1>1, <1>2, <2>1, <2>3 DEF RoomsInv, CopyInv, Assigning, Routers
  <2>5. QED
    BY <2>3, <2>4 DEF RoomsInv
<1>6. CASE AssignPort
  <2>1. /\ ui.pc = "port" /\ ui' = [ui EXCEPT !.pc = "token"]
        /\ rt' = [rt EXCEPT !.port = rt.ip]
        /\ UNCHANGED <<cmd, fault>>
    BY <1>6 DEF AssignPort, cmds
  <2>2. rt' \in Routers
    BY <1>1, <2>1 DEF Routers
  <2>3. TypeOK' /\ PlacesInv' /\ (\A c \in Cams : CamInv(c)') /\ From' = From
    BY <1>1, <1>3, <2>1, <2>2 DEF Routers, UiPcs, Fields
  <2>4. CopyInv'
    BY <1>1, <1>2, <2>1, <2>3 DEF RoomsInv, CopyInv, Assigning, Routers
  <2>5. QED
    BY <2>3, <2>4 DEF RoomsInv
<1>7. CASE AssignToken(From.token)
  <2>1. /\ ui.pc = "token" /\ ui' = [ui EXCEPT !.pc = "urls"]
        /\ rt' = [rt EXCEPT !.token = IF From.token THEN rt.ip ELSE None]
        /\ UNCHANGED <<cmd, fault>>
    BY <1>7 DEF AssignToken, cmds
  <2>2. rt' \in Routers
    BY <1>1, <2>1 DEF Routers, Device
  <2>3. TypeOK' /\ PlacesInv' /\ (\A c \in Cams : CamInv(c)') /\ From' = From
    BY <1>1, <1>3, <2>1, <2>2 DEF Routers, UiPcs, Fields
  <2>4. CopyInv'
    BY <1>1, <1>2, <2>1, <2>3 DEF RoomsInv, CopyInv, Assigning, Routers
  <2>5. QED
    BY <2>3, <2>4 DEF RoomsInv
<1>8. CASE AssignUrls(From.play, ui.from # 0 /\ Inserting(ui.from))
  <2>1. ui.pc = "urls" /\ cmd' = cmd
    BY <1>8 DEF AssignUrls, cmds
  <2>2. CASE fault' = TRUE /\ UNCHANGED <<rt, ui>>
    <3>1. TypeOK' /\ PlacesInv' /\ (\A c \in Cams : CamInv(c)') /\ From' = From
      BY <1>1, <1>3, <2>1, <2>2
    <3>2. CopyInv'
      BY <1>2, <2>2, <3>1 DEF RoomsInv, CopyInv, Assigning
    <3>3. QED
      BY <3>1, <3>2 DEF RoomsInv
  <2>3. CASE /\ rt' = [rt EXCEPT !.play = From.play] /\ fault' = FALSE
             /\ ui' = [ui EXCEPT !.pc = IF ui.from = 0 THEN "rest" ELSE "cam"]
    <3>1. rt' \in Routers
      BY <1>1, <2>3 DEF Routers, Source
    <3>2. TypeOK' /\ PlacesInv' /\ (\A c \in Cams : CamInv(c)') /\ From' = From
      BY <1>1, <1>3, <2>1, <2>3, <3>1 DEF Routers, UiPcs, Fields
    <3>3. CopyInv'
      <4>1. ui.from = 0 => From = cams[rt.camCtrl].videosrc
        BY DEF From
      <4>2. QED
        BY <1>1, <1>2, <2>1, <2>3, <3>2, <4>1
        DEF RoomsInv, CopyInv, Assigning, Routers
    <3>4. QED
      BY <3>2, <3>3 DEF RoomsInv
  <2>4. QED
    BY <1>8, <2>2, <2>3 DEF AssignUrls
<1>9. QED
  BY <1>4, <1>5, <1>6, <1>7, <1>8 DEF AssignRouter

(* The cam's copy, and what its player loads.                               *)
LEMMA AssignCamStep ==
    ASSUME RowsFindPlaces, RoomsInv, AssignCam
    PROVE  RoomsInv'
<1> DEFINE cc == rt.camCtrl
<1>0. ui.pc = "cam"
  BY DEF AssignCam
<1>1. /\ rt \in Routers /\ cc \in Cams /\ From \in Source
      /\ ui \in [pc : UiPcs, from : Nat]
      /\ cams \in [Cams -> [title : Device, videosrc : Source]]
      /\ playing \in [Cams -> (Devices \X Names) \cup {None}]
  BY <1>0, SourceFacts DEF RoomsInv, TypeOK, RouterTypeOK
<1>2. /\ ui.pc = "cam" /\ ui' = [ui EXCEPT !.pc = "rest"]
      /\ cams' = [cams EXCEPT ![cc].videosrc = From]
      /\ playing' = [playing EXCEPT ![cc] = Url(rt.ip, rt.play)]
      /\ UNCHANGED <<videoURL, load, painted, rt, cmd, preset, sent, fault>>
  BY DEF AssignCam, looks, cmds, RoomsInv, CopyInv
<1>3. /\ ui.from # 0 /\ ui.from \in Places /\ From.dev = Order[ui.from]
      /\ From.dev \in Devices /\ rt.ip = From.dev
      /\ rt.model = From.dev /\ rt.port = From.dev
      /\ rt.play \in {None, From.play} /\ rt.token \in {None, rt.ip}
      /\ From.dev # None
  BY <1>2, SourceFacts, RouterAssumption DEF RoomsInv, CopyInv, Assigning
<1>4. TypeOK'
  <2>1. Url(rt.ip, rt.play) \in (Devices \X Names) \cup {None}
    BY <1>1, <1>3 DEF Url, Routers
  <2>2. QED
    BY <1>1, <1>2, <2>1 DEF RoomsInv, TypeOK, RouterTypeOK, UiPcs
<1>5. PlacesInv' /\ CopyInv'
  BY <1>1, <1>2, <1>3 DEF RoomsInv, PlacesInv, CopyInv, Assigning
<1>6. ASSUME NEW c \in Cams PROVE CamInv(c)'
  <2>1. CASE c = cc
    <3>1. /\ cams'[c].videosrc = From /\ cams'[c].title = cams[c].title
          /\ playing'[c] = Url(From.dev, rt.play)
      BY <1>1, <1>2, <1>3, <2>1
    <3>2. cams[c].title = From.dev
      BY <1>2, <1>3, <2>1 DEF RoomsInv, CamInv, Assigning
    <3>3. playing'[c] \in {None, Url(From.dev, From.play)}
      BY <1>3, <3>1 DEF Url
    <3>4. ui'.pc = "rest"
      BY <1>1, <1>2
    <3>5. QED
      BY <1>3, <3>1, <3>2, <3>3, <3>4 DEF CamInv, Assigning
  <2>2. CASE c # cc
    <3>1. cams'[c] = cams[c] /\ playing'[c] = playing[c]
      BY <1>1, <1>2, <2>2
    <3>2. QED
      BY <1>1, <1>2, <2>2, <3>1 DEF RoomsInv, CamInv, Assigning
  <2>3. QED
    BY <2>1, <2>2
<1>7. QED
  BY <1>4, <1>5, <1>6 DEF RoomsInv

(* Another stream of a cam's own copy.                                      *)
LEMMA PlayStreamStep ==
    ASSUME RowsFindPlaces, RoomsInv, NEW c \in Cams, NEW n \in Names,
           OnSelectPlayStream(c, n)
    PROVE  RoomsInv'
<1>1. /\ rt \in Routers /\ rt.camCtrl \in Cams
      /\ cams \in [Cams -> [title : Device, videosrc : Source]]
      /\ playing \in [Cams -> (Devices \X Names) \cup {None}]
  BY SourceFacts DEF RoomsInv, TypeOK
<1>2. PICK play \in {n, None} :
        /\ cams' = [cams EXCEPT ![c].videosrc.play = play]
        /\ playing' = [playing EXCEPT ![c] = Url(cams[c].videosrc.dev, play)]
        /\ play # None => n \in cams[c].videosrc.urls
  BY DEF OnSelectPlayStream
<1>3. /\ ui.pc = "rest"
      /\ UNCHANGED <<videoURL, load, painted, rt, ui, cmd, preset, sent, fault>>
  BY DEF OnSelectPlayStream, Rest, looks, routerVars, cmds
<1>4. /\ cams'[c].videosrc.play = play /\ cams'[c].title = cams[c].title
      /\ cams'[c].videosrc.dev = cams[c].videosrc.dev
      /\ cams'[c].videosrc.urls = cams[c].videosrc.urls
      /\ \A d \in Cams : d # c => cams'[d] = cams[d] /\ playing'[d] = playing[d]
      /\ playing'[c] = Url(cams[c].videosrc.dev, play)
      /\ cams' \in [Cams -> [title : Device, videosrc : Source]]
  BY <1>1, <1>2 DEF Source
<1>5. play # None => cams[c].videosrc.dev \in Devices
  BY <1>1, <1>2 DEF RoomsInv, CamInv, Source, Device
<1>6. TypeOK'
  <2>1. Url(cams[c].videosrc.dev, play) \in (Devices \X Names) \cup {None}
    BY <1>2, <1>5 DEF Url
  <2>2. QED
    BY <1>1, <1>2, <1>3, <1>4, <2>1 DEF RoomsInv, TypeOK, RouterTypeOK
<1>7. PlacesInv' /\ CopyInv'
  BY <1>1, <1>3, <1>4 DEF RoomsInv, PlacesInv, CopyInv, Assigning
<1>8. ASSUME NEW d \in Cams PROVE CamInv(d)'
  BY <1>2, <1>3, <1>4, <1>5, <1>8, RouterAssumption DEF RoomsInv, CamInv, Assigning
<1>9. QED
  BY <1>6, <1>7, <1>8 DEF RoomsInv

LEMMA RoomsStep ==
    ASSUME RowsFindPlaces, RoomsInv, [Next]_vars
    PROVE  RoomsInv'
<1>1. CASE UpdataStatus
  <2>1. UNCHANGED <<videoURL, load, cams, playing, rt, ui, cmd, preset, sent, fault>>
    BY <1>1 DEF UpdataStatus, looks, routerVars, cmds
  <2>2. painted' \subseteq DeviceRows
    BY <1>1 DEF UpdataStatus, RoomsInv, TypeOK
  <2>3. QED
    BY <2>1, <2>2 DEF RoomsInv, TypeOK, RouterTypeOK, PlacesInv, CopyInv,
       CamInv, Assigning, From
<1>2. CASE UNCHANGED vars
  BY <1>2 DEF vars, looks, shows, routerVars, cmds, RoomsInv, TypeOK,
     RouterTypeOK, PlacesInv, CopyInv, CamInv, Assigning, From
<1>3. QED
  BY <1>1, <1>2, LoadSourceStep, SelectStep, AssignRouterStep, AssignCamStep,
     PlayStreamStep DEF Next, Assigns, Others

-----------------------------------------------------------------------------
(* RoomsInv is inductive: places, the Router's copy as far as it has come,  *)
(* and each cam's title, copy and player.                                   *)
THEOREM RoomsInductive == Spec => []RoomsInv
<1>1. Init => RoomsInv
  BY RoomsInit, RowsLeadToPlaces
<1>2. RoomsInv /\ [Next]_vars => RoomsInv'
  BY RoomsStep, RowsLeadToPlaces
<1>3. QED
  BY <1>1, <1>2, PTL DEF Spec

(* OnSelectRoomItem gives a cam the device that its row and title name.     *)
THEOREM TitlesNameDevices == Spec => []TitleNamesDevice
<1>1. RoomsInv => TitleNamesDevice
  BY DEF RoomsInv, CamInv, TitleNamesDevice, Assigning, Rest
<1>2. QED
  BY <1>1, RoomsInductive, PTL

(* A player plays nothing, or the stream that its own cam's copy says,      *)
(* although LoadSource goes on between the Router's copy and the cam's.     *)
THEOREM PlayersPlayTheirOwn == Spec => []PlaysItsOwn
<1>1. RoomsInv => PlaysItsOwn
  BY DEF RoomsInv, CamInv, PlaysItsOwn
<1>2. QED
  BY <1>1, RoomsInductive, PTL

(* Between two handlers the Router holds one cam, the ip, the model and the *)
(* port of that cam's device and no other device's token.                   *)
THEOREM RouterFollowsCam == Spec => []RouterFollows
<1>1. RoomsInv => RouterFollows
  BY DEF RoomsInv, CopyInv, RouterFollows, Rest
<1>2. QED
  BY <1>1, RoomsInductive, PTL
=============================================================================
