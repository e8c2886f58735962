---------------------------- MODULE CommandProofs ----------------------------
(***************************************************************************)
(* Proofs about Command, for any bytes and any number of calls: what Sum   *)
(* computes, that a device reads back what was set, and that it sees when  *)
(* one byte of a frame has changed.                                        *)
(***************************************************************************)
EXTENDS Command, FiniteSetTheorems, WellFoundedInduction, TLAPS

Fields == {"address", "ctype", "cmd", "data", "check", "cmdset"}

(* An object with data that fits a frame. *)
Object(C) == /\ DOMAIN C = Fields
             /\ C.data \in Seq(Bytes) /\ Len(C.data) < Byte

(* The bytes of the object are the frame of its fields. *)
Framed(C) ==
    /\ C.check = CheckOf(C.address, C.ctype, C.cmd, C.data)
    /\ \A i \in 0..(6 + Len(C.data)) : C.cmdset[i] = FrameOf(C)[i + 1]

SameFields(C, D) == /\ C.address = D.address /\ C.ctype = D.ctype
                    /\ C.cmd = D.cmd /\ C.data = D.data

(* The object holds what the setters were given, its data cut to the length *)
(* that a byte can hold; once a setter has run, its bytes are the frame.    *)
CommandInv ==
    /\ Object(command)
    /\ given.data \in Seq(Bytes)
    /\ DOMAIN given = {"address", "ctype", "cmd", "data", "set"}
    /\ command.address = given.address /\ command.ctype = given.ctype
    /\ command.cmd = given.cmd
    /\ command.data = SubSeq(given.data, 1, Len(given.data) % Byte)
    /\ given.set => Framed(command)

-----------------------------------------------------------------------------
(* A set of numbers has a least one: the induction of the proofs below is   *)
(* by the least number at which a claim fails.                              *)
LEMMA LeastNumber ==
    ASSUME NEW S, S \subseteq Nat, S # {}
    PROVE  \E n \in S : \A m \in S : n <= m
<1>1. PICK n \in S : TRUE
  OBVIOUS
<1> DEFINE Below == {T \in SUBSET (0..n) : \E k \in S : T = 0..k}
           R == StrictSubsetOrdering(0..n)
<1>2. IsWellFoundedOn(R, SUBSET (0..n))
  <2>1. IsFiniteSet(0..n)
    BY <1>1, FS_Interval
  <2>2. FiniteSubsetsOf(0..n) = SUBSET (0..n)
    BY <2>1, FS_FiniteSubsetsOfFinite
  <2>3. QED
    BY <2>2, FS_StrictSubsetOrderingWellFounded
<1>3. Below \subseteq SUBSET (0..n) /\ Below # {}
  BY <1>1
<1>4. PICK T \in Below : \A U \in Below : ~(<<U, T>> \in R)
  <2> HIDE DEF Below, R
  <2>1. QED
    BY <1>2, <1>3, WFMin
<1>5. PICK k \in S : T = 0..k
  OBVIOUS
<1>6. ASSUME NEW m \in S, m < k PROVE FALSE
  <2>1. 0..m \in Below
    BY <1>5, <1>6
  <2>2. 0..m \subseteq 0..k /\ 0..m # 0..k
    BY <1>6
  <2>3. QED
    BY <1>4, <1>5, <2>1, <2>2 DEF StrictSubsetOrdering
<1>7. QED
  BY <1>6

(* P[n] is the sum of the first n elements of s, added one after the other. *)
Sums(P, N, s) ==
    /\ P \in [0..N -> Int]
    /\ P[0] = 0 /\ \A n \in 1..N : P[n] = P[n - 1] + s[n]

LEMMA SumsExist ==
    ASSUME NEW N \in Nat, NEW s, \A n \in 1..N : s[n] \in Int
    PROVE  \E P : Sums(P, N, s)
<1> DEFINE Bad == {n \in 0..N : ~ \E P : Sums(P, n, s)}
<1>1. ASSUME Bad # {} PROVE FALSE
  <2>1. PICK n \in Bad : \A m \in Bad : n <= m
    <3>1. Bad \subseteq Nat
      OBVIOUS
    <3> HIDE DEF Bad
    <3>2. QED
      BY <1>1, <3>1, LeastNumber
  <2>2. CASE n = 0
    <3>1. Sums([i \in 0..0 |-> 0], 0, s)
      BY DEF Sums
    <3>2. QED
      BY <2>2, <3>1
  <2>3. CASE n > 0
    <3>1. n - 1 \in 0..N /\ n - 1 \notin Bad
      BY <2>1, <2>3
    <3>2. PICK P : Sums(P, n - 1, s)
      BY <3>1
    <3> DEFINE Q == [i \in 0..n |-> IF i < n THEN P[i] ELSE P[n - 1] + s[n]]
    <3>3. /\ P \in [0..(n - 1) -> Int] /\ P[0] = 0
          /\ \A i \in 1..(n - 1) : P[i] = P[i - 1] + s[i]
      BY <3>2 DEF Sums
    <3>4. Q \in [0..n -> Int] /\ Q[0] = 0
      BY <2>3, <3>3
    <3>5. ASSUME NEW i \in 1..n PROVE Q[i] = Q[i - 1] + s[i]
      <4>1. i - 1 \in 0..n /\ i - 1 < n /\ Q[i - 1] = P[i - 1]
        OBVIOUS
      <4>2. CASE i < n
        BY <3>3, <4>1, <4>2
      <4>3. CASE i = n
        BY <4>1, <4>3
      <4>4. QED
        BY <4>2, <4>3
    <3>6. QED
      BY <3>4, <3>5 DEF Sums
  <2>4. QED
    BY <2>2, <2>3
<1>2. QED
  BY <1>1

(* Adding by halves, as Sum does, gives the same. *)
Halves(f, s) ==
    f = [r \in (0..Len(s)) \X (0..Len(s)) |->
           LET lo == r[1]
               hi == r[2]
               mid == (lo + hi) \div 2
           IN  IF lo >= hi THEN 0
               ELSE IF lo + 1 = hi THEN s[hi]
               ELSE f[<<lo, mid>>] + f[<<mid, hi>>]]

(* Halving a stretch of two elements or more leaves something on each side.  *)
LEMMA Middle ==
    ASSUME NEW a \in Int, NEW b \in Int, a + 1 < b
    PROVE  LET mid == (a + b) \div 2 IN mid \in Int /\ a < mid /\ mid < b
<1> DEFINE x == a + b
<1>1. x \in Int /\ a + a + 1 < x /\ x + 1 < b + b
  OBVIOUS
<1> HIDE DEF x
<1>2. x \div 2 \in Int /\ x - 1 <= 2 * (x \div 2) /\ 2 * (x \div 2) <= x
  BY <1>1
<1>3. a < x \div 2 /\ x \div 2 < b
  BY <1>1, <1>2
<1>4. QED
  BY <1>2, <1>3 DEF x

LEMMA HalvesAdd ==
    ASSUME NEW s \in Seq(Int), NEW P, Sums(P, Len(s), s), NEW f, Halves(f, s),
           NEW lo \in 0..Len(s), NEW hi \in 0..Len(s), lo <= hi
    PROVE  f[<<lo, hi>>] = P[hi] - P[lo]
<1> DEFINE N == Len(s)
           Wrong(n) == \E a, b \in 0..N : b - a = n /\ f[<<a, b>>] # P[b] - P[a]
           Bad == {n \in 0..N : Wrong(n)}
<1>1. /\ N \in Nat /\ P \in [0..N -> Int]
      /\ \A n \in 1..N : P[n] = P[n - 1] + s[n] /\ s[n] \in Int
  BY DEF Sums
<1>2. ASSUME NEW a \in 0..N, NEW b \in 0..N
      PROVE  f[<<a, b>>] = IF a >= b THEN 0
                       ELSE IF a + 1 = b THEN s[b]
                       ELSE LET mid == (a + b) \div 2 IN f[<<a, mid>>] + f[<<mid, b>>]
  BY DEF Halves
<1>3. ASSUME Bad # {} PROVE FALSE
  <2>1. PICK n \in Bad : \A m \in Bad : n <= m
    <3>1. Bad \subseteq Nat
      BY <1>1
    <3> HIDE DEF Bad
    <3>2. QED
      BY <1>3, <3>1, LeastNumber
  <2>2. PICK a \in 0..N, b \in 0..N : b - a = n /\ f[<<a, b>>] # P[b] - P[a]
    OBVIOUS
  <2>3. CASE n = 0
    <3>1. a = b
      BY <1>1, <2>2, <2>3
    <3>2. f[<<a, b>>] = 0
      BY <1>1, <1>2, <3>1
    <3>3. P[b] - P[a] = 0
      <4>1. P[a] \in Int
        BY <1>1
      <4>2. QED
        BY <3>1, <4>1
    <3>4. QED
      BY <2>2, <3>2, <3>3
  <2>4. CASE n = 1
    <3>1. b = a + 1 /\ b \in 1..N /\ ~(a >= b)
      BY SMTT(30), <1>1, <2>2, <2>4
    <3>2. f[<<a, b>>] = s[b]
      BY <1>1, <1>2, <3>1
    <3>3. P[b] = P[b - 1] + s[b] /\ s[b] \in Int /\ b - 1 = a
      BY <1>1, <3>1
    <3>4. P[a] \in Int
      BY <1>1
    <3>5. P[b] - P[a] = s[b]
      BY <3>3, <3>4
    <3>6. QED
      BY <2>2, <3>2, <3>5
  <2>5. CASE n > 1
    <3> DEFINE mid == (a + b) \div 2
    <3>1. mid \in 0..N /\ a < mid /\ mid < b
      <4>1. a \in Int /\ b \in Int /\ a + 1 < b /\ 0 <= a /\ b <= N /\ N \in Nat
        BY <1>1, <2>2, <2>5
      <4>2. mid \in Int /\ a < mid /\ mid < b
        BY <4>1, Middle
      <4> HIDE DEF mid
      <4>3. QED
        BY <4>1, <4>2
    <3>2. f[<<a, b>>] = f[<<a, mid>>] + f[<<mid, b>>]
      BY <1>1, <1>2, <2>2, <2>5
    <3> HIDE DEF mid
    <3>3. mid - a \in 0..N /\ b - mid \in 0..N /\ mid - a < n /\ b - mid < n
      BY <1>1, <2>2, <3>1
    <3>4. mid - a \notin Bad /\ b - mid \notin Bad
      <4>1. \A m \in Bad : n <= m
        BY <2>1
      <4> HIDE DEF Bad
      <4>2. QED
        <5>1. n \in Int /\ mid - a \in Int /\ b - mid \in Int
          BY <1>1, <2>2, <3>3
        <5>2. QED
          BY <3>3, <4>1, <5>1
    <3>5. f[<<a, mid>>] = P[mid] - P[a] /\ f[<<mid, b>>] = P[b] - P[mid]
      BY <3>1, <3>3, <3>4
    <3>6. P[a] \in Int /\ P[b] \in Int /\ P[mid] \in Int
      BY <1>1, <3>1
    <3>7. (P[mid] - P[a]) + (P[b] - P[mid]) = P[b] - P[a]
      BY <3>6
    <3>8. QED
      BY <2>2, <3>2, <3>5, <3>7
  <2>6. QED
    BY <1>1, <2>3, <2>4, <2>5
<1>4. hi - lo \in 0..N
  BY <1>1
<1>5. QED
  BY <1>3, <1>4

(* Sum is the sum of all elements, added in their order. *)
LEMMA SumAdds ==
    ASSUME NEW s \in Seq(Int), NEW P, Sums(P, Len(s), s)
    PROVE  Sum(s) = P[Len(s)]
<1> DEFINE N == Len(s)
           F == CHOOSE f : f = [r \in (0..Len(s)) \X (0..Len(s)) |->
                  LET lo == r[1]
                      hi == r[2]
                      mid == (lo + hi) \div 2
                  IN  IF lo >= hi THEN 0
                      ELSE IF lo + 1 = hi THEN s[hi]
                      ELSE f[<<lo, mid>>] + f[<<mid, hi>>]]
           g == [r \in (0..Len(s)) \X (0..Len(s)) |->
                  IF r[1] >= r[2] THEN 0 ELSE P[r[2]] - P[r[1]]]
<1>1. /\ N \in Nat /\ P \in [0..N -> Int] /\ P[0] = 0
      /\ \A n \in 1..N : P[n] = P[n - 1] + s[n] /\ s[n] \in Int
  BY DEF Sums
<1>2. ASSUME NEW lo \in 0..N, NEW hi \in 0..N
      PROVE  g[<<lo, hi>>] = IF lo >= hi THEN 0
                ELSE IF lo + 1 = hi THEN s[hi]
                ELSE LET mid == (lo + hi) \div 2 IN g[<<lo, mid>>] + g[<<mid, hi>>]
  <2>1. CASE lo >= hi
    BY <1>1, <2>1
  <2>2. CASE lo + 1 = hi
    <3>1. hi \in 1..N /\ hi - 1 = lo /\ ~(lo >= hi)
      BY <1>1, <2>2
    <3>2. P[hi] = P[lo] + s[hi]
      BY <1>1, <3>1
    <3>3. QED
      BY <1>1, <2>2, <3>1, <3>2
  <2>3. CASE lo + 1 < hi
    <3> DEFINE mid == (lo + hi) \div 2
    <3>1. mid \in 0..N /\ lo < mid /\ mid < hi
      <4>1. lo \in Int /\ hi \in Int /\ 0 <= lo /\ hi <= N /\ N \in Nat
        BY <1>1
      <4>2. mid \in Int /\ lo < mid /\ mid < hi
        BY <2>3, <4>1, Middle
      <4> HIDE DEF mid
      <4>3. QED
        BY <4>1, <4>2
    <3>2. g[<<lo, mid>>] = P[mid] - P[lo] /\ g[<<mid, hi>>] = P[hi] - P[mid]
      <4> HIDE DEF mid
      <4>1. QED
        BY SMTT(30), <1>1, <3>1
    <3>3. g[<<lo, hi>>] = P[hi] - P[lo]
      BY <1>1, <2>3
    <3>4. g[<<lo, hi>>] = g[<<lo, mid>>] + g[<<mid, hi>>]
      <4> HIDE DEF mid, g
      <4>1. P[lo] \in Int /\ P[hi] \in Int /\ P[mid] \in Int
        BY <1>1, <3>1
      <4>2. P[hi] - P[lo] = (P[mid] - P[lo]) + (P[hi] - P[mid])
        BY <4>1
      <4>3. QED
        BY <3>2, <3>3, <4>2
    <3>5. QED
      BY <1>1, <2>3, <3>4
  <2>4. QED
    BY <1>1, <2>1, <2>2, <2>3
<1>3. Halves(g, s)
  <2>1. g = [r \in (0..N) \X (0..N) |-> g[r]]
    OBVIOUS
  <2> HIDE DEF g
  <2>2. ASSUME NEW r \in (0..N) \X (0..N)
        PROVE  g[r] = LET lo == r[1]
                          hi == r[2]
                          mid == (lo + hi) \div 2
                      IN  IF lo >= hi THEN 0
                          ELSE IF lo + 1 = hi THEN s[hi]
                          ELSE g[<<lo, mid>>] + g[<<mid, hi>>]
    <3>1. r[1] \in 0..N /\ r[2] \in 0..N /\ r = <<r[1], r[2]>>
      OBVIOUS
    <3>2. QED
      BY <1>2, <3>1
  <2>3. QED
    BY <2>1, <2>2 DEF Halves
<1>4. Halves(F, s)
  <2> HIDE DEF g
  <2>1. QED
    BY <1>3 DEF Halves
<1>5. Sum(s) = F[<<0, Len(s)>>]
  BY DEF Sum
<1> HIDE DEF F, g
<1>6. F[<<0, N>>] = P[N] - P[0]
  BY <1>1, <1>4, HalvesAdd
<1>7. QED
  BY <1>1, <1>5, <1>6

LEMMA SumIsInt == ASSUME NEW s \in Seq(Int) PROVE Sum(s) \in Int
<1>1. Len(s) \in Nat /\ \A n \in 1..Len(s) : s[n] \in Int
  OBVIOUS
<1>2. PICK P : Sums(P, Len(s), s)
  BY <1>1, SumsExist
<1>3. QED
  <2>1. Sum(s) = P[Len(s)]
    BY <1>2, SumAdds
  <2>2. P[Len(s)] \in Int
    BY <1>1, <1>2 DEF Sums
  <2>3. QED
    BY <2>1, <2>2

(* Changing one element changes the sum by as much. *)
LEMMA SumChanges ==
    ASSUME NEW s \in Seq(Int), NEW t \in Seq(Int), Len(s) = Len(t),
           NEW k \in 1..Len(s),
           \A j \in 1..Len(s) : j # k => s[j] = t[j]
    PROVE  Sum(s) - Sum(t) = s[k] - t[k]
<1> DEFINE N == Len(s)
           Change(n) == IF n < k THEN 0 ELSE s[k] - t[k]
<1>1. /\ N \in Nat /\ k \in 1..N
      /\ \A n \in 1..N : s[n] \in Int /\ t[n] \in Int
  OBVIOUS
<1>2. PICK P : Sums(P, N, s)
  BY <1>1, SumsExist
<1>3. PICK Q : Sums(Q, N, t)
  BY <1>1, SumsExist
<1>4. \A n \in 0..N : P[n] \in Int /\ Q[n] \in Int
  BY <1>2, <1>3 DEF Sums
<1> DEFINE Bad == {n \in 0..N : P[n] - Q[n] # Change(n)}
<1>5. ASSUME Bad # {} PROVE FALSE
  <2>1. PICK n \in Bad : \A m \in Bad : n <= m
    <3>1. Bad \subseteq Nat
      BY <1>1
    <3> HIDE DEF Bad
    <3>2. QED
      BY <1>5, <3>1, LeastNumber
  <2>2. CASE n = 0
    BY <1>1, <1>2, <1>3, <2>2 DEF Sums
  <2>3. CASE n # 0
    <3>1. n \in 1..N /\ n - 1 \in 0..N /\ n - 1 < n
      BY <1>1, <2>3
    <3>2. n - 1 \notin Bad
      <4>1. \A m \in Bad : n <= m
        BY <2>1
      <4> HIDE DEF Bad
      <4>2. QED
        BY <1>1, <3>1, <4>1
    <3>3. P[n - 1] - Q[n - 1] = Change(n - 1)
      BY <3>1, <3>2
    <3>4. P[n] = P[n - 1] + s[n] /\ Q[n] = Q[n - 1] + t[n]
      BY <1>2, <1>3, <3>1 DEF Sums
    <3>5. /\ P[n - 1] \in Int /\ Q[n - 1] \in Int
          /\ s[n] \in Int /\ t[n] \in Int
      BY <1>1, <1>4, <3>1
    <3>6. P[n] - Q[n] = Change(n - 1) + (s[n] - t[n])
      <4> HIDE DEF Change
      <4>1. P[n] - Q[n] = (P[n - 1] - Q[n - 1]) + (s[n] - t[n])
        <5> HIDE DEF N
        <5>1. QED
          BY SMTT(30), <3>4, <3>5
      <4>2. QED
        BY <3>3, <4>1
    <3>7. Change(n - 1) + (s[n] - t[n]) = Change(n)
      <4>1. CASE n < k
        BY <1>1, <3>1, <3>5, <4>1
      <4>2. CASE n = k
        BY <1>1, <3>1, <3>5, <4>2
      <4>3. CASE n > k
        BY SMTT(30), <1>1, <3>1, <3>5, <4>3
      <4>4. QED
        BY <1>1, <3>1, <4>1, <4>2, <4>3
    <3>8. QED
      BY <3>6, <3>7
  <2>4. QED
    BY <2>2, <2>3
<1>6. P[N] - Q[N] = Change(N)
  BY <1>1, <1>5
<1>7. QED
  BY <1>1, <1>2, <1>3, <1>6, SumAdds

-----------------------------------------------------------------------------
(* update computes the checksum and then writes the frame. *)
LEMMA UpdateFrames ==
    ASSUME NEW C, Object(C)
    PROVE  Object(update(C)) /\ Framed(update(C)) /\ SameFields(update(C), C)
<1>4. Len(C.data) \in Nat /\ Len(C.data) <= 255
  <2>1. Len(C.data) \in Nat /\ Len(C.data) < 256
    BY DEF Object, Byte
  <2>2. QED
    BY <2>1
<1> DEFINE D == calcCheck(C)
           E == makecmd(D)
<1>1. /\ DOMAIN D = Fields /\ SameFields(D, C) /\ D.cmdset = C.cmdset
      /\ D.check = CheckOf(C.address, C.ctype, C.cmd, C.data)
  BY DEF calcCheck, Object, Fields, SameFields
<1>2. /\ DOMAIN E = Fields /\ SameFields(E, D) /\ E.check = D.check
  BY <1>1 DEF makecmd, Fields, SameFields
<1>3. E.cmdset = [i \in 0..(max_length - 1) |->
        IF i < getCmdLength(D) THEN FrameOf(D)[i + 1] ELSE D.cmdset[i]]
  BY <1>1 DEF makecmd, Fields
<1>5. E = update(C)
  BY DEF update
<1> HIDE DEF E, D
<1>6. D.data = C.data /\ E.data = C.data
  BY <1>1, <1>2 DEF SameFields
<1>7. FrameOf(E) = FrameOf(D)
  BY <1>1, <1>2, <1>6 DEF SameFields, FrameOf, length
<1>8. \A i \in 0..(6 + Len(C.data)) : E.cmdset[i] = FrameOf(D)[i + 1]
  <2> TAKE i \in 0..(6 + Len(C.data))
  <2>1. i \in 0..(max_length - 1) /\ i < getCmdLength(D)
    <3>1. getCmdLength(D) = Len(C.data) + 7
      BY <1>6 DEF getCmdLength, length
    <3>2. max_length - 1 = 261
      BY DEF max_length
    <3>3. i \in 0..261 /\ i < Len(C.data) + 7
      BY <1>4
    <3>4. QED
      BY <3>1, <3>2, <3>3
  <2>2. QED
    BY <1>3, <2>1
<1>9. Object(E) /\ SameFields(E, C)
  BY <1>1, <1>2 DEF Object, SameFields
<1>10. Framed(E)
  BY <1>1, <1>2, <1>6, <1>7, <1>8 DEF Framed, SameFields
<1>11. QED
  BY <1>5, <1>9, <1>10

(* Where the bytes of a frame are. *)
LEMMA FrameBytes ==
    ASSUME NEW C, Object(C)
    PROVE  /\ FrameOf(C)[1] = Begin /\ FrameOf(C)[2] = C.address
           /\ FrameOf(C)[3] = C.ctype /\ FrameOf(C)[4] = C.cmd
           /\ FrameOf(C)[5] = Len(C.data)
           /\ \A i \in 1..Len(C.data) : FrameOf(C)[5 + i] = C.data[i]
           /\ FrameOf(C)[6 + Len(C.data)] = C.check
           /\ FrameOf(C)[7 + Len(C.data)] = End
BY DEF Object, FrameOf, length

(* Each setter writes its field and the frame. *)
LEMMA Setters ==
    ASSUME NEW C, Object(C), NEW v
    PROVE  /\ /\ Object(setAddress(C, v)) /\ Framed(setAddress(C, v))
              /\ SameFields(setAddress(C, v), [C EXCEPT !.address = v])
           /\ /\ Object(setType(C, v)) /\ Framed(setType(C, v))
              /\ SameFields(setType(C, v), [C EXCEPT !.ctype = v])
           /\ /\ Object(setCmd(C, v)) /\ Framed(setCmd(C, v))
              /\ SameFields(setCmd(C, v), [C EXCEPT !.cmd = v])
<1>1. /\ Object([C EXCEPT !.address = v]) /\ Object([C EXCEPT !.ctype = v])
      /\ Object([C EXCEPT !.cmd = v])
  BY DEF Object, Fields
<1>2. QED
  BY <1>1, UpdateFrames DEF setAddress, setType, setCmd

(* setData writes what fits the length byte. *)
LEMMA DataSetter ==
    ASSUME NEW C, Object(C), NEW d \in Seq(Bytes)
    PROVE  LET D == setData(C, d, Len(d))
               s == SubSeq(d, 1, Len(d) % Byte)
           IN  /\ s \in Seq(Bytes) /\ Len(s) < Byte
               /\ Object(D) /\ Framed(D)
               /\ SameFields(D, [C EXCEPT !.data = s])
<1> DEFINE n == Len(d) % Byte
           s == SubSeq(d, 1, n)
<1>1. Len(d) \in Nat
  OBVIOUS
<1>2. n \in 0..Len(d) /\ n < Byte
  BY <1>1 DEF Byte
<1>3. s \in Seq(Bytes) /\ Len(s) = n
  BY <1>2
<1> HIDE DEF s
<1>4. Object([C EXCEPT !.data = s])
  BY <1>2, <1>3 DEF Object, Fields
<1>5. setData(C, d, Len(d)) = update([C EXCEPT !.data = s])
  BY <1>1 DEF setData, s
<1>6. QED
  BY <1>2, <1>3, <1>4, <1>5, UpdateFrames DEF s
-----------------------------------------------------------------------------
(* The data of the table's commands are bytes. *)
LEMMA Rows == ASSUME NEW row \in Requests PROVE row[4] \in Seq(Bytes)
<1>1. CASE row \in Table
  <2>1. CASE row \in { <<0, 3, 144, <<>> >>,
                       <<0, 2, 130, <<0>> >>, <<0, 2, 130, <<1>> >>,
                       <<0, 2, 104, <<0, 1>> >>, <<0, 2, 104, <<0, 0>> >>,
                       <<0, 2, 11, <<35>> >>, <<0, 2, 11, <<50>> >> }
    <3>1. CASE row = <<0, 3, 144, <<>> >>
      BY <3>1 DEF Bytes, Byte
    <3>2. CASE row = <<0, 2, 130, <<0>> >>
      BY <3>2 DEF Bytes, Byte
    <3>3. CASE row = <<0, 2, 130, <<1>> >>
      BY <3>3 DEF Bytes, Byte
    <3>4. CASE row = <<0, 2, 104, <<0, 1>> >>
      BY <3>4 DEF Bytes, Byte
    <3>5. CASE row = <<0, 2, 104, <<0, 0>> >>
      BY <3>5 DEF Bytes, Byte
    <3>6. CASE row = <<0, 2, 11, <<35>> >>
      BY <3>6 DEF Bytes, Byte
    <3>7. CASE row = <<0, 2, 11, <<50>> >>
      BY <3>7 DEF Bytes, Byte
    <3>8. QED
      BY <2>1, <3>1, <3>2, <3>3, <3>4, <3>5, <3>6, <3>7, Zenon
  <2>2. CASE \E sound \in 0..3, step \in {1, 255} :
               row = <<0, 2, 68, <<sound, step>> >>
    BY <2>2 DEF Bytes, Byte
  <2>3. CASE row = <<0, 2, 68, <<0, 0>> >>
    BY <2>3 DEF Bytes, Byte
  <2>4. QED
    BY <1>1, <2>1, <2>2, <2>3 DEF Table
<1>2. CASE \E a \in Addresses, sd \in 0..3 : row = GetCurrentSound(a, sd)
  BY <1>2 DEF GetCurrentSound, Bytes, Byte
<1>3. QED
  BY <1>1, <1>2 DEF Requests

(* parseCommand sets all fields. *)
LEMMA Parsed ==
    ASSUME NEW C, Object(C), NEW a, NEW t, NEW c, NEW d \in Seq(Bytes)
    PROVE  LET D == parseCommand(C, a, t, c, d)
           IN  /\ Object(D) /\ Framed(D)
               /\ D.address = a /\ D.ctype = t /\ D.cmd = c
               /\ D.data = SubSeq(d, 1, Len(d) % Byte)
<1> DEFINE C1 == setAddress(C, a)
           C2 == setType(C1, t)
           C3 == setCmd(C2, c)
           D  == setData(C3, d, Len(d))
<1>1. Object(C1) /\ C1.address = a
  BY Setters DEF SameFields, Object, Fields
<1> HIDE DEF C1
<1>2. Object(C2) /\ C2.address = a /\ C2.ctype = t
  BY <1>1, Setters DEF SameFields, Object, Fields
<1> HIDE DEF C2
<1>3. Object(C3) /\ C3.address = a /\ C3.ctype = t /\ C3.cmd = c
  BY <1>2, Setters DEF SameFields, Object, Fields
<1> HIDE DEF C3
<1>4. /\ Object(D) /\ Framed(D)
      /\ SameFields(D, [C3 EXCEPT !.data = SubSeq(d, 1, Len(d) % Byte)])
  BY <1>3, DataSetter
<1>5. D.address = a /\ D.ctype = t /\ D.cmd = c
      /\ D.data = SubSeq(d, 1, Len(d) % Byte)
  <2> HIDE DEF D
  <2>1. QED
    BY <1>3, <1>4 DEF SameFields, Object, Fields
<1>6. D = parseCommand(C, a, t, c, d)
  BY DEF parseCommand, C3, C2, C1
<1>7. QED
  BY <1>4, <1>5, <1>6

-----------------------------------------------------------------------------
LEMMA InitInv == Init => CommandInv
<1> SUFFICES ASSUME Init PROVE CommandInv
  OBVIOUS
<1>1. /\ DOMAIN command = Fields /\ command.address = 1
      /\ command.ctype = 240 /\ command.cmd = 0 /\ command.data = <<>>
  BY DEF Init, NewCommand, makecmd, Fields
<1>2. /\ DOMAIN given = {"address", "ctype", "cmd", "data", "set"}
      /\ given.address = 1 /\ given.ctype = 240 /\ given.cmd = 0
      /\ given.data = <<>> /\ given.set = FALSE
  BY DEF Init
<1>3. <<>> \in Seq(Bytes) /\ Len(<<>>) = 0 /\ 0 < Byte /\ 0 % Byte = 0
      /\ SubSeq(<<>>, 1, 0) = <<>>
  BY DEF Byte
<1>4. QED
  BY <1>1, <1>2, <1>3 DEF CommandInv, Object

(* Every call keeps the invariant. *)
LEMMA StepInv == CommandInv /\ Next => CommandInv'
<1> SUFFICES ASSUME CommandInv, Next PROVE CommandInv'
  OBVIOUS
<1>1. /\ Object(command) /\ given.data \in Seq(Bytes)
      /\ DOMAIN given = {"address", "ctype", "cmd", "data", "set"}
      /\ command.address = given.address /\ command.ctype = given.ctype
      /\ command.cmd = given.cmd
      /\ command.data = SubSeq(given.data, 1, Len(given.data) % Byte)
  BY DEF CommandInv
<1>2. CASE SetAddress
  <2>1. PICK v \in Addresses :
          /\ command' = setAddress(command, v)
          /\ given' = [given EXCEPT !.address = v, !.set = TRUE]
    BY <1>2 DEF SetAddress
  <2>2. Object(command') /\ Framed(command')
        /\ SameFields(command', [command EXCEPT !.address = v])
    BY <1>1, <2>1, Setters
  <2>3. QED
    BY <1>1, <2>1, <2>2 DEF CommandInv, SameFields, Object, Fields
<1>3. CASE SetType
  <2>1. PICK v \in Types :
          /\ command' = setType(command, v)
          /\ given' = [given EXCEPT !.ctype = v, !.set = TRUE]
    BY <1>3 DEF SetType
  <2>2. Object(command') /\ Framed(command')
        /\ SameFields(command', [command EXCEPT !.ctype = v])
    BY <1>1, <2>1, Setters
  <2>3. QED
    BY <1>1, <2>1, <2>2 DEF CommandInv, SameFields, Object, Fields
<1>4. CASE SetCmd
  <2>1. PICK v \in Cmds :
          /\ command' = setCmd(command, v)
          /\ given' = [given EXCEPT !.cmd = v, !.set = TRUE]
    BY <1>4 DEF SetCmd
  <2>2. Object(command') /\ Framed(command')
        /\ SameFields(command', [command EXCEPT !.cmd = v])
    BY <1>1, <2>1, Setters
  <2>3. QED
    BY <1>1, <2>1, <2>2 DEF CommandInv, SameFields, Object, Fields
<1>5. CASE SetData
  <2>1. PICK d \in Datas :
          /\ command' = setData(command, d, Len(d))
          /\ given' = [given EXCEPT !.data = d, !.set = TRUE]
    BY <1>5 DEF SetData
  <2>2. d \in Seq(Bytes)
    BY InputAssumption
  <2> DEFINE s == SubSeq(d, 1, Len(d) % Byte)
  <2>3. /\ s \in Seq(Bytes)
        /\ Object(command') /\ Framed(command')
        /\ SameFields(command', [command EXCEPT !.data = s])
    BY <1>1, <2>1, <2>2, DataSetter
  <2> HIDE DEF s
  <2>4. command'.data = s /\ command'.address = command.address
        /\ command'.ctype = command.ctype /\ command'.cmd = command.cmd
    BY <1>1, <2>3 DEF SameFields, Object, Fields
  <2>5. QED
    BY <1>1, <2>1, <2>2, <2>3, <2>4 DEF CommandInv, s
<1>6. CASE SetNothing
  <2>1. command' = command /\ given' = given
    BY <1>6 DEF SetNothing, setData
  <2>2. QED
    BY <2>1 DEF CommandInv
<1>7. CASE Parse
  <2>1. PICK row \in Requests :
          /\ command' = parseCommand(command, row[1], row[2], row[3], row[4])
          /\ given' = [address |-> row[1], ctype |-> row[2], cmd |-> row[3],
                       data |-> row[4], set |-> TRUE]
    BY <1>7 DEF Parse
  <2>2. row[4] \in Seq(Bytes)
    BY Rows
  <2>3. /\ Object(command') /\ Framed(command')
        /\ command'.address = row[1] /\ command'.ctype = row[2]
        /\ command'.cmd = row[3]
        /\ command'.data = SubSeq(row[4], 1, Len(row[4]) % Byte)
    BY <1>1, <2>1, <2>2, Parsed
  <2>4. /\ given'.address = row[1] /\ given'.ctype = row[2]
        /\ given'.cmd = row[3] /\ given'.data = row[4]
        /\ DOMAIN given' = {"address", "ctype", "cmd", "data", "set"}
    BY <2>1
  <2>5. QED
    BY <2>2, <2>3, <2>4 DEF CommandInv
<1>8. QED
  BY <1>2, <1>3, <1>4, <1>5, <1>6, <1>7 DEF Next

(* What a device reads from a frame are its fields. *)
LEMMA FrameRead ==
    ASSUME NEW C, Object(C), Framed(C)
    PROVE  /\ WellFormed(C.cmdset)
           /\ Read(C.cmdset) = [address |-> C.address, ctype |-> C.ctype,
                                cmd |-> C.cmd, data |-> C.data]
<1> DEFINE b == C.cmdset
           n == Len(C.data)
<1>1. n \in Nat
  BY DEF Object
<1>2. \A i \in 0..(6 + n) : b[i] = FrameOf(C)[i + 1]
  BY DEF Framed
<1>3. /\ b[0] = Begin /\ b[1] = C.address /\ b[2] = C.ctype
      /\ b[3] = C.cmd /\ b[4] = n
  <2>1. /\ b[0] = FrameOf(C)[1] /\ b[1] = FrameOf(C)[2]
        /\ b[2] = FrameOf(C)[3] /\ b[3] = FrameOf(C)[4]
        /\ b[4] = FrameOf(C)[5]
    BY <1>1, <1>2
  <2>2. QED
    BY <2>1, FrameBytes
<1>4. \A i \in 1..n : b[4 + i] = C.data[i]
  <2>1. \A i \in 1..n : b[4 + i] = FrameOf(C)[5 + i]
    BY <1>1, <1>2
  <2>2. QED
    BY <2>1, FrameBytes
<1>5. b[5 + n] = C.check /\ b[6 + n] = End
  <2>1. b[5 + n] = FrameOf(C)[6 + n] /\ b[6 + n] = FrameOf(C)[7 + n]
    BY <1>1, <1>2
  <2>2. QED
    BY <2>1, FrameBytes
<1>6. C.data = [i \in 1..n |-> b[4 + i]]
  <2>1. C.data = [i \in 1..n |-> C.data[i]]
    BY DEF Object
  <2>2. QED
    BY <1>4, <2>1
<1>7. Read(b) = [address |-> C.address, ctype |-> C.ctype,
                 cmd |-> C.cmd, data |-> C.data]
  BY <1>3, <1>6 DEF Read
<1>8. C.check = CheckOf(C.address, C.ctype, C.cmd, C.data)
  BY DEF Framed
<1>9. WellFormed(b)
  BY <1>3, <1>5, <1>7, <1>8 DEF WellFormed
<1>10. QED
  BY <1>7, <1>9

-----------------------------------------------------------------------------
(* The object holds what it was given, and its bytes are the frame of that. *)
THEOREM CommandInductive == Spec => []CommandInv
<1>1. CommandInv /\ UNCHANGED vars => CommandInv'
  BY DEF CommandInv, vars
<1>2. QED
  BY <1>1, InitInv, StepInv, PTL DEF Spec

(* Once a setter has run, a device reads from the bytes what was given, for *)
(* any fields, any data of up to 255 bytes and any order of the calls.      *)
THEOREM FramesDecode == Spec => []FrameDecodes
<1>1. CommandInv => FrameDecodes
  <2> SUFFICES ASSUME CommandInv, given.set, Len(given.data) < Byte
               PROVE  /\ WellFormed(command.cmdset)
                      /\ Read(command.cmdset)
                           = [address |-> given.address, ctype |-> given.ctype,
                              cmd |-> given.cmd, data |-> given.data]
    BY DEF FrameDecodes
  <2>1. Len(given.data) % Byte = Len(given.data)
    BY DEF CommandInv, Byte
  <2>2. SubSeq(given.data, 1, Len(given.data)) = given.data
    BY DEF CommandInv
  <2>3. command.data = given.data
    BY <2>1, <2>2 DEF CommandInv
  <2>4. QED
    BY <2>3, FrameRead DEF CommandInv
<1>2. QED
  BY <1>1, CommandInductive, PTL

-----------------------------------------------------------------------------
LEMMA CheckIsByte ==
    ASSUME NEW a \in Int, NEW t \in Int, NEW c \in Int, NEW d \in Seq(Int)
    PROVE  CheckOf(a, t, c, d) \in Bytes
<1>1. Sum(d) \in Int /\ Len(d) \in Int
  BY SumIsInt
<1> DEFINE x == a + t + c + Len(d) + Sum(d)
<1>2. x \in Int
  BY <1>1
<1> HIDE DEF x
<1>3. x % 256 \in 0..255
  BY <1>2
<1>4. QED
  BY <1>3 DEF CheckOf, x, Bytes, Byte

LEMMA BytesAreInts ==
    /\ Bytes \subseteq Int
    /\ \A d \in Seq(Bytes) : d \in Seq(Int) /\ Len(d) \in Nat
<1>1. Bytes \subseteq Int
  BY DEF Bytes, Byte
<1>2. ASSUME NEW d \in Seq(Bytes) PROVE d \in Seq(Int) /\ Len(d) \in Nat
  <2>1. Len(d) \in Nat /\ d \in [1..Len(d) -> Bytes]
    OBVIOUS
  <2>2. d \in [1..Len(d) -> Int]
    BY <1>1, <2>1
  <2>3. QED
    BY <2>1, <2>2
<1>3. QED
  BY <1>1, <1>2

(* The bytes of a frame are bytes, its checksum included. *)
LEMMA UpdateTyped ==
    ASSUME NEW C \in Frames, Len(C.data) < Byte
    PROVE  update(C) \in Frames
<1> DEFINE D == calcCheck(C)
           E == makecmd(D)
           n == Len(C.data)
<1>1. /\ C.address \in Bytes /\ C.ctype \in Bytes /\ C.cmd \in Bytes
      /\ C.data \in Seq(Bytes) /\ C.cmdset \in [0..(max_length - 1) -> Bytes]
      /\ Object(C)
  BY DEF Frames, Object, Fields
<1>2. n \in Nat /\ n \in Bytes
  <2>1. n \in Nat /\ n < 256
    BY <1>1 DEF Byte
  <2>2. n \in 0..255
    <3> HIDE DEF n
    <3>1. QED
      BY <2>1
  <2>3. Bytes = 0..255
    BY DEF Bytes, Byte
  <2>4. QED
    BY <2>1, <2>2, <2>3
<1>3. CheckOf(C.address, C.ctype, C.cmd, C.data) \in Bytes
  BY <1>1, BytesAreInts, CheckIsByte
<1>4. D \in Frames /\ D.cmdset = C.cmdset /\ D.data = C.data /\ Object(D)
  BY <1>1, <1>3 DEF calcCheck, Frames, Object, Fields
<1> HIDE DEF D
<1>5. ASSUME NEW i \in 0..(6 + n) PROVE FrameOf(D)[i + 1] \in Bytes
  <2>1. /\ D.address \in Bytes /\ D.ctype \in Bytes /\ D.cmd \in Bytes
        /\ D.check \in Bytes /\ \A j \in 1..n : D.data[j] \in Bytes
    BY <1>1, <1>4 DEF Frames
  <2>2. Begin \in Bytes /\ End \in Bytes
    BY DEF Begin, End, Bytes, Byte
  <2>3. /\ FrameOf(D)[1] = Begin /\ FrameOf(D)[2] = D.address
        /\ FrameOf(D)[3] = D.ctype /\ FrameOf(D)[4] = D.cmd
        /\ FrameOf(D)[5] = n
        /\ \A j \in 1..n : FrameOf(D)[5 + j] = D.data[j]
        /\ FrameOf(D)[6 + n] = D.check /\ FrameOf(D)[7 + n] = End
    BY <1>4, FrameBytes
  <2>4. CASE i \in 0..4
    BY <1>2, <2>1, <2>2, <2>3, <2>4
  <2>5. CASE i \in 5..(4 + n)
    <3>1. i - 4 \in 1..n /\ i + 1 = 5 + (i - 4)
      BY <1>2, <2>5
    <3>2. QED
      BY <2>1, <2>3, <3>1
  <2>6. CASE i = 5 + n
    BY <1>2, <2>1, <2>3, <2>6
  <2>7. CASE i = 6 + n
    BY <1>2, <2>2, <2>3, <2>7
  <2>8. QED
    BY <1>2, <2>4, <2>5, <2>6, <2>7
<1>6. E.cmdset \in [0..(max_length - 1) -> Bytes]
  <2>1. E.cmdset = [i \in 0..(max_length - 1) |->
          IF i < getCmdLength(D) THEN FrameOf(D)[i + 1] ELSE D.cmdset[i]]
    BY <1>4 DEF makecmd, Object, Fields
  <2>2. getCmdLength(D) = n + 7
    BY <1>4 DEF getCmdLength, length
  <2>3. ASSUME NEW i \in 0..(max_length - 1)
        PROVE  (IF i < getCmdLength(D) THEN FrameOf(D)[i + 1] ELSE D.cmdset[i])
                 \in Bytes
    <3>1. i \in Nat
      BY DEF max_length
    <3>2. CASE i < n + 7
      <4>1. i \in 0..(6 + n)
        BY <1>2, <3>1, <3>2
      <4>2. QED
        BY <1>5, <2>2, <3>2, <4>1
    <3>3. CASE ~(i < n + 7)
      BY <1>1, <1>4, <2>2, <3>3
    <3>4. QED
      BY <3>2, <3>3
  <2>4. QED
    BY <2>1, <2>3
<1>7. E \in Frames
  BY <1>4, <1>6 DEF makecmd, Frames
<1>8. QED
  BY <1>7 DEF update, D, E

(* The constructor writes the frame with no data.                           *)
LEMMA NewTyped == NewCommand \in Frames
<1> DEFINE C == [address |-> 1, ctype |-> 240, cmd |-> 0, data |-> <<>>,
             check |-> 239, cmdset |-> [i \in 0..(max_length - 1) |-> 0]]
<1>1. /\ {0, 1, 239, 240, Begin, End} \subseteq Bytes
      /\ <<>> \in Seq(Bytes) /\ Len(<<>>) = 0 /\ 0 < Byte
  BY DEF Bytes, Byte, Begin, End
<1>2. C \in Frames /\ Object(C) /\ Len(C.data) = 0
  BY <1>1 DEF Frames, Object, Fields
<1>3. /\ C.address = 1 /\ C.ctype = 240 /\ C.cmd = 0 /\ C.check = 239
      /\ \A i \in 0..(max_length - 1) : C.cmdset[i] = 0
  OBVIOUS
<1>4. NewCommand = makecmd(C)
  BY DEF NewCommand
<1> HIDE DEF C
<1>5. /\ FrameOf(C)[1] = Begin /\ FrameOf(C)[2] = 1 /\ FrameOf(C)[3] = 240
      /\ FrameOf(C)[4] = 0 /\ FrameOf(C)[5] = 0
      /\ FrameOf(C)[6] = 239 /\ FrameOf(C)[7] = End
  BY <1>2, <1>3, FrameBytes
<1>6. ASSUME NEW i \in 0..(max_length - 1)
      PROVE  (IF i < 7 THEN FrameOf(C)[i + 1] ELSE C.cmdset[i]) \in Bytes
  <2>1. CASE i < 7
    <3>1. i \in {0, 1, 2, 3, 4, 5, 6}
      BY <2>1 DEF max_length
    <3>2. QED
      BY <1>1, <1>5, <2>1, <3>1
  <2>2. CASE ~(i < 7)
    BY <1>1, <1>3, <2>2
  <2>3. QED
    BY <2>1, <2>2
<1>7. getCmdLength(C) = 7
  BY <1>2 DEF getCmdLength, length
<1>8. [i \in 0..(max_length - 1) |->
        IF i < getCmdLength(C) THEN FrameOf(C)[i + 1] ELSE C.cmdset[i]]
      \in [0..(max_length - 1) -> Bytes]
  BY <1>6, <1>7
<1>9. QED
  BY <1>2, <1>4, <1>8 DEF makecmd, Frames

LEMMA StepTyped ==
    ASSUME CommandInv, TypeOK, Next
    PROVE  TypeOK'
<1>1. /\ command \in Frames /\ Object(command) /\ Len(command.data) < Byte
      /\ given \in [address : Bytes, ctype : Bytes, cmd : Bytes,
                    data : Seq(Bytes), set : BOOLEAN]
      /\ calls \in 0..MaxCalls /\ MaxCalls \in Nat
  BY InputAssumption DEF CommandInv, TypeOK, Object
<1>2. calls' \in 0..MaxCalls
  BY <1>1 DEF Next
<1>3. ASSUME NEW C \in Frames, Len(C.data) < Byte, NEW v \in Bytes
      PROVE  /\ setAddress(C, v) \in Frames /\ setType(C, v) \in Frames
             /\ setCmd(C, v) \in Frames
  <2>1. /\ [C EXCEPT !.address = v] \in Frames /\ [C EXCEPT !.ctype = v] \in Frames
        /\ [C EXCEPT !.cmd = v] \in Frames
        /\ Len([C EXCEPT !.address = v].data) < Byte
        /\ Len([C EXCEPT !.ctype = v].data) < Byte
        /\ Len([C EXCEPT !.cmd = v].data) < Byte
    BY <1>3 DEF Frames
  <2>2. QED
    BY <2>1, UpdateTyped DEF setAddress, setType, setCmd
<1>4. ASSUME NEW C \in Frames, Object(C), NEW d \in Seq(Bytes)
      PROVE  setData(C, d, Len(d)) \in Frames
  <2> DEFINE s == SubSeq(d, 1, Len(d) % Byte)
  <2>1. s \in Seq(Bytes) /\ Len(s) < Byte
    BY <1>4, DataSetter
  <2> HIDE DEF s
  <2>2. [C EXCEPT !.data = s] \in Frames /\ Len([C EXCEPT !.data = s].data) < Byte
    BY <1>4, <2>1 DEF Frames
  <2>3. setData(C, d, Len(d)) = update([C EXCEPT !.data = s])
    BY Len(d) \in Nat DEF setData, s
  <2>4. QED
    BY <2>2, <2>3, UpdateTyped
<1>5. length(command') \in Bytes
  <2> DEFINE n == Len(command'.data)
  <2>1. n \in Nat /\ n < 256
    <3>1. CommandInv'
      BY StepInv
    <3>2. Object(command')
      BY <3>1 DEF CommandInv
    <3>3. QED
      BY <3>2 DEF Object, Byte
  <2> HIDE DEF n
  <2>2. n \in 0..255
    BY <2>1
  <2>3. QED
    BY SMTT(30), <2>2 DEF n, length, Bytes, Byte
<1> DEFINE Given == [address : Bytes, ctype : Bytes, cmd : Bytes,
                     data : Seq(Bytes), set : BOOLEAN]
<1>6. CASE SetAddress \/ SetType \/ SetCmd
  <2>1. PICK v \in Bytes :
          \/ /\ command' = setAddress(command, v)
             /\ given' = [given EXCEPT !.address = v, !.set = TRUE]
          \/ /\ command' = setType(command, v)
             /\ given' = [given EXCEPT !.ctype = v, !.set = TRUE]
          \/ /\ command' = setCmd(command, v)
             /\ given' = [given EXCEPT !.cmd = v, !.set = TRUE]
    BY <1>6, InputAssumption DEF SetAddress, SetType, SetCmd
  <2>2. command' \in Frames
    BY <1>1, <1>3, <2>1
  <2>3. given' \in Given
    BY <1>1, <2>1
  <2>4. QED
    BY <1>2, <1>5, <2>2, <2>3 DEF TypeOK
<1>7. CASE SetData
  <2>1. PICK d \in Datas : /\ command' = setData(command, d, Len(d))
                           /\ given' = [given EXCEPT !.data = d, !.set = TRUE]
    BY <1>7 DEF SetData
  <2>2. d \in Seq(Bytes)
    BY InputAssumption
  <2>3. command' \in Frames
    BY <1>1, <1>4, <2>1, <2>2
  <2>4. given' \in Given
    BY <1>1, <2>1, <2>2
  <2>5. QED
    BY <1>2, <1>5, <2>3, <2>4 DEF TypeOK
<1>8. CASE SetNothing
  <2>1. command' = command /\ given' = given
    BY <1>8 DEF SetNothing, setData
  <2>2. QED
    BY <1>1, <1>2, <1>5, <2>1 DEF TypeOK
<1>9. CASE Parse
  <2>1. PICK row \in Requests :
          /\ command' = parseCommand(command, row[1], row[2], row[3], row[4])
          /\ given' = [address |-> row[1], ctype |-> row[2], cmd |-> row[3],
                       data |-> row[4], set |-> TRUE]
    BY <1>9 DEF Parse
  <2>2. row[4] \in Seq(Bytes)
    BY Rows
  <2>3. row[1] \in Bytes /\ row[2] \in Bytes /\ row[3] \in Bytes
    <3>1. Bytes = 0..255
      BY DEF Bytes, Byte
    <3>2. CASE row \in Table
      <4>1. row[1] = 0 /\ row[2] \in {2, 3} /\ row[3] \in {144, 130, 104, 11, 68}
        BY <3>2 DEF Table
      <4>2. QED
        BY <3>1, <4>1
    <3>3. CASE \E a \in Addresses, sd \in 0..3 : row = GetCurrentSound(a, sd)
      BY <3>1, <3>3, InputAssumption DEF GetCurrentSound
    <3>4. QED
      BY <3>2, <3>3 DEF Requests
  <2> DEFINE C1 == setAddress(command, row[1])
             C2 == setType(C1, row[2])
             C3 == setCmd(C2, row[3])
  <2>4. C1 \in Frames /\ Object(C1)
    BY <1>1, <1>3, <2>3, Setters
  <2> HIDE DEF C1
  <2>5. C2 \in Frames /\ Object(C2)
    BY <1>3, <2>3, <2>4, Setters DEF Object
  <2> HIDE DEF C2
  <2>6. C3 \in Frames /\ Object(C3)
    BY <1>3, <2>3, <2>5, Setters DEF Object
  <2> HIDE DEF C3
  <2>7. setData(C3, row[4], Len(row[4])) \in Frames
    BY <1>4, <2>2, <2>6
  <2>8. command' = setData(C3, row[4], Len(row[4]))
    BY <2>1 DEF parseCommand, C1, C2, C3
  <2>9. given' \in Given
    BY <2>1, <2>2, <2>3
  <2>10. QED
    BY <1>2, <1>5, <2>7, <2>8, <2>9 DEF TypeOK
<1>10. QED
  BY <1>6, <1>7, <1>8, <1>9 DEF Next

(* The fields and the bytes of a frame are bytes, and its length is one.    *)
THEOREM CommandTypes == Spec => []TypeOK
<1>1. Init => TypeOK
  <2>1. /\ NewCommand.data = <<>> /\ Len(<<>>) = 0
    BY DEF NewCommand, makecmd
  <2>2. /\ {0, 1, 240} \subseteq Bytes /\ <<>> \in Seq(Bytes)
        /\ 0 \in 0..MaxCalls
    BY InputAssumption DEF Bytes, Byte
  <2>3. QED
    BY <2>1, <2>2, NewTyped DEF Init, TypeOK, length
<1>2. TypeOK /\ UNCHANGED vars => TypeOK'
  BY DEF TypeOK, vars, length
<1>3. QED
  BY <1>1, <1>2, StepTyped, CommandInductive, PTL DEF Spec

-----------------------------------------------------------------------------
LEMMA DifferentBytes ==
    ASSUME NEW x \in Int, NEW y \in Int, x # y, x - y < 256, y - x < 256
    PROVE  x % 256 # y % 256
<1> SUFFICES ASSUME x % 256 = y % 256 PROVE FALSE
  OBVIOUS
<1>1. PICK p \in Int : x = 256 * p + (x % 256)
  BY SMT
<1>2. PICK q \in Int : y = 256 * q + (y % 256)
  BY SMT
<1> DEFINE r == x % 256
<1>3. r \in Int /\ x = 256 * p + r /\ y = 256 * q + r
  BY <1>1, <1>2
<1> HIDE DEF r
<1>4. x - y = 256 * (p - q)
  BY <1>3
<1>5. p - q < 1 /\ q - p < 1
  BY <1>4
<1>6. QED
  BY <1>4, <1>5

(* b and c are the bytes of two frames with n bytes of data that differ in  *)
(* byte k and in no other.                                                  *)
OneByte(b, c, n, k) ==
    /\ b \in [0..261 -> 0..255] /\ c \in [0..261 -> 0..255]
    /\ b[4] = n /\ c[4] = n
    /\ c[k] # b[k] /\ \A i \in 0..261 : i # k => c[i] = b[i]
    /\ WellFormed(b) /\ WellFormed(c)

(* There are no such frames: the byte is the one that begins or ends a      *)
(* frame, or the checksum differs by less than a whole byte.                *)
LEMMA TwoFrames ==
    ASSUME NEW b, NEW c, NEW n \in 0..255, NEW k \in 0..(6 + n), k # 4,
           OneByte(b, c, n, k)
    PROVE  FALSE
<1> DEFINE d == [i \in 1..n |-> b[4 + i]]
           e == [i \in 1..n |-> c[4 + i]]
           x == b[1] + b[2] + b[3] + n + Sum(d)
           y == c[1] + c[2] + c[3] + n + Sum(e)
<1>1. n \in Nat /\ n <= 255 /\ k \in Nat /\ k <= 6 + n /\ 4 \in 0..261
  OBVIOUS
<1>2. \A i \in 0..261 : b[i] \in 0..255 /\ c[i] \in 0..255
  BY DEF OneByte
<1>3. \A i \in 1..n : 4 + i \in 0..261
  BY <1>1
<1>4. /\ d \in Seq(Int) /\ Len(d) = n
      /\ \A i \in 1..n : d[i] = b[4 + i] /\ d[i] \in 0..255
  <2>1. \A i \in 1..n : b[4 + i] \in 0..255
    BY <1>2, <1>3
  <2>2. d \in [1..n -> Int]
    BY <2>1
  <2>3. QED
    BY <1>1, <2>1, <2>2
<1>5. /\ e \in Seq(Int) /\ Len(e) = n
      /\ \A i \in 1..n : e[i] = c[4 + i] /\ e[i] \in 0..255
  <2>1. \A i \in 1..n : c[4 + i] \in 0..255
    BY <1>2, <1>3
  <2>2. e \in [1..n -> Int]
    BY <2>1
  <2>3. QED
    BY <1>1, <2>1, <2>2
<1>6. b[0] = Begin /\ b[6 + n] = End /\ b[5 + n] = x % 256
  <2>1. b[0] = Begin /\ b[6 + n] = End /\ b[5 + n] = CheckOf(b[1], b[2], b[3], d)
    BY DEF WellFormed, Read, OneByte
  <2> HIDE DEF d
  <2>2. QED
    BY <1>4, <2>1 DEF CheckOf, Byte
<1>7. c[0] = Begin /\ c[6 + n] = End /\ c[5 + n] = y % 256
  <2>1. c[0] = Begin /\ c[6 + n] = End /\ c[5 + n] = CheckOf(c[1], c[2], c[3], e)
    BY DEF WellFormed, Read, OneByte
  <2> HIDE DEF e
  <2>2. QED
    BY <1>5, <2>1 DEF CheckOf, Byte
<1>8. Sum(d) \in Int /\ Sum(e) \in Int
  BY <1>4, <1>5, SumIsInt
<1>9. 0 \in 0..261 /\ 1 \in 0..261 /\ 2 \in 0..261 /\ 3 \in 0..261
  OBVIOUS
<1>10. 5 + n \in 0..261 /\ 6 + n \in 0..261 /\ k \in 0..261
  BY <1>1
<1>11. /\ b[1] \in Int /\ b[2] \in Int /\ b[3] \in Int
       /\ c[1] \in Int /\ c[2] \in Int /\ c[3] \in Int
  <2>1. \A i \in 0..255 : i \in Int
    OBVIOUS
  <2>2. \A i \in 0..261 : b[i] \in Int /\ c[i] \in Int
    BY <1>2, <2>1
  <2>3. QED
    BY <1>9, <2>2
<1>12. b[k] \in 0..255 /\ c[k] \in 0..255 /\ b[k] # c[k]
  BY <1>2, <1>10 DEF OneByte
<1>13. \A i \in 0..261 : i # k => c[i] = b[i]
  BY DEF OneByte
<1>14. ASSUME c[5 + n] = b[5 + n],
              \/ b[1] = b[k] /\ c[1] = c[k] /\ b[2] = c[2] /\ b[3] = c[3]
                 /\ Sum(d) = Sum(e)
              \/ b[1] = c[1] /\ b[2] = b[k] /\ c[2] = c[k] /\ b[3] = c[3]
                 /\ Sum(d) = Sum(e)
              \/ b[1] = c[1] /\ b[2] = c[2] /\ b[3] = b[k] /\ c[3] = c[k]
                 /\ Sum(d) = Sum(e)
              \/ b[1] = c[1] /\ b[2] = c[2] /\ b[3] = c[3]
                 /\ Sum(d) - Sum(e) = b[k] - c[k]
       PROVE  FALSE
  <2> HIDE DEF d, e
  <2>1. x % 256 # y % 256
    <3> DEFINE a == b[1]
               p == b[2]
               q == b[3]
               s == Sum(d)
               g == b[k]
               u == c[1]
               v == c[2]
               w == c[3]
               t == Sum(e)
               h == c[k]
    <3>1. n \in Int
      BY <1>1
    <3>2. /\ a \in Int /\ p \in Int /\ q \in Int /\ s \in Int
          /\ u \in Int /\ v \in Int /\ w \in Int /\ t \in Int
          /\ g \in 0..255 /\ h \in 0..255 /\ g # h
      BY <1>8, <1>11, <1>12
    <3>3. \/ a = g /\ u = h /\ p = v /\ q = w /\ s = t
          \/ a = u /\ p = g /\ v = h /\ q = w /\ s = t
          \/ a = u /\ p = v /\ q = g /\ w = h /\ s = t
          \/ a = u /\ p = v /\ q = w /\ s - t = g - h
      BY <1>14
    <3> HIDE DEF a, p, q, s, g, u, v, w, t, h
    <3> DEFINE X == a + p + q + n + s
               Y == u + v + w + n + t
    <3>4. X \in Int /\ Y \in Int /\ X - Y = g - h
      BY <3>1, <3>2, <3>3
    <3>5. g - h < 256 /\ h - g < 256 /\ g - h # 0
      BY <3>2
    <3>6. x = X /\ y = Y
      BY DEF a, p, q, s, u, v, w, t
    <3> HIDE DEF X, Y, x, y
    <3>7. X # Y /\ X - Y < 256 /\ Y - X < 256
      BY <3>2, <3>4, <3>5
    <3>8. QED
      BY <3>4, <3>6, <3>7, DifferentBytes
  <2> HIDE DEF x, y
  <2>2. QED
    BY <1>6, <1>7, <1>14, <2>1
<1>15. CASE k = 0 \/ k = 6 + n
  <2>1. c[k] = b[k]
    <3> HIDE DEF d, e, x, y
    <3>1. QED
      BY <1>6, <1>7, <1>15
  <2>2. QED
    BY <2>1 DEF OneByte
<1>16. ASSUME \A i \in 1..n : 4 + i # k PROVE d = e
  BY <1>3, <1>13, <1>16
<1>17. CASE k = 5 + n
  <2>1. d = e
    BY <1>1, <1>16, <1>17
  <2>2. 1 # k /\ 2 # k /\ 3 # k
    BY <1>1, <1>17
  <2>3. c[1] = b[1] /\ c[2] = b[2] /\ c[3] = b[3]
    BY <1>9, <1>13, <2>2
  <2>4. x = y
    BY <2>1, <2>3
  <2> HIDE DEF d, e, x, y
  <2>5. c[k] = b[k]
    BY <1>6, <1>7, <1>17, <2>4
  <2>6. QED
    BY <2>5 DEF OneByte
<1>18. CASE k = 1 \/ k = 2 \/ k = 3
  <2>1. d = e
    BY <1>1, <1>16, <1>18
  <2>2. 5 + n # k
    BY <1>1, <1>18
  <2>3. c[5 + n] = b[5 + n]
    BY <1>10, <1>13, <2>2
  <2>4. \A i \in {1, 2, 3} : i # k => c[i] = b[i]
    BY <1>9, <1>13
  <2>5. Sum(d) = Sum(e)
    BY <2>1
  <2> HIDE DEF x, y, d, e
  <2>6. 1 \in {1, 2, 3} /\ 2 \in {1, 2, 3} /\ 3 \in {1, 2, 3} /\ 1 # 2 /\ 1 # 3 /\ 2 # 3
    OBVIOUS
  <2>7. CASE k = 1
    BY <1>14, <2>3, <2>4, <2>5, <2>6, <2>7
  <2>8. CASE k = 2
    BY <1>14, <2>3, <2>4, <2>5, <2>6, <2>8
  <2>9. CASE k = 3
    BY <1>14, <2>3, <2>4, <2>5, <2>6, <2>9
  <2>10. QED
    BY <1>18, <2>7, <2>8, <2>9
<1>19. CASE k >= 5 /\ k <= 4 + n
  <2>1. k - 4 \in 1..n /\ 4 + (k - 4) = k
    BY <1>1, <1>19
  <2>2. ASSUME NEW i \in 1..n, i # k - 4 PROVE d[i] = e[i]
    <3>1. 4 + i # k /\ 4 + i \in 0..261
      BY <1>1, <1>3, <2>2
    <3>2. QED
      BY <1>4, <1>5, <1>13, <3>1
  <2>3. d[k - 4] = b[k] /\ e[k - 4] = c[k]
    BY <1>4, <1>5, <2>1
  <2>4. Sum(d) - Sum(e) = b[k] - c[k]
    <3> DEFINE m == k - 4
    <3>1. m \in 1..Len(d) /\ Len(d) = Len(e)
      BY <1>4, <1>5, <2>1
    <3>2. \A j \in 1..Len(d) : j # m => d[j] = e[j]
      BY <1>4, <2>2
    <3> HIDE DEF d, e, m
    <3>3. Sum(d) - Sum(e) = d[m] - e[m]
      <4>1. d \in Seq(Int) /\ e \in Seq(Int)
        BY <1>4, <1>5
      <4>2. QED
        BY <3>1, <3>2, <4>1, SumChanges
    <3>4. d[m] = b[k] /\ e[m] = c[k]
      BY <2>3 DEF m
    <3>5. QED
      BY <3>3, <3>4
  <2>5. 5 + n # k /\ 1 # k /\ 2 # k /\ 3 # k
    BY <1>1, <1>19
  <2>6. c[5 + n] = b[5 + n] /\ c[1] = b[1] /\ c[2] = b[2] /\ c[3] = b[3]
    BY <1>9, <1>10, <1>13, <2>5
  <2>7. QED
    BY <1>14, <2>4, <2>6
<1>20. QED
  <2> HIDE DEF d, e, x, y
  <2>1. \/ k = 0 \/ k = 6 + n \/ k = 5 + n \/ k = 1 \/ k = 2 \/ k = 3
        \/ k >= 5 /\ k <= 4 + n
    BY <1>1
  <2>2. QED
    BY <1>15, <1>17, <1>18, <1>19, <2>1

(* A function with one value changed. *)
LEMMA OneChange ==
    ASSUME NEW S, NEW T, NEW f \in [S -> T], NEW k \in S, NEW v \in T
    PROVE  LET c == [f EXCEPT ![k] = v]
           IN  /\ c \in [S -> T] /\ c[k] = v
               /\ \A i \in S : i # k => c[i] = f[i]
OBVIOUS

LEMMA FrameIndex ==
    ASSUME NEW n \in 0..255, NEW k \in 0..(6 + n)
    PROVE  4 \in 0..261 /\ k \in 0..261
OBVIOUS

LEMMA ByteAt ==
    ASSUME NEW M \in Nat, NEW T, NEW b \in [0..M -> T], M >= 4
    PROVE  b[4] \in T
OBVIOUS

(* So one changed byte of a frame, other than the length, shows. *)
LEMMA ChangedByte ==
    ASSUME NEW b \in [0..261 -> 0..255], NEW n \in 0..255, b[4] = n,
           WellFormed(b), NEW k \in 0..(6 + n), k # 4,
           NEW v \in 0..255, v # b[k]
    PROVE  ~WellFormed([b EXCEPT ![k] = v])
<1> DEFINE c == [b EXCEPT ![k] = v]
<1>1. 4 \in 0..261 /\ k \in 0..261
  BY FrameIndex
<1>2. /\ c \in [0..261 -> 0..255] /\ c[k] = v
      /\ \A i \in 0..261 : i # k => c[i] = b[i]
  BY <1>1, OneChange
<1>3. c[4] = n
  BY <1>1, <1>2
<1> SUFFICES ASSUME WellFormed(c) PROVE FALSE
  OBVIOUS
<1> HIDE DEF c
<1>4. OneByte(b, c, n, k)
  BY <1>2, <1>3 DEF OneByte
<1>5. QED
  BY <1>4, TwoFrames

(* A frame in which one byte has changed, other than its length, is not one *)
(* any more: the checksum of calcCheck shows it, whatever the data.         *)
THEOREM ChangesShow == Spec => []ChangeShows
<1>1. CommandInv /\ TypeOK => ChangeShows
  <2> SUFFICES ASSUME CommandInv, TypeOK, given.set,
                      NEW k \in (0..(6 + command.cmdset[4])) \ {4},
                      NEW v \in Bytes, v # command.cmdset[k]
               PROVE  ~WellFormed([command.cmdset EXCEPT ![k] = v])
    BY DEF ChangeShows
  <2> DEFINE b == command.cmdset
             n == b[4]
  <2>1. b \in [0..(max_length - 1) -> Bytes]
    BY DEF TypeOK, Frames
  <2>2. v \in 0..255
    BY DEF Bytes, Byte
  <2>3. WellFormed(b)
    BY FrameRead DEF CommandInv
  <2>4. k \in 0..(6 + n) /\ k # 4 /\ v # b[k]
    OBVIOUS
  <2> HIDE DEF b
  <2> HIDE DEF n
  <2>5. b[4] \in Bytes
    <3>1. max_length - 1 \in Nat /\ max_length - 1 >= 4
      BY DEF max_length
    <3>2. QED
      BY <2>1, <3>1, ByteAt
  <2>6. b[4] = n
    BY DEF n
  <2>7. n \in 0..255 /\ b \in [0..261 -> 0..255]
    <3>1. Bytes = 0..255
      BY DEF Bytes, Byte
    <3>2. max_length - 1 = 261
      BY DEF max_length
    <3>3. n \in 0..255
      BY <2>5, <2>6, <3>1
    <3>4. b \in [0..261 -> 0..255]
      BY <2>1, <3>1, <3>2
    <3>5. QED
      BY <3>3, <3>4
  <2>8. ~WellFormed([b EXCEPT ![k] = v])
    BY <2>2, <2>3, <2>4, <2>6, <2>7, ChangedByte
  <2>9. QED
    BY <2>8 DEF b
<1>2. QED
  BY <1>1, CommandInductive, CommandTypes, PTL
=============================================================================
