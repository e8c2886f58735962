--------------------------- MODULE VideoCallProofs ---------------------------
(***************************************************************************)
(* Proofs about VideoCall and its grid, for any number of clients, videos  *)
(* and invitations.                                                        *)
(***************************************************************************)
EXTENDS VideoCall, TLAPS, FiniteSetTheorems, SequenceTheorems

Once(s) == \A i, j \in DOMAIN s : s[i] = s[j] => i = j

(* The stacks hold every video once. *)
GridInv(g) ==
    /\ GridOK(g)
    /\ Once(g.current) /\ Once(g.waiting)
    /\ \A i \in DOMAIN g.current, j \in DOMAIN g.waiting :
           g.current[i] # g.waiting[j]

(* What is not shown is stopped. *)
Hidden(g) == \A v \in Videos : InStack(v, g.waiting) => g.cell[v] = Idle

-----------------------------------------------------------------------------
(* Stacks *)

LEMMA PopFacts ==
    ASSUME NEW s \in Seq(Videos), Len(s) > 0, NEW p, p = SubSeq(s, 1, Len(s) - 1)
    PROVE  /\ p \in Seq(Videos) /\ Len(p) = Len(s) - 1
           /\ DOMAIN p = 1..(Len(s) - 1)
           /\ \A i \in 1..(Len(s) - 1) : p[i] = s[i]
<1>1. Len(s) \in Nat /\ Len(s) >= 1
  OBVIOUS
<1>2. \A i \in 1..(Len(s) - 1) : s[i] \in Videos
  BY <1>1
<1>3. /\ p \in Seq(Videos)
      /\ Len(p) = IF 1 <= Len(s) - 1 THEN Len(s) - 1 - 1 + 1 ELSE 0
      /\ \A i \in 1..(Len(s) - 1 - 1 + 1) : p[i] = s[1 + i - 1]
  BY <1>1, <1>2, SubSeqProperties
<1>4. Len(p) = Len(s) - 1 /\ Len(s) - 1 - 1 + 1 = Len(s) - 1
  <2>1. ASSUME NEW n \in Nat, n >= 1
        PROVE  /\ n - 1 - 1 + 1 = n - 1
               /\ (IF 1 <= n - 1 THEN n - 1 - 1 + 1 ELSE 0) = n - 1
    BY <2>1
  <2>2. QED
    BY <1>1, <1>3, <2>1, Zenon
<1>5. DOMAIN p = 1..(Len(s) - 1)
  BY <1>3, <1>4, LenProperties
<1>6. ASSUME NEW i \in 1..(Len(s) - 1) PROVE p[i] = s[i]
  BY <1>1, <1>3, <1>4
<1>7. QED
  BY <1>3, <1>4, <1>5, <1>6

LEMMA PushFacts ==
    ASSUME NEW s \in Seq(Videos), NEW v \in Videos, NEW p, p = Append(s, v)
    PROVE  /\ p \in Seq(Videos) /\ Len(p) = Len(s) + 1
           /\ DOMAIN p = 1..(Len(s) + 1) /\ p[Len(s) + 1] = v
           /\ \A i \in 1..Len(s) : p[i] = s[i]
OBVIOUS

(* The grid *)

LEMMA GridFacts ==
    ASSUME NEW g, GridInv(g)
    PROVE  /\ Len(g.current) \in Nat /\ Len(g.waiting) \in Nat
           /\ Len(g.current) >= 1
           /\ DOMAIN g.current = 1..Len(g.current)
           /\ DOMAIN g.waiting = 1..Len(g.waiting)
           /\ \A i \in 1..Len(g.current) : g.current[i] \in Videos
           /\ \A i \in 1..Len(g.waiting) : g.waiting[i] \in Videos
           /\ \A i \in 2..Len(g.current) : g.current[i] # LocalVideo
           /\ g.cell \in [Videos -> Streams \cup {Idle}]
<1>1. /\ g.current \in Seq(Videos) /\ g.waiting \in Seq(Videos)
      /\ g.cell \in [Videos -> Streams \cup {Idle}]
      /\ g.current # <<>> /\ g.current[1] = LocalVideo
      /\ Once(g.current)
  BY DEF GridInv, GridOK, Grids
<1>2. Len(g.current) >= 1 /\ Len(g.current) \in Nat
  BY <1>1
<1>3. DOMAIN g.current = 1..Len(g.current)
  BY <1>1
<1>4. \A i \in 2..Len(g.current) : g.current[i] # LocalVideo
  BY <1>1, <1>2, <1>3 DEF Once
<1>5. QED
  BY <1>1, <1>2, <1>3, <1>4

(* Grid h is g with its top waiting video t shown and playing s. *)
Pushed(g, h, s, m, n, t) ==
    /\ m = Len(g.current) /\ n = Len(g.waiting) /\ t = g.waiting[n]
    /\ n \in Nat \ {0} /\ m \in Nat \ {0} /\ t \in Videos
    /\ h \in Grids
    /\ Len(h.current) = m + 1 /\ DOMAIN h.current = 1..(m + 1)
    /\ h.current[m + 1] = t
    /\ \A i \in 1..m : h.current[i] = g.current[i]
    /\ Len(h.waiting) = n - 1 /\ DOMAIN h.waiting = 1..(n - 1)
    /\ \A i \in 1..(n - 1) : h.waiting[i] = g.waiting[i]
    /\ h.cell = [g.cell EXCEPT ![t] = s]

LEMMA PushFields ==
    ASSUME NEW g, GridInv(g), g.waiting # <<>>, NEW s \in Streams,
           NEW h, h = addsubVideo(g, s)
    PROVE  /\ Pushed(g, h, s, Len(g.current), Len(g.waiting),
                     g.waiting[Len(g.waiting)])
           /\ getVideo(h, 0) = g.waiting[Len(g.waiting)]
<1>. DEFINE m == Len(g.current)
            n == Len(g.waiting)
            t == g.waiting[n]
<1>1. /\ g.current \in Seq(Videos) /\ g.waiting \in Seq(Videos)
      /\ g.current # <<>> /\ g \in Grids
  BY DEF GridInv, GridOK, Grids
<1>2. n \in Nat \ {0} /\ m \in Nat \ {0} /\ t \in Videos
  BY <1>1
<1>3. PICK a : a = addVideo(g)
  OBVIOUS
<1>4. a = [g EXCEPT !.current = Append(g.current, t),
                    !.waiting = SubSeq(g.waiting, 1, n - 1)]
  BY <1>3 DEF addVideo, Push, Pop, Top
<1>5. /\ a.current = Append(g.current, t)
      /\ a.waiting = SubSeq(g.waiting, 1, n - 1)
      /\ a.cell = g.cell
  BY <1>1, <1>4 DEF Grids
<1>6. Len(a.current) = m + 1 /\ a.current[m + 1] = t
  BY <1>1, <1>2, <1>5
<1>7. getVideo(a, 0) = t
  BY <1>2, <1>6 DEF getVideo
<1>8. h = [a EXCEPT !.cell[t] = s]
  BY <1>3, <1>7 DEF addsubVideo, Load
<1>9. a = [current |-> a.current, waiting |-> a.waiting, cell |-> a.cell]
  BY <1>1, <1>4 DEF Grids
<1>10. /\ h.current = a.current /\ h.waiting = a.waiting
       /\ h.cell = [g.cell EXCEPT ![t] = s]
       /\ h = [current |-> h.current, waiting |-> h.waiting, cell |-> h.cell]
  BY <1>5, <1>8, <1>9
<1>11. /\ h.current \in Seq(Videos) /\ DOMAIN h.current = 1..(m + 1)
       /\ \A i \in 1..m : h.current[i] = g.current[i]
  BY <1>1, <1>2, <1>5, <1>10
<1>12. /\ h.waiting \in Seq(Videos) /\ Len(h.waiting) = n - 1
       /\ DOMAIN h.waiting = 1..(n - 1)
       /\ \A i \in 1..(n - 1) : h.waiting[i] = g.waiting[i]
  BY <1>1, <1>2, <1>5, <1>10
<1>13. getVideo(h, 0) = t
  BY <1>2, <1>6, <1>10 DEF getVideo
<1>14. h.cell \in [Videos -> Streams \cup {Idle}]
  BY <1>1, <1>10 DEF Grids
<1>15. h \in Grids
  BY <1>10, <1>11, <1>12, <1>14 DEF Grids
<1>16. QED
  BY <1>2, <1>6, <1>10, <1>11, <1>12, <1>13, <1>15 DEF Pushed

LEMMA PushEffect ==
    ASSUME NEW g, GridInv(g), NEW s, NEW h, NEW m, NEW n, NEW t,
           Pushed(g, h, s, m, n, t)
    PROVE  /\ GridInv(h)
           /\ Hidden(g) => Hidden(h)
           /\ h.cell[LocalVideo] = g.cell[LocalVideo]
           /\ Shown(h) = Shown(g) \cup {s}
           /\ h.cell[t] = s
<1>1. m = Len(g.current) /\ n = Len(g.waiting) /\ t = g.waiting[n]
  BY DEF Pushed
<1>2. /\ n \in Nat \ {0} /\ m \in Nat \ {0} /\ t \in Videos
      /\ h \in Grids
      /\ Len(h.current) = m + 1 /\ DOMAIN h.current = 1..(m + 1)
      /\ h.current[m + 1] = t
      /\ \A i \in 1..m : h.current[i] = g.current[i]
      /\ Len(h.waiting) = n - 1 /\ DOMAIN h.waiting = 1..(n - 1)
      /\ \A i \in 1..(n - 1) : h.waiting[i] = g.waiting[i]
      /\ h.cell = [g.cell EXCEPT ![t] = s]
  BY DEF Pushed
<1>3. /\ DOMAIN g.current = 1..m /\ DOMAIN g.waiting = 1..n
      /\ g.cell \in [Videos -> Streams \cup {Idle}]
  BY <1>1, GridFacts
<1>4. /\ \A i, j \in 1..m : g.current[i] = g.current[j] => i = j
      /\ \A i, j \in 1..n : g.waiting[i] = g.waiting[j] => i = j
      /\ \A i \in 1..m, j \in 1..n : g.current[i] # g.waiting[j]
      /\ m + n = NVideos
      /\ \A v \in Videos : InStack(v, g.current) \/ InStack(v, g.waiting)
      /\ g.current[1] = LocalVideo
  BY <1>1, <1>3 DEF GridInv, GridOK, Once
<1>5. ASSUME NEW v PROVE InStack(v, h.current) <=> InStack(v, g.current) \/ v = t
  <2>1. InStack(v, g.current) => InStack(v, h.current)
    BY <1>2, <1>3 DEF InStack
  <2>2. InStack(t, h.current)
    BY <1>2 DEF InStack
  <2>3. ASSUME NEW i \in 1..(m + 1), h.current[i] = v, v # t
        PROVE  InStack(v, g.current)
    <3>1. i \in 1..m
      BY <1>2, <2>3
    <3>2. QED
      BY <1>2, <1>3, <2>3, <3>1 DEF InStack
  <2>4. QED
    BY <1>2, <2>1, <2>2, <2>3 DEF InStack
<1>6. ASSUME NEW v PROVE InStack(v, g.waiting) <=> InStack(v, h.waiting) \/ v = t
  <2>1. InStack(v, h.waiting) => InStack(v, g.waiting)
    BY <1>2, <1>3 DEF InStack
  <2>2. InStack(t, g.waiting)
    BY <1>1, <1>2, <1>3 DEF InStack
  <2>3. ASSUME NEW i \in 1..n, g.waiting[i] = v, v # t
        PROVE  InStack(v, h.waiting)
    <3>1. i \in 1..(n - 1)
      BY <1>1, <1>2, <2>3
    <3>2. QED
      BY <1>2, <2>3, <3>1 DEF InStack
  <2>4. QED
    BY <1>3, <2>1, <2>2, <2>3 DEF InStack
<1>7. /\ \A j \in 1..(n - 1) : h.waiting[j] # t
      /\ \A i \in 1..m : g.current[i] # t
  BY SMTT(30), <1>1, <1>2, <1>4
<1>8. t # LocalVideo
  BY <1>2, <1>4, <1>7
<1>9. ~InStack(t, h.waiting) /\ ~InStack(t, g.current)
  BY <1>2, <1>3, <1>7 DEF InStack
<1>10. GridInv(h)
  <2>1. h.current # <<>> /\ h.current[1] = LocalVideo
    <3>1. 1 \in 1..m /\ m + 1 # 0
      BY <1>2
    <3>2. h.current[1] = LocalVideo
      BY <1>2, <1>4, <3>1
    <3>3. QED
      BY <1>2, <3>1, <3>2
  <2>2. Once(h.current)
    BY SMTT(30), <1>2, <1>4, <1>7 DEF Once
  <2>3. Once(h.waiting)
    BY <1>2, <1>4 DEF Once
  <2>4. ASSUME NEW i \in 1..(m + 1), NEW j \in 1..(n - 1)
        PROVE  h.current[i] # h.waiting[j]
    <3>1. CASE i = m + 1
      BY <1>2, <1>7, <3>1
    <3>2. CASE i # m + 1
      <4>1. i \in 1..m /\ j \in 1..n
        BY <1>2, <3>2
      <4>2. QED
        BY <1>2, <1>4, <4>1
    <3>3. QED
      BY <3>1, <3>2
  <2>5. Len(h.current) + Len(h.waiting) = NVideos
    BY <1>2, <1>4
  <2>6. \A v \in Videos : InStack(v, h.current) \/ InStack(v, h.waiting)
    BY <1>4, <1>5, <1>6
  <2>7. QED
    BY <1>2, <2>1, <2>2, <2>3, <2>4, <2>5, <2>6 DEF GridInv, GridOK
<1>11. ASSUME Hidden(g) PROVE Hidden(h)
  <2>1. ASSUME NEW v \in Videos, InStack(v, h.waiting)
        PROVE  h.cell[v] = Idle
    <3>1. v # t /\ InStack(v, g.waiting)
      BY <1>6, <1>9, <2>1
    <3>2. QED
      BY <1>2, <1>3, <1>11, <3>1 DEF Hidden
  <2>2. QED
    BY <2>1 DEF Hidden
<1>12. h.cell[LocalVideo] = g.cell[LocalVideo]
  BY <1>2, <1>3, <1>8
<1>13. Remote(h) = Remote(g) \cup {t} /\ t \notin Remote(g)
  BY <1>2, <1>5, <1>8, <1>9 DEF Remote
<1>14. \A v \in Remote(g) : h.cell[v] = g.cell[v]
  BY <1>2, <1>3, <1>13 DEF Remote
<1>15. h.cell[t] = s
  BY <1>2, <1>3
<1>16. Shown(h) = Shown(g) \cup {s}
  BY <1>13, <1>14, <1>15 DEF Shown
<1>17. QED
  BY <1>10, <1>11, <1>12, <1>15, <1>16

(* A video is added while one is waiting: it alone begins to play. *)
LEMMA PushVideo ==
    ASSUME NEW g, GridInv(g), g.waiting # <<>>, NEW s \in Streams,
           NEW h, h = addsubVideo(g, s)
    PROVE  /\ GridInv(h)
           /\ Hidden(g) => Hidden(h)
           /\ h.cell[LocalVideo] = g.cell[LocalVideo]
           /\ Shown(h) = Shown(g) \cup {s}
           /\ getVideoCount(h) = getVideoCount(g) + 1
           /\ h.cell[getVideo(h, 0)] = s
<1>1. PICK m, n, t : Pushed(g, h, s, m, n, t) /\ getVideo(h, 0) = t
  BY PushFields
<1>2. getVideoCount(h) = getVideoCount(g) + 1
  BY <1>1 DEF Pushed, getVideoCount
<1>3. QED
  BY <1>1, <1>2, PushEffect

(* A video is added while none is waiting: the top one plays the stream. *)
LEMMA FullGrid ==
    ASSUME NEW g, GridInv(g), g.waiting = <<>>, NEW s \in Streams,
           NEW h, h = addsubVideo(g, s)
    PROVE  /\ GridInv(h)
           /\ Hidden(h)
           /\ h.cell[LocalVideo] = g.cell[LocalVideo]
           /\ Shown(h) \subseteq Shown(g) \cup {s}
           /\ getVideoCount(h) = getVideoCount(g)
           /\ getVideoCount(g) = NVideos
           /\ h.cell[getVideo(h, 0)] = s
<1>1. PICK m, t : m = Len(g.current) /\ t = g.current[m]
  OBVIOUS
<1>2. /\ m \in Nat \ {0} /\ DOMAIN g.current = 1..m
      /\ \A i \in 1..m : g.current[i] \in Videos
      /\ \A i \in 2..m : g.current[i] # LocalVideo
      /\ g.cell \in [Videos -> Streams \cup {Idle}]
  BY <1>1, GridFacts
<1>3. g \in Grids /\ m + Len(g.waiting) = NVideos /\ NVideos \in Nat \ {0, 1}
  BY <1>1, GridAssumption DEF GridInv, GridOK
<1>4. m = NVideos /\ m >= 2
  BY <1>2, <1>3
<1>5. t \in Videos /\ t # LocalVideo /\ getVideo(g, 0) = t
  BY <1>1, <1>2, <1>4 DEF getVideo
<1>6. h = [g EXCEPT !.cell[t] = s]
  BY <1>5 DEF addsubVideo, addVideo, Load
<1>7. /\ h.current = g.current /\ h.waiting = g.waiting
      /\ h.cell = [g.cell EXCEPT ![t] = s] /\ h \in Grids
  BY SMTT(30), <1>2, <1>3, <1>5, <1>6 DEF Grids
<1>8. GridInv(h)
  BY <1>7 DEF GridInv, GridOK
<1>9. Hidden(h)
  BY <1>7 DEF Hidden, InStack
<1>10. h.cell[LocalVideo] = g.cell[LocalVideo]
  BY <1>2, <1>5, <1>7 
<1>11. Shown(h) \subseteq Shown(g) \cup {s}
  BY <1>2, <1>5, <1>7 DEF Shown, Remote
<1>12. h.cell[getVideo(h, 0)] = s
  BY <1>1, <1>2, <1>5, <1>7 DEF getVideo
<1>13. QED
  BY <1>1, <1>4, <1>7, <1>8, <1>9, <1>10, <1>11, <1>12 DEF getVideoCount

(* addsubVideo, whatever is waiting. *)
LEMMA AddedVideo ==
    ASSUME NEW g, GridInv(g), NEW s \in Streams,
           NEW h, h = addsubVideo(g, s)
    PROVE  /\ GridInv(h)
           /\ Hidden(g) => Hidden(h)
           /\ h.cell[LocalVideo] = g.cell[LocalVideo]
           /\ Shown(h) \subseteq Shown(g) \cup {s}
           /\ getVideoCount(h) > 1
           /\ h.cell[getVideo(h, 0)] = s
<1>1. getVideoCount(g) \in Nat /\ getVideoCount(g) >= 1 /\ NVideos >= 2
      /\ NVideos \in Nat
  BY GridFacts, GridAssumption DEF getVideoCount
<1>2. CASE g.waiting = <<>>
  BY <1>1, <1>2, FullGrid
<1>3. CASE g.waiting # <<>>
  BY <1>1, <1>3, PushVideo
<1>4. QED
  BY <1>2, <1>3

(* Grid h is g with its top shown video t stopped and put back. *)
Removed(g, h, m, n, t) ==
    /\ m = Len(g.current) /\ n = Len(g.waiting) /\ t = g.current[m]
    /\ m \in Nat /\ n \in Nat /\ m > 1 /\ t \in Videos /\ t # LocalVideo
    /\ h \in Grids
    /\ Len(h.current) = m - 1 /\ DOMAIN h.current = 1..(m - 1)
    /\ \A i \in 1..(m - 1) : h.current[i] = g.current[i]
    /\ Len(h.waiting) = n + 1 /\ DOMAIN h.waiting = 1..(n + 1)
    /\ h.waiting[n + 1] = t
    /\ \A i \in 1..n : h.waiting[i] = g.waiting[i]
    /\ h.cell = [g.cell EXCEPT ![t] = Idle]

LEMMA RemoveEffect ==
    ASSUME NEW g, GridInv(g), Hidden(g), NEW h, NEW m, NEW n, NEW t,
           Removed(g, h, m, n, t)
    PROVE  /\ GridInv(h) /\ Hidden(h)
           /\ h.cell[LocalVideo] = g.cell[LocalVideo]
<1>1. m = Len(g.current) /\ n = Len(g.waiting) /\ t = g.current[m]
  BY DEF Removed
<1>2. /\ m \in Nat /\ n \in Nat /\ m > 1 /\ t \in Videos /\ t # LocalVideo
      /\ h \in Grids
      /\ Len(h.current) = m - 1 /\ DOMAIN h.current = 1..(m - 1)
      /\ \A i \in 1..(m - 1) : h.current[i] = g.current[i]
      /\ Len(h.waiting) = n + 1 /\ DOMAIN h.waiting = 1..(n + 1)
      /\ h.waiting[n + 1] = t
      /\ \A i \in 1..n : h.waiting[i] = g.waiting[i]
      /\ h.cell = [g.cell EXCEPT ![t] = Idle]
  BY DEF Removed
<1>3. /\ DOMAIN g.current = 1..m /\ DOMAIN g.waiting = 1..n
      /\ g.cell \in [Videos -> Streams \cup {Idle}]
  BY <1>1, GridFacts
<1>4. /\ \A i, j \in 1..m : g.current[i] = g.current[j] => i = j
      /\ \A i, j \in 1..n : g.waiting[i] = g.waiting[j] => i = j
      /\ \A i \in 1..m, j \in 1..n : g.current[i] # g.waiting[j]
      /\ m + n = NVideos
      /\ \A v \in Videos : InStack(v, g.current) \/ InStack(v, g.waiting)
      /\ g.current[1] = LocalVideo
  BY <1>1, <1>3 DEF GridInv, GridOK, Once
<1>5. ASSUME NEW i \in 1..(m - 1) PROVE i \in 1..m /\ i # m
  BY <1>2
<1>6. ASSUME NEW v, InStack(v, g.current) PROVE InStack(v, h.current) \/ v = t
  <2>1. PICK i \in 1..m : g.current[i] = v
    BY <1>3, <1>6 DEF InStack
  <2>2. CASE i = m
    BY <1>1, <2>1, <2>2
  <2>3. CASE i # m
    <3>1. i \in 1..(m - 1)
      BY <1>2, <2>3
    <3>2. QED
      BY <1>2, <2>1, <3>1 DEF InStack
  <2>4. QED
    BY <2>2, <2>3
<1>7. ASSUME NEW v PROVE InStack(v, h.waiting) <=> InStack(v, g.waiting) \/ v = t
  <2>1. InStack(v, g.waiting) => InStack(v, h.waiting)
    <3>1. ASSUME NEW i \in 1..n PROVE i \in 1..(n + 1)
      BY <1>2
    <3>2. QED
      BY <1>2, <1>3, <3>1 DEF InStack
  <2>2. InStack(t, h.waiting)
    <3>1. n + 1 \in 1..(n + 1)
      BY <1>2
    <3>2. QED
      BY <1>2, <3>1 DEF InStack
  <2>3. ASSUME NEW i \in 1..(n + 1), h.waiting[i] = v, v # t
        PROVE  InStack(v, g.waiting)
    <3>1. i \in 1..n
      BY <1>2, <2>3
    <3>2. QED
      BY <1>2, <1>3, <2>3, <3>1 DEF InStack
  <2>4. QED
    BY <1>2, <2>1, <2>2, <2>3 DEF InStack
<1>8. /\ \A j \in 1..n : h.waiting[j] # t
      /\ \A i \in 1..(m - 1) : h.current[i] # t
  <2>1. m \in 1..m /\ g.current[m] = t
    BY <1>1, <1>2
  <2>2. ASSUME NEW j \in 1..n PROVE h.waiting[j] # t
    <3>1. g.current[m] # g.waiting[j]
      BY <1>4, <2>1
    <3>2. QED
      BY <1>2, <2>1, <3>1
  <2>3. ASSUME NEW i \in 1..(m - 1) PROVE h.current[i] # t
    <3>1. g.current[i] # g.current[m]
      BY <1>4, <1>5, <2>1
    <3>2. QED
      BY <1>2, <2>1, <3>1
  <2>4. QED
    BY <2>2, <2>3
<1>9. GridInv(h)
  <2>1. h.current # <<>> /\ h.current[1] = LocalVideo
    <3>1. 1 \in 1..(m - 1) /\ m - 1 # 0
      BY <1>2
    <3>2. h.current[1] = LocalVideo
      BY <1>2, <1>4, <3>1
    <3>3. QED
      BY <1>2, <3>1, <3>2
  <2>2. Once(h.current)
    BY <1>2, <1>4, <1>5 DEF Once
  <2>3. ASSUME NEW i \in 1..(n + 1), NEW j \in 1..(n + 1),
               h.waiting[i] = h.waiting[j]
        PROVE  i = j
    <3>1. CASE i \in 1..n /\ j \in 1..n
      BY <1>2, <1>4, <2>3, <3>1
    <3>2. CASE i = n + 1 \/ j = n + 1
      BY <1>2, <1>8, <2>3, <3>2
    <3>3. QED
      BY <1>2, <3>1, <3>2
  <2>4. ASSUME NEW i \in 1..(m - 1), NEW j \in 1..(n + 1)
        PROVE  h.current[i] # h.waiting[j]
    <3>1. CASE j = n + 1
      BY <1>2, <1>8, <3>1
    <3>2. CASE j # n + 1
      <4>1. j \in 1..n
        BY <1>2, <3>2
      <4>2. QED
        BY <1>2, <1>4, <1>5, <4>1
    <3>3. QED
      BY <3>1, <3>2
  <2>5. Len(h.current) + Len(h.waiting) = NVideos
    BY <1>2, <1>4
  <2>6. \A v \in Videos : InStack(v, h.current) \/ InStack(v, h.waiting)
    BY <1>4, <1>6, <1>7
  <2>7. Once(h.waiting)
    BY <1>2, <2>3 DEF Once
  <2>8. QED
    BY <1>2, <2>1, <2>2, <2>4, <2>5, <2>6, <2>7 DEF GridInv, GridOK
<1>10. Hidden(h)
  <2>1. ASSUME NEW v \in Videos, InStack(v, h.waiting)
        PROVE  h.cell[v] = Idle
    BY <1>2, <1>3, <1>7, <2>1 DEF Hidden
  <2>2. QED
    BY <2>1 DEF Hidden
<1>11. h.cell[LocalVideo] = g.cell[LocalVideo]
  BY <1>2, <1>3
<1>12. QED
  BY <1>9, <1>10, <1>11

(* A remote video is stopped and removed. *)
LEMMA CloseEffect ==
    ASSUME NEW g, GridInv(g), Hidden(g), getVideoCount(g) > 1,
           NEW h, h = removeVideo(Load(g, getVideo(g, 0), Idle))
    PROVE  /\ GridInv(h) /\ Hidden(h)
           /\ h.cell[LocalVideo] = g.cell[LocalVideo]
<1>. DEFINE m == Len(g.current)
            n == Len(g.waiting)
            t == g.current[m]
<1>1. /\ m \in Nat /\ n \in Nat /\ m > 1
      /\ DOMAIN g.current = 1..m /\ DOMAIN g.waiting = 1..n
      /\ \A i \in 1..m : g.current[i] \in Videos
      /\ \A i \in 1..n : g.waiting[i] \in Videos
      /\ g.cell \in [Videos -> Streams \cup {Idle}]
  BY GridFacts DEF getVideoCount
<1>2. /\ \A i, j \in 1..m : g.current[i] = g.current[j] => i = j
      /\ \A i, j \in 1..n : g.waiting[i] = g.waiting[j] => i = j
      /\ \A i \in 1..m, j \in 1..n : g.current[i] # g.waiting[j]
      /\ m + n = NVideos
      /\ \A v \in Videos : InStack(v, g.current) \/ InStack(v, g.waiting)
      /\ g.current[1] = LocalVideo
      /\ g \in Grids /\ g.current \in Seq(Videos) /\ g.waiting \in Seq(Videos)
  BY <1>1 DEF GridInv, GridOK, Once, Grids
<1>3. t \in Videos /\ t # LocalVideo /\ getVideo(g, 0) = t
  BY <1>1, <1>2 DEF getVideo
<1>4. PICK a : a = Load(g, t, Idle)
  OBVIOUS
<1>5. /\ a.current = g.current /\ a.waiting = g.waiting
      /\ a.cell = [g.cell EXCEPT ![t] = Idle] /\ a \in Grids
  BY <1>2, <1>3, <1>4 DEF Load, Grids
<1>6. h = [a EXCEPT !.waiting = Append(g.waiting, t),
                    !.current = SubSeq(g.current, 1, m - 1)]
  <2>1. getVideoCount(a) # 1 /\ Top(a.current) = t
    BY <1>1, <1>5 DEF getVideoCount, Top
  <2>2. h = removeVideo(a)
    BY <1>3, <1>4
  <2>3. h = [a EXCEPT !.waiting = Push(a.waiting, t), !.current = Pop(a.current)]
    BY <2>1, <2>2 DEF removeVideo
  <2>4. QED
    BY <1>5, <2>3 DEF Push, Pop
<1>7. /\ h.current = SubSeq(g.current, 1, m - 1)
      /\ h.waiting = Append(g.waiting, t)
      /\ h.cell = [g.cell EXCEPT ![t] = Idle]
  BY <1>5, <1>6 DEF Grids
<1>8. h = [current |-> h.current, waiting |-> h.waiting, cell |-> h.cell]
  BY <1>5, <1>6, <1>7 DEF Grids
<1>9. /\ h.current \in Seq(Videos) /\ Len(h.current) = m - 1
      /\ DOMAIN h.current = 1..(m - 1)
      /\ \A i \in 1..(m - 1) : h.current[i] = g.current[i]
  <2>1. g.current \in Seq(Videos) /\ Len(g.current) > 0
    BY <1>1, <1>2
  <2>2. h.current = SubSeq(g.current, 1, Len(g.current) - 1)
    BY <1>7
  <2>3. QED
    BY <2>1, <2>2, PopFacts, Zenon
<1>10. /\ h.waiting \in Seq(Videos) /\ Len(h.waiting) = n + 1
      /\ DOMAIN h.waiting = 1..(n + 1) /\ h.waiting[n + 1] = t
      /\ \A i \in 1..n : h.waiting[i] = g.waiting[i]
  <2>1. PICK w : w = Append(g.waiting, t)
    OBVIOUS
  <2>2. /\ w \in Seq(Videos) /\ Len(w) = n + 1
        /\ DOMAIN w = 1..(n + 1) /\ w[n + 1] = t
        /\ \A i \in 1..n : w[i] = g.waiting[i]
    BY <1>2, <1>3, <2>1, PushFacts
  <2>3. QED
    BY <1>7, <2>1, <2>2
<1>11. h.cell \in [Videos -> Streams \cup {Idle}]
  BY <1>1, <1>7
<1>12. h \in Grids
  BY <1>8, <1>9, <1>10, <1>11 DEF Grids
<1>13. Removed(g, h, m, n, t)
  BY <1>1, <1>3, <1>7, <1>9, <1>10, <1>12 DEF Removed
<1>14. QED
  BY <1>13, RemoveEffect

(* With the local video alone there is no remote one. *)
LEMMA OnlyLocal ==
    ASSUME NEW g, GridInv(g), getVideoCount(g) = 1
    PROVE  Shown(g) = {}
<1>1. DOMAIN g.current = {1} /\ g.current[1] = LocalVideo
  BY GridFacts DEF getVideoCount, GridInv, GridOK
<1>2. Remote(g) = {}
  BY <1>1 DEF Remote, InStack
<1>3. QED
  BY <1>2 DEF Shown

(* The local stream goes to the bottom of the stack. *)
LEMMA LocalEffect ==
    ASSUME NEW g, GridInv(g), Hidden(g),
           NEW h, h = Load(g, getLocalVideo(g), Local)
    PROVE  /\ GridInv(h) /\ Hidden(h)
           /\ h.cell[LocalVideo] = Local
           /\ Shown(h) = Shown(g)
           /\ getVideoCount(h) = getVideoCount(g)
<1>1. getLocalVideo(g) = LocalVideo /\ LocalVideo \in Videos
  <2>1. Len(g.current) \in Nat /\ Len(g.current) >= 1
    BY GridFacts
  <2>2. Len(g.current) - (Len(g.current) - 1) = 1
    BY <2>1
  <2>3. g.current[1] = LocalVideo
    BY DEF GridInv, GridOK
  <2>4. LocalVideo \in Videos
    BY GridAssumption DEF LocalVideo, Videos
  <2>5. QED
    BY <2>2, <2>3, <2>4 DEF getLocalVideo, getVideo, getVideoCount
<1>2. g \in Grids /\ Local \in Streams
  BY CallAssumption DEF GridInv, GridOK
<1>3. /\ h.current = g.current /\ h.waiting = g.waiting /\ h \in Grids
      /\ h.cell = [g.cell EXCEPT ![LocalVideo] = Local]
      /\ g.cell \in [Videos -> Streams \cup {Idle}]
  BY <1>1, <1>2 DEF Load, Grids
<1>4. GridInv(h)
  <2>1. GridOK(h)
    BY <1>3 DEF GridInv, GridOK
  <2>2. QED
    BY <1>3, <2>1 DEF GridInv
<1>5. ~InStack(LocalVideo, g.waiting)
  <2>1. 1 \in DOMAIN g.current /\ g.current[1] = LocalVideo
    BY SMTT(30), GridFacts DEF GridInv, GridOK
  <2>2. QED
    BY <2>1 DEF GridInv, InStack
<1>6. Hidden(h)
  BY <1>3, <1>5 DEF Hidden
<1>7. Remote(h) = Remote(g)
  BY <1>3 DEF Remote
<1>8. \A v \in Remote(g) : h.cell[v] = g.cell[v]
  BY <1>3 DEF Remote
<1>9. Shown(h) = Shown(g)
  BY <1>7, <1>8 DEF Shown
<1>10. QED
  BY <1>1, <1>3, <1>4, <1>6, <1>9 DEF getVideoCount

-----------------------------------------------------------------------------
(* The invariant *)

(* Calls in messages, in questions and in histories have been made. *)
HistInv ==
    /\ \A m \in net : m.call \in DOMAIN calls
    /\ \A c \in Clients : live[c] \subseteq DOMAIN calls
    /\ \A c \in Clients : accept[c] \in CallIds =>
           accept[c] \in DOMAIN calls /\ Callee(accept[c]) = c

(* Client c takes part in a call with room r. *)
Agreed(c, r) == \E k \in live[c] : r = PeerRoom(c, k)

(* Whatever the poll may read as a room to show has been agreed to. *)
ConsentInv(c) ==
    /\ recvip[c] # NoOne => Agreed(c, recvip[c])
    /\ \A d \in Clients : cmdSet[c][d] = "recv" => Agreed(c, Room[d])
    /\ ui[c] \in {"idle", "hangUp"} => cmd[c] = ""
    /\ ui[c] = "insert" => recvip[c] # NoOne
    /\ cmd[c] = "recv" => m_s[c] # NoOne /\ Agreed(c, Room[m_s[c]])
    /\ ui[c] # "hangUp" => \A r \in Shown(grid[c]) : Agreed(c, r)

VideosInv(c) ==
    /\ GridInv(grid[c]) /\ Hidden(grid[c])
    /\ grid[c].cell[LocalVideo] \in {Idle, Local}

ButtonInv(c) ==
    /\ ui[c] \in {"idle", "caller"} =>
           (btn_die[c] <=> getVideoCount(grid[c]) > 1)
    /\ ui[c] = "insert" => getVideoCount(grid[c]) > 1

(* Between its two parts the poll has shown one room more than loadingIP.   *)
LoadedInv(c) ==
    /\ IsFiniteSet(loadingIP[c])
    /\ /\ ui[c] \in {"idle", "caller"} /\ ~raced[c]
       /\ Cardinality(loadingIP[c]) < NVideos
       => /\ Shown(grid[c]) = loadingIP[c]
          /\ getVideoCount(grid[c]) = 1 + Cardinality(loadingIP[c])
    /\ /\ ui[c] = "insert" /\ ~raced[c]
       /\ Cardinality(loadingIP[c]) + 1 < NVideos
       => LET r == grid[c].cell[getVideo(grid[c], 0)] IN
          /\ Shown(grid[c]) = loadingIP[c] \cup {r}
          /\ getVideoCount(grid[c]) = 2 + Cardinality(loadingIP[c])
    /\ ui[c] = "insert" =>
           grid[c].cell[getVideo(grid[c], 0)] \notin loadingIP[c]

ClientInv(c) == ConsentInv(c) /\ VideosInv(c) /\ ButtonInv(c) /\ LoadedInv(c)

CallInv == TypeOK /\ HistInv /\ \A c \in Clients : ClientInv(c)

-----------------------------------------------------------------------------
(* What a step leaves alone *)

LEMMA AgreedKept ==
    ASSUME NEW c \in Clients, NEW r, TypeOK, HistInv, Agreed(c, r),
           live[c] \subseteq live'[c],
           calls' = calls \/ \E x : calls' = Append(calls, x)
    PROVE  Agreed(c, r)'
<1>1. PICK k \in live[c] : r = PeerRoom(c, k)
  BY DEF Agreed
<1>2. k \in DOMAIN calls /\ calls \in Seq([from : Clients, to : Clients])
  BY <1>1 DEF HistInv, TypeOK
<1>3. calls'[k] = calls[k]
  BY <1>2
<1>4. QED
  BY <1>1, <1>3 DEF Agreed, PeerRoom, Caller, Callee

(* A client whose part of the state has not changed keeps its invariant. *)
LEMMA OtherClient ==
    ASSUME NEW d \in Clients, TypeOK, HistInv, ClientInv(d),
           m_s'[d] = m_s[d], cmdSet'[d] = cmdSet[d], recvip'[d] = recvip[d],
           loadingIP'[d] = loadingIP[d], grid'[d] = grid[d],
           btn_die'[d] = btn_die[d], ui'[d] = ui[d], cmd'[d] = cmd[d],
           live'[d] = live[d], raced'[d] = raced[d],
           calls' = calls \/ \E x : calls' = Append(calls, x)
    PROVE  ClientInv(d)'
<1>1. ASSUME NEW r, Agreed(d, r) PROVE Agreed(d, r)'
  BY <1>1, AgreedKept
<1>2. ConsentInv(d)'
  BY <1>1 DEF ClientInv, ConsentInv, TypeOK
<1>3. VideosInv(d)'
  BY DEF ClientInv, VideosInv
<1>4. ButtonInv(d)'
  BY DEF ClientInv, ButtonInv
<1>5. LoadedInv(d)'
  BY DEF ClientInv, LoadedInv
<1>6. QED
  BY <1>2, <1>3, <1>4, <1>5 DEF ClientInv

(* The invariant, one client at a time. *)
LEMMA Combine ==
    ASSUME CallInv, NEW c \in Clients, TypeOK', HistInv', ClientInv(c)',
           \A d \in Clients \ {c} :
               /\ m_s'[d] = m_s[d] /\ cmdSet'[d] = cmdSet[d]
               /\ recvip'[d] = recvip[d] /\ loadingIP'[d] = loadingIP[d]
               /\ grid'[d] = grid[d] /\ btn_die'[d] = btn_die[d]
               /\ ui'[d] = ui[d] /\ cmd'[d] = cmd[d]
               /\ live'[d] = live[d] /\ raced'[d] = raced[d],
           calls' = calls \/ \E x : calls' = Append(calls, x)
    PROVE  CallInv'
<1>1. ASSUME NEW d \in Clients \ {c} PROVE ClientInv(d)'
  BY OtherClient DEF CallInv
<1>2. QED
  BY <1>1 DEF CallInv

(* One client's grid changes. *)
LEMMA GridOf ==
    ASSUME TypeOK, NEW c \in Clients, NEW h, GridInv(h),
           grid' = [grid EXCEPT ![c] = h]
    PROVE  /\ grid' \in [Clients -> Grids]
           /\ \A d \in Clients : GridOK(grid[d])'
           /\ grid'[c] = h
           /\ \A d \in Clients \ {c} : grid'[d] = grid[d]
<1>1. GridOK(h) /\ h \in Grids
  BY DEF GridInv, GridOK
<1>2. grid \in [Clients -> Grids] /\ \A d \in Clients : GridOK(grid[d])
  BY DEF TypeOK
<1>3. /\ grid' \in [Clients -> Grids] /\ grid'[c] = h
      /\ \A d \in Clients \ {c} : grid'[d] = grid[d]
  BY <1>1, <1>2
<1>4. ASSUME NEW d \in Clients PROVE GridOK(grid'[d])
  BY <1>1, <1>2, <1>3
<1>5. QED
  BY <1>3, <1>4

-----------------------------------------------------------------------------
(* AcceptProc *)

(* It leaves the window's part alone and takes no consent back. *)
LEMMA AcceptKeeps ==
    ASSUME CallInv, NEW c \in Clients, UNCHANGED acceptRest,
           live[c] \subseteq live'[c],
           recvip'[c] = recvip[c] \/ (recvip'[c] # NoOne /\ Agreed(c, recvip[c])'),
           \A d \in Clients : cmdSet'[c][d] = "recv" =>
               cmdSet[c][d] = "recv" \/ Agreed(c, Room[d])'
    PROVE  ClientInv(c)'
<1>1. ASSUME NEW r, Agreed(c, r) PROVE Agreed(c, r)'
  BY <1>1, AgreedKept DEF CallInv, acceptRest
<1>2. ClientInv(c) /\ TypeOK
  BY DEF CallInv
<1>3. /\ m_s' = m_s /\ loadingIP' = loadingIP /\ grid' = grid
      /\ btn_die' = btn_die /\ ui' = ui /\ cmd' = cmd /\ raced' = raced
  BY DEF acceptRest
<1>4. ConsentInv(c)'
  <2>1. recvip'[c] # NoOne => Agreed(c, recvip[c])'
    BY <1>1, <1>2 DEF ClientInv, ConsentInv, Agreed
  <2>2. \A d \in Clients : cmdSet'[c][d] = "recv" => Agreed(c, Room[d])'
    BY <1>1, <1>2 DEF ClientInv, ConsentInv
  <2>3. ui'[c] \in {"idle", "hangUp"} => cmd'[c] = ""
    BY <1>2, <1>3 DEF ClientInv, ConsentInv
  <2>4. ui'[c] = "insert" => recvip'[c] # NoOne
    BY <1>2, <1>3 DEF ClientInv, ConsentInv
  <2>5. cmd'[c] = "recv" => m_s'[c] # NoOne /\ Agreed(c, Room[m_s[c]])'
    BY <1>1, <1>2, <1>3 DEF ClientInv, ConsentInv
  <2>6. ui'[c] # "hangUp" => \A r \in Shown(grid'[c]) : Agreed(c, r)'
    BY <1>1, <1>2, <1>3 DEF ClientInv, ConsentInv
  <2>7. QED
    BY <2>1, <2>2, <2>3, <2>4, <2>5, <2>6 DEF ConsentInv
<1>5. VideosInv(c)'
  BY <1>2, <1>3 DEF ClientInv, VideosInv
<1>6. ButtonInv(c)'
  BY <1>2, <1>3 DEF ClientInv, ButtonInv
<1>7. LoadedInv(c)'
  BY <1>2, <1>3 DEF ClientInv, LoadedInv
<1>8. QED
  BY <1>4, <1>5, <1>6, <1>7 DEF ClientInv

(* Then the others keep theirs too. *)
LEMMA AcceptCombine ==
    ASSUME CallInv, NEW c \in Clients, UNCHANGED acceptRest,
           TypeOK', HistInv', ClientInv(c)',
           \A d \in Clients \ {c} :
               /\ cmdSet'[d] = cmdSet[d] /\ recvip'[d] = recvip[d]
               /\ live'[d] = live[d]
    PROVE  CallInv'
BY Combine DEF acceptRest

LEMMA Made ==
    ASSUME TypeOK, NEW k \in DOMAIN calls
    PROVE  /\ k \in CallIds /\ k # Free /\ k # Telling
           /\ Caller(k) \in Clients /\ Callee(k) \in Clients
           /\ Room[Caller(k)] \in Rooms /\ Room[Caller(k)] # NoOne
<1>1. /\ calls \in Seq([from : Clients, to : Clients])
      /\ Len(calls) <= MaxCalls /\ MaxCalls \in Nat
  BY CallAssumption DEF TypeOK
<1>2. k \in 1..MaxCalls /\ calls[k] \in [from : Clients, to : Clients]
  <2>1. /\ Len(calls) \in Nat /\ DOMAIN calls = 1..Len(calls)
        /\ calls \in [1..Len(calls) -> [from : Clients, to : Clients]]
    BY <1>1, LenProperties
  <2>2. QED
    BY <1>1, <2>1
<1>3. QED
  BY <1>2, CallAssumption DEF CallIds, Free, Telling, Caller, Callee, Rooms

LEMMA RecvSendStep ==
    ASSUME CallInv, NEW c \in Clients, NEW k \in DOMAIN calls, RecvSend(c, k)
    PROVE  CallInv'
<1>1. /\ TypeOK /\ HistInv /\ k \in CallIds /\ UNCHANGED acceptRest
      /\ net' \subseteq net /\ Callee(k) = c
      /\ accept' = [accept EXCEPT ![c] = k]
      /\ UNCHANGED <<cmdSet, recvip, live>>
  BY Made DEF CallInv, RecvSend
<1>2. TypeOK'
  BY <1>1 DEF TypeOK, acceptRest
<1>3. HistInv'
  BY <1>1 DEF HistInv, acceptRest, TypeOK, Callee
<1>4. ClientInv(c)'
  BY <1>1, AcceptKeeps
<1>5. QED
  BY <1>1, <1>2, <1>3, <1>4, AcceptCombine

(* A reply is about the call of the question, or lost. *)
LEMMA ReplyTypes ==
    ASSUME TypeOK, HistInv, NEW k \in DOMAIN calls,
           NEW kind \in {"recv", "refu"}, Reply(k, kind), calls' = calls
    PROVE  /\ net' \subseteq Messages
           /\ \A m \in net' : m.call \in DOMAIN calls'
<1>1. [call |-> k, kind |-> kind] \in Messages
  BY Made DEF Messages
<1>2. QED
  BY <1>1 DEF Reply, TypeOK, HistInv

LEMMA AnswerOkStep ==
    ASSUME CallInv, NEW c \in Clients, AnswerOk(c)
    PROVE  CallInv'
<1>. DEFINE k == accept[c]
<1>1. /\ TypeOK /\ HistInv /\ k \in DOMAIN calls /\ Callee(k) = c
      /\ UNCHANGED acceptRest
      /\ recvip' = [recvip EXCEPT ![c] = Room[Caller(k)]]
      /\ cmdSet' = [cmdSet EXCEPT ![c][Caller(k)] = "room"]
      /\ live' = [live EXCEPT ![c] = @ \cup {k}]
      /\ accept' = [accept EXCEPT ![c] = Free]
  BY DEF CallInv, AnswerOk, HistInv
<1>2. Reply(k, "recv") /\ calls' = calls
  BY DEF AnswerOk, acceptRest
<1>3. /\ k \in CallIds /\ Caller(k) \in Clients
      /\ Room[Caller(k)] \in Rooms /\ Room[Caller(k)] # NoOne
  BY <1>1, Made
<1>4. /\ recvip \in [Clients -> Rooms \cup {NoOne}]
      /\ cmdSet \in [Clients -> [Clients -> Commands]]
      /\ live \in [Clients -> SUBSET CallIds]
      /\ accept \in [Clients -> {Free, Telling} \cup CallIds]
  BY <1>1 DEF TypeOK
<1>5. /\ recvip' \in [Clients -> Rooms \cup {NoOne}]
      /\ recvip'[c] = Room[Caller(k)]
      /\ \A d \in Clients \ {c} : recvip'[d] = recvip[d]
  BY <1>1, <1>3, <1>4
<1>6. /\ cmdSet' \in [Clients -> [Clients -> Commands]]
      /\ \A d \in Clients : cmdSet'[c][d] = "recv" => cmdSet[c][d] = "recv"
      /\ \A d \in Clients \ {c} : cmdSet'[d] = cmdSet[d]
  BY <1>1, <1>3, <1>4 DEF Commands
<1>7. /\ live' \in [Clients -> SUBSET CallIds]
      /\ live'[c] = live[c] \cup {k}
      /\ \A d \in Clients \ {c} : live'[d] = live[d]
  BY <1>1, <1>3, <1>4
<1>8. TypeOK'
  <2>1. net' \subseteq Messages
    BY <1>1, <1>2, ReplyTypes
  <2>2. accept' \in [Clients -> {Free, Telling} \cup CallIds]
    BY <1>1, <1>4
  <2>3. QED
    BY <1>1, <1>5, <1>6, <1>7, <2>1, <2>2 DEF TypeOK, acceptRest
<1>9. HistInv'
  <2>1. \A m \in net' : m.call \in DOMAIN calls'
    BY <1>1, <1>2, ReplyTypes
  <2>2. \A d \in Clients : live'[d] \subseteq DOMAIN calls'
    BY <1>1, <1>2, <1>7 DEF HistInv
  <2>3. Free \notin CallIds
    BY DEF Free, CallIds
  <2>4. ASSUME NEW d \in Clients, accept'[d] \in CallIds
        PROVE  accept'[d] = accept[d]
    BY <1>1, <1>4, <2>3, <2>4
  <2>5. \A d \in Clients : accept'[d] \in CallIds =>
            accept'[d] \in DOMAIN calls' /\ Callee(accept[d])' = d
    BY <1>1, <1>2, <2>4 DEF HistInv, Callee
  <2>6. QED
    BY <2>1, <2>2, <2>5 DEF HistInv
<1>10. Agreed(c, recvip[c])'
  BY <1>1, <1>2, <1>5, <1>7 DEF Agreed, PeerRoom, Callee, Caller
<1>11. ClientInv(c)'
  BY <1>1, <1>3, <1>5, <1>6, <1>7, <1>10, AcceptKeeps
<1>12. QED
  BY <1>1, <1>5, <1>6, <1>7, <1>8, <1>9, <1>11, AcceptCombine

LEMMA AnswerCancelStep ==
    ASSUME CallInv, NEW c \in Clients, AnswerCancel(c)
    PROVE  CallInv'
<1>. DEFINE k == accept[c]
<1>1. /\ TypeOK /\ HistInv /\ k \in DOMAIN calls
      /\ UNCHANGED acceptRest /\ UNCHANGED <<cmdSet, recvip, live>>
      /\ accept' = [accept EXCEPT ![c] = Free]
  BY DEF CallInv, AnswerCancel, HistInv
<1>2. Reply(k, "refu") /\ calls' = calls
  BY DEF AnswerCancel, acceptRest
<1>3. /\ net' \subseteq Messages
      /\ \A m \in net' : m.call \in DOMAIN calls'
  BY <1>1, <1>2, ReplyTypes
<1>4. TypeOK'
  BY <1>1, <1>3 DEF TypeOK, acceptRest
<1>5. HistInv'
  <2>1. Free \notin CallIds /\ accept \in [Clients -> {Free, Telling} \cup CallIds]
    BY <1>1 DEF Free, CallIds, TypeOK
  <2>2. ASSUME NEW d \in Clients, accept'[d] \in CallIds
        PROVE  accept'[d] = accept[d]
    BY <1>1, <2>1, <2>2
  <2>3. QED
    BY <1>1, <1>2, <1>3, <2>2 DEF HistInv, Callee
<1>6. ClientInv(c)'
  BY <1>1, AcceptKeeps
<1>7. QED
  BY <1>1, <1>4, <1>5, <1>6, AcceptCombine

(* An answer may be that of any call, long given up; "recv" is a consent.   *)
LEMMA RecvAnswerStep ==
    ASSUME CallInv, NEW c \in Clients, NEW k \in DOMAIN calls,
           RecvAnswer(c, k)
    PROVE  CallInv'
<1>1. PICK kind \in {"recv", "refu"} :
        /\ net' = net \ {[call |-> k, kind |-> kind]}
        /\ cmdSet' = [cmdSet EXCEPT ![c][Callee(k)] = kind]
        /\ live' = IF kind = "recv" THEN [live EXCEPT ![c] = @ \cup {k}]
                                    ELSE live
        /\ accept' = IF kind = "refu" THEN [accept EXCEPT ![c] = Telling]
                                      ELSE accept
  BY DEF RecvAnswer
<1>2. /\ TypeOK /\ HistInv /\ Caller(k) = c /\ calls' = calls
      /\ UNCHANGED acceptRest /\ recvip' = recvip
  BY DEF CallInv, RecvAnswer, acceptRest
<1>3. k \in CallIds /\ Callee(k) \in Clients
  BY <1>2, Made
<1>4. /\ cmdSet \in [Clients -> [Clients -> Commands]]
      /\ live \in [Clients -> SUBSET CallIds]
      /\ accept \in [Clients -> {Free, Telling} \cup CallIds]
      /\ net \subseteq Messages
  BY <1>2 DEF TypeOK
<1>5. /\ cmdSet' \in [Clients -> [Clients -> Commands]]
      /\ \A d \in Clients : cmdSet'[c][d] = "recv" =>
             cmdSet[c][d] = "recv" \/ (d = Callee(k) /\ kind = "recv")
      /\ \A d \in Clients \ {c} : cmdSet'[d] = cmdSet[d]
  BY <1>1, <1>3, <1>4 DEF Commands
<1>6. /\ live' \in [Clients -> SUBSET CallIds]
      /\ live[c] \subseteq live'[c]
      /\ kind = "recv" => live'[c] = live[c] \cup {k}
      /\ \A d \in Clients : live'[d] \subseteq live[d] \cup {k}
      /\ \A d \in Clients \ {c} : live'[d] = live[d]
  BY <1>1, <1>3, <1>4
<1>7. Telling \notin CallIds
  BY DEF Telling, CallIds
<1>8. /\ accept' \in [Clients -> {Free, Telling} \cup CallIds]
      /\ \A d \in Clients : accept'[d] \in CallIds => accept'[d] = accept[d]
  BY <1>1, <1>4, <1>7
<1>9. TypeOK'
  <2>1. net' \subseteq Messages
    BY <1>1, <1>4
  <2>2. QED
    BY <1>2, <1>5, <1>6, <1>8, <2>1 DEF TypeOK, acceptRest
<1>10. HistInv'
  BY <1>1, <1>2, <1>6, <1>8 DEF HistInv, Callee
<1>11. kind = "recv" => Agreed(c, Room[Callee(k)])'
  BY <1>1, <1>2, <1>6 DEF Agreed, PeerRoom, Callee, Caller
<1>12. \A d \in Clients : cmdSet'[c][d] = "recv" =>
               cmdSet[c][d] = "recv" \/ Agreed(c, Room[d])'
  BY <1>2, <1>5, <1>11 DEF Callee, Agreed
<1>13. ClientInv(c)'
  BY <1>2, <1>6, <1>12, AcceptKeeps
<1>14. QED
  BY <1>2, <1>5, <1>6, <1>9, <1>10, <1>13, AcceptCombine

LEMMA ToldStep ==
    ASSUME CallInv, NEW c \in Clients, Told(c)
    PROVE  CallInv'
<1>1. /\ TypeOK /\ HistInv /\ UNCHANGED acceptRest
      /\ UNCHANGED <<cmdSet, recvip, net, live>>
      /\ accept' = [accept EXCEPT ![c] = Free]
  BY DEF CallInv, Told
<1>2. TypeOK'
  BY <1>1 DEF TypeOK, acceptRest
<1>3. HistInv'
  <2>1. Free \notin CallIds /\ accept \in [Clients -> {Free, Telling} \cup CallIds]
    BY <1>1 DEF Free, CallIds, TypeOK
  <2>2. ASSUME NEW d \in Clients, accept'[d] \in CallIds
        PROVE  accept'[d] = accept[d]
    BY <1>1, <2>1, <2>2
  <2>3. QED
    BY <1>1, <2>2 DEF HistInv, Callee, acceptRest
<1>4. ClientInv(c)'
  BY <1>1, AcceptKeeps
<1>5. QED
  BY <1>1, <1>2, <1>3, <1>4, AcceptCombine

LEMMA AcceptStep ==
    ASSUME CallInv, NEW c \in Clients, Accept(c)
    PROVE  CallInv'
BY RecvSendStep, RecvAnswerStep, AnswerOkStep, AnswerCancelStep, ToldStep
   DEF Accept

-----------------------------------------------------------------------------
(* The window *)

LEMMA HistKept ==
    ASSUME HistInv, net' = net, calls' = calls, live' = live,
           accept' = accept
    PROVE  HistInv'
BY DEF HistInv, Callee

LEMMA SameAgreed ==
    ASSUME NEW c, NEW r, Agreed(c, r), live' = live, calls' = calls
    PROVE  Agreed(c, r)'
BY DEF Agreed, PeerRoom, Callee, Caller

LEMMA InviteStep ==
    ASSUME CallInv, NEW c \in Clients, NEW d \in Clients, Invite(c, d)
    PROVE  CallInv'
<1>1. /\ TypeOK /\ HistInv /\ ClientInv(c) /\ ui[c] = "idle"
      /\ Len(calls) < MaxCalls
      /\ calls' = Append(calls, [from |-> c, to |-> d])
      /\ net' \in {net, net \cup {[call |-> Len(calls'), kind |-> "send"]}}
      /\ m_s' = [m_s EXCEPT ![c] = d]
      /\ UNCHANGED <<cmdSet, recvip, loadingIP, grid, btn_die, ui, cmd, accept,
                     live, raced>>
  BY DEF CallInv, Invite
<1>2. /\ calls \in Seq([from : Clients, to : Clients]) /\ MaxCalls \in Nat
      /\ [from |-> c, to |-> d] \in [from : Clients, to : Clients]
  BY <1>1, CallAssumption DEF TypeOK
<1>3. PICK n \in Nat : n = Len(calls)
  BY <1>2
<1>4. /\ calls' \in Seq([from : Clients, to : Clients])
      /\ Len(calls') = n + 1 /\ DOMAIN calls' = 1..(n + 1)
      /\ \A k \in 1..n : calls'[k] = calls[k]
      /\ DOMAIN calls = 1..n /\ n + 1 \in 1..(n + 1) /\ n + 1 <= MaxCalls
  BY <1>1, <1>2, <1>3
<1>5. \A k \in 1..n : k \in 1..(n + 1)
  OBVIOUS
<1>6. TypeOK'
  <2>1. n + 1 \in CallIds
    BY <1>2, <1>4 DEF CallIds
  <2>2. [call |-> Len(calls'), kind |-> "send"] \in Messages
    BY <1>4, <2>1 DEF Messages
  <2>3. net' \subseteq Messages
    BY <1>1, <2>2 DEF TypeOK
  <2>4. m_s' \in [Clients -> Clients \cup {NoOne}]
    BY <1>1 DEF TypeOK
  <2>5. calls' \in Seq([from : Clients, to : Clients]) /\ Len(calls') <= MaxCalls
    BY <1>4
  <2>6. QED
    BY <1>1, <2>3, <2>4, <2>5 DEF TypeOK
<1>7. HistInv'
  <2>1. \A m \in net' : m.call \in DOMAIN calls'
    BY <1>1, <1>4, <1>5 DEF HistInv
  <2>2. \A e \in Clients : live'[e] \subseteq DOMAIN calls'
    BY <1>1, <1>4, <1>5 DEF HistInv
  <2>3. ASSUME NEW e \in Clients, accept'[e] \in CallIds
        PROVE  accept'[e] \in DOMAIN calls' /\ Callee(accept[e])' = e
    BY <1>1, <1>4, <1>5, <2>3 DEF HistInv, Callee
  <2>4. QED
    BY <2>1, <2>2, <2>3 DEF HistInv
<1>8. ConsentInv(c)'
  <2>1. ASSUME NEW r, Agreed(c, r) PROVE Agreed(c, r)'
    BY <1>1, <2>1, AgreedKept
  <2>2. cmd'[c] = ""
    BY <1>1 DEF ClientInv, ConsentInv
  <2>3. QED
    BY <1>1, <2>1, <2>2 DEF ClientInv, ConsentInv
<1>9. ClientInv(c)'
  <2>1. VideosInv(c)'
    BY <1>1 DEF ClientInv, VideosInv
  <2>2. ButtonInv(c)'
    BY <1>1 DEF ClientInv, ButtonInv
  <2>3. LoadedInv(c)'
    BY <1>1 DEF ClientInv, LoadedInv
  <2>4. QED
    BY <1>8, <2>1, <2>2, <2>3 DEF ClientInv
<1>10. \A e \in Clients \ {c} : m_s'[e] = m_s[e]
  BY <1>1 DEF TypeOK
<1>11. calls' = calls \/ \E x : calls' = Append(calls, x)
  BY <1>1
<1>12. QED
  BY <1>1, <1>6, <1>7, <1>9, <1>10, <1>11, Combine

LEMMA InitPlayerStep ==
    ASSUME CallInv, NEW c \in Clients, InitPlayer(c)
    PROVE  CallInv'
<1>. DEFINE h == Load(grid[c], getLocalVideo(grid[c]), Local)
<1>1. /\ TypeOK /\ HistInv /\ ClientInv(c) /\ ui[c] = "idle"
      /\ grid' = [grid EXCEPT ![c] = h]
      /\ UNCHANGED <<m_s, cmdSet, recvip, loadingIP, btn_die, ui, cmd, accept,
                     net, calls, live, raced>>
  BY DEF CallInv, InitPlayer
<1>2. /\ GridInv(h) /\ Hidden(h) /\ h.cell[LocalVideo] = Local
      /\ Shown(h) = Shown(grid[c]) /\ getVideoCount(h) = getVideoCount(grid[c])
  BY <1>1, LocalEffect DEF ClientInv, VideosInv
<1>3. /\ grid' \in [Clients -> Grids]
      /\ \A d \in Clients : GridOK(grid[d])'
      /\ grid'[c] = h
      /\ \A d \in Clients \ {c} : grid'[d] = grid[d]
  <2>. HIDE DEF h
  <2>1. QED
    BY <1>1, <1>2, GridOf
<1>4. TypeOK'
  BY <1>1, <1>3 DEF TypeOK
<1>5. HistInv'
  BY <1>1, HistKept
<1>6. ConsentInv(c)'
  <2>1. ASSUME NEW r, Agreed(c, r) PROVE Agreed(c, r)'
    BY <1>1, <2>1, SameAgreed
  <2>2. Shown(grid'[c]) = Shown(grid[c])
    BY <1>2, <1>3
  <2>3. QED
    BY <1>1, <2>1, <2>2 DEF ClientInv, ConsentInv
<1>7. VideosInv(c)'
  BY <1>2, <1>3 DEF VideosInv
<1>8. ButtonInv(c)'
  BY <1>1, <1>2, <1>3 DEF ClientInv, ButtonInv
<1>9. LoadedInv(c)'
  BY <1>1, <1>2, <1>3 DEF ClientInv, LoadedInv
<1>10. QED
  BY <1>1, <1>3, <1>4, <1>5, <1>6, <1>7, <1>8, <1>9, Combine DEF ClientInv

(* A grid with fewer videos than there are has one waiting. *)
LEMMA NotFull ==
    ASSUME NEW g, GridInv(g), getVideoCount(g) < NVideos
    PROVE  g.waiting # <<>>
<1>1. Len(g.current) + Len(g.waiting) = NVideos /\ Len(g.current) < NVideos
  BY DEF GridInv, GridOK, getVideoCount
<1>2. Len(g.current) \in Nat /\ Len(g.waiting) \in Nat /\ NVideos \in Nat
  BY GridFacts, GridAssumption
<1>3. Len(g.waiting) # 0
  <2>1. ASSUME NEW i \in Nat, NEW j \in Nat, NEW n \in Nat, i + j = n, i < n
        PROVE  j # 0
    BY <2>1
  <2>2. QED
    BY <1>1, <1>2, <2>1
<1>4. QED
  BY <1>3

LEMMA RoomStream ==
    ASSUME NEW r \in Rooms
    PROVE  r \in Streams /\ r # NoOne
BY CallAssumption

LEMMA PollAcceptedStep ==
    ASSUME CallInv, NEW c \in Clients, PollAccepted(c)
    PROVE  CallInv'
<1>. DEFINE new == recvip[c] # NoOne /\ recvip[c] \notin loadingIP[c]
            g == grid[c]
<1>1. /\ TypeOK /\ HistInv /\ ClientInv(c) /\ ui[c] = "idle"
      /\ cmd' = [cmd EXCEPT ![c] = IF m_s[c] = NoOne THEN ""
                                   ELSE cmdSet[c][m_s[c]]]
      /\ UNCHANGED <<m_s, cmdSet, recvip, accept, net, calls, live,
                     loadingIP, btn_die, raced>>
  BY DEF CallInv, PollAccepted, pollRest
<1>2. /\ new => /\ grid' = [grid EXCEPT ![c] = addsubVideo(g, recvip[c])]
                /\ ui' = [ui EXCEPT ![c] = "insert"]
      /\ ~new => grid' = grid /\ ui' = [ui EXCEPT ![c] = "caller"]
  BY DEF PollAccepted
<1>3. /\ cmd \in [Clients -> Commands] /\ m_s \in [Clients -> Clients \cup {NoOne}]
      /\ cmdSet \in [Clients -> [Clients -> Commands]]
      /\ recvip \in [Clients -> Rooms \cup {NoOne}]
      /\ ui \in [Clients -> {"idle", "insert", "caller", "hangUp"}]
      /\ grid \in [Clients -> Grids] /\ \A d \in Clients : GridOK(grid[d])
  BY <1>1 DEF TypeOK
<1>4. /\ cmd' \in [Clients -> Commands]
      /\ cmd'[c] = "recv" => m_s[c] # NoOne /\ cmdSet[c][m_s[c]] = "recv"
      /\ \A d \in Clients \ {c} : cmd'[d] = cmd[d]
  <2>1. "" \in Commands /\ "" # "recv"
    BY DEF Commands
  <2>2. QED
    BY <1>1, <1>3, <2>1
<1>5. /\ GridInv(g) /\ Hidden(g) /\ g.cell[LocalVideo] \in {Idle, Local}
      /\ btn_die[c] <=> getVideoCount(g) > 1
      /\ IsFiniteSet(loadingIP[c])
      /\ \A r \in Shown(g) : Agreed(c, r)
      /\ recvip[c] # NoOne => Agreed(c, recvip[c])
      /\ ~raced[c] /\ Cardinality(loadingIP[c]) < NVideos =>
             /\ Shown(g) = loadingIP[c]
             /\ getVideoCount(g) = 1 + Cardinality(loadingIP[c])
  BY <1>1 DEF ClientInv, VideosInv, ButtonInv, LoadedInv, ConsentInv
<1>6. ASSUME NEW r, Agreed(c, r) PROVE Agreed(c, r)'
  BY <1>1, <1>6, SameAgreed
<1>7. HistInv'
  BY <1>1, HistKept
<1>8. CASE ~new
  <2>1. grid' = grid /\ ui' = [ui EXCEPT ![c] = "caller"]
    BY <1>2, <1>8
  <2>2. /\ ui' \in [Clients -> {"idle", "insert", "caller", "hangUp"}]
        /\ ui'[c] = "caller" /\ \A d \in Clients \ {c} : ui'[d] = ui[d]
    BY <1>3, <2>1
  <2>3. TypeOK'
    BY <1>1, <1>4, <2>1, <2>2 DEF TypeOK
  <2>4. ConsentInv(c)'
    <3>1. \A d \in Clients : cmdSet'[c][d] = "recv" => Agreed(c, Room[d])'
      BY <1>1, <1>6 DEF ClientInv, ConsentInv
    <3>2. m_s[c] \in Clients \cup {NoOne}
      BY <1>3
    <3>3. QED
      BY <1>1, <1>4, <1>5, <1>6, <2>1, <2>2, <3>1, <3>2 DEF ConsentInv
  <2>5. VideosInv(c)'
    BY <1>5, <2>1 DEF VideosInv
  <2>6. ButtonInv(c)'
    BY <1>1, <1>5, <2>1, <2>2 DEF ButtonInv
  <2>7. LoadedInv(c)'
    BY <1>1, <1>5, <2>1, <2>2 DEF LoadedInv
  <2>8. QED
    BY <1>1, <1>4, <1>7, <2>1, <2>2, <2>3, <2>4, <2>5, <2>6, <2>7, Combine
       DEF ClientInv
<1>9. CASE new
  <2>1. PICK h : h = addsubVideo(g, recvip[c])
    OBVIOUS
  <2>2. grid' = [grid EXCEPT ![c] = h] /\ ui' = [ui EXCEPT ![c] = "insert"]
    BY <1>2, <1>9, <2>1
  <2>3. /\ ui' \in [Clients -> {"idle", "insert", "caller", "hangUp"}]
        /\ ui'[c] = "insert" /\ \A d \in Clients \ {c} : ui'[d] = ui[d]
    BY <1>3, <2>2
  <2>4. recvip[c] \in Rooms /\ recvip[c] \in Streams
    BY <1>3, <1>9, RoomStream
  <2>5. /\ GridInv(h) /\ Hidden(h)
        /\ h.cell[LocalVideo] = g.cell[LocalVideo]
        /\ Shown(h) \subseteq Shown(g) \cup {recvip[c]}
        /\ getVideoCount(h) > 1 /\ h.cell[getVideo(h, 0)] = recvip[c]
    BY <1>5, <2>1, <2>4, AddedVideo
  <2>6. /\ grid' \in [Clients -> Grids]
        /\ \A d \in Clients : GridOK(grid[d])'
        /\ grid'[c] = h
        /\ \A d \in Clients \ {c} : grid'[d] = grid[d]
    BY <1>1, <2>2, <2>5, GridOf
  <2>7. TypeOK'
    BY <1>1, <1>4, <2>3, <2>6 DEF TypeOK
  <2>8. ConsentInv(c)'
    <3>1. \A d \in Clients : cmdSet'[c][d] = "recv" => Agreed(c, Room[d])'
      BY <1>1, <1>6 DEF ClientInv, ConsentInv
    <3>2. m_s[c] \in Clients \cup {NoOne}
      BY <1>3
    <3>3. \A r \in Shown(h) : Agreed(c, r)'
      BY <1>5, <1>6, <1>9, <2>5
    <3>4. QED
      BY <1>1, <1>4, <1>5, <1>6, <1>9, <2>3, <2>6, <3>1, <3>2, <3>3
         DEF ConsentInv
  <2>9. VideosInv(c)'
    BY <1>5, <2>5, <2>6 DEF VideosInv
  <2>10. ButtonInv(c)'
    BY <2>3, <2>5, <2>6 DEF ButtonInv
  <2>11. ASSUME ~raced[c], Cardinality(loadingIP[c]) + 1 < NVideos
         PROVE  /\ Shown(h) = loadingIP[c] \cup {recvip[c]}
                /\ getVideoCount(h) = 2 + Cardinality(loadingIP[c])
    <3>1. Cardinality(loadingIP[c]) \in Nat /\ NVideos \in Nat
      BY <1>5, FS_CardinalityType, GridAssumption
    <3>2. /\ Shown(g) = loadingIP[c]
          /\ getVideoCount(g) = 1 + Cardinality(loadingIP[c])
      BY <1>5, <2>11, <3>1
    <3>3. g.waiting # <<>>
      BY <1>5, <2>11, <3>1, <3>2, NotFull
    <3>4. /\ Shown(h) = Shown(g) \cup {recvip[c]}
          /\ getVideoCount(h) = getVideoCount(g) + 1
      BY <1>5, <2>1, <2>4, <3>3, PushVideo
    <3>5. QED
      BY <3>1, <3>2, <3>4
  <2>12. LoadedInv(c)'
    BY <1>1, <1>5, <1>9, <2>3, <2>5, <2>6, <2>11 DEF LoadedInv
  <2>13. QED
    BY <1>1, <1>4, <1>7, <2>3, <2>6, <2>7, <2>8, <2>9, <2>10, <2>12, Combine
       DEF ClientInv
<1>10. QED
  BY <1>8, <1>9

LEMMA PollInsertStep ==
    ASSUME CallInv, NEW c \in Clients, PollInsert(c)
    PROVE  CallInv'
<1>. DEFINE shown == grid[c].cell[getVideo(grid[c], 0)]
<1>1. /\ TypeOK /\ HistInv /\ ClientInv(c) /\ ui[c] = "insert"
      /\ loadingIP' = [loadingIP EXCEPT ![c] = @ \cup {recvip[c]}]
      /\ raced' = [raced EXCEPT ![c] = @ \/ recvip[c] # shown]
      /\ btn_die' = [btn_die EXCEPT ![c] = TRUE]
      /\ ui' = [ui EXCEPT ![c] = "caller"]
      /\ UNCHANGED <<m_s, cmdSet, recvip, accept, net, calls, live, grid, cmd>>
  BY DEF CallInv, PollInsert, pollRest
<1>2. /\ recvip \in [Clients -> Rooms \cup {NoOne}]
      /\ loadingIP \in [Clients -> SUBSET Rooms]
      /\ raced \in [Clients -> BOOLEAN] /\ btn_die \in [Clients -> BOOLEAN]
      /\ ui \in [Clients -> {"idle", "insert", "caller", "hangUp"}]
  BY <1>1 DEF TypeOK
<1>3. recvip[c] \in Rooms
  BY <1>1, <1>2 DEF ClientInv, ConsentInv
<1>4. /\ loadingIP' \in [Clients -> SUBSET Rooms]
      /\ loadingIP'[c] = loadingIP[c] \cup {recvip[c]}
      /\ \A d \in Clients \ {c} : loadingIP'[d] = loadingIP[d]
  BY <1>1, <1>2, <1>3
<1>5. /\ raced' \in [Clients -> BOOLEAN]
      /\ ~raced'[c] => ~raced[c] /\ recvip[c] = shown
      /\ \A d \in Clients \ {c} : raced'[d] = raced[d]
  BY <1>1, <1>2
<1>6. /\ btn_die' \in [Clients -> BOOLEAN] /\ btn_die'[c]
      /\ \A d \in Clients \ {c} : btn_die'[d] = btn_die[d]
  BY <1>1, <1>2
<1>7. /\ ui' \in [Clients -> {"idle", "insert", "caller", "hangUp"}]
      /\ ui'[c] = "caller" /\ \A d \in Clients \ {c} : ui'[d] = ui[d]
  BY <1>1, <1>2
<1>8. TypeOK'
  BY <1>1, <1>4, <1>5, <1>6, <1>7 DEF TypeOK
<1>9. HistInv'
  BY <1>1, HistKept
<1>10. ConsentInv(c)'
  <2>1. ASSUME NEW r, Agreed(c, r) PROVE Agreed(c, r)'
    BY <1>1, <2>1, SameAgreed
  <2>2. QED
    BY <1>1, <1>7, <2>1 DEF ClientInv, ConsentInv
<1>11. VideosInv(c)'
  BY <1>1 DEF ClientInv, VideosInv
<1>12. ButtonInv(c)'
  BY <1>1, <1>6, <1>7 DEF ClientInv, ButtonInv
<1>13. LoadedInv(c)'
  <2>1. IsFiniteSet(loadingIP[c])
    BY <1>1 DEF ClientInv, LoadedInv
  <2>2. IsFiniteSet(loadingIP'[c]) /\ Cardinality(loadingIP[c]) \in Nat
    <3>1. IsFiniteSet(loadingIP[c] \cup {recvip[c]})
      BY <2>1, FS_AddElement
    <3>2. Cardinality(loadingIP[c]) \in Nat
      BY <2>1, FS_CardinalityType
    <3>3. QED
      BY <1>4, <3>1, <3>2
  <2>3. ASSUME ~raced'[c], Cardinality(loadingIP'[c]) < NVideos
        PROVE  /\ Shown(grid[c]) = loadingIP'[c]
               /\ getVideoCount(grid[c]) = 1 + Cardinality(loadingIP'[c])
    <3>1. ~raced[c] /\ recvip[c] = shown
      BY <1>5, <2>3
    <3>2. shown \notin loadingIP[c]
      BY <1>1 DEF ClientInv, LoadedInv
    <3>3. Cardinality(loadingIP'[c]) = Cardinality(loadingIP[c]) + 1
      BY <1>4, <2>1, <3>1, <3>2, FS_AddElement
    <3>4. /\ Shown(grid[c]) = loadingIP[c] \cup {shown}
          /\ getVideoCount(grid[c]) = 2 + Cardinality(loadingIP[c])
      BY <1>1, <2>3, <3>1, <3>3 DEF ClientInv, LoadedInv
    <3>5. QED
      BY <1>4, <2>2, <3>1, <3>3, <3>4
  <2>4. QED
    BY <1>1, <1>7, <2>2, <2>3 DEF LoadedInv
<1>14. QED
  BY <1>1, <1>4, <1>5, <1>6, <1>7, <1>8, <1>9, <1>10, <1>11, <1>12, <1>13,
     Combine DEF ClientInv

LEMMA PollCallerStep ==
    ASSUME CallInv, NEW c \in Clients, PollCaller(c)
    PROVE  CallInv'
<1>. DEFINE g == grid[c]
            room == Room[m_s[c]]
            shows == cmd[c] = "recv" /\ Fits(c) /\ New(c)
<1>1. /\ TypeOK /\ HistInv /\ ClientInv(c) /\ ui[c] = "caller"
      /\ ui' = [ui EXCEPT ![c] = "idle"]
      /\ cmd' = [cmd EXCEPT ![c] = ""]
      /\ UNCHANGED <<m_s, cmdSet, recvip, accept, net, calls, live, raced>>
  BY DEF CallInv, PollCaller, ShowAnswer, pollRest
<1>2. /\ shows =>
            /\ grid' = [grid EXCEPT ![c] = addsubVideo(g, room)]
            /\ loadingIP' = [loadingIP EXCEPT ![c] = @ \cup {room}]
            /\ btn_die' = [btn_die EXCEPT ![c] = TRUE]
      /\ ~shows => UNCHANGED <<grid, loadingIP, btn_die>>
  BY DEF PollCaller, ShowAnswer
<1>3. /\ cmd \in [Clients -> Commands] /\ m_s \in [Clients -> Clients \cup {NoOne}]
      /\ loadingIP \in [Clients -> SUBSET Rooms]
      /\ btn_die \in [Clients -> BOOLEAN]
      /\ ui \in [Clients -> {"idle", "insert", "caller", "hangUp"}]
  BY <1>1 DEF TypeOK
<1>4. /\ ui' \in [Clients -> {"idle", "insert", "caller", "hangUp"}]
      /\ ui'[c] = "idle" /\ \A d \in Clients \ {c} : ui'[d] = ui[d]
  BY <1>1, <1>3
<1>5. /\ cmd' \in [Clients -> Commands]
      /\ cmd'[c] = "" /\ \A d \in Clients \ {c} : cmd'[d] = cmd[d]
  <2>1. "" \in Commands
    BY DEF Commands
  <2>2. QED
    BY <1>1, <1>3, <2>1
<1>6. /\ GridInv(g) /\ Hidden(g) /\ g.cell[LocalVideo] \in {Idle, Local}
      /\ btn_die[c] <=> getVideoCount(g) > 1
      /\ IsFiniteSet(loadingIP[c])
      /\ \A r \in Shown(g) : Agreed(c, r)
      /\ ~raced[c] /\ Cardinality(loadingIP[c]) < NVideos =>
             /\ Shown(g) = loadingIP[c]
             /\ getVideoCount(g) = 1 + Cardinality(loadingIP[c])
  BY <1>1 DEF ClientInv, VideosInv, ButtonInv, LoadedInv, ConsentInv
<1>7. ASSUME NEW r, Agreed(c, r) PROVE Agreed(c, r)'
  BY <1>1, <1>7, SameAgreed
<1>8. HistInv'
  BY <1>1, HistKept
<1>9. /\ recvip'[c] # NoOne => Agreed(c, recvip[c])'
      /\ \A d \in Clients : cmdSet'[c][d] = "recv" => Agreed(c, Room[d])'
  BY <1>1, <1>7 DEF ClientInv, ConsentInv
<1>10. CASE ~shows
  <2>1. grid' = grid /\ loadingIP' = loadingIP /\ btn_die' = btn_die
    BY <1>2, <1>10
  <2>2. TypeOK'
    BY <1>1, <1>4, <1>5, <2>1 DEF TypeOK
  <2>3. ConsentInv(c)'
    BY <1>1, <1>4, <1>5, <1>6, <1>7, <1>9, <2>1 DEF ConsentInv
  <2>4. VideosInv(c)'
    BY <1>6, <2>1 DEF VideosInv
  <2>5. ButtonInv(c)'
    BY <1>4, <1>6, <2>1 DEF ButtonInv
  <2>6. LoadedInv(c)'
    BY <1>1, <1>4, <1>6, <2>1 DEF LoadedInv
  <2>7. QED
    BY <1>1, <1>4, <1>5, <1>8, <2>1, <2>2, <2>3, <2>4, <2>5, <2>6, Combine
       DEF ClientInv
<1>11. CASE shows
  <2>1. PICK h : h = addsubVideo(g, room)
    OBVIOUS
  <2>2. /\ grid' = [grid EXCEPT ![c] = h]
        /\ loadingIP' = [loadingIP EXCEPT ![c] = @ \cup {room}]
        /\ btn_die' = [btn_die EXCEPT ![c] = TRUE]
    BY <1>2, <1>11, <2>1
  <2>3. /\ m_s[c] \in Clients /\ Agreed(c, room) /\ room \notin loadingIP[c]
    BY <1>1, <1>3, <1>11 DEF ClientInv, ConsentInv, New
  <2>4. room \in Rooms /\ room \in Streams
    BY <2>3, RoomStream DEF Rooms
  <2>5. /\ GridInv(h) /\ Hidden(h)
        /\ h.cell[LocalVideo] = g.cell[LocalVideo]
        /\ Shown(h) \subseteq Shown(g) \cup {room}
        /\ getVideoCount(h) > 1
    BY <1>6, <2>1, <2>4, AddedVideo
  <2>6. /\ grid' \in [Clients -> Grids]
        /\ \A d \in Clients : GridOK(grid[d])'
        /\ grid'[c] = h
        /\ \A d \in Clients \ {c} : grid'[d] = grid[d]
    BY <1>1, <2>2, <2>5, GridOf
  <2>7. /\ loadingIP' \in [Clients -> SUBSET Rooms]
        /\ loadingIP'[c] = loadingIP[c] \cup {room}
        /\ \A d \in Clients \ {c} : loadingIP'[d] = loadingIP[d]
    BY <1>3, <2>2, <2>4
  <2>8. /\ btn_die' \in [Clients -> BOOLEAN] /\ btn_die'[c]
        /\ \A d \in Clients \ {c} : btn_die'[d] = btn_die[d]
    BY <1>3, <2>2
  <2>9. TypeOK'
    BY <1>1, <1>4, <1>5, <2>6, <2>7, <2>8 DEF TypeOK
  <2>10. ConsentInv(c)'
    <3>1. \A r \in Shown(h) : Agreed(c, r)'
      BY <1>6, <1>7, <2>3, <2>5
    <3>2. QED
      BY <1>1, <1>4, <1>5, <1>9, <2>6, <3>1 DEF ConsentInv
  <2>11. VideosInv(c)'
    BY <1>6, <2>5, <2>6 DEF VideosInv
  <2>12. ButtonInv(c)'
    BY <1>4, <2>5, <2>6, <2>8 DEF ButtonInv
  <2>13. IsFiniteSet(loadingIP[c] \cup {room})
    BY <1>6, FS_AddElement
  <2>14. /\ Cardinality(loadingIP[c] \cup {room}) = Cardinality(loadingIP[c]) + 1
         /\ Cardinality(loadingIP[c]) \in Nat /\ NVideos \in Nat
    BY <1>6, <2>3, FS_AddElement, FS_CardinalityType, GridAssumption
  <2>15. ASSUME ~raced[c], Cardinality(loadingIP[c]) + 1 < NVideos
         PROVE  /\ Shown(h) = loadingIP[c] \cup {room}
                /\ getVideoCount(h) = 2 + Cardinality(loadingIP[c])
    <3>1. /\ Shown(g) = loadingIP[c]
          /\ getVideoCount(g) = 1 + Cardinality(loadingIP[c])
      BY <1>6, <2>14, <2>15
    <3>2. g.waiting # <<>>
      BY <1>6, <2>14, <2>15, <3>1, NotFull
    <3>3. /\ Shown(h) = Shown(g) \cup {room}
          /\ getVideoCount(h) = getVideoCount(g) + 1
      BY <1>6, <2>1, <2>4, <3>2, PushVideo
    <3>4. QED
      BY <2>14, <3>1, <3>3
  <2>16. LoadedInv(c)'
    <3>1. ui'[c] # "insert" /\ IsFiniteSet(loadingIP'[c]) /\ raced' = raced
      BY <1>1, <1>4, <2>7, <2>13
    <3>2. ASSUME ~raced[c], Cardinality(loadingIP'[c]) < NVideos
          PROVE  /\ Shown(grid'[c]) = loadingIP'[c]
                 /\ getVideoCount(grid'[c]) = 1 + Cardinality(loadingIP'[c])
      BY <2>6, <2>7, <2>14, <2>15, <3>2
    <3>3. QED
      BY <3>1, <3>2 DEF LoadedInv
  <2>17. QED
    BY ZenonT(60), <1>1, <1>4, <1>5, <1>8, <2>6, <2>7, <2>8, <2>9, <2>10, <2>11, <2>12,
       <2>16, Combine DEF ClientInv
<1>12. QED
  BY <1>10, <1>11

LEMMA HangUpStep ==
    ASSUME CallInv, NEW c \in Clients, HangUp(c)
    PROVE  CallInv'
<1>1. /\ TypeOK /\ HistInv /\ ClientInv(c) /\ ui[c] = "idle"
      /\ ui' = [ui EXCEPT ![c] = "hangUp"]
      /\ UNCHANGED <<m_s, cmdSet, recvip, accept, net, calls, live,
                     loadingIP, grid, btn_die, cmd, raced>>
  BY DEF CallInv, HangUp, pollRest
<1>2. /\ ui' \in [Clients -> {"idle", "insert", "caller", "hangUp"}]
      /\ ui'[c] = "hangUp" /\ \A d \in Clients \ {c} : ui'[d] = ui[d]
  BY <1>1 DEF TypeOK
<1>3. TypeOK'
  BY <1>1, <1>2 DEF TypeOK
<1>4. HistInv'
  BY <1>1, HistKept
<1>5. ConsentInv(c)'
  <2>1. ASSUME NEW r, Agreed(c, r) PROVE Agreed(c, r)'
    BY <1>1, <2>1, SameAgreed
  <2>2. QED
    BY <1>1, <1>2, <2>1 DEF ClientInv, ConsentInv
<1>6. VideosInv(c)' /\ ButtonInv(c)' /\ LoadedInv(c)'
  BY <1>1, <1>2 DEF ClientInv, VideosInv, ButtonInv, LoadedInv
<1>7. QED
  BY <1>1, <1>2, <1>3, <1>4, <1>5, <1>6, Combine DEF ClientInv

LEMMA CloseVideoStep ==
    ASSUME CallInv, NEW c \in Clients, CloseVideo(c)
    PROVE  CallInv'
<1>1. PICK h : h = removeVideo(Load(grid[c], getVideo(grid[c], 0), Idle))
  OBVIOUS
<1>2. /\ TypeOK /\ HistInv /\ ClientInv(c) /\ ui[c] = "hangUp"
      /\ getVideoCount(grid[c]) > 1
      /\ grid' = [grid EXCEPT ![c] = h]
      /\ UNCHANGED <<m_s, cmdSet, recvip, accept, net, calls, live,
                     loadingIP, btn_die, ui, cmd, raced>>
  BY <1>1 DEF CallInv, CloseVideo, pollRest
<1>3. /\ GridInv(h) /\ Hidden(h)
      /\ h.cell[LocalVideo] = grid[c].cell[LocalVideo]
  BY <1>1, <1>2, CloseEffect DEF ClientInv, VideosInv
<1>4. /\ grid' \in [Clients -> Grids]
      /\ \A d \in Clients : GridOK(grid[d])'
      /\ grid'[c] = h
      /\ \A d \in Clients \ {c} : grid'[d] = grid[d]
  BY <1>2, <1>3, GridOf
<1>5. TypeOK'
  BY <1>2, <1>4 DEF TypeOK
<1>6. HistInv'
  BY <1>2, HistKept
<1>7. ConsentInv(c)'
  <2>1. ASSUME NEW r, Agreed(c, r) PROVE Agreed(c, r)'
    BY <1>2, <2>1, SameAgreed
  <2>2. QED
    BY <1>2, <2>1 DEF ClientInv, ConsentInv
<1>8. VideosInv(c)'
  BY <1>2, <1>3, <1>4 DEF ClientInv, VideosInv
<1>9. ButtonInv(c)' /\ LoadedInv(c)'
  BY <1>2 DEF ClientInv, ButtonInv, LoadedInv
<1>10. QED
  BY <1>2, <1>4, <1>5, <1>6, <1>7, <1>8, <1>9, Combine DEF ClientInv

(* Whatever the messages did meanwhile, nothing of the calls is left. *)
LEMMA ClearCallsStep ==
    ASSUME CallInv, NEW c \in Clients, ClearCalls(c)
    PROVE  CallInv'
<1>1. /\ TypeOK /\ HistInv /\ ClientInv(c) /\ ui[c] = "hangUp"
      /\ getVideoCount(grid[c]) = 1
      /\ loadingIP' = [loadingIP EXCEPT ![c] = {}]
      /\ recvip' = [recvip EXCEPT ![c] = NoOne]
      /\ cmdSet' = [cmdSet EXCEPT ![c] = [d \in Clients |-> ""]]
      /\ btn_die' = [btn_die EXCEPT ![c] = FALSE]
      /\ ui' = [ui EXCEPT ![c] = "idle"]
      /\ live' = [live EXCEPT ![c] = {}]
      /\ raced' = [raced EXCEPT ![c] = FALSE]
      /\ UNCHANGED <<m_s, grid, cmd, accept, net, calls>>
  BY DEF CallInv, ClearCalls
<1>2. /\ loadingIP' \in [Clients -> SUBSET Rooms] /\ loadingIP'[c] = {}
      /\ recvip' \in [Clients -> Rooms \cup {NoOne}] /\ recvip'[c] = NoOne
      /\ btn_die' \in [Clients -> BOOLEAN] /\ ~btn_die'[c]
      /\ ui' \in [Clients -> {"idle", "insert", "caller", "hangUp"}]
      /\ ui'[c] = "idle"
      /\ live' \in [Clients -> SUBSET CallIds] /\ live'[c] = {}
      /\ raced' \in [Clients -> BOOLEAN]
  BY <1>1 DEF TypeOK
<1>3. /\ cmdSet' \in [Clients -> [Clients -> Commands]]
      /\ \A d \in Clients : cmdSet'[c][d] # "recv"
  <2>1. [d \in Clients |-> ""] \in [Clients -> Commands]
    BY DEF Commands
  <2>2. QED
    BY <1>1, <2>1 DEF TypeOK
<1>4. \A d \in Clients \ {c} :
         /\ cmdSet'[d] = cmdSet[d] /\ recvip'[d] = recvip[d]
         /\ loadingIP'[d] = loadingIP[d] /\ btn_die'[d] = btn_die[d]
         /\ ui'[d] = ui[d] /\ live'[d] = live[d] /\ raced'[d] = raced[d]
  BY <1>1 DEF TypeOK
<1>5. TypeOK'
  BY <1>1, <1>2, <1>3 DEF TypeOK
<1>6. HistInv'
  BY <1>1, <1>2, <1>4 DEF HistInv, Callee
<1>7. Shown(grid[c]) = {} /\ Cardinality({}) = 0 /\ IsFiniteSet({})
  BY <1>1, OnlyLocal, FS_EmptySet DEF ClientInv, VideosInv
<1>8. ConsentInv(c)'
  BY <1>1, <1>2, <1>3, <1>7 DEF ClientInv, ConsentInv
<1>9. VideosInv(c)'
  BY <1>1 DEF ClientInv, VideosInv
<1>10. ButtonInv(c)'
  <2>1. getVideoCount(grid'[c]) = 1 /\ ~(getVideoCount(grid'[c]) > 1)
    <3>1. grid' = grid
      BY <1>1
    <3>2. getVideoCount(grid'[c]) = 1
      BY <1>1, <3>1, Zenon
    <3>3. QED
      BY <3>2
  <2>2. ~btn_die'[c] /\ ui'[c] = "idle"
    BY <1>2
  <2>3. QED
    BY <2>1, <2>2, Zenon DEF ButtonInv
<1>11. LoadedInv(c)'
  <2>1. /\ getVideoCount(grid'[c]) = 1 + Cardinality(loadingIP'[c])
        /\ Shown(grid'[c]) = loadingIP'[c] /\ IsFiniteSet(loadingIP'[c])
    <3>1. grid' = grid
      BY <1>1
    <3>2. loadingIP'[c] = {}
      BY <1>2
    <3>3. 1 = 1 + 0
      OBVIOUS
    <3>4. QED
      BY <1>1, <1>7, <3>1, <3>2, <3>3, Zenon
  <2>2. ui'[c] # "insert"
    BY <1>2
  <2>3. QED
    BY <2>1, <2>2 DEF LoadedInv
<1>12. QED
  BY <1>1, <1>4, <1>5, <1>6, <1>8, <1>9, <1>10, <1>11, Combine DEF ClientInv

-----------------------------------------------------------------------------
LEMMA NewGridInv ==
    /\ GridInv(NewGrid) /\ Hidden(NewGrid) /\ Shown(NewGrid) = {}
    /\ NewGrid.cell[LocalVideo] = Idle /\ getVideoCount(NewGrid) = 1
<1>1. NVideos \in Nat /\ NVideos >= 2
  BY GridAssumption
<1>2. PICK w : w = [i \in 1..(NVideos - 1) |-> i + 1]
  OBVIOUS
<1>3. /\ w \in Seq(Videos) /\ Len(w) = NVideos - 1
      /\ DOMAIN w = 1..(NVideos - 1)
      /\ \A i \in 1..(NVideos - 1) : w[i] = i + 1
  BY <1>1, <1>2 DEF Videos
<1>4. /\ NewGrid.current = <<1>> /\ NewGrid.waiting = w
      /\ NewGrid.cell = [v \in Videos |-> Idle]
      /\ NewGrid = [current |-> <<1>>, waiting |-> w,
                    cell |-> [v \in Videos |-> Idle]]
  BY <1>2 DEF NewGrid, LocalVideo
<1>5. /\ 1 \in Videos /\ <<1>> \in Seq(Videos) /\ Len(<<1>>) = 1
      /\ DOMAIN <<1>> = {1} /\ <<1>>[1] = 1
  BY <1>1 DEF Videos
<1>6. NewGrid \in Grids
  BY <1>3, <1>4, <1>5 DEF Grids
<1>7. ASSUME NEW v \in Videos
      PROVE  InStack(v, NewGrid.current) \/ InStack(v, NewGrid.waiting)
  <2>1. CASE v = 1
    BY <1>4, <1>5, <2>1 DEF InStack
  <2>2. CASE v # 1
    <3>1. v - 1 \in 1..(NVideos - 1) /\ w[v - 1] = v
      BY <1>1, <1>3, <2>2 DEF Videos
    <3>2. QED
      BY <1>3, <1>4, <3>1 DEF InStack
  <2>3. QED
    BY <2>1, <2>2
<1>8. GridOK(NewGrid)
  BY <1>1, <1>3, <1>4, <1>5, <1>6, <1>7 DEF GridOK, LocalVideo
<1>9. Once(NewGrid.current) /\ Once(NewGrid.waiting)
  BY <1>1, <1>3, <1>4, <1>5 DEF Once
<1>10. \A i \in DOMAIN NewGrid.current, j \in DOMAIN NewGrid.waiting :
           NewGrid.current[i] # NewGrid.waiting[j]
  BY <1>1, <1>3, <1>4, <1>5
<1>11. GridInv(NewGrid)
  BY <1>8, <1>9, <1>10 DEF GridInv
<1>12. Hidden(NewGrid)
  BY <1>4 DEF Hidden
<1>13. getVideoCount(NewGrid) = 1
  BY <1>4, <1>5 DEF getVideoCount
<1>14. QED
  BY <1>4, <1>5, <1>11, <1>12, <1>13, OnlyLocal DEF LocalVideo

LEMMA CallInit == Init => CallInv
<1>1. SUFFICES ASSUME Init PROVE CallInv
  OBVIOUS
<1>2. \A c \in Clients : grid[c] = NewGrid
  BY <1>1 DEF Init
<1>3. NewGrid \in Grids /\ GridOK(NewGrid)
  BY NewGridInv DEF GridInv, GridOK
<1>4. TypeOK
  <2>1. grid \in [Clients -> Grids] /\ \A c \in Clients : GridOK(grid[c])
    BY <1>1, <1>3 DEF Init
  <2>2. cmdSet \in [Clients -> [Clients -> Commands]] /\ "" \in Commands
    BY <1>1 DEF Init, Commands
  <2>3. calls \in Seq([from : Clients, to : Clients]) /\ Len(calls) <= MaxCalls
    <3>1. <<>> \in Seq([from : Clients, to : Clients]) /\ Len(<<>>) = 0
      OBVIOUS
    <3>2. calls = <<>>
      BY <1>1 DEF Init
    <3>3. MaxCalls \in Nat
      BY CallAssumption
    <3>4. 0 <= MaxCalls
      BY <3>3
    <3>5. QED
      BY <3>1, <3>2, <3>4
  <2>4. QED
    BY <1>1, <2>1, <2>2, <2>3 DEF Init, TypeOK
<1>5. HistInv
  <2>1. Free \notin CallIds
    BY DEF Free, CallIds
  <2>2. /\ net = {} /\ \A c \in Clients : live[c] = {} /\ accept[c] = Free
    BY <1>1 DEF Init
  <2>3. QED
    BY <2>1, <2>2 DEF HistInv
<1>6. ASSUME NEW c \in Clients PROVE ClientInv(c)
  <2>1. Cardinality({}) = 0 /\ IsFiniteSet({})
    BY FS_EmptySet
  <2>2. ConsentInv(c)
    BY <1>1, <1>2, NewGridInv DEF Init, ConsentInv
  <2>3. VideosInv(c)
    BY <1>2, NewGridInv DEF VideosInv
  <2>4. /\ ui[c] = "idle" /\ btn_die[c] = FALSE /\ loadingIP[c] = {}
        /\ getVideoCount(grid[c]) = 1 /\ Shown(grid[c]) = {}
    BY <1>1, <1>2, NewGridInv DEF Init
  <2>5. ButtonInv(c)
    <3>1. ~(getVideoCount(grid[c]) > 1) /\ ~btn_die[c] /\ ui[c] = "idle"
      BY <2>4
    <3>2. QED
      BY <3>1, Zenon DEF ButtonInv
  <2>6. LoadedInv(c)
    <3>1. /\ getVideoCount(grid[c]) = 1 + Cardinality(loadingIP[c])
          /\ Shown(grid[c]) = loadingIP[c] /\ IsFiniteSet(loadingIP[c])
          /\ ui[c] # "insert"
      BY <2>1, <2>4
    <3>2. QED
      BY <3>1 DEF LoadedInv
  <2>7. QED
    BY <2>2, <2>3, <2>5, <2>6 DEF ClientInv
<1>7. QED
  BY <1>4, <1>5, <1>6 DEF CallInv

LEMMA CallStep == CallInv /\ [Next]_vars => CallInv'
<1>1. SUFFICES ASSUME CallInv, [Next]_vars PROVE CallInv'
  OBVIOUS
<1>2. CASE UNCHANGED vars
  <2>1. TypeOK'
    BY <1>1, <1>2 DEF CallInv, vars, TypeOK
  <2>2. HistInv'
    BY <1>1, <1>2, HistKept DEF CallInv, vars
  <2>3. \A c \in Clients : ClientInv(c)'
    BY <1>1, <1>2, OtherClient DEF CallInv, vars
  <2>4. QED
    BY <2>1, <2>2, <2>3 DEF CallInv
<1>3. CASE Next
  BY <1>1, <1>3, InitPlayerStep, InviteStep, PollAcceptedStep, PollInsertStep,
     PollCallerStep, HangUpStep, CloseVideoStep, ClearCallsStep, AcceptStep
     DEF Next, Poll, Close
<1>4. QED
  BY <1>1, <1>2, <1>3

(* CallInv is inductive, for any number of clients, videos and invitations. *)
THEOREM CallInductive == Spec => []CallInv
<1>1. QED
  BY CallInit, CallStep, PTL DEF Spec

(* Every variable keeps its type, and the grid of YoohooComUI its stacks:   *)
(* no video is lost or held twice, and the local one stays at the bottom.   *)
THEOREM CallTypes == Spec => []TypeOK
<1>1. CallInv => TypeOK
  BY DEF CallInv
<1>2. QED
  BY <1>1, CallInductive, PTL

(* The poll shows only streams of calls that both sides agreed to: whatever *)
(* the order of messages, recvip and cmdSet hold rooms of calls that this   *)
(* side takes part in.                                                      *)
THEOREM AgreedOnly == Spec => []OnlyAgreedCalls
<1>1. CallInv => OnlyAgreedCalls
  BY DEF CallInv, ClientInv, ConsentInv, OnlyAgreedCalls, Agreed
<1>2. QED
  BY <1>1, CallInductive, PTL

(* The video at the bottom plays the local stream or nothing, also when the *)
(* grid is full and addVideo's result is ignored.                           *)
THEOREM LocalStays == Spec => []LocalKept
<1>1. CallInv => LocalKept
  BY DEF CallInv, ClientInv, VideosInv, LocalKept
<1>2. QED
  BY <1>1, CallInductive, PTL

(* Hanging up stops every player before its video is put back.              *)
THEOREM HiddenStopped == Spec => []NothingHidden
<1>1. CallInv => NothingHidden
  BY DEF CallInv, ClientInv, VideosInv, Hidden, NothingHidden
<1>2. QED
  BY <1>1, CallInductive, PTL

(* The hang-up button is there exactly when there is something to hang up.  *)
THEOREM ButtonRight == Spec => []CanHangUp
<1>1. CallInv => CanHangUp
  BY DEF CallInv, ClientInv, ButtonInv, CanHangUp
<1>2. QED
  BY <1>1, CallInductive, PTL

(* loadingIP is what the grid shows, each room in one video.                *)
THEOREM RoomOnce == Spec => []OneVideoPerRoom
<1>1. CallInv => OneVideoPerRoom
  BY DEF CallInv, ClientInv, LoadedInv, OneVideoPerRoom
<1>2. QED
  BY <1>1, CallInductive, PTL
=============================================================================
