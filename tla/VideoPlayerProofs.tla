------------------------- MODULE VideoPlayerProofs -------------------------
(***************************************************************************)
(* Proofs about VideoPlayer, for every value of its constants: IInv is     *)
(* inductive, and from it type correctness, the safety invariants, the     *)
(* action property NoEndAfterStop, the refinement of PictureSlot, and that *)
(* the linked lists of PacketList carry the queues of the player.          *)
(***************************************************************************)
EXTENDS PacketList, TLAPS, FiniteSetTheorems, WellFoundedInduction

-----------------------------------------------------------------------------
(* The packet queue's operations and the timer. *)

(* PktQuePut keeps a queue a queue and adds the packet's size. *)
LEMMA PutType ==
    ASSUME NEW Q \in Queues, NEW p \in Packets
    PROVE  /\ PktQuePut(Q, p) \in Queues
           /\ PktQuePut(Q, p).size <= Q.size + 1
           /\ p = PktFlush => PktQuePut(Q, p).size = Q.size
BY DEF PktQuePut, Queues, Bytes, Packets, Epochs, PktFlush

(* PktQueGet keeps a queue a queue and never adds to its size. *)
LEMMA GetType ==
    ASSUME NEW Q \in Queues, Q.pkts # <<>>
    PROVE  /\ PktQueGet(Q) \in Queues /\ Head(Q.pkts) \in Packets
           /\ PktQueGet(Q).size <= Q.size
BY DEF PktQueGet, Queues, Bytes, Packets, Epochs, PktFlush

(* PktQueFlush leaves an empty queue. *)
LEMMA EmptiedType == Emptied \in Queues /\ Emptied.size = 0
BY DEF Emptied, Queues

(* A step of Seek or Refresh empties a queue or leaves its size alone. *)
LEMMA ResetSizes ==
    ASSUME TypeOK, NEW t \in {"ui", "evt"}, ResetStep(t), NEW s \in Streams
    PROVE  q'[s].size <= q[s].size \/ q'[s].size = 0
<1>1. /\ q \in [Streams -> Queues]
      /\ "video" \in Streams /\ "audio" \in Streams /\ PktFlush \in Packets
      /\ q[s] \in Queues /\ q[s].size \in Int
  BY DEF TypeOK, Streams, Packets, Queues
<1>2. CASE \/ q' = [q EXCEPT !["video"] = Emptied]
           \/ q' = [q EXCEPT !["audio"] = Emptied]
  BY <1>1, <1>2, EmptiedType
<1>3. CASE \/ q' = [q EXCEPT !["video"] = PktQuePut(@, PktFlush)]
           \/ q' = [q EXCEPT !["audio"] = PktQuePut(@, PktFlush)]
  <2>1. PktQuePut(q[s], PktFlush).size = q[s].size
    BY <1>1, PutType
  <2>2. q'[s] = q[s] \/ q'[s] = PktQuePut(q[s], PktFlush)
    BY <1>1, <1>3
  <2>3. QED
    BY <1>1, <2>1, <2>2
<1>4. rst[t] \in 1..4
  BY DEF ResetStep, TypeOK
<1>5. QED
  BY <1>2, <1>3, <1>4 DEF ResetStep

(* A timer that fires becomes a queued event, or is lost and remembered.  *)
LEMMA TimerFires ==
    ASSUME TypeOK, SdlTimerCallback
    PROVE  /\ Chain' = Chain \/ (Chain' = Chain - 1 /\ hist'.chainLost = TRUE)
           /\ Chain' >= 0
           /\ hist.chainLost => hist'.chainLost
           /\ hist'.ends = hist.ends
           /\ hist'.lateReset = hist.lateReset
           /\ hist'.counted = hist.counted
<1>1. sdl \in [timers : Nat, refresh : Nat, resize : Nat] /\ hist \in HistType
  BY DEF TypeOK
<1>2. CASE EventsFull
  <2>1. /\ sdl' = [sdl EXCEPT !.timers = @ - 1]
        /\ hist' = [hist EXCEPT !.chainLost = TRUE]
        /\ sdl.timers > 0
    BY <1>2 DEF SdlTimerCallback
  <2>2. QED
    BY <1>1, <2>1 DEF Chain, HistType
<1>3. CASE ~EventsFull
  <2>1. /\ sdl' = [sdl EXCEPT !.timers = @ - 1, !.refresh = @ + 1]
        /\ hist' = hist
        /\ sdl.timers > 0
    BY <1>3 DEF SdlTimerCallback
  <2>2. sdl'.timers = sdl.timers - 1 /\ sdl'.refresh = sdl.refresh + 1
    BY <1>1, <2>1
  <2>3. QED
    BY <1>1, <2>1, <2>2 DEF Chain
<1>4. QED
  BY <1>2, <1>3

(* What each thread's steps leave alone. *)
LEMMA Frames ==
    ASSUME NEW s \in Sessions
    PROVE  /\ DecodeStep => UNCHANGED decRest
           /\ VideoStep(s) => UNCHANGED videoRest
           /\ AudioStep => UNCHANGED audioRest
           /\ SdlTimerCallback \/ WindowResized => UNCHANGED sdlRest
           /\ Play \/ Pause \/ Seek \/ Refresh => UNCHANGED uiRest
<1>1. DecodeStep => UNCHANGED decRest
  BY DEF DecodeStep, DecodeTop, AvReadFrame, DecodePut, DecodeEnd
<1>2. VideoStep(s) => UNCHANGED videoRest
  BY DEF VideoStep, VideoStart, VideoGet, VideoDecode, VideoLock, VideoFill,
     VideoWrite
<1>3. AudioStep => UNCHANGED audioRest
  BY DEF AudioStep, AudioEnter, AudioRun, AudioOpen,
     AudioGet, AudioFlush, AudioTest, AudioDecode, AudioFault, Silence
<1>4. SdlTimerCallback \/ WindowResized => UNCHANGED sdlRest
  BY DEF SdlTimerCallback, WindowResized
<1>5. Play \/ Pause \/ Seek \/ Refresh => UNCHANGED uiRest
  BY DEF Play, Pause, Seek, Refresh
<1>6. QED
  BY <1>1, <1>2, <1>3, <1>4, <1>5

(* Ends and pauses are recorded without touching the rest of the history. *)
LEMMA HistKept ==
    ASSUME TypeOK, Load \/ Stop \/ Pause \/ InitFfmpeg \/ DecodeEnd
    PROVE  UNCHANGED <<hist.counted, hist.lateReset, hist.chainLost>>
BY DEF TypeOK, HistType, Load, Stop, BeginStop, Pause, InitFfmpeg, DecodeEnd

-----------------------------------------------------------------------------
(* The four parts of the inductive invariant, action by action. *)

(* Every step keeps the variables in their types. *)
LEMMA TypeStep == TypeOK /\ Lifecycle /\ [Next]_vars => TypeOK'
<1> SUFFICES ASSUME TypeOK, Lifecycle, [Next]_vars PROVE TypeOK'
  OBVIOUS
<1>1. CASE Load
  <2>1. hist' \in HistType
    BY <1>1 DEF Load, BeginStop, TypeOK, HistType
  <2>2. QED
    BY <1>1, <2>1 DEF Load, BeginStop, TypeOK, UiPcs, DecPcs, EvtPcs, AudioPcs
<1>2. CASE Stop
  <2>1. hist' \in HistType
    BY <1>2 DEF Stop, BeginStop, TypeOK, HistType
  <2>2. QED
    BY <1>2, <2>1 DEF Stop, BeginStop, TypeOK, UiPcs, DecPcs, EvtPcs, AudioPcs
<1>3. CASE Play
  BY <1>3 DEF Play, uiRest, TypeOK, UiPcs, DecPcs, EvtPcs, AudioPcs
<1>4. CASE Pause
  <2>1. hist' \in HistType
    BY <1>4 DEF Pause, uiRest, TypeOK, HistType
  <2>2. QED
    BY <1>4, <2>1 DEF Pause, uiRest, TypeOK, UiPcs, DecPcs, EvtPcs, AudioPcs
<1>5. CASE Seek
  <2>1. epoch' \in Epochs
    BY <1>5, ConstAssumption DEF Seek, uiRest, ResetFrom, TypeOK, Epochs
  <2>2. rst' \in [{"ui", "evt"} -> 0..4]
    BY <1>5 DEF Seek, uiRest, ResetFrom, TypeOK
  <2>3. QED
    BY <1>5, <2>1, <2>2 DEF Seek, uiRest, ResetFrom, TypeOK, UiPcs, DecPcs,
       EvtPcs, AudioPcs
<1>6. CASE Refresh
  <2>1. rst' \in [{"ui", "evt"} -> 0..4]
    BY <1>6 DEF Refresh, uiRest, ResetFrom, TypeOK
  <2>2. QED
    BY <1>6, <2>1 DEF Refresh, uiRest, ResetFrom, TypeOK, UiPcs, DecPcs,
       EvtPcs, AudioPcs
<1>7. CASE JoinDecode
  BY <1>7 DEF JoinDecode, stopRest, TypeOK, UiPcs, DecPcs, EvtPcs, AudioPcs
<1>8. CASE JoinEvent
  BY <1>8 DEF JoinEvent, stopRest, TypeOK, UiPcs, DecPcs, EvtPcs, AudioPcs
<1>9. CASE UnInitFfmpeg
  <2>1. open' \in BOOLEAN
    BY <1>9, Zenon DEF UnInitFfmpeg
  <2>2. QED
    BY <1>9, <2>1 DEF UnInitFfmpeg, stopRest, TypeOK, UiPcs
<1>10. CASE UnInitSdl
  <2>1. sdl' \in [timers : Nat, refresh : Nat, resize : Nat]
         /\ sdl'.refresh + sdl'.resize <= EventLimit
    BY <1>10, ConstAssumption DEF UnInitSdl, stopRest, TypeOK
  <2>2. QED
    BY <1>10, <2>1 DEF UnInitSdl, stopRest, TypeOK, UiPcs, DecPcs, EvtPcs,
       AudioPcs
<1>11. CASE FlushQueues
  <2>1. q' \in [Streams -> Queues]
    BY <1>11, PutType, GetType, EmptiedType DEF FlushQueues, stopRest, TypeOK,
       Streams
  <2>2. QED
    BY <1>11, <2>1 DEF FlushQueues, stopRest, Emptied, TypeOK, UiPcs, DecPcs,
       EvtPcs, AudioPcs
<1>12. CASE InitFfmpeg
  <2>1. session' \in 0..MaxLoads
    BY <1>12, ConstAssumption DEF InitFfmpeg, TypeOK, Lifecycle
  <2>2. hist' \in HistType
    BY <1>12 DEF InitFfmpeg, TypeOK, HistType
  <2>3. open' \in BOOLEAN
    BY <1>12, Zenon DEF InitFfmpeg
  <2>4. QED
    BY <1>12, <2>1, <2>2, <2>3 DEF InitFfmpeg, TypeOK, UiPcs
<1>13. CASE InitSdl
  <2>1. video' \in [Sessions -> VideoPcs]
    BY <1>13 DEF InitSdl, loadRest, Emptied, TypeOK, VideoPcs
  <2>2. q' \in [Streams -> Queues]
    BY <1>13, PutType, GetType, EmptiedType DEF InitSdl, loadRest, TypeOK,
       Streams
  <2>3. QED
    BY <1>13, <2>1, <2>2 DEF InitSdl, loadRest, Emptied, TypeOK, UiPcs, DecPcs,
       EvtPcs, AudioPcs
<1>14. CASE InitSync
  <2>1. video' \in [Sessions -> VideoPcs]
    BY <1>14 DEF InitSync, loadRest, TypeOK, VideoPcs
  <2>2. QED
    BY <1>14, <2>1 DEF InitSync, loadRest, TypeOK, UiPcs, DecPcs, EvtPcs,
       AudioPcs
<1>15. CASE StartThreads
  BY <1>15 DEF StartThreads, loadRest, TypeOK, UiPcs, DecPcs, EvtPcs, AudioPcs
<1>16. CASE ResetPicCnt
  <2>1. hist' \in HistType
    BY <1>16 DEF ResetPicCnt, loadRest, TypeOK, HistType
  <2>2. QED
    BY <1>16, <2>1 DEF ResetPicCnt, loadRest, TypeOK, UiPcs, DecPcs, EvtPcs,
       AudioPcs
<1>17. CASE FirstTimer
  <2>1. sdl' \in [timers : Nat, refresh : Nat, resize : Nat]
         /\ sdl'.refresh + sdl'.resize <= EventLimit
    BY <1>17, ConstAssumption DEF FirstTimer, loadRest, TypeOK
  <2>2. QED
    BY <1>17, <2>1 DEF FirstTimer, loadRest, TypeOK, UiPcs, DecPcs, EvtPcs,
       AudioPcs
<1>18. CASE ResetStep("ui")
  <2>1. q' \in [Streams -> Queues]
    BY <1>18, PutType, GetType, EmptiedType DEF ResetStep, TypeOK, Streams,
       Packets
  <2>2. rst' \in [{"ui", "evt"} -> 0..4]
    BY <1>18 DEF ResetStep, Emptied, TypeOK
  <2>3. QED
    BY <1>18, <2>1, <2>2 DEF ResetStep, Emptied, TypeOK, UiPcs, DecPcs, EvtPcs,
       AudioPcs
<1>19. CASE SdlTimerCallback
  <2>1. sdl' \in [timers : Nat, refresh : Nat, resize : Nat]
         /\ sdl'.refresh + sdl'.resize <= EventLimit
    <3>1. CASE EventsFull
      BY <1>19, <3>1, ConstAssumption DEF SdlTimerCallback, TypeOK
    <3>2. CASE ~EventsFull
      <4>1. sdl.refresh + 1 + sdl.resize <= EventLimit
        BY <3>2, ConstAssumption DEF EventsFull, TypeOK
      <4>2. sdl' = [sdl EXCEPT !.timers = @ - 1, !.refresh = @ + 1]
        BY <1>19, <3>2 DEF SdlTimerCallback
      <4>3. sdl.timers - 1 \in Nat /\ sdl.refresh + 1 \in Nat
        BY <1>19 DEF SdlTimerCallback, TypeOK
      <4>4. QED
        BY <4>1, <4>2, <4>3 DEF TypeOK
    <3>3. QED
      BY <3>1, <3>2
  <2>2. hist' \in HistType
    BY <1>19 DEF SdlTimerCallback, sdlRest, EventsFull, TypeOK, HistType
  <2>3. QED
    BY <1>19, <2>1, <2>2 DEF SdlTimerCallback, sdlRest, EventsFull, TypeOK,
       UiPcs, DecPcs, EvtPcs,
       AudioPcs
<1>20. CASE WindowResized
  <2>1. sdl' \in [timers : Nat, refresh : Nat, resize : Nat]
         /\ sdl'.refresh + sdl'.resize <= EventLimit
    BY <1>20, ConstAssumption DEF WindowResized, sdlRest, EventsFull, TypeOK
  <2>2. QED
    BY <1>20, <2>1 DEF WindowResized, sdlRest, EventsFull, TypeOK, UiPcs,
       DecPcs, EvtPcs,
       AudioPcs
<1>21. CASE DecodeTop
  BY <1>21 DEF DecodeTop, decRest, NoPacket, TypeOK, UiPcs, DecPcs, EvtPcs,
     AudioPcs
<1>22. CASE AvReadFrame
  <2>1. dhand' \in [stream : Streams, pkt : Epochs]
    BY <1>22 DEF AvReadFrame, decRest, NoPacket, TypeOK, Streams, Epochs
  <2>2. QED
    BY <1>22, <2>1 DEF AvReadFrame, decRest, NoPacket, TypeOK, UiPcs, DecPcs,
       EvtPcs, AudioPcs
<1>23. CASE DecodePut
  <2>1. q' \in [Streams -> Queues]
    BY <1>23, PutType, GetType, EmptiedType DEF DecodePut, decRest, NoPacket,
       TypeOK, Streams, Packets, Epochs
  <2>2. dhand' \in [stream : Streams, pkt : Epochs]
    BY <1>23, ConstAssumption DEF DecodePut, NoPacket, Streams, Epochs
  <2>3. QED
    BY <1>23, <2>1, <2>2 DEF DecodePut, decRest, NoPacket, TypeOK, UiPcs,
       DecPcs, EvtPcs, AudioPcs
<1>24. CASE DecodeEnd
  <2>1. hist' \in HistType
    BY <1>24 DEF DecodeEnd, decRest, NoPacket, TypeOK, HistType
  <2>2. QED
    BY <1>24, <2>1 DEF DecodeEnd, decRest, NoPacket, TypeOK, UiPcs, DecPcs,
       EvtPcs, AudioPcs
<1>25. ASSUME NEW s \in Sessions, VideoStart(s) PROVE TypeOK'
  <2>1. video' \in [Sessions -> VideoPcs]
    BY <1>25 DEF VideoStart, videoRest, VideoFault, VideoGoto, Live, TypeOK,
       VideoPcs
  <2>2. QED
    BY <1>25, <2>1 DEF VideoStart, videoRest, VideoFault, VideoGoto, Live,
       TypeOK, UiPcs,
       DecPcs, EvtPcs, AudioPcs
<1>26. ASSUME NEW s \in Sessions, VideoGet(s) PROVE TypeOK'
  <2>1. video' \in [Sessions -> VideoPcs]
    BY <1>26 DEF VideoGet, videoRest, VideoFault, VideoGoto, Live, TypeOK,
       VideoPcs
  <2>2. q' \in [Streams -> Queues]
    BY <1>26, PutType, GetType, EmptiedType DEF VideoGet, videoRest,
       VideoFault, VideoGoto, Live, TypeOK, Streams
  <2>3. QED
    BY <1>26, <2>1, <2>2 DEF VideoGet, videoRest, VideoFault, VideoGoto, Live,
       TypeOK, UiPcs,
       DecPcs, EvtPcs, AudioPcs
<1>27. ASSUME NEW s \in Sessions, VideoDecode(s) PROVE TypeOK'
  <2>1. video' \in [Sessions -> VideoPcs]
    BY <1>27 DEF VideoDecode, videoRest, VideoFault, VideoGoto, Live, TypeOK,
       VideoPcs
  <2>2. QED
    BY <1>27, <2>1 DEF VideoDecode, videoRest, VideoFault, VideoGoto, Live,
       TypeOK, UiPcs,
       DecPcs, EvtPcs, AudioPcs
<1>28. ASSUME NEW s \in Sessions, VideoLock(s) PROVE TypeOK'
  <2>1. video' \in [Sessions -> VideoPcs]
    BY <1>28 DEF VideoLock, videoRest, VideoFault, VideoGoto, Live, TypeOK,
       VideoPcs
  <2>2. QED
    BY <1>28, <2>1 DEF VideoLock, videoRest, VideoFault, VideoGoto, Live,
       TypeOK, UiPcs,
       DecPcs, EvtPcs, AudioPcs
<1>29. ASSUME NEW s \in Sessions, VideoFill(s) PROVE TypeOK'
  <2>1. video' \in [Sessions -> VideoPcs]
    BY <1>29 DEF VideoFill, videoRest, VideoFault, VideoGoto, Live, TypeOK,
       VideoPcs
  <2>2. QED
    <3>1. m_bResize' \in BOOLEAN
      BY <1>29, Zenon DEF VideoFill, VideoFault, TypeOK
    <3>2. fault' \in {"none", "video", "audio", "event", "decode"}
      BY <1>29 DEF VideoFill, VideoFault, VideoGoto, TypeOK
    <3>3. UNCHANGED <<videoRest, q, m_nVideoPicCnt>>
      BY <1>29 DEF VideoFill, VideoFault
    <3>4. QED
      BY <2>1, <3>1, <3>2, <3>3 DEF videoRest, TypeOK
<1>30. ASSUME NEW s \in Sessions, VideoWrite(s) PROVE TypeOK'
  <2>1. video' \in [Sessions -> VideoPcs]
    BY <1>30 DEF VideoWrite, videoRest, VideoFault, VideoGoto, Live, TypeOK,
       VideoPcs
  <2>2. QED
    BY <1>30, <2>1 DEF VideoWrite, videoRest, VideoFault, VideoGoto, Live,
       TypeOK, UiPcs,
       DecPcs, EvtPcs, AudioPcs
<1>31. CASE EventTop
  BY <1>31 DEF EventTop, evtRest, TypeOK, UiPcs, DecPcs, EvtPcs, AudioPcs
<1>32. CASE EventRefresh
  <2>1. sdl' \in [timers : Nat, refresh : Nat, resize : Nat]
         /\ sdl'.refresh + sdl'.resize <= EventLimit
    <3>1. sdl' = [sdl EXCEPT !.refresh = @ - 1, !.timers = @ + 1]
      BY <1>32 DEF EventRefresh
    <3>2. sdl.refresh - 1 \in Nat /\ sdl.timers + 1 \in Nat
      BY <1>32 DEF EventRefresh, TypeOK
    <3>3. sdl' = [timers |-> sdl.timers + 1, refresh |-> sdl.refresh - 1,
                   resize |-> sdl.resize]
      BY <3>1 DEF TypeOK
    <3>4. QED
      BY <3>2, <3>3, ConstAssumption DEF TypeOK
  <2>2. QED
    BY <1>32, <2>1 DEF EventRefresh, evtRest, TypeOK, UiPcs, DecPcs, EvtPcs,
       AudioPcs
<1>33. CASE EventShown
  <2>1. video' \in [Sessions -> VideoPcs]
    BY <1>33 DEF EventShown, evtRest, TypeOK, VideoPcs
  <2>2. QED
    BY <1>33, <2>1 DEF EventShown, evtRest, TypeOK, UiPcs, DecPcs, EvtPcs,
       AudioPcs
<1>34. CASE EventResize
  <2>1. sdl' \in [timers : Nat, refresh : Nat, resize : Nat]
         /\ sdl'.refresh + sdl'.resize <= EventLimit
    BY <1>34, ConstAssumption DEF EventResize, evtRest, ResetFrom, TypeOK
  <2>2. rst' \in [{"ui", "evt"} -> 0..4]
    BY <1>34 DEF EventResize, evtRest, ResetFrom, TypeOK
  <2>3. QED
    BY <1>34, <2>1, <2>2 DEF EventResize, evtRest, ResetFrom, TypeOK, UiPcs,
       DecPcs, EvtPcs,
       AudioPcs
<1>35. CASE EventPaint
  BY <1>35 DEF EventPaint, evtRest, TypeOK, UiPcs, DecPcs, EvtPcs, AudioPcs
<1>36. CASE ResetStep("evt")
  <2>1. q' \in [Streams -> Queues]
    BY <1>36, PutType, GetType, EmptiedType DEF ResetStep, TypeOK, Streams,
       Packets
  <2>2. rst' \in [{"ui", "evt"} -> 0..4]
    BY <1>36 DEF ResetStep, Emptied, TypeOK
  <2>3. QED
    BY <1>36, <2>1, <2>2 DEF ResetStep, Emptied, TypeOK, UiPcs, DecPcs, EvtPcs,
       AudioPcs
<1>37. CASE AudioEnter
  BY <1>37 DEF AudioEnter, audioRest, Silence, TypeOK, UiPcs, DecPcs, EvtPcs,
     AudioPcs
<1>38. CASE AudioGet
  <2>1. q' \in [Streams -> Queues]
    BY <1>38, PutType, GetType, EmptiedType DEF AudioGet, audioRest, Silence,
       TypeOK, Streams
  <2>2. QED
    BY <1>38, <2>1 DEF AudioGet, audioRest, Silence, TypeOK, UiPcs, DecPcs,
       EvtPcs, AudioPcs
<1>39. CASE AudioOpen \/ AudioFlush \/ AudioTest \/ AudioDecode
  <2>1. m_pAudioBuf' \in BOOLEAN
    BY <1>39, Zenon DEF AudioOpen, AudioFlush, AudioTest, AudioDecode,
       AudioFault, Silence, TypeOK
  <2>2. /\ audio' \in AudioPcs
        /\ fault' \in {"none", "video", "audio", "event", "decode"}
    BY <1>39 DEF AudioOpen, AudioFlush, AudioTest, AudioDecode, AudioFault,
       Silence, TypeOK, AudioPcs
  <2>3. UNCHANGED <<q, audioRest>>
    BY <1>39 DEF AudioOpen, AudioFlush, AudioTest, AudioDecode
  <2>4. QED
    BY <2>1, <2>2, <2>3 DEF audioRest, TypeOK
<1>40. CASE UNCHANGED vars
  BY <1>40 DEF vars, TypeOK
<1>41. QED
  BY <1>1, <1>2, <1>3, <1>4, <1>5, <1>6, <1>7, <1>8, <1>9, <1>10, <1>11,
     <1>12, <1>13, <1>14, <1>15, <1>16, <1>17, <1>18, <1>19, <1>20, <1>21,
     <1>22, <1>23, <1>24, <1>25, <1>26, <1>27, <1>28, <1>29, <1>30, <1>31,
     <1>32, <1>33, <1>34, <1>35, <1>36, <1>37, <1>38, <1>39, <1>40
  DEF Next, CallerStep, DecodeStep, VideoStep, EventStep, AudioStep, AudioRun

(* Every step keeps the threads' existence in line with Stop and Load. *)
LEMMA LifecycleStep ==
    TypeOK /\ Lifecycle /\ [Next]_vars => Lifecycle'
<1> SUFFICES ASSUME TypeOK, Lifecycle, [Next]_vars PROVE Lifecycle'
  OBVIOUS
<1> DEFINE Reads == <<session, ui, goal, dec, evt, open, m_nState, rst, video,
                      fault>>
<1> USE DEF Lifecycle, Joined, Loading
<1>1. CASE UNCHANGED Reads
  BY <1>1
<1>2. CASE Load \/ Stop
  BY <1>2 DEF Load, Stop, BeginStop, TypeOK
<1>3. CASE Play \/ Pause \/ Seek \/ Refresh
  BY <1>3 DEF Play, Pause, Seek, Refresh, uiRest, ResetFrom, TypeOK
<1>4. CASE JoinDecode
  BY <1>4 DEF JoinDecode, stopRest
<1>5. CASE JoinEvent
  BY <1>5 DEF JoinEvent, stopRest
<1>6. CASE UnInitFfmpeg
  BY <1>6 DEF UnInitFfmpeg, stopRest
<1>7. CASE UnInitSdl
  BY <1>7 DEF UnInitSdl, stopRest
<1>8. CASE FlushQueues
  BY <1>8 DEF FlushQueues, stopRest
<1>9. CASE InitFfmpeg
  <2>1. session' \in 0..MaxLoads /\ session' = session + 1
    BY <1>9, ConstAssumption DEF InitFfmpeg
  <2>2. \A s \in Sessions : s > session' => video'[s] = "none"
    BY <1>9, <2>1 DEF InitFfmpeg, Sessions
  <2>3. /\ UNCHANGED <<goal, dec, evt, rst, fault>> /\ m_nState' = 1
        /\ ui' \in {"initSdl", "idle"} /\ (ui' = "initSdl" => open')
        /\ dec = "off" /\ evt = "off" /\ ui = "initCtx"
    BY <1>9 DEF InitFfmpeg
  <2>4. QED
    BY <2>1, <2>2, <2>3
<1>10. CASE InitSdl
  BY <1>10 DEF InitSdl, loadRest, TypeOK
<1>11. CASE InitSync
  BY <1>11 DEF InitSync, loadRest, TypeOK
<1>12. CASE StartThreads
  BY <1>12 DEF StartThreads, loadRest
<1>13. CASE ResetPicCnt
  BY <1>13 DEF ResetPicCnt, loadRest
<1>14. CASE FirstTimer
  BY <1>14 DEF FirstTimer, loadRest
<1>15. ASSUME NEW t \in {"ui", "evt"}, ResetStep(t) PROVE Lifecycle'
  BY <1>15 DEF ResetStep, TypeOK
<1>16. CASE SdlTimerCallback \/ WindowResized
  BY <1>16, Frames DEF SdlTimerCallback, WindowResized, sdlRest
<1>17. CASE DecodeTop
  BY <1>17 DEF DecodeTop, decRest
<1>18. CASE AvReadFrame
  BY <1>18 DEF AvReadFrame, decRest
<1>19. CASE DecodePut
  BY <1>19 DEF DecodePut, decRest
<1>20. CASE DecodeEnd
  BY <1>20 DEF DecodeEnd, decRest
<1>21. ASSUME NEW s \in Sessions, VideoStep(s) PROVE Lifecycle'
  <2>1. UNCHANGED <<session, ui, goal, dec, evt, open, m_nState, rst>>
    BY <1>21, Frames DEF videoRest
  <2>2. video[s] # "none" /\ \A r \in Sessions : r # s => video'[r] = video[r]
    BY <1>21 DEF VideoStep, VideoStart, VideoGet, VideoDecode, VideoLock,
       VideoFill, VideoWrite, VideoFault, VideoGoto, TypeOK
  <2>3. fault' \in {fault, "video"}
    BY <1>21 DEF VideoStep, VideoStart, VideoGet, VideoDecode, VideoLock,
       VideoFill, VideoWrite, VideoFault, VideoGoto
  <2>4. QED
    BY <2>1, <2>2, <2>3
<1>22. CASE EventTop
  BY <1>22 DEF EventTop, evtRest
<1>23. CASE EventRefresh
  BY <1>23 DEF EventRefresh, evtRest
<1>24. CASE EventShown
  BY <1>24 DEF EventShown, evtRest, TypeOK
<1>25. CASE EventResize
  BY <1>25 DEF EventResize, evtRest, ResetFrom, TypeOK
<1>26. CASE EventPaint
  BY <1>26 DEF EventPaint, evtRest
<1>27. CASE AudioStep
  BY <1>27 DEF AudioStep, AudioEnter, AudioRun, AudioOpen,
     AudioGet, AudioFlush, AudioTest, AudioDecode, AudioFault, Silence,
     audioRest
<1>28. UNCHANGED vars => UNCHANGED Reads
  BY DEF vars
<1>29. QED
  BY <1>1, <1>2, <1>3, <1>4, <1>5, <1>6, <1>7, <1>8, <1>9, <1>10, <1>11,
     <1>12, <1>13, <1>14, <1>15, <1>16, <1>17, <1>18, <1>19, <1>20, <1>21,
     <1>22, <1>23, <1>24, <1>25, <1>26, <1>27, <1>28
  DEF Next, CallerStep, DecodeStep, EventStep

(* There is one refresh chain: only Stop, the first timer, a firing timer   *)
(* and RefrshVideo touch it.                                                *)
LEMMA ChainStep ==
    TypeOK /\ Lifecycle /\ ChainInv /\ [Next]_vars => ChainInv'
<1> SUFFICES ASSUME TypeOK, Lifecycle, ChainInv, [Next]_vars PROVE ChainInv'
  OBVIOUS
<1> DEFINE Same == /\ UNCHANGED <<evt, sdl.timers, sdl.refresh>>
                   /\ UNCHANGED <<hist.counted, hist.chainLost>>
<1>1. /\ Chain \in Int /\ hist.chainLost \in BOOLEAN /\ Chain >= 0
      /\ sdl \in [timers : Nat, refresh : Nat, resize : Nat]
  BY DEF Chain, TypeOK, HistType
<1>2. CASE Same /\ UNCHANGED ui
  BY <1>2 DEF ChainInv, OneRefreshChain, Chain, Loading
<1>3. CASE Load \/ Stop
  <2>1. Same /\ ui' = "joinDec" /\ ui = "idle"
    BY <1>3, HistKept DEF Load, Stop, BeginStop
  <2>2. QED
    BY <2>1 DEF ChainInv, OneRefreshChain, Chain, Loading
<1>4. CASE Play \/ Pause \/ Seek \/ Refresh
  <2>1. Same /\ ui = "idle" /\ ui' \in {"idle", "seek"}
    BY <1>4, HistKept DEF Play, Pause, Seek, Refresh, uiRest
  <2>2. QED
    BY <2>1 DEF ChainInv, OneRefreshChain, Chain, Loading
<1>5. CASE JoinDecode \/ JoinEvent \/ UnInitFfmpeg
  <2>1. /\ UNCHANGED <<sdl, hist>> /\ evt' \in {evt, "off"}
        /\ ui \in {"joinDec", "joinEvt", "closeCtx"}
        /\ ui' \in {"joinEvt", "closeCtx", "quitSdl"}
    BY <1>5 DEF JoinDecode, JoinEvent, UnInitFfmpeg, stopRest
  <2>2. QED
    BY <2>1 DEF ChainInv, OneRefreshChain, Chain, Loading
<1>6. CASE UnInitSdl
  <2>1. /\ Chain' = 0 /\ ui' = "flush" /\ UNCHANGED <<evt, hist>>
        /\ evt = "off"
    BY <1>6 DEF UnInitSdl, stopRest, Chain, Lifecycle, Joined
  <2>2. QED
    BY <2>1 DEF ChainInv, OneRefreshChain
<1>7. CASE \/ FlushQueues \/ InitFfmpeg \/ InitSdl \/ InitSync
           \/ StartThreads
  <2>1. /\ sdl' = sdl /\ ui \in {"flush", "initCtx"} \cup Loading
        /\ ui' # "timer" /\ evt' \in {evt, "loop"}
        /\ ui \in Joined /\ (evt' # "off" => ui' = "reset")
    BY <1>7 DEF FlushQueues, InitFfmpeg, InitSdl, InitSync, StartThreads,
       stopRest, loadRest, Loading, Lifecycle, Joined
  <2>2. UNCHANGED <<hist.counted, hist.chainLost>>
    BY <1>7, HistKept DEF FlushQueues, InitSdl, InitSync, StartThreads,
       stopRest
  <2>3. Chain = 0 /\ Chain' = 0 /\ evt = "off"
    BY <2>1 DEF ChainInv, Chain, Lifecycle
  <2>4. QED
    BY <2>1, <2>2, <2>3 DEF ChainInv, OneRefreshChain
<1>8. CASE ResetPicCnt
  <2>1. /\ UNCHANGED <<evt, sdl>> /\ ui = "reset" /\ ui' = "timer"
        /\ hist'.counted
    BY <1>8 DEF ResetPicCnt, loadRest, TypeOK, HistType
  <2>2. QED
    BY <2>1 DEF ChainInv, OneRefreshChain, Chain, Loading
<1>9. CASE FirstTimer
  <2>1. /\ sdl' = [sdl EXCEPT !.timers = @ + 1] /\ ui = "timer"
        /\ ui' = "idle" /\ UNCHANGED <<evt, hist>>
    BY <1>9 DEF FirstTimer, loadRest
  <2>2. Chain = 0 /\ Chain' = Chain + 1
    BY <1>1, <2>1 DEF ChainInv, Chain, Loading
  <2>3. QED
    BY <2>1, <2>2 DEF ChainInv, OneRefreshChain, Loading
<1>10. ASSUME NEW t \in {"ui", "evt"}, ResetStep(t) PROVE ChainInv'
  <2>1. /\ UNCHANGED <<sdl, hist>> /\ ui' \in {ui, "idle"}
        /\ (ui' # ui => ui = "seek")
        /\ (evt' = evt \/ (evt = "refresh" /\ evt' = "paint"))
    BY <1>10 DEF ResetStep, Lifecycle
  <2>2. QED
    BY <2>1 DEF ChainInv, OneRefreshChain, Chain, Loading
<1>11. CASE SdlTimerCallback
  <2>1. UNCHANGED <<ui, evt>> /\ Chain > 0
    BY <1>11 DEF SdlTimerCallback, sdlRest, Chain, TypeOK
  <2>2. /\ Chain' \in {Chain, Chain - 1} /\ Chain' >= 0
        /\ (Chain' = Chain \/ hist'.chainLost)
        /\ (hist.chainLost => hist'.chainLost)
        /\ hist'.counted = hist.counted
    BY <1>1, <1>11, TimerFires
  <2>3. QED
    BY <1>1, <2>1, <2>2 DEF ChainInv, OneRefreshChain
<1>12. CASE WindowResized
  <2>1. Same /\ UNCHANGED ui
    BY <1>1, <1>12 DEF WindowResized, sdlRest
  <2>2. QED
    BY <2>1, <1>2
<1>13. CASE EventTop \/ EventPaint
  <2>1. /\ UNCHANGED <<sdl, hist, ui>> /\ evt # "off" /\ evt # "show"
        /\ evt' # "off" /\ evt' # "show"
    BY <1>13 DEF EventTop, EventPaint, evtRest
  <2>2. QED
    BY <2>1 DEF ChainInv, OneRefreshChain, Chain, Loading
<1>14. CASE EventShown
  <2>1. UNCHANGED <<sdl, hist, ui>> /\ evt = "show" /\ evt' = "loop"
    BY <1>14 DEF EventShown, evtRest
  <2>2. QED
    BY <2>1 DEF ChainInv, OneRefreshChain, Chain, Loading
<1>15. CASE EventRefresh \/ EventResize
  <2>1. /\ UNCHANGED <<ui, hist>> /\ evt = "waiting" /\ evt' # "off"
        /\ (evt' = "show" => Chain > 0)
    BY <1>1, <1>15 DEF EventRefresh, EventResize, evtRest, Chain
  <2>2. Chain' = Chain
    <3>1. CASE EventRefresh
      <4>1. /\ sdl'.refresh = sdl.refresh - 1
            /\ sdl'.timers = sdl.timers + 1
        BY <1>1, <3>1 DEF EventRefresh
      <4>2. QED
        BY <1>1, <4>1 DEF Chain
    <3>2. CASE EventResize
      BY <1>1, <3>2 DEF EventResize, Chain
    <3>3. QED
      BY <1>15, <3>1, <3>2
  <2>3. QED
    BY <2>1, <2>2 DEF ChainInv, OneRefreshChain, Loading
<1>16. ASSUME NEW s \in Sessions, DecodeStep \/ VideoStep(s) \/ AudioStep
       PROVE Same /\ UNCHANGED ui
  <2>1. UNCHANGED <<ui, evt, sdl>>
    BY <1>16, Frames DEF decRest, videoRest, audioRest
  <2>2. UNCHANGED <<hist.counted, hist.chainLost>>
    BY <1>16, HistKept, Frames DEF DecodeStep, DecodeTop, AvReadFrame,
       DecodePut, videoRest, audioRest
  <2>3. QED
    BY <2>1, <2>2
<1>17. UNCHANGED vars => Same /\ UNCHANGED ui
  BY DEF vars
<1>18. 1 \in Sessions
  BY ConstAssumption DEF Sessions
<1>19. QED
  BY <1>2, <1>3, <1>4, <1>5, <1>6, <1>7, <1>8, <1>9, <1>10, <1>11, <1>12,
     <1>13, <1>14, <1>15, <1>16, <1>17, <1>18
  DEF Next, CallerStep, EventStep

(* The picture is handed over: a VideoPro past the lock has the slot to     *)
(* itself, and one that waits is woken when the slot is freed.              *)
LEMMA SlotStep ==
    TypeOK /\ Lifecycle /\ ChainInv /\ SlotInv /\ [Next]_vars => SlotInv'
<1> SUFFICES ASSUME TypeOK, Lifecycle, ChainInv, SlotInv, [Next]_vars
             PROVE  SlotInv'
  OBVIOUS
<1> DEFINE Kept == UNCHANGED <<hist.counted, hist.lateReset>>
           Same == /\ UNCHANGED <<evt, open, session, video>>
                   /\ UNCHANGED <<m_nVideoPicCnt, m_nState>> /\ Kept
<1> USE DEF SlotInv, HandOver, Writing, Live, NoLostWakeup
<1>1. CASE Same /\ ui' \notin {"reset", "timer"}
  BY <1>1
<1>2. CASE Same /\ UNCHANGED ui
  BY <1>2
<1>3. CASE Load \/ Stop
  <2>1. /\ UNCHANGED <<evt, open, session, video, m_nVideoPicCnt>> /\ Kept
        /\ m_nState' = 0 /\ ui' = "joinDec"
    BY <1>3, HistKept DEF Load, Stop, BeginStop
  <2>2. QED
    BY <2>1
<1>4. CASE Play \/ Pause
  <2>1. /\ UNCHANGED <<evt, open, session, video, m_nVideoPicCnt>> /\ Kept
        /\ ui = "idle" /\ ui' = "idle"
    BY <1>4, HistKept DEF Play, Pause, uiRest
  <2>2. open => m_nState # 0
    BY <2>1 DEF Lifecycle
  <2>3. QED
    BY <2>1, <2>2
<1>5. CASE \/ Seek \/ Refresh \/ JoinDecode \/ UnInitSdl \/ FlushQueues
           \/ FirstTimer
  <2>1. Same /\ ui' \notin {"reset", "timer"}
    BY <1>5 DEF Seek, Refresh, JoinDecode, UnInitSdl, FlushQueues, FirstTimer,
       uiRest, stopRest, loadRest
  <2>2. QED
    BY <1>1, <2>1
<1>6. CASE JoinEvent
  <2>1. /\ evt' = "off" /\ ui' = "closeCtx" /\ Kept
        /\ UNCHANGED <<open, session, video, m_nVideoPicCnt, m_nState>>
    BY <1>6 DEF JoinEvent, stopRest
  <2>2. QED
    BY <2>1
<1>7. CASE UnInitFfmpeg
  <2>1. /\ ~open' /\ evt' = "off" /\ Kept
        /\ UNCHANGED <<video, m_nVideoPicCnt>>
    BY <1>7 DEF UnInitFfmpeg, stopRest, Lifecycle, Joined
  <2>2. QED
    BY <2>1
<1>8. CASE InitFfmpeg
  <2>1. /\ session' = session + 1 /\ evt = "off" /\ Kept
        /\ UNCHANGED <<video, evt, m_nVideoPicCnt>>
    BY <1>8, HistKept DEF InitFfmpeg, Lifecycle, Joined
  <2>2. \A s \in Sessions : Live(s)' => video'[s] = "none"
    BY <2>1 DEF Lifecycle, Sessions
  <2>3. QED
    BY <2>1, <2>2
<1>9. CASE InitSdl \/ InitSync
  <2>1. /\ UNCHANGED <<open, session, m_nVideoPicCnt, m_nState, evt>> /\ Kept
        /\ evt = "off" /\ ui' \in {"initSync", "threads", "idle"}
    BY <1>9 DEF InitSdl, InitSync, loadRest, Lifecycle, Joined
  <2>2. \A s \in Sessions : video'[s] \in {video[s], "start", "stuck"}
    BY <1>9 DEF InitSdl, InitSync, TypeOK
  <2>3. ASSUME NEW s \in Sessions, NEW t \in 1..(s - 1), s = session,
               video'[s] = "wait", video[t] \in {"pic", "fill"}
        PROVE  video'[t] \in {"pic", "fill"}
    <3>1. t \in Sessions /\ t # session
      BY <2>3, ConstAssumption DEF Sessions
    <3>2. QED
      BY <1>9, <2>3, <3>1 DEF InitSdl, InitSync, TypeOK
  <2>4. QED
    BY <2>1, <2>2, <2>3
<1>10. CASE StartThreads
  BY <1>10 DEF StartThreads, loadRest, Lifecycle, Joined
<1>11. CASE ResetPicCnt
  <2>1. /\ m_nVideoPicCnt' = 0 /\ evt' = evt /\ evt # "show"
        /\ UNCHANGED <<video, open, session, m_nState>>
    BY <1>11 DEF ResetPicCnt, loadRest
  <2>2. (\E s \in Sessions : video[s] = "wait") => hist'.lateReset
    BY <1>11 DEF ResetPicCnt, TypeOK, HistType
  <2>3. QED
    BY <2>1, <2>2
<1>12. ASSUME NEW t \in {"ui", "evt"}, ResetStep(t) PROVE SlotInv'
  <2>1. /\ UNCHANGED <<open, session, video, m_nVideoPicCnt, m_nState, hist>>
        /\ (evt' = evt \/ evt' = "paint") /\ (ui' = ui \/ ui' = "idle")
    BY <1>12 DEF ResetStep
  <2>2. QED
    BY <2>1
<1>13. CASE SdlTimerCallback \/ WindowResized
  <2>1. Same /\ UNCHANGED ui
    BY <1>13, TimerFires DEF SdlTimerCallback, WindowResized, sdlRest
  <2>2. QED
    BY <1>2, <2>1
<1>14. CASE DecodeStep \/ AudioStep
  <2>1. 1 \in Sessions
    BY ConstAssumption DEF Sessions
  <2>2. UNCHANGED <<ui, evt, open, session, video, m_nVideoPicCnt, m_nState>>
    BY <1>14, <2>1, Frames DEF decRest, audioRest
  <2>3. Kept
    BY <1>14, <2>1, HistKept, Frames DEF DecodeStep, DecodeTop, AvReadFrame,
       DecodePut, audioRest
  <2>4. QED
    BY <1>2, <2>2, <2>3
<1>15. ASSUME NEW s \in Sessions, VideoStep(s) PROVE SlotInv'
  <2>1. UNCHANGED <<ui, evt, open, session, m_nState, hist>>
    BY <1>15, Frames DEF videoRest
  <2>2. \A r \in Sessions : r # s => video'[r] = video[r]
    BY <1>15 DEF VideoStep, VideoStart, VideoGet, VideoDecode, VideoLock,
       VideoFill, VideoWrite, VideoFault, VideoGoto, TypeOK
  <2>3. /\ m_nVideoPicCnt <= 0 /\ m_nState # 0 /\ ~Live(s)
        /\ video[s] \in {"pic", "fill"}
        => video'[s] \in {"pic", "fill"}
    BY <1>15 DEF VideoStep, VideoStart, VideoGet, VideoDecode, VideoLock,
       VideoFill, VideoWrite, VideoFault, VideoGoto, TypeOK
  <2>4. ASSUME m_nVideoPicCnt' = m_nVideoPicCnt,
               video'[s] = "wait" => video[s] = "wait" \/ m_nVideoPicCnt >= 1
        PROVE  NoLostWakeup'
    <3> SUFFICES ASSUME NEW x \in Sessions, video'[x] = "wait", Live(x)',
                        m_nVideoPicCnt <= 0, m_nState # 0, ~hist.lateReset
                 PROVE  \E r \in 1..(x - 1) : video'[r] \in {"pic", "fill"}
      BY <2>1, <2>4
    <3>1. video[x] = "wait" /\ Live(x)
      BY <2>1, <2>2, <2>4 DEF TypeOK
    <3>2. PICK r \in 1..(x - 1) : video[r] \in {"pic", "fill"}
      BY <3>1
    <3>3. r \in Sessions /\ ~Live(r)
      BY <3>1, <3>2, ConstAssumption DEF Sessions
    <3>4. QED
      BY <2>2, <2>3, <3>2, <3>3
  <2>5. CASE VideoStart(s) \/ VideoGet(s) \/ VideoDecode(s)
    <3>1. /\ m_nVideoPicCnt' = m_nVideoPicCnt
          /\ video'[s] \in {video[s], "loop", "done", "decode", "pic"}
      BY <2>5 DEF VideoStart, VideoGet, VideoDecode, VideoFault, VideoGoto,
         TypeOK
    <3>2. NoLostWakeup'
      BY <2>4, <3>1
    <3>3. QED
      BY <2>1, <2>2, <3>1, <3>2
  <2>6. CASE VideoLock(s)
    <3>1. /\ m_nVideoPicCnt' = m_nVideoPicCnt
          /\ \/ video'[s] = "wait" /\ m_nVideoPicCnt >= 1
             \/ video'[s] = "fill" /\ ~(m_nVideoPicCnt >= 1 /\ m_nState # 0)
      BY <2>6 DEF VideoLock, VideoGoto, TypeOK
    <3>2. NoLostWakeup'
      BY <2>4, <3>1
    <3>3. m_nVideoPicCnt \in Int
      BY DEF TypeOK
    <3>4. QED
      BY <2>1, <2>2, <3>1, <3>2, <3>3
  <2>7. CASE VideoFill(s)
    <3>1. /\ m_nVideoPicCnt' = m_nVideoPicCnt /\ video[s] = "fill"
          /\ \/ video'[s] = "loop" \/ video'[s] = "fill"
             \/ video'[s] = "write" /\ Live(s) /\ m_nState # 0
      BY <2>7 DEF VideoFill, VideoFault, VideoGoto, TypeOK
    <3>2. NoLostWakeup'
      BY <2>4, <3>1
    <3>3. QED
      BY <2>1, <2>2, <3>1, <3>2
  <2>8. CASE VideoWrite(s)
    <3>1. CASE Live(s)
      <4>1. /\ m_nVideoPicCnt <= 0 /\ evt # "show"
            /\ m_nVideoPicCnt' = m_nVideoPicCnt + 1 /\ video'[s] = "loop"
        BY <2>8, <3>1 DEF VideoWrite, VideoGoto, TypeOK
      <4>2. \A r \in Sessions : Live(r)' => r = s
        BY <2>1, <3>1
      <4>3. hist.counted => m_nVideoPicCnt' = 1
        BY <4>1
      <4>4. QED
        BY <2>1, <4>1, <4>2, <4>3
    <3>2. CASE ~Live(s)
      <4>1. UNCHANGED <<m_nVideoPicCnt, video>>
        BY <2>8, <3>2 DEF VideoWrite, VideoFault
      <4>2. QED
        BY <2>1, <4>1
    <3>3. QED
      BY <3>1, <3>2
  <2>9. QED
    BY <1>15, <2>5, <2>6, <2>7, <2>8 DEF VideoStep
<1>16. CASE EventTop \/ EventResize \/ EventPaint
  <2>1. /\ UNCHANGED <<open, session, video, m_nVideoPicCnt, m_nState, hist>>
        /\ evt' # "show" /\ ui' = ui
    BY <1>16 DEF EventTop, EventResize, EventPaint, evtRest
  <2>2. QED
    BY <2>1
<1>17. CASE EventRefresh
  <2>1. /\ UNCHANGED <<ui, open, session, video, m_nVideoPicCnt, m_nState>>
        /\ hist' = hist /\ Chain > 0 /\ (evt' = "show" => m_nVideoPicCnt > 0)
    BY <1>17 DEF EventRefresh, evtRest, Chain, TypeOK
  <2>2. hist.counted /\ ui \notin {"reset", "timer"}
    BY <2>1 DEF ChainInv, Loading
  <2>3. QED
    BY <2>1, <2>2
<1>18. CASE EventShown
  <2>1. /\ UNCHANGED <<ui, open, session, m_nState, hist>>
        /\ evt = "show" /\ evt' = "loop" /\ m_nVideoPicCnt = 1
        /\ m_nVideoPicCnt' = 0
    BY <1>18 DEF EventShown, evtRest
  <2>2. CASE (\A s \in Sessions : video[s] # "wait") /\ video' = video
    BY <2>1, <2>2
  <2>3. ASSUME NEW t \in Sessions, video[t] = "wait",
               video' = [video EXCEPT ![t] = "pic"]
        PROVE  SlotInv'
    <3>1. \A r \in Sessions : video'[r] = IF r = t THEN "pic" ELSE video[r]
      BY <2>3 DEF TypeOK
    <3>2. \A s \in Sessions : Live(s) /\ video'[s] = "wait" => t \in 1..(s - 1)
      BY <2>3, <3>1 DEF Lifecycle, Sessions
    <3>3. QED
      BY <2>1, <3>1, <3>2
  <2>4. QED
    BY <1>18, <2>2, <2>3 DEF EventShown
<1>19. UNCHANGED vars => Same /\ UNCHANGED ui
  BY DEF vars
<1>20. QED
  BY <1>2, <1>3, <1>4, <1>5, <1>6, <1>7, <1>8, <1>9, <1>10, <1>11, <1>12,
     <1>13, <1>14, <1>15, <1>16, <1>17, <1>18, <1>19
  DEF Next, CallerStep, EventStep

(* The queues stay bounded and the end is reported once: only DecodePut     *)
(* adds to a queue, and only DecodeTop lets it.                             *)
LEMMA DecodeInvStep ==
    TypeOK /\ Lifecycle /\ DecodeInv /\ [Next]_vars => DecodeInv'
<1> SUFFICES ASSUME TypeOK, Lifecycle, DecodeInv, [Next]_vars
             PROVE  DecodeInv'
  OBVIOUS
<1> DEFINE Shrinks == \A s \in Streams : \/ q'[s].size <= q[s].size
                                         \/ q'[s].size = 0
<1>1. \A s \in Streams : q[s].size \in Int /\ q'[s].size \in Int
  BY TypeStep DEF TypeOK, Queues
<1>2. /\ "video" \in Streams /\ "audio" \in Streams
      /\ MaxVideoQ \in Nat /\ MaxAudioQ \in Nat
  BY ConstAssumption DEF Streams
<1>3. CASE Shrinks /\ UNCHANGED <<dec, ui, hist.ends>>
  BY <1>1, <1>2, <1>3 DEF DecodeInv, BackPressure, OneEnd
<1>4. CASE Load \/ Stop
  <2>1. UNCHANGED <<q, dec, hist.ends>> /\ ui' = "joinDec"
    BY <1>4 DEF Load, Stop, BeginStop, TypeOK, HistType
  <2>2. QED
    BY <2>1 DEF DecodeInv, BackPressure, OneEnd
<1>5. CASE Play \/ Pause \/ Seek \/ Refresh
  <2>1. UNCHANGED <<q, dec, hist.ends>> /\ ui' \in {"idle", "seek"}
    BY <1>5 DEF Play, Pause, Seek, Refresh, uiRest, TypeOK, HistType
  <2>2. QED
    BY <2>1 DEF DecodeInv, BackPressure, OneEnd
<1>6. CASE JoinDecode \/ JoinEvent \/ UnInitFfmpeg \/ UnInitSdl
  <2>1. /\ UNCHANGED <<q, hist>> /\ dec' \in {dec, "off"}
        /\ ui' \in {"joinEvt", "closeCtx", "quitSdl", "flush"}
    BY <1>6 DEF JoinDecode, JoinEvent, UnInitFfmpeg, UnInitSdl, stopRest
  <2>2. QED
    BY <2>1 DEF DecodeInv, BackPressure, OneEnd
<1>7. CASE FlushQueues \/ InitSdl
  <2>1. /\ UNCHANGED <<dec, hist>> /\ dec = "off"
        /\ (ui' \in {"initSdl", "initSync", "threads"} => ui = "initSdl")
    BY <1>7 DEF FlushQueues, InitSdl, stopRest, loadRest, Lifecycle, Joined
  <2>2. \A s \in Streams : q'[s] \in {q[s], Emptied}
    BY <1>7 DEF FlushQueues, InitSdl
  <2>3. Shrinks
    BY <1>1, <2>2, EmptiedType
  <2>4. QED
    BY <1>1, <1>2, <2>1, <2>3 DEF DecodeInv, BackPressure, OneEnd
<1>8. CASE InitFfmpeg
  <2>1. UNCHANGED <<q, dec>> /\ dec = "off" /\ hist'.ends = 0
    BY <1>8 DEF InitFfmpeg, TypeOK, HistType, Lifecycle, Joined
  <2>2. QED
    BY <2>1 DEF DecodeInv, BackPressure, OneEnd
<1>9. CASE InitSync \/ FirstTimer
  <2>1. /\ UNCHANGED <<q, dec, hist>>
        /\ (ui = "initSync" /\ ui' = "threads") \/ ui' = "idle"
    BY <1>9 DEF InitSync, FirstTimer, loadRest
  <2>2. QED
    BY <2>1 DEF DecodeInv, BackPressure, OneEnd
<1>10. CASE StartThreads
  <2>1. UNCHANGED <<q, hist>> /\ hist.ends = 0 /\ dec' = "loop"
    BY <1>10 DEF StartThreads, loadRest, DecodeInv
  <2>2. QED
    BY <2>1 DEF DecodeInv, BackPressure, OneEnd
<1>11. CASE ResetPicCnt
  <2>1. UNCHANGED <<q, dec, hist.ends>> /\ ui' = "timer"
    BY <1>11 DEF ResetPicCnt, loadRest, TypeOK, HistType
  <2>2. QED
    BY <2>1 DEF DecodeInv, BackPressure, OneEnd
<1>12. ASSUME NEW t \in {"ui", "evt"}, ResetStep(t) PROVE DecodeInv'
  <2>1. UNCHANGED <<dec, hist>> /\ ui' \in {ui, "idle"}
    BY <1>12 DEF ResetStep
  <2>2. Shrinks
    BY <1>12, ResetSizes
  <2>3. QED
    BY <1>1, <1>2, <2>1, <2>2 DEF DecodeInv, BackPressure, OneEnd
<1>13. CASE SdlTimerCallback \/ WindowResized
  <2>1. UNCHANGED <<q, dec, ui, hist.ends>>
    BY <1>13, TimerFires DEF SdlTimerCallback, WindowResized, sdlRest
  <2>2. QED
    BY <1>1, <1>3, <2>1
<1>14. CASE DecodeTop
  <2>1. /\ UNCHANGED <<q, ui, hist>> /\ dec = "loop"
        /\ \/ dec' = "done"
           \/ /\ dec' = "read" /\ q["video"].size <= MaxVideoQ
              /\ q["audio"].size <= MaxAudioQ
    BY <1>14 DEF DecodeTop, decRest
  <2>2. QED
    BY <2>1 DEF DecodeInv, BackPressure, OneEnd
<1>15. CASE AvReadFrame
  <2>1. /\ UNCHANGED <<q, ui, hist>> /\ dec = "read"
    BY <1>15 DEF AvReadFrame, decRest
  <2>2. QED
    BY <2>1 DEF DecodeInv, BackPressure, OneEnd
<1>16. CASE DecodePut
  <2>1. /\ dhand.stream \in Streams /\ dhand.pkt \in Packets
        /\ q \in [Streams -> Queues]
    BY DEF TypeOK, Packets
  <2>2. \A s \in Streams : PktQuePut(q[s], dhand.pkt).size <= q[s].size + 1
    BY <2>1, PutType
  <2>3. \A s \in Streams : \/ q'[s] = q[s]
                           \/ q'[s] = PktQuePut(q[s], dhand.pkt)
    BY <1>16, <2>1 DEF DecodePut
  <2>4. \A s \in Streams : q'[s].size <= q[s].size + 1
    BY <1>1, <2>2, <2>3
  <2>5. UNCHANGED <<hist, ui>> /\ dec = "put" /\ dec' = "loop"
    BY <1>16 DEF DecodePut, decRest
  <2>6. QED
    BY <1>1, <1>2, <2>4, <2>5 DEF DecodeInv, BackPressure, OneEnd
<1>17. CASE DecodeEnd
  <2>1. /\ UNCHANGED <<q, ui>> /\ dec \in {"eof", "error"} /\ dec' = "done"
        /\ hist'.ends = hist.ends + 1
    BY <1>17 DEF DecodeEnd, decRest, TypeOK, HistType
  <2>2. hist.ends = 0 /\ ui \notin {"initSdl", "initSync", "threads"}
    BY <2>1 DEF DecodeInv, Lifecycle, Joined
  <2>3. QED
    BY <2>1, <2>2 DEF DecodeInv, BackPressure, OneEnd
<1>18. ASSUME NEW s \in Sessions, VideoStep(s) PROVE DecodeInv'
  <2>1. UNCHANGED <<dec, ui, hist>>
    BY <1>18, Frames DEF videoRest
  <2>2. CASE q' = q
    BY <1>1, <1>3, <2>1, <2>2
  <2>3. CASE q' = [q EXCEPT !["video"] = PktQueGet(@)] /\ q["video"].pkts # <<>>
    <3>1. q["video"] \in Queues /\ q \in [Streams -> Queues]
      BY <1>2 DEF TypeOK
    <3>2. PktQueGet(q["video"]).size <= q["video"].size
      BY <2>3, <3>1, GetType
    <3>3. Shrinks
      BY <1>1, <2>3, <3>1, <3>2
    <3>4. QED
      BY <1>3, <2>1, <3>3
  <2>4. QED
    BY <1>18, <2>2, <2>3 DEF VideoStep, VideoStart, VideoGet, VideoDecode,
       VideoLock, VideoFill, VideoWrite, VideoFault
<1>19. CASE EventTop \/ EventRefresh \/ EventShown \/ EventResize \/ EventPaint
  <2>1. UNCHANGED <<q, dec, ui, hist>>
    BY <1>19 DEF EventTop, EventRefresh, EventShown, EventResize, EventPaint,
       evtRest
  <2>2. QED
    BY <1>1, <1>3, <2>1
<1>20. CASE AudioStep
  <2>1. 1 \in Sessions
    BY ConstAssumption DEF Sessions
  <2>2. UNCHANGED <<dec, ui, hist>>
    BY <1>20, <2>1, Frames DEF audioRest
  <2>3. CASE q' = q
    BY <1>1, <1>3, <2>2, <2>3
  <2>4. CASE q' = [q EXCEPT !["audio"] = PktQueGet(@)] /\ q["audio"].pkts # <<>>
    <3>1. q["audio"] \in Queues /\ q \in [Streams -> Queues]
      BY <1>2 DEF TypeOK
    <3>2. PktQueGet(q["audio"]).size <= q["audio"].size
      BY <2>4, <3>1, GetType
    <3>3. Shrinks
      BY <1>1, <2>4, <3>1, <3>2
    <3>4. QED
      BY <1>3, <2>2, <3>3
  <2>5. QED
    BY <1>20, <2>3, <2>4 DEF AudioStep, AudioEnter, AudioRun, AudioOpen,
       AudioGet, AudioFlush, AudioTest, AudioDecode, AudioFault, Silence
<1>21. UNCHANGED vars => UNCHANGED <<q, dec, ui, hist.ends>>
  BY DEF vars
<1>22. QED
  BY <1>1, <1>3, <1>4, <1>5, <1>6, <1>7, <1>8, <1>9, <1>10, <1>11, <1>12,
     <1>13, <1>14, <1>15, <1>16, <1>17, <1>18, <1>19, <1>20, <1>21
  DEF Next, CallerStep, DecodeStep, EventStep

-----------------------------------------------------------------------------
(* The packets in the queues, counted. *)

(* Shifting a set of positions by one keeps its number of elements.         *)
LEMMA Shift ==
    ASSUME NEW n \in Nat, NEW S \in SUBSET (1..n), NEW T \in SUBSET (1..n),
           \A i \in 1..n : i \in T <=> i + 1 \in S
    PROVE  /\ IsFiniteSet(S) /\ IsFiniteSet(T)
           /\ Cardinality(S) \in Nat /\ Cardinality(T) \in Nat
           /\ Cardinality(T) = Cardinality(S) - (IF 1 \in S THEN 1 ELSE 0)
<1>1. /\ IsFiniteSet(S) /\ Cardinality(S) \in Nat
      /\ IsFiniteSet(T) /\ Cardinality(T) \in Nat
  <2>1. IsFiniteSet(1..n)
    BY FS_Interval
  <2>2. QED
    BY <2>1, FS_Subset, FS_CardinalityType
<1>2. /\ IsFiniteSet(S \ {1})
      /\ Cardinality(S \ {1}) = Cardinality(S) - (IF 1 \in S THEN 1 ELSE 0)
  BY <1>1, FS_RemoveElement
<1>3. ExistsBijection(T, S \ {1})
  <2> DEFINE f == [i \in T |-> i + 1]
  <2>1. f \in [T -> S \ {1}]
    OBVIOUS
  <2>2. \A i, j \in T : f[i] = f[j] => i = j
    OBVIOUS
  <2>3. \A k \in S \ {1} : \E i \in T : f[i] = k
    <3>1. SUFFICES ASSUME NEW k \in S \ {1} PROVE \E i \in T : f[i] = k
      OBVIOUS
    <3>2. k - 1 \in 1..n /\ (k - 1) + 1 = k
      OBVIOUS
    <3>3. k - 1 \in T /\ f[k - 1] = k
      BY <3>2
    <3>4. QED
      BY <3>3
  <2>4. f \in Bijection(T, S \ {1})
    BY <2>1, <2>2, <2>3 DEF Bijection, Injection, Surjection, IsInjective
  <2>5. QED
    BY <2>4 DEF ExistsBijection
<1>4. QED
  BY <1>1, <1>2, <1>3, FS_Bijection

StaleOf(Q, e) == {i \in Data(Q) : Q.pkts[i] < e}
Counts(Q, e) ==
    /\ Cardinality(Data(Q)) \in Nat /\ Cardinality(StaleOf(Q, e)) \in Nat
    /\ IsFiniteSet(Data(Q)) /\ IsFiniteSet(StaleOf(Q, e))

LEMMA QueueCounts ==
    ASSUME NEW Q \in Queues, NEW e \in Int
    PROVE  /\ Counts(Q, e) /\ Len(Q.pkts) \in Nat
           /\ DOMAIN Q.pkts = 1..Len(Q.pkts)
           /\ Data(Q) \in SUBSET (1..Len(Q.pkts))
           /\ StaleOf(Q, e) \in SUBSET Data(Q)
<1>1. /\ Len(Q.pkts) \in Nat /\ DOMAIN Q.pkts = 1..Len(Q.pkts)
  BY DEF Queues
<1>2. /\ Data(Q) \in SUBSET (1..Len(Q.pkts)) /\ StaleOf(Q, e) \in SUBSET Data(Q)
  BY <1>1 DEF Data, StaleOf
<1>3. IsFiniteSet(1..Len(Q.pkts))
  BY <1>1, FS_Interval
<1>4. IsFiniteSet(Data(Q))
  BY <1>2, <1>3, FS_Subset
<1>5. IsFiniteSet(StaleOf(Q, e))
  BY <1>2, <1>4, FS_Subset
<1>6. QED
  BY <1>1, <1>2, <1>4, <1>5, FS_CardinalityType DEF Counts

(* Putting a packet adds it, and it is stale if it is from before e.        *)
LEMMA PutCounts ==
    ASSUME NEW Q \in Queues, NEW p \in Packets, NEW e \in Int
    PROVE  /\ Cardinality(Data(PktQuePut(Q, p))) = Cardinality(Data(Q)) + Bytes(p)
           /\ Cardinality(StaleOf(PktQuePut(Q, p), e)) = Cardinality(StaleOf(Q, e))
                  + (IF p # PktFlush /\ p < e THEN 1 ELSE 0)
<1> DEFINE R == PktQuePut(Q, p)
           n == Len(Q.pkts) + 1
<1>1. /\ Counts(Q, e) /\ Len(Q.pkts) \in Nat /\ DOMAIN Q.pkts = 1..Len(Q.pkts)
      /\ Data(Q) \in SUBSET (1..Len(Q.pkts)) /\ StaleOf(Q, e) \in SUBSET Data(Q)
  BY QueueCounts
<1>2. /\ R.pkts = Append(Q.pkts, p) /\ Q.pkts \in Seq(Packets)
  BY DEF PktQuePut, Queues
<1>3. /\ DOMAIN R.pkts = 1..n /\ R.pkts[n] = p
      /\ \A i \in 1..Len(Q.pkts) : R.pkts[i] = Q.pkts[i]
  BY <1>1, <1>2
<1>4. n \notin Data(Q) /\ n \notin StaleOf(Q, e)
  BY <1>1
<1>5. Data(R) = IF p = PktFlush THEN Data(Q) ELSE Data(Q) \cup {n}
  BY <1>1, <1>3 DEF Data
<1>6. StaleOf(R, e) = IF p # PktFlush /\ p < e THEN StaleOf(Q, e) \cup {n}
                      ELSE StaleOf(Q, e)
  BY <1>1, <1>3, <1>4, <1>5 DEF StaleOf
<1>7. /\ Cardinality(Data(Q) \cup {n}) = Cardinality(Data(Q)) + 1
      /\ Cardinality(StaleOf(Q, e) \cup {n}) = Cardinality(StaleOf(Q, e)) + 1
  <2>1. ASSUME NEW S, IsFiniteSet(S), n \notin S
        PROVE  Cardinality(S \cup {n}) = Cardinality(S) + 1
    BY <2>1, FS_AddElement
  <2>2. IsFiniteSet(Data(Q)) /\ IsFiniteSet(StaleOf(Q, e))
    BY <1>1 DEF Counts
  <2>3. QED
    BY <1>4, <2>1, <2>2
<1>8. QED
  BY <1>1, <1>5, <1>6, <1>7 DEF Bytes, Counts

(* Getting a packet takes it away; no other becomes stale by it.            *)
LEMMA GetCounts ==
    ASSUME NEW Q \in Queues, NEW e \in Int, Q.pkts # <<>>
    PROVE  /\ Cardinality(Data(PktQueGet(Q)))
                  = Cardinality(Data(Q)) - Bytes(Head(Q.pkts))
           /\ Cardinality(StaleOf(PktQueGet(Q), e)) <= Cardinality(StaleOf(Q, e))
<1> DEFINE R == PktQueGet(Q)
           n == Len(Q.pkts)
<1>1. /\ Counts(Q, e) /\ n \in Nat /\ DOMAIN Q.pkts = 1..n
      /\ Data(Q) \in SUBSET (1..n) /\ StaleOf(Q, e) \in SUBSET Data(Q)
  BY QueueCounts
<1>2. /\ R.pkts = Tail(Q.pkts) /\ Q.pkts \in Seq(Packets) /\ n >= 1
      /\ Head(Q.pkts) = Q.pkts[1]
  BY <1>1 DEF PktQueGet, Queues
<1>3. /\ DOMAIN R.pkts = 1..(n - 1)
      /\ \A i \in 1..(n - 1) : R.pkts[i] = Q.pkts[i + 1]
  BY <1>1, <1>2
<1>4. /\ Data(R) \in SUBSET (1..n)
      /\ \A i \in 1..n : i \in Data(R) <=> i + 1 \in Data(Q)
  BY <1>1, <1>2, <1>3 DEF Data
<1>5. /\ StaleOf(R, e) \in SUBSET (1..n)
      /\ \A i \in 1..n : i \in StaleOf(R, e) <=> i + 1 \in StaleOf(Q, e)
  BY <1>1, <1>2, <1>3, <1>4 DEF StaleOf
<1>6. Cardinality(Data(R)) = Cardinality(Data(Q)) - (IF 1 \in Data(Q) THEN 1 ELSE 0)
  BY <1>1, <1>4, Shift
<1>7. /\ Cardinality(StaleOf(R, e)) = Cardinality(StaleOf(Q, e))
             - (IF 1 \in StaleOf(Q, e) THEN 1 ELSE 0)
      /\ Cardinality(StaleOf(Q, e)) \in Nat
  <2>1. StaleOf(Q, e) \in SUBSET (1..n)
    BY <1>1
  <2>2. n \in Nat /\ Cardinality(StaleOf(Q, e)) \in Nat
    BY <1>1 DEF Counts
  <2>3. Cardinality(StaleOf(R, e)) = Cardinality(StaleOf(Q, e))
             - (IF 1 \in StaleOf(Q, e) THEN 1 ELSE 0)
    BY <1>5, <2>1, <2>2, Shift
  <2>4. QED
    BY <2>2, <2>3
<1>8. 1 \in Data(Q) <=> Head(Q.pkts) # PktFlush
  BY <1>1, <1>2 DEF Data
<1>9. QED
  BY <1>6, <1>7, <1>8 DEF Bytes

LEMMA EmptiedCounts ==
    ASSUME NEW e \in Int
    PROVE  /\ Cardinality(Data(Emptied)) = 0
           /\ Cardinality(StaleOf(Emptied, e)) = 0
<1>1. Data(Emptied) = {} /\ StaleOf(Emptied, e) = {}
  BY DEF Data, StaleOf, Emptied
<1>2. QED
  BY <1>1, FS_EmptySet

(* All that a step other than DecodePut makes of a queue.                   *)
Drops(s) ==
    \/ q'[s] \in {q[s], Emptied, PktQuePut(q[s], PktFlush)}
    \/ q[s].pkts # <<>> /\ q'[s] = PktQueGet(q[s])

LEMMA ResetDrops ==
    ASSUME TypeOK, NEW t \in {"ui", "evt"}, ResetStep(t)
    PROVE  \A s \in Streams : Drops(s)
<1>1. /\ q \in [Streams -> Queues] /\ "video" \in Streams /\ "audio" \in Streams
      /\ rst[t] \in 1..4
  BY DEF TypeOK, Streams, ResetStep
<1>2. \E u \in Streams : \/ q' = [q EXCEPT ![u] = Emptied]
                         \/ q' = [q EXCEPT ![u] = PktQuePut(@, PktFlush)]
  <2>1. \/ q' = [q EXCEPT !["video"] = Emptied]
        \/ q' = [q EXCEPT !["video"] = PktQuePut(@, PktFlush)]
        \/ q' = [q EXCEPT !["audio"] = Emptied]
        \/ q' = [q EXCEPT !["audio"] = PktQuePut(@, PktFlush)]
    <3>1. rst[t] = 1 \/ rst[t] = 2 \/ rst[t] = 3 \/ rst[t] = 4
      BY <1>1
    <3>2. QED
      BY <3>1 DEF ResetStep
  <2>2. QED
    BY <1>1, <2>1
<1>3. QED
  BY <1>1, <1>2 DEF Drops

LEMMA QueueSteps ==
    ASSUME TypeOK, [Next]_vars
    PROVE  DecodePut \/ \A s \in Streams : Drops(s)
<1>1. q \in [Streams -> Queues] /\ "video" \in Streams /\ "audio" \in Streams
  BY DEF TypeOK, Streams
<1>2. ASSUME q' = q PROVE \A s \in Streams : Drops(s)
  BY <1>2 DEF Drops
<1>3. ASSUME NEW u \in Streams, q[u].pkts # <<>>,
             q' = [q EXCEPT ![u] = PktQueGet(@)]
      PROVE  \A s \in Streams : Drops(s)
  BY <1>1, <1>3 DEF Drops
<1>4. CASE Load \/ Stop \/ Play \/ Pause \/ Seek \/ Refresh
  BY <1>2, <1>4 DEF Load, Stop, BeginStop, Play, Pause, Seek, Refresh
<1>5. CASE JoinDecode \/ JoinEvent \/ UnInitFfmpeg \/ UnInitSdl \/ InitFfmpeg
           \/ InitSync \/ StartThreads \/ ResetPicCnt \/ FirstTimer
  BY <1>2, <1>5 DEF JoinDecode, JoinEvent, UnInitFfmpeg, UnInitSdl, InitFfmpeg,
     InitSync, StartThreads, ResetPicCnt, FirstTimer
<1>6. CASE FlushQueues \/ InitSdl
  <2>1. \A s \in Streams : q'[s] \in {q[s], Emptied}
    BY <1>6 DEF FlushQueues, InitSdl
  <2>2. QED
    BY <2>1 DEF Drops
<1>7. CASE SdlTimerCallback \/ WindowResized
  BY <1>2, <1>7 DEF SdlTimerCallback, WindowResized, sdlRest
<1>8. CASE DecodeTop \/ AvReadFrame \/ DecodeEnd
  BY <1>2, <1>8 DEF DecodeTop, AvReadFrame, DecodeEnd
<1>9. ASSUME NEW s \in Sessions, VideoStep(s) PROVE \A t \in Streams : Drops(t)
  <2>1. \/ q' = q
        \/ q["video"].pkts # <<>> /\ q' = [q EXCEPT !["video"] = PktQueGet(@)]
    BY <1>9 DEF VideoStep, VideoStart, VideoGet, VideoDecode, VideoLock,
       VideoFill, VideoWrite, VideoFault
  <2>2. QED
    BY <1>1, <1>2, <1>3, <2>1
<1>10. CASE EventTop \/ EventRefresh \/ EventShown \/ EventResize \/ EventPaint
  BY <1>2, <1>10 DEF EventTop, EventRefresh, EventShown, EventResize,
     EventPaint, evtRest
<1>11. CASE AudioStep
  <2>1. \/ q' = q
        \/ q["audio"].pkts # <<>> /\ q' = [q EXCEPT !["audio"] = PktQueGet(@)]
    BY <1>11 DEF AudioStep, AudioEnter, AudioRun, AudioOpen,
       AudioGet, AudioFlush, AudioTest, AudioDecode, AudioFault, Silence
  <2>2. QED
    BY <1>1, <1>2, <1>3, <2>1
<1>12. CASE UNCHANGED vars
  BY <1>2, <1>12 DEF vars
<1>13. QED
  BY <1>4, <1>5, <1>6, <1>7, <1>8, <1>9, <1>10, <1>11, <1>12, ResetDrops
  DEF Next, CallerStep, DecodeStep, EventStep

(* What is left in a queue after such a step.                               *)
LEMMA DropCounts ==
    ASSUME TypeOK, NEW s \in Streams, Drops(s), NEW e \in Int
    PROVE  /\ Cardinality(StaleOf(q'[s], e)) <= Cardinality(StaleOf(q[s], e))
           /\ q[s].size = Cardinality(Data(q[s]))
                  => q'[s].size = Cardinality(Data(q'[s]))
<1>1. q[s] \in Queues /\ PktFlush \in Packets /\ q[s].size \in Int
  BY DEF TypeOK, Packets, Queues
<1>2. Counts(q[s], e)
  BY <1>1, QueueCounts
<1>3. CASE q'[s] = q[s]
  BY <1>2, <1>3 DEF Counts
<1>4. CASE q'[s] = Emptied
  <2>1. Cardinality(Data(Emptied)) = 0 /\ Cardinality(StaleOf(Emptied, e)) = 0
    BY EmptiedCounts
  <2>2. QED
    BY <1>2, <1>4, <2>1, EmptiedType DEF Counts
<1>5. CASE q'[s] = PktQuePut(q[s], PktFlush)
  <2>1. PktQuePut(q[s], PktFlush).size = q[s].size
    BY <1>1, PutType
  <2>2. /\ Cardinality(Data(q'[s])) = Cardinality(Data(q[s])) + Bytes(PktFlush)
        /\ Cardinality(StaleOf(q'[s], e)) = Cardinality(StaleOf(q[s], e)) + 0
    BY <1>1, <1>5, PutCounts
  <2>3. QED
    BY <1>2, <1>5, <2>1, <2>2 DEF Counts, Bytes
<1>6. CASE q[s].pkts # <<>> /\ q'[s] = PktQueGet(q[s])
  <2>1. PktQueGet(q[s]).size = q[s].size - Bytes(Head(q[s].pkts))
    BY DEF PktQueGet
  <2>2. /\ Cardinality(Data(q'[s])) = Cardinality(Data(q[s])) - Bytes(Head(q[s].pkts))
        /\ Cardinality(StaleOf(q'[s], e)) <= Cardinality(StaleOf(q[s], e))
    BY <1>1, <1>6, GetCounts
  <2>3. QED
    BY <1>6, <2>1, <2>2
<1>7. QED
  BY <1>3, <1>4, <1>5, <1>6 DEF Drops

LEMMA SizeStep ==
    ASSUME TypeOK, SizeIsBytes, [Next]_vars
    PROVE  SizeIsBytes'
<1> SUFFICES ASSUME NEW s \in Streams
             PROVE  q'[s].size = Cardinality(Data(q'[s]))
  BY DEF SizeIsBytes, Data
<1>1. q \in [Streams -> Queues] /\ q[s] \in Queues /\ q[s].size \in Int
      /\ q[s].size = Cardinality(Data(q[s]))
  BY DEF TypeOK, Queues, SizeIsBytes
<1>2. CASE Drops(s)
  BY <1>1, <1>2, DropCounts
<1>3. CASE DecodePut
  <2>1. dhand.stream \in Streams /\ dhand.pkt \in Packets /\ 0 \in Int
    BY DEF TypeOK, Packets
  <2>2. q'[s] \in {q[s], PktQuePut(q[s], dhand.pkt)}
    BY <1>1, <1>3, <2>1 DEF DecodePut
  <2>3. /\ Cardinality(Data(PktQuePut(q[s], dhand.pkt)))
              = Cardinality(Data(q[s])) + Bytes(dhand.pkt)
        /\ PktQuePut(q[s], dhand.pkt).size = q[s].size + Bytes(dhand.pkt)
    BY <1>1, <2>1, PutCounts DEF PktQuePut
  <2>4. QED
    BY <1>1, <2>2, <2>3
<1>4. QED
  BY <1>2, <1>3, QueueSteps

-----------------------------------------------------------------------------
(* The linked lists that carry the queues. *)

(* What a list that stands for a queue looks like, as facts about its path. *)
LEMMA PathFacts ==
    ASSUME NEW L, NEW path, NEW Q \in Queues, Represents(L, path, Q)
    PROVE  /\ Len(path) \in Nat /\ path \in [1..Len(path) -> Nodes]
           /\ path = <<>> <=> Len(path) = 0
           /\ Q.pkts = <<>> <=> Len(path) = 0
           /\ Q.pkts \in Seq(Packets) /\ Len(Q.pkts) = Len(path)
           /\ Q.size \in Int
BY DEF Represents, Queues

LEMMA IsRepresented ==
    ASSUME NEW L, NEW path, NEW Q, NEW n,
           path \in Seq(Nodes), Len(path) = n, Len(Q.pkts) = n,
           \A i, j \in 1..n : path[i] = path[j] => i = j,
           DOMAIN L.heap = {path[i] : i \in 1..n},
           \A i \in 1..n :
               L.heap[path[i]] = [pkt |-> Q.pkts[i],
                                  next |-> IF i = n THEN NULL ELSE path[i + 1]],
           L.first_pkt = IF path = <<>> THEN NULL ELSE path[1],
           L.last_pkt = IF path = <<>> THEN NULL ELSE path[n],
           L.nb_packets = n, L.size = Q.size
    PROVE  Represents(L, path, Q)
BY DEF Represents

(* PktQuePut links the new node behind the last one. *)
LEMMA ListPuts ==
    ASSUME NEW L, NEW path, NEW Q \in Queues, Represents(L, path, Q),
           NEW node \in Nodes, node \notin DOMAIN L.heap, NEW p \in Packets
    PROVE  Represents(ListPut(L, node, p), Append(path, node), PktQuePut(Q, p))
<1> DEFINE K == Len(path)
           M == ListPut(L, node, p)
           path1 == Append(path, node)
           pkts1 == Append(Q.pkts, p)
           after(i) == IF i = K THEN NULL ELSE path[i + 1]
<1>1. /\ K \in Nat /\ path \in [1..K -> Nodes] /\ path \in Seq(Nodes)
      /\ path = <<>> <=> K = 0
      /\ Q.pkts \in Seq(Packets) /\ Len(Q.pkts) = K
  <2>1. path \in Seq(Nodes)
    BY DEF Represents
  <2>2. QED
    BY <2>1, PathFacts
<1>2. /\ path1 \in Seq(Nodes) /\ Len(path1) = K + 1
      /\ \A i \in 1..K : path1[i] = path[i]
      /\ path1[K + 1] = node /\ path1 # <<>>
  BY <1>1
<1>3. /\ Len(pkts1) = K + 1
      /\ \A i \in 1..K : pkts1[i] = Q.pkts[i]
      /\ pkts1[K + 1] = p
  BY <1>1
<1>4. \A i \in 1..K : path[i] # node /\ path[i] \in DOMAIN L.heap
  BY DEF Represents
<1>5. /\ \A i, j \in 1..K : path[i] = path[j] => i = j
      /\ DOMAIN L.heap = {path[i] : i \in 1..K}
      /\ \A i \in 1..K : L.heap[path[i]] = [pkt |-> Q.pkts[i], next |-> after(i)]
      /\ L.first_pkt = IF K = 0 THEN NULL ELSE path[1]
      /\ L.last_pkt = IF K = 0 THEN NULL ELSE path[K]
      /\ L.nb_packets = K /\ L.size = Q.size
  BY <1>1 DEF Represents
<1>6. /\ K = 0 => L.last_pkt = NULL
      /\ K # 0 => L.last_pkt = path[K] /\ path[K] # NULL /\ K \in 1..K
  <2>1. K # 0 => K \in 1..K
    BY <1>1
  <2>2. \A i \in 1..K : path[i] # NULL
    BY <1>1 DEF Nodes
  <2>3. QED
    BY <1>5, <2>1, <2>2
<1>7. /\ DOMAIN M.heap = DOMAIN L.heap \cup {node}
      /\ M.heap[node] = [pkt |-> p, next |-> NULL]
      /\ M.first_pkt = IF K = 0 THEN node ELSE path[1]
      /\ M.last_pkt = node
      /\ M.nb_packets = K + 1 /\ M.size = Q.size + Bytes(p)
  BY <1>5, <1>6 DEF ListPut
<1>8. ASSUME NEW i \in 1..K
      PROVE  M.heap[path[i]] =
                 [pkt |-> Q.pkts[i], next |-> IF i = K THEN node ELSE path[i + 1]]
  <2>1. K # 0 /\ L.last_pkt = path[K] /\ L.last_pkt # NULL
    BY <1>1, <1>6
  <2>2. M.heap[path[i]] = [L.heap EXCEPT ![path[K]].next = node][path[i]]
    BY <1>4, <2>1 DEF ListPut
  <2>3. CASE i = K
    <3>1. L.heap[path[K]] = [pkt |-> Q.pkts[K], next |-> NULL]
      BY <1>5, <2>3
    <3>2. [L.heap EXCEPT ![path[K]].next = node][path[K]]
            = [L.heap[path[K]] EXCEPT !.next = node]
      BY <1>4, <1>6, <2>1
    <3>3. QED
      BY <2>2, <2>3, <3>1, <3>2
  <2>4. CASE i # K
    <3>1. path[i] # path[K] /\ path[i] \in DOMAIN L.heap
      BY <1>4, <1>5, <1>6, <2>1, <2>4
    <3>2. [L.heap EXCEPT ![path[K]].next = node][path[i]] = L.heap[path[i]]
      BY <3>1
    <3>3. QED
      BY <1>5, <2>2, <2>4, <3>2
  <2>5. QED
    BY <2>3, <2>4
<1> HIDE DEF M, path1, pkts1, K
<1>9. \A i, j \in 1..(K + 1) : path1[i] = path1[j] => i = j
  <2> SUFFICES ASSUME NEW i \in 1..(K + 1), NEW j \in 1..(K + 1), path1[i] = path1[j]
               PROVE  i = j
    OBVIOUS
  <2>1. CASE i = K + 1 /\ j = K + 1
    BY <2>1
  <2>2. CASE i = K + 1 /\ j \in 1..K
    BY <1>2, <1>4, <2>2
  <2>3. CASE i \in 1..K /\ j = K + 1
    BY <1>2, <1>4, <2>3
  <2>4. CASE i \in 1..K /\ j \in 1..K
    BY <1>2, <1>5, <2>4
  <2>5. QED
    BY <1>1, <2>1, <2>2, <2>3, <2>4
<1>10. DOMAIN M.heap = {path1[i] : i \in 1..(K + 1)}
  <2>1. ASSUME NEW i \in 1..(K + 1) PROVE path1[i] \in DOMAIN M.heap
    <3>1. CASE i = K + 1
      BY <1>2, <1>7, <3>1
    <3>2. CASE i \in 1..K
      BY <1>2, <1>4, <1>7, <3>2
    <3>3. QED
      BY <1>1, <3>1, <3>2
  <2>2. ASSUME NEW n \in DOMAIN M.heap
        PROVE  \E i \in 1..(K + 1) : path1[i] = n
    <3>1. CASE n = node
      BY <1>1, <1>2, <3>1
    <3>2. CASE n \in DOMAIN L.heap
      <4>1. PICK i \in 1..K : path[i] = n
        BY <1>5, <3>2
      <4>2. i \in 1..(K + 1) /\ path1[i] = n
        BY <1>1, <1>2, <4>1
      <4>3. QED
        BY <4>2
    <3>3. QED
      BY <1>7, <3>1, <3>2
  <2>3. QED
    BY <2>1, <2>2
<1>11. ASSUME NEW i \in 1..(K + 1)
       PROVE  M.heap[path1[i]] =
                  [pkt |-> pkts1[i],
                   next |-> IF i = K + 1 THEN NULL ELSE path1[i + 1]]
  <2>1. CASE i = K + 1
    BY <1>2, <1>3, <1>7, <2>1
  <2>2. CASE i \in 1..K
    <3>1. i # K + 1 /\ path1[i] = path[i] /\ pkts1[i] = Q.pkts[i]
      BY <1>1, <1>2, <1>3, <2>2
    <3>2. path1[i + 1] = IF i = K THEN node ELSE path[i + 1]
      BY <1>1, <1>2, <2>2
    <3>3. QED
      BY <1>8, <2>2, <3>1, <3>2
  <2>3. QED
    BY <1>1, <2>1, <2>2
<1>12. path1[1] = IF K = 0 THEN node ELSE path[1]
  BY <1>1, <1>2
<1>13. /\ PktQuePut(Q, p).pkts = pkts1
       /\ PktQuePut(Q, p).size = Q.size + Bytes(p)
  BY DEF PktQuePut, pkts1
<1>14. Represents(M, path1, PktQuePut(Q, p))
  BY ZenonT(60), <1>2, <1>3, <1>7, <1>9, <1>10, <1>11, <1>12, <1>13 DEF Represents
<1>15. QED
  BY <1>14 DEF M, path1

(* The test of PktQueGet: there is a packet when first_pkt is not NULL. *)
LEMMA ListTests ==
    ASSUME NEW L, NEW path, NEW Q \in Queues, Represents(L, path, Q)
    PROVE  Q.pkts = <<>> <=> L.first_pkt = NULL
<1> DEFINE K == Len(path)
<1>1. /\ K \in Nat /\ path \in [1..K -> Nodes]
      /\ path = <<>> <=> K = 0
      /\ Q.pkts = <<>> <=> K = 0
  BY PathFacts
<1>2. L.first_pkt = IF K = 0 THEN NULL ELSE path[1]
  BY <1>1 DEF Represents
<1>3. K # 0 => path[1] # NULL
  <2>1. K # 0 => 1 \in 1..K
    BY <1>1
  <2>2. \A i \in 1..K : path[i] # NULL
    BY <1>1 DEF Nodes
  <2>3. QED
    BY <2>1, <2>2
<1>4. QED
  BY <1>1, <1>2, <1>3

(* av_malloc has an address left: the list has finitely many nodes. *)
LEMMA FreeNode ==
    ASSUME NEW L, NEW path, NEW Q \in Queues, Represents(L, path, Q)
    PROVE  \E node \in Nodes : node \notin DOMAIN L.heap
<1> DEFINE K == Len(path)
           Used == DOMAIN L.heap
<1>1. K \in Nat /\ path \in [1..K -> Nodes] /\ Used = {path[i] : i \in 1..K}
  BY PathFacts DEF Represents
<1> HIDE DEF K, Used
<1>2. path \in Surjection(1..K, Used)
  BY <1>1 DEF Surjection
<1>3. IsFiniteSet(Used)
  BY <1>1, <1>2, FS_NatSurjection DEF ExistsSurjection
<1> SUFFICES ASSUME Nodes \subseteq Used PROVE FALSE
  BY DEF Used
<1> DEFINE c == Cardinality(Used)
<1>4. c \in Nat
  BY <1>3, FS_CardinalityType
<1>5. Cardinality(1..(c + 1)) = c + 1
  BY <1>4, FS_Interval
<1>6. 1..(c + 1) \subseteq Used
  BY <1>4 DEF Nodes, NULL
<1>7. Cardinality(1..(c + 1)) <= c
  BY <1>3, <1>6, FS_Subset
<1>8. QED
  BY <1>4, <1>5, <1>7

(* PktQueGet hands out the oldest packet and unlinks its node. *)
LEMMA ListGets ==
    ASSUME NEW L, NEW path, NEW Q \in Queues, Represents(L, path, Q),
           Q.pkts # <<>>
    PROVE  /\ L.heap[L.first_pkt].pkt = Head(Q.pkts)
           /\ Represents(ListGet(L), Tail(path), PktQueGet(Q))
<1> DEFINE K == Len(path)
           M == ListGet(L)
           path1 == Tail(path)
           pkts1 == Tail(Q.pkts)
           after(i) == IF i = K THEN NULL ELSE path[i + 1]
<1>1. /\ K \in Nat /\ K # 0 /\ path \in [1..K -> Nodes] /\ path \in Seq(Nodes)
      /\ path # <<>>
      /\ Q.pkts \in Seq(Packets) /\ Len(Q.pkts) = K
  <2>1. path \in Seq(Nodes)
    BY DEF Represents
  <2>2. QED
    BY <2>1, PathFacts
<1>2. /\ 1 \in 1..K /\ K \in 1..K /\ K - 1 \in Nat
      /\ \A i \in 1..(K - 1) : i + 1 \in 1..K
  BY <1>1
<1>3. /\ path1 \in Seq(Nodes) /\ Len(path1) = K - 1
      /\ \A i \in 1..(K - 1) : path1[i] = path[i + 1]
      /\ path1 = <<>> <=> K = 1
  BY <1>1
<1>4. /\ Len(pkts1) = K - 1 /\ Head(Q.pkts) = Q.pkts[1]
      /\ \A i \in 1..(K - 1) : pkts1[i] = Q.pkts[i + 1]
  BY <1>1
<1>5. /\ \A i, j \in 1..K : path[i] = path[j] => i = j
      /\ DOMAIN L.heap = {path[i] : i \in 1..K}
      /\ \A i \in 1..K : L.heap[path[i]] = [pkt |-> Q.pkts[i], next |-> after(i)]
      /\ L.first_pkt = path[1]
      /\ L.last_pkt = path[K]
      /\ L.nb_packets = K /\ L.size = Q.size
  BY <1>1 DEF Represents
<1>6. L.heap[L.first_pkt] = [pkt |-> Q.pkts[1], next |-> after(1)]
  BY <1>2, <1>5
<1>7. \A i \in 1..K : path[i] # NULL
  BY <1>1 DEF Nodes
<1>8. /\ DOMAIN M.heap = DOMAIN L.heap \ {path[1]}
      /\ \A n \in DOMAIN L.heap \ {path[1]} : M.heap[n] = L.heap[n]
      /\ M.first_pkt = after(1)
      /\ M.last_pkt = IF after(1) = NULL THEN NULL ELSE path[K]
      /\ M.nb_packets = K - 1
      /\ M.size = Q.size - Bytes(Head(Q.pkts))
  BY <1>4, <1>5, <1>6 DEF ListGet
<1>9. after(1) = NULL <=> K = 1
  BY <1>1, <1>7
<1> HIDE DEF M, path1, pkts1, K
<1>10. \A i, j \in 1..(K - 1) : path1[i] = path1[j] => i = j
  <2> SUFFICES ASSUME NEW i \in 1..(K - 1), NEW j \in 1..(K - 1),
                      path1[i] = path1[j]
               PROVE  i = j
    OBVIOUS
  <2>1. path[i + 1] = path[j + 1]
    BY <1>3
  <2>2. i + 1 = j + 1
    BY <1>2, <1>5, <2>1
  <2>3. QED
    BY <1>1, <2>2
<1>11. \A i \in 1..(K - 1) : path1[i] \in DOMAIN L.heap \ {path[1]}
  <2> SUFFICES ASSUME NEW i \in 1..(K - 1)
               PROVE  path1[i] \in DOMAIN L.heap \ {path[1]}
    OBVIOUS
  <2>1. i + 1 \in 1..K /\ i + 1 # 1
    BY <1>1, <1>2
  <2>2. QED
    BY <1>2, <1>3, <1>5, <2>1
<1>12. DOMAIN M.heap = {path1[i] : i \in 1..(K - 1)}
  <2>1. ASSUME NEW n \in DOMAIN L.heap \ {path[1]}
        PROVE  \E i \in 1..(K - 1) : path1[i] = n
    <3>1. PICK j \in 1..K : path[j] = n
      BY <1>5
    <3>2. j - 1 \in 1..(K - 1) /\ (j - 1) + 1 = j
      BY <1>1, <2>1, <3>1
    <3>3. path1[j - 1] = n
      BY <1>3, <3>1, <3>2
    <3>4. QED
      BY <3>2, <3>3
  <2>2. QED
    BY <1>8, <1>11, <2>1
<1>13. ASSUME NEW i \in 1..(K - 1)
       PROVE  M.heap[path1[i]] =
                  [pkt |-> pkts1[i],
                   next |-> IF i = K - 1 THEN NULL ELSE path1[i + 1]]
  <2>1. M.heap[path1[i]] = [pkt |-> Q.pkts[i + 1], next |-> after(i + 1)]
    BY SMTT(30), <1>2, <1>3, <1>5, <1>8, <1>11
  <2>2. CASE i = K - 1
    BY <1>1, <1>4, <2>1, <2>2
  <2>3. CASE i # K - 1
    <3>1. i + 1 # K /\ i + 1 \in 1..(K - 1)
      BY <1>1, <2>3
    <3>2. after(i + 1) = path1[i + 1]
      BY <1>3, <3>1
    <3>3. QED
      BY <1>4, <2>1, <2>3, <3>2
  <2>4. QED
    BY <2>2, <2>3
<1>14. /\ M.first_pkt = IF path1 = <<>> THEN NULL ELSE path1[1]
       /\ M.last_pkt = IF path1 = <<>> THEN NULL ELSE path1[K - 1]
  <2>1. CASE K = 1
    BY <1>3, <1>8, <1>9, <2>1
  <2>2. CASE K # 1
    <3>1. 1 \in 1..(K - 1) /\ K - 1 \in 1..(K - 1) /\ (K - 1) + 1 = K
      BY <1>1, <2>2
    <3>2. path1[1] = path[2] /\ path1[K - 1] = path[K]
      BY <1>3, <3>1
    <3>3. after(1) = path[2]
      BY <2>2
    <3>4. QED
      BY <1>3, <1>8, <1>9, <2>2, <3>2, <3>3
  <2>3. QED
    BY <2>1, <2>2
<1>15. /\ PktQueGet(Q).pkts = pkts1
       /\ PktQueGet(Q).size = Q.size - Bytes(Head(Q.pkts))
  BY DEF PktQueGet, pkts1
<1>16. Represents(M, path1, PktQueGet(Q))
  <2> DEFINE Q1 == PktQueGet(Q)
             N == K - 1
  <2>1. /\ path1 \in Seq(Nodes) /\ Len(path1) = N /\ Len(Q1.pkts) = N
        /\ M.nb_packets = N /\ M.size = Q1.size
    BY <1>3, <1>4, <1>8, <1>15
  <2>2. \A i \in 1..N : M.heap[path1[i]] =
            [pkt |-> Q1.pkts[i],
             next |-> IF i = N THEN NULL ELSE path1[i + 1]]
    BY <1>13, <1>15
  <2> HIDE DEF Q1, N
  <2>3. Represents(M, path1, Q1)
    BY <1>10, <1>12, <1>14, <2>1, <2>2, IsRepresented DEF N
  <2>4. QED
    BY <2>3 DEF Q1
<1>17. L.heap[L.first_pkt].pkt = Head(Q.pkts)
  BY <1>4, <1>6
<1>18. QED
  BY <1>16, <1>17 DEF M, path1

(* A set of numbers has a least one: the induction along the list. *)
LEMMA LeastNumber ==
    ASSUME NEW S, S \subseteq Nat, S # {}
    PROVE  \E n \in S : \A m \in S : n <= m
<1>1. PICK n \in S : TRUE
  OBVIOUS
<1> DEFINE Below == {T \in SUBSET (0..n) : \E k \in S : T = 0..k}
           R == StrictSubsetOrdering(0..n)
<1>2. IsWellFoundedOn(R, SUBSET (0..n))
  <2>1. IsFiniteSet(0..n)
    BY <1>1, FS_Interval
  <2>2. FiniteSubsetsOf(0..n) = SUBSET (0..n)
    BY <2>1, FS_FiniteSubsetsOfFinite
  <2>3. QED
    BY <2>2, FS_StrictSubsetOrderingWellFounded
<1>3. Below \subseteq SUBSET (0..n) /\ Below # {}
  BY <1>1
<1>4. PICK T \in Below : \A U \in Below : ~(<<U, T>> \in R)
  <2> HIDE DEF Below, R
  <2>1. QED
    BY <1>2, <1>3, WFMin
<1>5. PICK k \in S : T = 0..k
  OBVIOUS
<1>6. ASSUME NEW m \in S, m < k PROVE FALSE
  <2>1. 0..m \in Below
    BY <1>5, <1>6
  <2>2. 0..m \subseteq 0..k /\ 0..m # 0..k
    BY <1>6
  <2>3. QED
    BY <1>4, <1>5, <2>1, <2>2 DEF StrictSubsetOrdering
<1>7. QED
  BY <1>6

(* PktQueFlush comes to every node: the walk along next leaves none out.   *)
LEMMA WalkEndsAtLast ==
    ASSUME NEW L, NEW path, NEW Q \in Queues, Represents(L, path, Q)
    PROVE  Walked(L) = DOMAIN L.heap
<1> DEFINE K == Len(path)
<1>1. K \in Nat /\ path \in [1..K -> Nodes] /\ (path = <<>> <=> K = 0)
  BY PathFacts
<1>2. /\ DOMAIN L.heap = {path[i] : i \in 1..K}
      /\ \A i \in 1..K : i # K => L.heap[path[i]].next = path[i + 1]
      /\ K # 0 => L.first_pkt = path[1]
  <2>1. DOMAIN L.heap = {path[i] : i \in 1..K}
    BY DEF Represents
  <2>2. \A i \in 1..K : i # K => L.heap[path[i]].next = path[i + 1]
    <3>1. \A i \in 1..K :
             L.heap[path[i]] = [pkt |-> Q.pkts[i],
                                next |-> IF i = K THEN NULL ELSE path[i + 1]]
      BY DEF Represents
    <3> HIDE DEF K
    <3>2. ASSUME NEW i \in 1..K, i # K PROVE L.heap[path[i]].next = path[i + 1]
      <4>1. L.heap[path[i]] = [pkt |-> Q.pkts[i], next |-> path[i + 1]]
        BY <3>1, <3>2
      <4>2. QED
        BY <4>1
    <3>3. QED
      BY <3>2
  <2>3. K # 0 => L.first_pkt = path[1]
    BY <1>1 DEF Represents
  <2>4. QED
    BY <2>1, <2>2, <2>3
<1>3. \A i \in 1..K : path[i] # NULL
  BY <1>1 DEF Nodes
<1> HIDE DEF K
<1> SUFFICES ASSUME NEW S \in SUBSET DOMAIN L.heap, Follows(L, S),
                    NEW j \in 1..K, path[j] \notin S
             PROVE  FALSE
  BY <1>2 DEF Walked
<1> DEFINE Missed == {i \in 1..K : path[i] \notin S}
<1>4. PICK i \in Missed : \A m \in Missed : i <= m
  <2>1. Missed \subseteq Nat /\ Missed # {}
    BY <1>1
  <2> HIDE DEF Missed
  <2>2. QED
    BY <2>1, LeastNumber
<1>5. i \in 1..K /\ path[i] \notin S
  OBVIOUS
<1>6. CASE i = 1
  <2>1. K # 0 /\ path[1] # NULL
    BY <1>1, <1>3, <1>5, <1>6
  <2>2. QED
    BY <1>2, <1>5, <1>6, <2>1 DEF Follows
<1>7. CASE i # 1
  <2>1. i - 1 \in 1..K /\ i - 1 # K /\ (i - 1) + 1 = i /\ i - 1 < i
    BY <1>1, <1>5, <1>7
  <2>2. path[i - 1] \in S
    <3>1. i - 1 \notin Missed
      BY <1>1, <1>4, <2>1
    <3>2. QED
      BY <2>1, <3>1
  <2>3. L.heap[path[i - 1]].next = path[i]
    BY <1>2, <2>1
  <2>4. QED
    BY <1>3, <1>5, <2>2, <2>3 DEF Follows
<1>8. QED
  BY <1>6, <1>7

LEMMA EmptyList ==
    ASSUME NEW L, DOMAIN L.heap = {}, L.first_pkt = NULL, L.last_pkt = NULL,
           L.nb_packets = 0, L.size = 0
    PROVE  Represents(L, <<>>, Emptied)
BY DEF Represents, Emptied

(* PktQueInit leaves an empty list ... *)
LEMMA ListInits == Represents(NewList, <<>>, Emptied)
BY EmptyList DEF NewList

(* ... and so does PktQueFlush, which has freed every node. *)
LEMMA ListFlushes ==
    ASSUME NEW L, NEW path, NEW Q \in Queues, Represents(L, path, Q)
    PROVE  Represents(ListFlush(L), <<>>, Emptied)
<1>1. DOMAIN L.heap \ Walked(L) = {}
  BY WalkEndsAtLast
<1>2. ListFlush(L) = [heap |-> [n \in DOMAIN L.heap \ Walked(L) |-> L.heap[n]],
                      first_pkt |-> NULL, last_pkt |-> NULL,
                      nb_packets |-> 0, size |-> 0]
  BY DEF ListFlush, NewList
<1>3. QED
  BY <1>1, <1>2, EmptyList
(* Between Stop's flush and PktQueInit both queues stay empty: whoever puts *)
(* packets is joined or does not run yet.                                   *)
LEMMA LeakStep ==
    ASSUME TypeOK, Lifecycle, NothingLeaks, [Next]_vars
    PROVE  NothingLeaks'
<1> SUFFICES ASSUME ui' \in {"initCtx", "initSdl"}, NEW s \in Streams
             PROVE  q'[s].pkts = <<>>
  BY DEF NothingLeaks
<1> DEFINE Empty == ui \in {"initCtx", "initSdl"} /\ q[s].pkts = <<>>
<1>1. q \in [Streams -> Queues] /\ "video" \in Streams /\ "audio" \in Streams
  BY DEF TypeOK, Streams
<1>2. ASSUME q' = q, ui \in {"initCtx", "initSdl"} PROVE q'[s].pkts = <<>>
  BY <1>2 DEF NothingLeaks
<1>3. ASSUME ui' = ui
      PROVE  /\ \A u \in Streams : q[u].pkts = <<>>
             /\ dec = "off" /\ evt = "off"
             /\ rst["ui"] = 0 /\ rst["evt"] = 0
  BY <1>3 DEF NothingLeaks, Lifecycle, Joined
<1>4. CASE Load \/ Stop \/ Play \/ Pause \/ Seek \/ Refresh
  BY <1>2, <1>4 DEF Load, Stop, BeginStop, Play, Pause, Seek, Refresh
<1>5. CASE JoinDecode \/ JoinEvent \/ UnInitFfmpeg \/ UnInitSdl
           \/ InitSync \/ StartThreads \/ ResetPicCnt \/ FirstTimer
  BY <1>5 DEF JoinDecode, JoinEvent, UnInitFfmpeg, UnInitSdl,
     InitSync, StartThreads, ResetPicCnt, FirstTimer
<1>6. CASE FlushQueues
  BY <1>6 DEF FlushQueues, Emptied
<1>7. CASE InitFfmpeg
  BY <1>2, <1>7 DEF InitFfmpeg
<1>8. CASE InitSdl
  BY <1>8 DEF InitSdl
<1>9. ASSUME NEW t \in {"ui", "evt"}, ResetStep(t) PROVE q'[s].pkts = <<>>
  <2>1. ui' = ui
    BY <1>9 DEF ResetStep
  <2>2. rst[t] = 0
    BY <1>3, <2>1
  <2>3. QED
    BY <1>9, <2>2 DEF ResetStep
<1>10. CASE SdlTimerCallback \/ WindowResized
  BY <1>2, <1>10 DEF SdlTimerCallback, WindowResized, sdlRest
<1>11. CASE DecodeStep
  <2>1. ui' = ui
    BY <1>11 DEF DecodeStep, DecodeTop, AvReadFrame, DecodePut, DecodeEnd, decRest
  <2>2. QED
    BY <1>3, <1>11, <2>1 DEF DecodeStep, DecodeTop, AvReadFrame, DecodePut, DecodeEnd
<1>12. ASSUME NEW c \in Sessions, VideoStep(c) PROVE q'[s].pkts = <<>>
  <2>1. ui' = ui
    BY <1>12 DEF VideoStep, VideoStart, VideoGet, VideoDecode, VideoLock,
       VideoFill, VideoWrite, videoRest
  <2>2. q' = q
    BY <1>1, <1>3, <1>12, <2>1 DEF VideoStep, VideoStart, VideoGet, VideoDecode,
       VideoLock, VideoFill, VideoWrite, VideoFault
  <2>3. QED
    BY <1>2, <2>1, <2>2
<1>13. CASE EventTop \/ EventRefresh \/ EventShown \/ EventResize \/ EventPaint
  BY <1>2, <1>13 DEF EventTop, EventRefresh, EventShown, EventResize,
     EventPaint, evtRest
<1>14. CASE AudioStep
  <2>1. ui' = ui
    BY <1>14 DEF AudioStep, AudioEnter, AudioRun, AudioOpen,
       AudioGet, AudioFlush, AudioTest, AudioDecode, AudioFault, Silence, audioRest
  <2>2. q' = q
    BY <1>1, <1>3, <1>14, <2>1 DEF AudioStep, AudioEnter, AudioRun, AudioOpen,
       AudioGet, AudioFlush, AudioTest, AudioDecode, AudioFault, Silence
  <2>3. QED
    BY <1>2, <2>1, <2>2
<1>15. CASE UNCHANGED vars
  BY <1>2, <1>15 DEF vars
<1>16. QED
  BY <1>4, <1>5, <1>6, <1>7, <1>8, <1>9, <1>10, <1>11, <1>12, <1>13, <1>14, <1>15
  DEF Next, CallerStep, EventStep

-----------------------------------------------------------------------------
(* Who else touches what Seek counts, and how.                              *)
SeekKeeps ==
    /\ epoch' = epoch /\ rst'["ui"] = rst["ui"]
    /\ StaleInHand' => StaleInHand

LEMMA SeekFrame ==
    ASSUME TypeOK, [Next]_vars
    PROVE  DecodePut \/ Seek \/ Refresh \/ ResetStep("ui") \/ SeekKeeps
<1>1. /\ rst \in [{"ui", "evt"} -> 0..4] /\ epoch \in Int /\ dhand.pkt \in Int
  BY ConstAssumption DEF TypeOK, Epochs
<1>2. ASSUME UNCHANGED <<epoch, rst, dhand>>, dec' = dec \/ dec' # "put"
      PROVE  SeekKeeps
  BY <1>2 DEF SeekKeeps, StaleInHand
<1>3. CASE Load \/ Stop \/ Play \/ Pause
  BY <1>2, <1>3 DEF Load, Stop, BeginStop, Play, Pause, uiRest
<1>4. CASE JoinDecode \/ JoinEvent \/ UnInitFfmpeg \/ UnInitSdl \/ FlushQueues
  BY <1>2, <1>4 DEF JoinDecode, JoinEvent, UnInitFfmpeg, UnInitSdl,
     FlushQueues, stopRest
<1>5. CASE InitFfmpeg \/ InitSdl \/ InitSync \/ StartThreads \/ ResetPicCnt
           \/ FirstTimer
  BY <1>2, <1>5 DEF InitFfmpeg, InitSdl, InitSync, StartThreads, ResetPicCnt,
     FirstTimer, loadRest
<1>6. CASE SdlTimerCallback \/ WindowResized
  BY <1>2, <1>6 DEF SdlTimerCallback, WindowResized, sdlRest
<1>7. CASE DecodeTop \/ DecodeEnd
  BY <1>2, <1>7 DEF DecodeTop, DecodeEnd, decRest
<1>8. CASE AvReadFrame
  <2>1. UNCHANGED <<epoch, rst>>
    BY <1>8 DEF AvReadFrame, decRest
  <2>2. ~StaleInHand'
    BY <1>1, <1>8 DEF AvReadFrame, decRest, StaleInHand
  <2>3. QED
    BY <2>1, <2>2 DEF SeekKeeps
<1>9. ASSUME NEW s \in Sessions, VideoStep(s) PROVE SeekKeeps
  BY <1>2, <1>9, Frames DEF videoRest
<1>10. CASE EventTop \/ EventRefresh \/ EventShown \/ EventPaint
  BY <1>2, <1>10 DEF EventTop, EventRefresh, EventShown, EventPaint, evtRest
<1>11. CASE EventResize \/ ResetStep("evt")
  <2>1. UNCHANGED <<epoch, dec, dhand>>
    BY <1>11 DEF EventResize, ResetStep, evtRest
  <2>2. rst'["ui"] = rst["ui"]
    BY <1>1, <1>11 DEF EventResize, ResetStep
  <2>3. QED
    BY <2>1, <2>2 DEF SeekKeeps, StaleInHand
<1>12. CASE AudioStep
  <2>1. 1 \in Sessions
    BY ConstAssumption DEF Sessions
  <2>2. QED
    BY <1>2, <1>12, <2>1, Frames DEF audioRest
<1>13. CASE UNCHANGED vars
  BY <1>2, <1>13 DEF vars
<1>14. QED
  BY <1>3, <1>4, <1>5, <1>6, <1>7, <1>8, <1>9, <1>10, <1>11, <1>12, <1>13
  DEF Next, CallerStep, DecodeStep, EventStep

LEMMA SeekStep ==
    ASSUME TypeOK, SeekInv, [Next]_vars
    PROVE  SeekInv'
<1> SUFFICES ASSUME HasAudio PROVE SeekInv'
  BY DEF SeekInv
<1> DEFINE v == Cardinality(StaleOf(q["video"], epoch))
           a == Cardinality(StaleOf(q["audio"], epoch))
           h == IF StaleInHand THEN 1 ELSE 0
           v1 == Cardinality(StaleOf(q'["video"], epoch'))
           a1 == Cardinality(StaleOf(q'["audio"], epoch'))
           h1 == IF StaleInHand' THEN 1 ELSE 0
<1>1. /\ q \in [Streams -> Queues] /\ epoch \in Int /\ epoch' \in Int
      /\ "video" \in Streams /\ "audio" \in Streams
      /\ rst \in [{"ui", "evt"} -> 0..4]
  <2>1. epoch \in Int
    BY ConstAssumption DEF TypeOK, Epochs
  <2>2. epoch' \in {epoch, epoch + 1}
    BY SeekFrame DEF SeekKeeps, DecodePut, Seek, Refresh, ResetStep, decRest
  <2>3. QED
    BY <2>1, <2>2 DEF TypeOK, Streams
<1>2. v \in Nat /\ a \in Nat /\ h \in 0..1 /\ h1 \in 0..1
  <2>1. Counts(q["video"], epoch) /\ Counts(q["audio"], epoch)
    BY <1>1, QueueCounts
  <2>2. QED
    BY <2>1 DEF Counts
<1>3. /\ rst["ui"] \in {0, 4} => v + a + h <= 1
      /\ rst["ui"] \in {2, 3} => v + h <= 1
  BY DEF SeekInv, Stale, StaleOf
<1>4. SUFFICES /\ rst'["ui"] \in {0, 4} => v1 + a1 + h1 <= 1
               /\ rst'["ui"] \in {2, 3} => v1 + h1 <= 1
  BY DEF SeekInv, Stale, StaleOf, Data
<1>5. ASSUME epoch' = epoch, \A s \in Streams : Drops(s)
      PROVE  v1 <= v /\ a1 <= a /\ v1 \in Nat /\ a1 \in Nat
  <2>1. v1 <= v /\ a1 <= a
    BY <1>1, <1>5, DropCounts
  <2>2. q'["video"] \in Queues /\ q'["audio"] \in Queues
    BY <1>1, <1>5, EmptiedType, PutType, GetType DEF Drops, Packets
  <2>3. QED
    BY <1>1, <2>1, <2>2, QueueCounts DEF Counts
<1>6. CASE Seek \/ Refresh
  BY <1>1, <1>6 DEF Seek, Refresh, ResetFrom
<1>7. CASE ResetStep("ui")
  <2>1. UNCHANGED <<epoch, dec, dhand>> /\ h1 = h
    BY <1>7 DEF ResetStep, StaleInHand
  <2>2. v1 <= v /\ a1 <= a /\ v1 \in Nat /\ a1 \in Nat
    BY <1>5, <1>7, <2>1, ResetDrops
  <2>3. rst["ui"] \in 1..4 /\ rst'["ui"] = (rst["ui"] + 1) % 5
    BY <1>1, <1>7 DEF ResetStep
  <2>4. CASE rst["ui"] = 1
    <3>1. q'["video"] = Emptied
      BY <1>1, <1>7, <2>4 DEF ResetStep
    <3>2. v1 = 0 /\ rst'["ui"] = 2
      BY <1>1, <2>3, <2>4, <3>1, EmptiedCounts
    <3>3. QED
      BY <1>2, <3>2
  <2>5. CASE rst["ui"] = 3
    <3>1. q'["audio"] = Emptied
      BY <1>1, <1>7, <2>5 DEF ResetStep
    <3>2. a1 = 0 /\ rst'["ui"] = 4
      BY <1>1, <2>3, <2>5, <3>1, EmptiedCounts
    <3>3. QED
      BY <1>2, <1>3, <2>1, <2>2, <2>5, <3>2
  <2>6. CASE rst["ui"] \in {2, 4}
    <3>1. rst'["ui"] = IF rst["ui"] = 2 THEN 3 ELSE 0
      BY <2>3, <2>6
    <3>2. QED
      BY <1>2, <1>3, <2>1, <2>2, <2>6, <3>1
  <2>7. QED
    BY <2>3, <2>4, <2>5, <2>6
<1>8. CASE DecodePut
  <2>1. UNCHANGED <<epoch, rst>> /\ dec = "put" /\ h1 = 0
    BY <1>8 DEF DecodePut, decRest, StaleInHand
  <2>2. /\ dhand.stream \in Streams /\ dhand.pkt \in Packets
        /\ dhand.pkt # PktFlush /\ dhand.pkt \in Int
    BY ConstAssumption DEF TypeOK, Packets, Epochs, PktFlush
  <2>3. h = IF dhand.pkt # PktFlush /\ dhand.pkt < epoch THEN 1 ELSE 0
    BY <2>1, <2>2 DEF StaleInHand
  <2>4. \A s \in Streams : Cardinality(StaleOf(PktQuePut(q[s], dhand.pkt), epoch))
                             = Cardinality(StaleOf(q[s], epoch)) + h
    BY <1>1, <2>2, <2>3, PutCounts
  <2>5. q' = [q EXCEPT ![dhand.stream] = PktQuePut(@, dhand.pkt)]
    BY <1>8 DEF DecodePut
  <2>6. CASE dhand.stream = "video"
    <3>1. q'["video"] = PktQuePut(q["video"], dhand.pkt) /\ q'["audio"] = q["audio"]
      BY <1>1, <2>5, <2>6
    <3>2. v1 = v + h /\ a1 = a
      BY <1>1, <2>1, <2>4, <3>1
    <3>3. QED
      BY <1>2, <1>3, <2>1, <3>2
  <2>7. CASE dhand.stream = "audio"
    <3>1. q'["audio"] = PktQuePut(q["audio"], dhand.pkt) /\ q'["video"] = q["video"]
      BY <1>1, <2>5, <2>7
    <3>2. a1 = a + h /\ v1 = v
      BY <1>1, <2>1, <2>4, <3>1
    <3>3. QED
      BY <1>2, <1>3, <2>1, <3>2
  <2>8. QED
    BY <2>2, <2>6, <2>7 DEF Streams
<1>9. CASE SeekKeeps /\ \A s \in Streams : Drops(s)
  <2>1. h1 <= h /\ v1 <= v /\ a1 <= a /\ v1 \in Nat /\ a1 \in Nat
    BY <1>5, <1>9 DEF SeekKeeps
  <2>2. rst'["ui"] = rst["ui"]
    BY <1>9 DEF SeekKeeps
  <2>3. QED
    BY <1>2, <1>3, <2>1, <2>2
<1>10. QED
  BY <1>6, <1>7, <1>8, <1>9, QueueSteps, SeekFrame

(* Whatever is steady stays unfaulted and open.                             *)
LEMMA SteadyStep ==
    ASSUME TypeOK, Lifecycle, SteadyInv, [Next]_vars
    PROVE  SteadyInv'
<1> SUFFICES ASSUME hist'.steady PROVE SteadyInv'
  BY DEF SteadyInv
<1>1. hist \in HistType /\ session \in Nat /\ video \in [Sessions -> VideoPcs]
  BY ConstAssumption DEF TypeOK
<1>2. ASSUME hist.steady, UNCHANGED <<fault, session, open>>,
             m_nState' = m_nState \/ (session = 1 /\ m_nState' = 1) \/ session = 0,
             session = 1 => ui' \in Loading \cup {"idle", "seek"},
             audio' # "off" => open, session = 0 => audio' = "off",
             \A s \in Sessions : video'[s] # "none" => open
      PROVE  SteadyInv'
  BY <1>2 DEF SteadyInv
<1>3. CASE Load \/ Stop
  <2>1. hist.steady /\ session = 0
    BY <1>1, <1>3 DEF Load, Stop, BeginStop, HistType
  <2>2. UNCHANGED <<fault, session, open, audio, video>>
    BY <1>3 DEF Load, Stop, BeginStop
  <2>3. QED
    BY <1>2, <2>1, <2>2 DEF SteadyInv
<1>4. CASE Pause
  BY <1>1, <1>4 DEF Pause, HistType
<1>5. CASE Play \/ Seek \/ Refresh
  <2>1. /\ UNCHANGED <<fault, session, open, audio, video, hist>>
        /\ m_nState' \in {m_nState, 1} /\ ui' \in {ui, "seek"}
    BY <1>5 DEF Play, Seek, Refresh, uiRest
  <2>2. QED
    BY <1>2, <2>1 DEF SteadyInv
<1>6. CASE JoinDecode \/ JoinEvent \/ UnInitFfmpeg \/ UnInitSdl \/ FlushQueues
  <2>1. /\ UNCHANGED <<fault, session, m_nState, video, hist>>
        /\ open' \in {open, FALSE} /\ audio' \in {audio, "off"}
        /\ ui \notin Loading \cup {"idle", "seek"}
    BY <1>6 DEF JoinDecode, JoinEvent, UnInitFfmpeg, UnInitSdl, FlushQueues,
       stopRest, Loading
  <2>2. session = 0 /\ ~open
    BY <1>1, <2>1 DEF SteadyInv
  <2>3. open' = open
    <3>1. open \in BOOLEAN
      BY DEF TypeOK
    <3>2. open = FALSE
      BY <2>2, <3>1
    <3>3. QED
      BY <2>1, <3>2
  <2>4. QED
    BY <1>2, <2>1, <2>2, <2>3 DEF SteadyInv
<1>7. CASE InitFfmpeg
  <2>1. hist.steady /\ ui = "initCtx"
    BY <1>1, <1>7 DEF InitFfmpeg, HistType
  <2>2. session = 0
    BY <1>1, <2>1 DEF SteadyInv, Loading
  <2>3. /\ m_nState' = 1 /\ session' = 1 /\ ui' \in Loading \cup {"idle", "seek"}
        /\ UNCHANGED <<fault, audio, video>>
    BY <1>7, <2>2 DEF InitFfmpeg, Loading
  <2>4. audio = "off" /\ \A s \in Sessions : video[s] = "none"
    BY <2>1, <2>2, ConstAssumption DEF SteadyInv, Lifecycle, Sessions
  <2>5. QED
    BY <2>1, <2>3, <2>4 DEF SteadyInv
<1>8. CASE InitSdl \/ InitSync \/ StartThreads \/ ResetPicCnt \/ FirstTimer
  <2>1. /\ UNCHANGED <<fault, session, open, m_nState>> /\ ui \in Loading
        /\ ui' \in Loading \cup {"idle", "seek"} /\ hist'.steady = hist.steady
    BY <1>1, <1>8 DEF InitSdl, InitSync, StartThreads, ResetPicCnt, FirstTimer,
       loadRest, Loading, HistType
  <2>2. open /\ session # 0 /\ hist.steady
    BY <1>1, <2>1 DEF Lifecycle, SteadyInv
  <2>3. QED
    BY <1>2, <2>1, <2>2
<1>9. CASE SdlTimerCallback \/ WindowResized
  <2>1. /\ UNCHANGED <<fault, session, open, m_nState, ui, audio, video>>
        /\ hist'.steady = hist.steady
    BY <1>1, <1>9, TimerFires
    DEF SdlTimerCallback, WindowResized, sdlRest, HistType
  <2>2. QED
    BY <1>2, <2>1 DEF SteadyInv
<1>10. CASE DecodeStep
  <2>1. 1 \in Sessions
    BY ConstAssumption DEF Sessions
  <2>2. UNCHANGED <<session, open, m_nState, ui, audio, video>>
    BY <1>10, <2>1, Frames DEF decRest
  <2>3. hist'.steady = hist.steady
    BY <1>1, <1>10 DEF DecodeStep, DecodeTop, AvReadFrame, DecodePut,
       DecodeEnd, HistType
  <2>4. dec = "read" => open
    BY DEF Lifecycle
  <2>5. fault' = fault
    BY <1>10, <2>4 DEF DecodeStep, DecodeTop, AvReadFrame, DecodePut, DecodeEnd
  <2>6. QED
    BY <1>2, <2>2, <2>3, <2>5 DEF SteadyInv
<1>11. ASSUME NEW s \in Sessions, VideoStep(s) PROVE SteadyInv'
  <2>1. UNCHANGED <<session, open, m_nState, ui, audio, hist>>
    BY <1>11, Frames DEF videoRest
  <2>2. video[s] # "none"
    BY <1>11 DEF VideoStep, VideoStart, VideoGet, VideoDecode, VideoLock,
       VideoFill, VideoWrite
  <2>3. open /\ session = 1 /\ s = session
    <3>1. open /\ session <= 1 /\ session # 0 /\ s <= session
      BY <1>1, <2>1, <2>2 DEF SteadyInv, Lifecycle, Sessions
    <3>2. QED
      BY <1>1, <3>1 DEF Sessions
  <2>4. fault' = fault
    BY <1>11, <2>3 DEF VideoStep, VideoStart, VideoGet, VideoDecode, VideoLock,
       VideoFill, VideoWrite, VideoGoto, Live
  <2>5. QED
    BY <1>2, <2>1, <2>3, <2>4 DEF SteadyInv
<1>12. CASE EventStep
  <2>1. UNCHANGED <<session, open, m_nState, audio, hist>>
    BY <1>12 DEF EventStep, EventTop, EventRefresh, EventShown, EventResize,
       EventPaint, ResetStep, evtRest
  <2>2. ui' = ui
    BY <1>12 DEF EventStep, EventTop, EventRefresh, EventShown, EventResize,
       EventPaint, ResetStep, evtRest
  <2>3. evt # "off" => open
    BY DEF Lifecycle
  <2>4. fault' = fault
    BY <1>12, <2>3 DEF EventStep, EventTop, EventRefresh, EventShown,
       EventResize, EventPaint, ResetStep
  <2>5. evt # "off"
    BY <1>12 DEF EventStep, EventTop, EventRefresh, EventShown, EventResize,
       EventPaint, ResetStep, Lifecycle
  <2>6. QED
    BY <1>2, <2>1, <2>2, <2>3, <2>4, <2>5 DEF SteadyInv
<1>13. CASE ResetStep("ui")
  <2>1. /\ UNCHANGED <<fault, session, open, m_nState, audio, video, hist>>
        /\ ui' \in {ui, "idle"}
    BY <1>13 DEF ResetStep
  <2>2. QED
    BY <1>2, <2>1 DEF SteadyInv
<1>14. CASE AudioStep
  <2>1. 1 \in Sessions
    BY ConstAssumption DEF Sessions
  <2>2. UNCHANGED <<session, open, m_nState, ui, video, hist>>
    BY <1>14, <2>1, Frames DEF audioRest
  <2>3. audio # "off"
    BY <1>14 DEF AudioStep, AudioEnter, AudioRun, AudioOpen,
       AudioGet, AudioFlush, AudioTest, AudioDecode, AudioFault, Silence
  <2>4. open /\ m_nState = 1 /\ session = 1
    BY <1>1, <2>2, <2>3 DEF SteadyInv
  <2>5. fault' = fault
    BY <1>14, <2>4 DEF AudioStep, AudioEnter, AudioRun, AudioOpen,
       AudioGet, AudioFlush, AudioTest, AudioDecode, AudioFault, Silence
  <2>6. QED
    BY <1>2, <2>2, <2>4, <2>5 DEF SteadyInv
<1>15. CASE UNCHANGED vars
  BY <1>15 DEF vars, SteadyInv
<1>16. QED
  BY <1>3, <1>4, <1>5, <1>6, <1>7, <1>8, <1>9, <1>10, <1>11, <1>12, <1>13,
     <1>14, <1>15 DEF Next, CallerStep

-----------------------------------------------------------------------------
(* The picture slot and the reports of the end, step by step. *)

(* The VideoPro of the open session is writing the overlay. *)
AtWrite == open /\ session \in Sessions /\ video[session] = "write"

(* What slotBar is, without the quantifier; before and after a step. *)
LEMMA SlotIs ==
    /\ slotBar = IF AtWrite THEN "writing"
                 ELSE IF evt = "show" THEN "showing"
                 ELSE IF hist.counted /\ m_nVideoPicCnt = 1 THEN "full"
                 ELSE "empty"
    /\ slotBar' = IF AtWrite' THEN "writing"
                  ELSE IF evt' = "show" THEN "showing"
                  ELSE IF hist'.counted /\ m_nVideoPicCnt' = 1 THEN "full"
                  ELSE "empty"
<1>1. (\E s \in Sessions : Writing(s)) <=> AtWrite
  BY DEF AtWrite, Writing, Live
<1>2. (\E s \in Sessions : Writing(s)') <=> AtWrite'
  BY DEF AtWrite, Writing, Live
<1>3. QED
  BY <1>1, <1>2 DEF slotBar

(* What a step of the player makes of the picture.                        *)
LEMMA SlotMoves ==
    ASSUME TypeOK, Lifecycle, ChainInv, SlotInv, [Next]_vars
    PROVE  \/ slotBar = "empty" /\ slotBar' = "writing"
           \/ slotBar = "writing" /\ slotBar' = "full"
           \/ slotBar = "full" /\ slotBar' = "showing"
           \/ slotBar = "showing" /\ slotBar' = "empty"
           \/ slotBar = "full" /\ slotBar' = "empty"
           \/ slotBar = "writing" /\ slotBar' = "empty"
           \/ slotBar' = slotBar
<1> DEFINE Kept == UNCHANGED <<hist.counted, m_nVideoPicCnt>>
           Same == /\ Kept /\ (AtWrite' <=> AtWrite)
                   /\ (evt' = "show" <=> evt = "show")
<1> SUFFICES \/ Same
             \/ slotBar = "empty" /\ slotBar' = "writing"
             \/ slotBar = "writing" /\ slotBar' = "full"
             \/ slotBar = "full" /\ slotBar' = "showing"
             \/ slotBar = "showing" /\ slotBar' = "empty"
             \/ slotBar = "full" /\ slotBar' = "empty"
             \/ slotBar = "writing" /\ slotBar' = "empty"
             \/ slotBar' = slotBar
  BY SlotIs
<1>1. /\ AtWrite => m_nVideoPicCnt <= 0 /\ evt # "show"
      /\ evt = "show" => m_nVideoPicCnt = 1
      /\ hist.counted => m_nVideoPicCnt \in 0..1
  BY DEF SlotInv, HandOver, AtWrite, Writing, Live
<1>2. /\ evt = "show" \/ Chain > 0 => hist.counted
      /\ m_nVideoPicCnt \in Int /\ 1 \in Sessions
  BY ConstAssumption DEF ChainInv, TypeOK, Sessions
<1>3. CASE Kept /\ UNCHANGED <<open, session, video, evt>>
  BY <1>3 DEF AtWrite
<1>4. CASE UnInitFfmpeg
  <2>1. ~AtWrite' /\ evt' # "show" /\ evt # "show" /\ Kept
    BY <1>4 DEF UnInitFfmpeg, stopRest, Lifecycle, Joined, AtWrite
  <2>2. QED
    BY <2>1, <1>1, SlotIs
<1>5. CASE JoinEvent \/ JoinDecode
  BY <1>5 DEF JoinEvent, JoinDecode, stopRest, AtWrite
<1>6. CASE InitFfmpeg
  <2>1. /\ ~AtWrite /\ session' = session + 1 /\ Kept
        /\ UNCHANGED <<video, evt>>
    BY <1>6, HistKept DEF InitFfmpeg, Lifecycle, AtWrite
  <2>2. session' \in Sessions => video'[session'] = "none"
    BY <2>1 DEF Lifecycle, TypeOK, Sessions
  <2>3. QED
    BY <2>1, <2>2 DEF AtWrite
<1>7. CASE InitSdl
  <2>1. UNCHANGED <<open, session, evt>> /\ Kept /\ evt = "off"
    BY <1>7 DEF InitSdl, loadRest, Lifecycle, Joined
  <2>2. AtWrite' => AtWrite
    BY <1>7, <2>1 DEF InitSdl, AtWrite, TypeOK
  <2>3. QED
    BY <2>1, <2>2, <1>1, SlotIs
<1>8. CASE InitSync
  <2>1. UNCHANGED <<open, session, evt>> /\ Kept
    BY <1>8 DEF InitSync, loadRest
  <2>2. AtWrite' <=> AtWrite
    BY <1>8, <2>1 DEF InitSync, AtWrite, TypeOK
  <2>3. QED
    BY <2>1, <2>2
<1>9. CASE StartThreads
  BY <1>9 DEF StartThreads, loadRest, AtWrite, Lifecycle, Joined
<1>10. CASE ResetPicCnt
  <2>1. /\ UNCHANGED <<open, session, evt, video>>
        /\ m_nVideoPicCnt' = 0 /\ evt # "show"
    BY <1>10 DEF ResetPicCnt, loadRest, SlotInv
  <2>2. AtWrite' <=> AtWrite
    BY <2>1 DEF AtWrite
  <2>3. QED
    BY <2>1, <2>2, <1>1, SlotIs
<1>11. ASSUME NEW s \in Sessions,
              VideoStart(s) \/ VideoGet(s) \/ VideoDecode(s) \/ VideoLock(s)
       PROVE Same
  <2>1. UNCHANGED <<open, session, evt>> /\ Kept /\ video[s] # "write"
    BY <1>11, Frames DEF VideoStep, VideoStart, VideoGet, VideoDecode,
       VideoLock, VideoFault, videoRest
  <2>2. \/ video' = video
        \/ \E pc \in VideoPcs \ {"write"} : video' = [video EXCEPT ![s] = pc]
    BY <1>11 DEF VideoStart, VideoGet, VideoDecode, VideoLock, VideoFault,
       VideoGoto, VideoPcs
  <2>3. /\ video' \in [Sessions -> VideoPcs] /\ video'[s] # "write"
        /\ \A r \in Sessions : r # s => video'[r] = video[r]
    BY <2>1, <2>2 DEF TypeOK
  <2>4. AtWrite' <=> AtWrite
    BY <2>1, <2>3 DEF AtWrite
  <2>5. QED
    BY <2>1, <2>4
<1>12. ASSUME NEW s \in Sessions, VideoFill(s)
       PROVE Same \/ (slotBar = "empty" /\ slotBar' = "writing")
  <2>1. UNCHANGED <<open, session, evt>> /\ Kept /\ video[s] = "fill"
    BY <1>12, Frames DEF VideoStep, VideoFill, VideoFault, videoRest
  <2>2. CASE video' = video \/ video' = [video EXCEPT ![s] = "loop"]
    BY <2>1, <2>2 DEF AtWrite, TypeOK
  <2>3. CASE Live(s) /\ m_nState # 0 /\ video' = [video EXCEPT ![s] = "write"]
    <3>1. AtWrite' /\ ~AtWrite
      BY <2>1, <2>3 DEF AtWrite, Live, TypeOK
    <3>2. m_nVideoPicCnt <= 0
      BY <2>1, <2>3 DEF SlotInv
    <3>3. slotBar = "empty" /\ slotBar' = "writing"
      BY <1>1, <3>1, <3>2, SlotIs
    <3>4. QED
      BY <3>3
  <2>4. QED
    BY <1>12, <2>2, <2>3 DEF VideoFill, VideoFault, VideoGoto
<1>13. ASSUME NEW s \in Sessions, VideoWrite(s)
       PROVE Same \/ (slotBar = "writing" /\ slotBar' \in {"full", "empty"})
  <2>1. UNCHANGED <<open, session, evt, hist>> /\ video[s] = "write"
    BY <1>13, Frames DEF VideoStep, VideoWrite, videoRest
  <2>2. CASE UNCHANGED <<video, m_nVideoPicCnt>>
    <3>1. AtWrite' <=> AtWrite
      BY <2>1, <2>2 DEF AtWrite
    <3>2. Same
      BY <2>1, <2>2, <3>1
    <3>3. QED
      BY <3>2
  <2>3. CASE Live(s) /\ video' = [video EXCEPT ![s] = "loop"]
    <3>1. AtWrite /\ ~AtWrite'
      BY <2>1, <2>3 DEF AtWrite, Live, TypeOK
    <3>2. QED
      BY <2>1, <3>1, <1>1, SlotIs
  <2>4. QED
    BY <1>13, <2>2, <2>3 DEF VideoWrite, VideoFault, VideoGoto
<1>14. CASE EventTop \/ EventResize \/ EventPaint \/ ResetStep("evt")
  BY <1>14 DEF EventTop, EventResize, EventPaint, ResetStep, evtRest,
     AtWrite, Lifecycle
<1>15. CASE EventRefresh
  <2>1. UNCHANGED <<open, session, video>> /\ Kept /\ evt = "waiting"
    BY <1>15 DEF EventRefresh, evtRest
  <2>2. evt' = "show" => m_nVideoPicCnt > 0
    BY <1>2, <1>15 DEF EventRefresh
  <2>3. hist.counted
    BY <1>2, <1>15 DEF EventRefresh, Chain, TypeOK
  <2>4. AtWrite' <=> AtWrite
    BY <2>1 DEF AtWrite
  <2>5. CASE evt' = "show"
    <3>1. slotBar = "full" /\ slotBar' = "showing"
      BY <1>1, <1>2, <2>1, <2>2, <2>3, <2>4, <2>5, SlotIs
    <3>2. QED
      BY <3>1
  <2>6. QED
    BY <2>1, <2>4, <2>5
<1>16. CASE EventShown
  <2>1. /\ UNCHANGED <<open, session>> /\ evt = "show" /\ evt' = "loop"
        /\ m_nVideoPicCnt' = m_nVideoPicCnt - 1
    BY <1>16 DEF EventShown, evtRest
  <2>2. AtWrite' <=> AtWrite
    BY <1>16, <2>1 DEF EventShown, AtWrite, TypeOK
  <2>3. QED
    BY <2>1, <2>2, <1>1, SlotIs
<1>17. UNCHANGED vars => Kept /\ UNCHANGED <<open, session, video, evt>>
  BY DEF vars
<1>18. ASSUME \/ Load \/ Stop \/ Play \/ Pause \/ Seek \/ Refresh
              \/ UnInitSdl \/ FlushQueues \/ FirstTimer \/ ResetStep("ui")
       PROVE  Kept /\ UNCHANGED <<open, session, video, evt>>
  <2>1. CASE ResetStep("ui") \/ UnInitSdl \/ FlushQueues \/ FirstTimer
    BY <2>1 DEF ResetStep, UnInitSdl, FlushQueues, FirstTimer, stopRest,
       loadRest
  <2>2. CASE Load \/ Stop \/ Play \/ Pause \/ Seek \/ Refresh
    BY <2>2, HistKept DEF Load, Stop, BeginStop, Play, Pause, Seek, Refresh,
       uiRest
  <2>3. QED
    BY <1>18, <2>1, <2>2
<1>19. ASSUME \/ SdlTimerCallback \/ WindowResized \/ DecodeStep \/ AudioStep
       PROVE  Kept /\ UNCHANGED <<open, session, video, evt>>
  <2>1. UNCHANGED <<open, session, video, evt, m_nVideoPicCnt>>
    BY <1>2, <1>19, Frames DEF sdlRest, decRest, audioRest
  <2>2. hist'.counted = hist.counted
    BY <1>2, <1>19, Frames, TimerFires, HistKept DEF WindowResized,
       DecodeStep, DecodeTop, AvReadFrame, DecodePut, audioRest
  <2>3. QED
    BY <2>1, <2>2
<1>20. QED
  BY <1>3, <1>4, <1>5, <1>6, <1>7, <1>8, <1>9, <1>10, <1>11, <1>12, <1>13,
     <1>14, <1>15, <1>16, <1>17, <1>18, <1>19
  DEF Next, CallerStep, VideoStep, EventStep

(* Who starts or ends a repaint, and who ends the steady time: all other    *)
(* steps leave both alone, and only an EventPro that waits begins to show.  *)
LEMMA PaintSteps ==
    ASSUME TypeOK, Lifecycle, [Next]_vars
    PROVE  /\ \/ Pause \/ Load \/ Stop
              \/ ResetStep("evt") \/ EventPaint
              \/ /\ hist'.steady = hist.steady
                 /\ evt' = "paint" <=> evt = "paint"
           /\ evt' = "show" => evt \in {"show", "waiting"}
<1>1. hist \in HistType /\ 1 \in Sessions
  BY ConstAssumption DEF TypeOK, Sessions
<1>2. CASE JoinDecode \/ JoinEvent \/ UnInitFfmpeg \/ UnInitSdl \/ FlushQueues
  BY <1>2 DEF JoinDecode, JoinEvent, UnInitFfmpeg, UnInitSdl, FlushQueues,
     stopRest
<1>3. CASE InitFfmpeg \/ InitSdl \/ InitSync \/ ResetPicCnt \/ FirstTimer
  BY <1>1, <1>3 DEF InitFfmpeg, InitSdl, InitSync, ResetPicCnt, FirstTimer,
     loadRest, HistType
<1>4. CASE StartThreads
  BY <1>4 DEF StartThreads, loadRest, Lifecycle, Joined
<1>5. CASE Load \/ Stop \/ Play \/ Pause \/ Seek \/ Refresh
  BY <1>5 DEF Load, Stop, BeginStop, Play, Pause, Seek, Refresh, uiRest
<1>6. CASE SdlTimerCallback \/ WindowResized
  BY <1>1, <1>6 DEF SdlTimerCallback, WindowResized, sdlRest, HistType
<1>7. CASE DecodeStep
  BY <1>1, <1>7 DEF DecodeStep, DecodeTop, AvReadFrame, DecodePut, DecodeEnd,
     decRest, HistType
<1>8. CASE AudioStep \/ \E s \in Sessions : VideoStep(s)
  BY <1>1, <1>8, Frames DEF audioRest, videoRest
<1>9. CASE EventTop \/ EventRefresh \/ EventShown \/ EventResize
  BY <1>9 DEF EventTop, EventRefresh, EventShown, EventResize, evtRest
<1>10. CASE ResetStep("ui") \/ ResetStep("evt") \/ EventPaint
  BY <1>10 DEF ResetStep, EventPaint, evtRest, Lifecycle
<1>11. CASE UNCHANGED vars
  BY <1>11 DEF vars
<1>12. QED
  BY <1>2, <1>3, <1>4, <1>5, <1>6, <1>7, <1>8, <1>9, <1>10, <1>11
  DEF Next, CallerStep, EventStep

(* A resize is handled with a repaint only after a Pause.                   *)
LEMMA PauseStep ==
    TypeOK /\ Lifecycle /\ PauseInv /\ [Next]_vars => PauseInv'
<1> SUFFICES ASSUME TypeOK, Lifecycle, PauseInv, [Next]_vars, hist'.steady
             PROVE  m_nState' # 2 /\ evt' \notin {"refresh", "paint"}
  BY DEF PauseInv
<1>1. hist \in HistType /\ 1 \in Sessions
  BY ConstAssumption DEF TypeOK, Sessions
<1>2. hist.steady => m_nState # 2 /\ evt \notin {"refresh", "paint"}
  BY DEF PauseInv
<1>3. CASE JoinDecode \/ JoinEvent \/ UnInitFfmpeg \/ UnInitSdl \/ FlushQueues
  BY <1>2, <1>3 DEF JoinDecode, JoinEvent, UnInitFfmpeg, UnInitSdl,
     FlushQueues, stopRest
<1>4. CASE InitFfmpeg \/ InitSdl \/ InitSync \/ StartThreads
           \/ ResetPicCnt \/ FirstTimer
  <2>1. CASE InitFfmpeg
    BY <1>1, <1>2, <2>1 DEF InitFfmpeg, HistType
  <2>2. CASE ResetPicCnt
    BY <1>1, <1>2, <2>2 DEF ResetPicCnt, loadRest, HistType
  <2>3. CASE InitSdl \/ InitSync \/ StartThreads \/ FirstTimer
    <3>1. UNCHANGED <<m_nState, hist>> /\ evt' \in {evt, "loop"}
      BY <2>3 DEF InitSdl, InitSync, StartThreads, FirstTimer, loadRest
    <3>2. QED
      BY <1>2, <3>1
  <2>4. QED
    BY <1>4, <2>1, <2>2, <2>3
<1>5. CASE Load \/ Stop \/ Pause
  BY <1>1, <1>2, <1>5 DEF Load, Stop, BeginStop, Pause, uiRest, HistType
<1>6. CASE Play \/ Seek \/ Refresh
  BY <1>2, <1>6 DEF Play, Seek, Refresh, uiRest
<1>7. CASE SdlTimerCallback \/ WindowResized
  BY <1>1, <1>2, <1>7 DEF SdlTimerCallback, WindowResized, sdlRest, HistType
<1>8. CASE DecodeStep
  BY <1>1, <1>2, <1>8 DEF DecodeStep, DecodeTop, AvReadFrame, DecodePut,
     DecodeEnd, decRest, HistType
<1>9. CASE AudioStep \/ \E s \in Sessions : VideoStep(s)
  BY <1>1, <1>2, <1>9, Frames DEF audioRest, videoRest
<1>10. CASE EventStep \/ ResetStep("ui")
  BY <1>2, <1>10 DEF EventStep, EventTop, EventRefresh, EventShown,
     EventResize, EventPaint, ResetStep, evtRest, Lifecycle
<1>11. CASE UNCHANGED vars
  BY <1>2, <1>11 DEF vars
<1>12. QED
  BY <1>3, <1>4, <1>5, <1>6, <1>7, <1>8, <1>9, <1>10, <1>11
  DEF Next, CallerStep

(* Every step of the player is a step of PictureSlot or a stutter.          *)
LEMMA SlotStepsTo ==
    ASSUME TypeOK, Lifecycle, ChainInv, SlotInv, PauseInv, [Next]_vars
    PROVE  [Slot!Next]_(Slot!vars)
<1> USE DEF Slot!Next, Slot!vars, Slot!Begin, Slot!Finish, Slot!Show,
        Slot!Release, Slot!Drop, Slot!Abandon, Slot!Step
<1>1. hist \in HistType
  BY DEF TypeOK
<1>2. CASE Pause \/ Load \/ Stop
  <2>1. /\ UNCHANGED <<open, session, video, evt, m_nVideoPicCnt>>
        /\ hist'.counted = hist.counted /\ hist'.steady \in {hist.steady, FALSE}
    BY <1>1, <1>2 DEF Pause, Load, Stop, BeginStop, uiRest, HistType
  <2>2. slotBar' = slotBar
    BY <2>1, SlotIs DEF AtWrite
  <2>3. hist.steady \in BOOLEAN
    BY <1>1 DEF HistType
  <2>4. QED
    BY <2>1, <2>2, <2>3 DEF Slot!Interrupt
<1>3. CASE ResetStep("evt") \/ EventPaint
  <2>1. /\ UNCHANGED <<open, session, video, m_nVideoPicCnt, hist>>
        /\ evt \in {"refresh", "paint"} /\ evt' # "show"
    BY <1>3 DEF ResetStep, EventPaint, evtRest, Lifecycle
  <2>2. slotBar' = slotBar /\ slotBar # "showing"
    BY <2>1, SlotIs DEF AtWrite
  <2>3. hist.steady = FALSE
    BY <1>1, <2>1 DEF PauseInv, HistType
  <2>4. QED
    BY <2>1, <2>2, <2>3 DEF Slot!Repaint, Slot!Painted
<1>4. CASE hist'.steady = hist.steady /\ (evt' = "paint" <=> evt = "paint")
  <2>1. slotBar = "full" /\ slotBar' = "showing" => evt # "paint"
    BY PaintSteps, SlotIs
  <2>2. QED
    BY <1>4, <2>1, SlotMoves
<1>5. QED
  BY <1>2, <1>3, <1>4, PaintSteps

(* Only DecodeEnd reports an end, and DecodeThreadPro has an open context. *)
LEMMA EndStep ==
    ASSUME TypeOK, Lifecycle, DecodeInv, [Next]_vars
    PROVE  [hist'.ends > hist.ends => open]_vars
<1>1. hist.ends \in 0..1 /\ hist \in HistType
  BY DEF TypeOK, DecodeInv, OneEnd
<1>2. CASE DecodeEnd
  BY <1>2 DEF DecodeEnd, Lifecycle
<1>3. CASE UNCHANGED hist
  BY <1>1, <1>3
<1>4. CASE InitFfmpeg
  <2>1. hist'.ends = 0
    BY <1>1, <1>4 DEF InitFfmpeg, HistType
  <2>2. QED
    BY <1>1, <2>1
<1>5. CASE Load \/ Stop \/ Pause \/ ResetPicCnt \/ SdlTimerCallback
  <2>1. hist'.ends = hist.ends
    BY <1>1, <1>5 DEF Load, Stop, BeginStop, Pause, ResetPicCnt,
       SdlTimerCallback, HistType
  <2>2. QED
    BY <1>1, <2>1
<1>6. ASSUME NEW s \in Sessions, VideoStep(s) PROVE UNCHANGED hist
  BY <1>6 DEF VideoStep, VideoStart, VideoGet, VideoDecode, VideoLock,
     VideoFill, VideoWrite, videoRest
<1>7. ASSUME EventStep \/ AudioStep PROVE UNCHANGED hist
  BY <1>7 DEF EventStep, EventTop, EventRefresh, EventShown, EventResize,
     EventPaint, ResetStep, evtRest, AudioStep, AudioEnter, AudioRun,
     AudioOpen, AudioGet,
     AudioFlush, AudioTest, AudioDecode, AudioFault, Silence, audioRest
<1>8. ASSUME Play \/ Seek \/ Refresh \/ WindowResized PROVE UNCHANGED hist
  BY <1>8 DEF Play, Seek, Refresh, WindowResized, uiRest
<1>9. ASSUME DecodeTop \/ AvReadFrame \/ DecodePut PROVE UNCHANGED hist
  BY <1>9 DEF DecodeTop, AvReadFrame, DecodePut
<1>10. ASSUME \/ JoinDecode \/ JoinEvent \/ UnInitFfmpeg \/ UnInitSdl
              \/ FlushQueues \/ InitSdl \/ InitSync \/ StartThreads
              \/ FirstTimer \/ ResetStep("ui")
       PROVE UNCHANGED hist
  BY <1>10 DEF JoinDecode, JoinEvent, UnInitFfmpeg, UnInitSdl, FlushQueues,
     InitSdl, InitSync, StartThreads, FirstTimer, ResetStep, stopRest,
     loadRest
<1>11. QED
  BY <1>2, <1>3, <1>4, <1>5, <1>6, <1>7, <1>8, <1>9, <1>10 DEF Next,
     CallerStep, DecodeStep

-----------------------------------------------------------------------------
(* The theorems. *)

(* IInv holds from the constructor on, whatever the threads do. *)
THEOREM Inductive == Spec => []IInv
<1>1. Init => IInv
  <2> SUFFICES ASSUME Init PROVE IInv
    OBVIOUS
  <2>1. q \in [Streams -> Queues] /\ q["video"].size = 0 /\ q["audio"].size = 0
    BY EmptiedType DEF Init, Streams
  <2>2. TypeOK
    <3>1. /\ open \in BOOLEAN /\ m_pAudioBuf \in BOOLEAN
          /\ m_bResize \in BOOLEAN
      BY Zenon DEF Init
    <3>2. hist \in HistType
      BY DEF Init, HistType
    <3>3. /\ rst \in [{"ui", "evt"} -> 0..4]
          /\ sdl \in [timers : Nat, refresh : Nat, resize : Nat]
          /\ sdl.refresh + sdl.resize <= EventLimit
          /\ epoch \in Epochs /\ session \in 0..MaxLoads
      BY ConstAssumption DEF Init, Epochs
    <3>4. dhand \in [stream : Streams, pkt : Epochs]
      BY ConstAssumption DEF Init, Epochs, NoPacket, Streams
    <3>5. video \in [Sessions -> VideoPcs]
      BY DEF Init, VideoPcs
    <3>6. m_nVideoPicCnt \in Int
      BY ConstAssumption DEF Init
    <3>7. QED
      BY <2>1, <3>1, <3>2, <3>3, <3>4, <3>5, <3>6
      DEF Init, TypeOK, UiPcs, DecPcs, EvtPcs, AudioPcs
  <2>3. Lifecycle
    BY ConstAssumption DEF Init, Lifecycle, Joined, Loading
  <2>4. ChainInv
    BY DEF Init, ChainInv, OneRefreshChain, Chain, Loading
  <2>5. SlotInv
    BY DEF Init, SlotInv, HandOver, Writing, Live, NoLostWakeup
  <2>6. DecodeInv
    BY <2>1, ConstAssumption DEF Init, DecodeInv, BackPressure, OneEnd
  <2>7. PauseInv
    BY DEF Init, PauseInv
  <2>8. QED
    BY <2>2, <2>3, <2>4, <2>5, <2>6, <2>7 DEF IInv
<1>2. IInv /\ [Next]_vars => IInv'
  BY TypeStep, LifecycleStep, ChainStep, SlotStep, DecodeInvStep, PauseStep
  DEF IInv
<1>3. QED
  BY <1>1, <1>2, PTL DEF Spec

(* The variables of CVideoPlayer keep their types; SDL's event queue never  *)
(* holds more than its capacity.                                            *)
THEOREM TypeCorrect == Spec => []TypeOK
BY Inductive, PTL DEF IInv

(* HandleVideoPic and RefrshVideo hand the one picture over: it is never    *)
(* written while it is full or RefrshVideo shows it, and m_nVideoPicCnt     *)
(* stays 0 or 1.  Until the first Pause or Stop nobody shows it while it is *)
(* written; after that the repaint of a resize may.                         *)
THEOREM PictureExclusive == Spec => []OnePicture
<1>1. IInv => OnePicture
  BY DEF IInv, SlotInv, HandOver, OnePicture, PauseInv
<1>2. QED
  BY <1>1, Inductive, PTL

(* There is at most one refresh chain, and it lives as long as EventPro,    *)
(* unless SDL dropped an event.                                             *)
THEOREM RefreshChainSingle == Spec => []OneRefreshChain
<1>1. IInv => OneRefreshChain
  BY DEF IInv, ChainInv
<1>2. QED
  BY <1>1, Inductive, PTL

(* DecodeThreadPro and EventPro never work on a closed context. *)
THEOREM JoinedThreadsOnOpenContext == Spec => []JoinedThreadsSafe
<1>1. IInv => JoinedThreadsSafe
  BY DEF IInv, Lifecycle, JoinedThreadsSafe, TypeOK, DecPcs, EvtPcs
<1>2. QED
  BY <1>1, Inductive, PTL

(* A VideoPro waits on m_pCond with the slot free only after one of the two *)
(* known losses of a signal.                                                *)
THEOREM WakeupsKept == Spec => []NoLostWakeup
<1>1. IInv => NoLostWakeup
  BY DEF IInv, SlotInv
<1>2. QED
  BY <1>1, Inductive, PTL

(* Each packet queue holds at most its limit and one packet more. *)
THEOREM QueuesBounded == Spec => []BackPressure
<1>1. IInv => BackPressure
  BY DEF IInv, DecodeInv
<1>2. QED
  BY <1>1, Inductive, PTL

(* PacketQueue.size stays the size of the packets in the list: nothing is   *)
(* counted once only, so DecodeThreadPro neither stops nor reads on.        *)
THEOREM SizesAreBytes == Spec => []SizeIsBytes
<1>1. Init => SizeIsBytes
  BY EmptiedCounts, EmptiedType, 0 \in Int DEF Init, SizeIsBytes
<1>2. IInv /\ SizeIsBytes /\ [Next]_vars => SizeIsBytes'
  BY SizeStep DEF IInv
<1>3. QED
  BY <1>1, <1>2, Inductive, PTL DEF Spec

(* After a Seek of a file with both streams, one packet at most from before *)
(* it is still in the queues or in DecodeThreadPro's hand.                  *)
THEOREM BacklogDropped == Spec => []SeekDropsBacklog
<1>1. Init => SeekInv
  <2>1. SUFFICES ASSUME Init PROVE SeekInv
    OBVIOUS
  <2>2. Stale("video") = {} /\ Stale("audio") = {} /\ ~StaleInHand
    BY <2>1 DEF Init, Stale, Data, Emptied, Streams, StaleInHand
  <2>3. Cardinality({}) = 0
    BY FS_EmptySet
  <2>4. QED
    BY <2>2, <2>3 DEF SeekInv
<1>2. IInv /\ SeekInv /\ [Next]_vars => SeekInv'
  BY SeekStep DEF IInv
<1>3. SeekInv => SeekDropsBacklog
  BY DEF SeekInv, SeekDropsBacklog
<1>4. QED
  BY <1>1, <1>2, <1>3, Inductive, PTL DEF Spec

(* Only Pause and Stop open the race of VideoPro and of the audio callback  *)
(* with the context: without them no thread touches freed state.            *)
THEOREM SteadyPlaySafe == Spec => []SteadyPlayNeverFaults
<1>1. Init => SteadyInv
  BY DEF Init, SteadyInv
<1>2. IInv /\ SteadyInv /\ [Next]_vars => SteadyInv'
  BY SteadyStep DEF IInv
<1>3. SteadyInv => SteadyPlayNeverFaults
  BY DEF SteadyInv, SteadyPlayNeverFaults
<1>4. QED
  BY <1>1, <1>2, <1>3, Inductive, PTL DEF Spec

(* The end of a file, or an error, is reported at most once per Load. *)
THEOREM EndReportedOnce == Spec => []OneEnd
<1>1. IInv => OneEnd
  BY DEF IInv, DecodeInv
<1>2. QED
  BY <1>1, Inductive, PTL

(* No report of an end or an error comes once Stop has closed the context.  *)
THEOREM NoLateEnd == Spec => NoEndAfterStop
<1>1. IInv /\ [Next]_vars => [hist'.ends > hist.ends => open]_vars
  BY EndStep DEF IInv
<1>2. QED
  BY <1>1, Inductive, PTL DEF Spec, NoEndAfterStop

(* VideoPro, EventPro, Stop and Load use the one picture as PictureSlot     *)
(* says: written, full, shown and empty in turn, except that a repaint,     *)
(* which needs a Pause or Stop before it, may show it in any state.         *)
THEOREM RefinesPictureSlot == Spec => SlotSpec
<1>1. Init => Slot!Init
  <2> SUFFICES ASSUME Init PROVE Slot!Init
    OBVIOUS
  <2>1. ~AtWrite /\ evt = "off" /\ ~hist.counted /\ hist.steady = TRUE
    BY DEF Init, AtWrite
  <2>2. slotBar = "empty"
    BY <2>1, SlotIs
  <2>3. QED
    BY <2>1, <2>2 DEF Slot!Init
<1>2. IInv /\ [Next]_vars => [Slot!Next]_(Slot!vars)
  BY SlotStepsTo DEF IInv
<1>3. QED
  BY <1>1, <1>2, Inductive, PTL DEF Spec, SlotSpec, Slot!Spec

(* No packet is lost to PktQueInit, which frees nothing.                    *)
THEOREM NoPacketLeaks == Spec => []NothingLeaks
<1>1. Init => NothingLeaks
  BY DEF Init, NothingLeaks
<1>2. IInv /\ NothingLeaks /\ [Next]_vars => NothingLeaks'
  BY LeakStep DEF IInv
<1>3. QED
  BY <1>1, <1>2, Inductive, PTL DEF Spec

(* Whatever the player does, a list that stands for one of the two queues   *)
(* becomes, by one call or none of the list's functions, a list that stands *)
(* for what the queue becomes.                                              *)
THEOREM ListsCarryQueues ==
    ASSUME IInv, NothingLeaks, [Next]_vars, NEW s \in Streams,
           NEW L, NEW path, Represents(L, path, q[s])
    PROVE  \E M, newPath : ListStep(L, M) /\ Represents(M, newPath, q'[s])
<1>1. TypeOK /\ q[s] \in Queues /\ PktFlush \in Packets
  BY DEF IInv, TypeOK, Packets
<1>2. CASE q'[s] = q[s]
  BY <1>2 DEF ListStep
<1>3. CASE q'[s] = Emptied
  <2>1. Represents(ListFlush(L), <<>>, q'[s])
    BY <1>1, <1>3, ListFlushes
  <2>2. QED
    BY <2>1 DEF ListStep
<1>4. ASSUME NEW p \in Packets, q'[s] = PktQuePut(q[s], p)
      PROVE  \E M, newPath : ListStep(L, M) /\ Represents(M, newPath, q'[s])
  <2>1. PICK node \in Nodes : node \notin DOMAIN L.heap
    BY <1>1, FreeNode
  <2>2. Represents(ListPut(L, node, p), Append(path, node), q'[s])
    BY <1>1, <1>4, <2>1, ListPuts
  <2>3. ListStep(L, ListPut(L, node, p))
    BY <2>1 DEF ListStep
  <2>4. QED
    BY <2>2, <2>3
<1>5. CASE q[s].pkts # <<>> /\ q'[s] = PktQueGet(q[s])
  <2>1. L.first_pkt # NULL
    BY <1>1, <1>5, ListTests
  <2>2. Represents(ListGet(L), Tail(path), q'[s])
    BY <1>1, <1>5, ListGets
  <2>3. QED
    BY <2>1, <2>2 DEF ListStep
<1>6. CASE DecodePut
  <2>1. dhand.stream \in Streams /\ dhand.pkt \in Packets
        /\ q \in [Streams -> Queues]
    BY <1>1 DEF TypeOK, Packets
  <2>2. q'[s] = q[s] \/ q'[s] = PktQuePut(q[s], dhand.pkt)
    BY <1>6, <2>1 DEF DecodePut
  <2>3. QED
    BY <1>2, <1>4, <2>1, <2>2
<1>7. CASE Drops(s)
  BY <1>1, <1>2, <1>3, <1>4, <1>5, <1>7 DEF Drops
<1>8. QED
  BY <1>1, <1>6, <1>7, QueueSteps
=============================================================================
