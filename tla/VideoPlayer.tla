---------------------------- MODULE VideoPlayer ----------------------------
(***************************************************************************)
(* The threads of CVideoPlayer (VideoPlayer/VideoPlayer.cpp): the caller's *)
(* thread (Load, Stop, Play, Pause, Seek, Refresh), DecodeThreadPro,       *)
(* VideoPro, EventPro, the SDL audio callback AudioPro and the SDL timer.  *)
(*                                                                         *)
(* A packet is the number of the seek it was read after; PktFlush is the   *)
(* flush marker.  Every data packet has size 1, the marker has size 0.     *)
(* VideoPro is never joined, so VideoPro threads of several Loads may      *)
(* live at once: session s is the s-th Load.  A thread that touches a      *)
(* codec or an overlay that has been torn down is undefined behaviour: the *)
(* model records the thread in "fault" and ends there.                     *)
(***************************************************************************)
EXTENDS Integers, Sequences, FiniteSets

CONSTANTS
    HasAudio,    \* the media file has an audio stream (it has a video stream)
    Garbage,     \* what the never initialised m_nVideoPicCnt may hold at first
    MaxVideoQ,   \* MAX_VIDEOQ_SIZE
    MaxAudioQ,   \* MAX_AUDIOQ_SIZE
    EventLimit,  \* capacity of SDL's event queue
    MaxLoads,    \* bound: calls of Load
    MaxSeeks,    \* bound: successful seeks
    MaxResizes   \* bound: resize events waiting in SDL's queue

ASSUME ConstAssumption ==
    /\ HasAudio \in BOOLEAN
    /\ Garbage \subseteq Int
    /\ MaxVideoQ \in Nat
    /\ MaxAudioQ \in Nat
    /\ EventLimit \in Nat \ {0}
    /\ MaxLoads \in Nat \ {0}
    /\ MaxSeeks \in Nat
    /\ MaxResizes \in Nat

VARIABLES
    m_nState,        \* 0 stopped, 1 playing, 2 paused
    session,         \* the Load the player's context belongs to
    open,            \* m_pFmtCtx # NULL
    ui,              \* where the caller's thread is
    goal,            \* the call that runs Stop's body: "stop" or "load"
    q,               \* m_qVideoPkt and m_qAudioPkt
    video,           \* where the VideoPro of each session is
    dec,             \* where DecodeThreadPro is
    dhand,           \* the packet av_read_frame gave it
    evt,             \* where EventPro is
    audio,           \* where the audio callback is
    m_pAudioBuf,     \* m_pAudioBuf # NULL
    m_nVideoPicCnt,  \* pictures decoded and not yet shown
    m_bResize,       \* a resize VideoPro is to apply
    sdl,             \* SDL's armed timers and queued events
    epoch,           \* number of av_seek_frame calls that succeeded
    rst,             \* progress of each thread inside Refresh / Seek
    fault,           \* the thread that first touched freed state
    hist             \* history: see HistType

vars == <<m_nState, session, open, ui, goal, q, video, dec, dhand, evt,
          audio, m_pAudioBuf, m_nVideoPicCnt, m_bResize, sdl, epoch, rst,
          fault, hist>>

Sessions == 1..MaxLoads
PktFlush == -1
Epochs   == 0..MaxSeeks
Packets  == Epochs \cup {PktFlush}
Streams  == {"video", "audio"}
NoPacket == [stream |-> "video", pkt |-> 0]  \* what an idle dhand holds
Queues   == [pkts : Seq(Packets), size : Int]

UiPcs    == {"idle", "joinDec", "joinEvt", "closeCtx", "quitSdl", "flush",
             "initCtx", "initSdl", "initSync", "threads", "reset", "timer",
             "seek"}
VideoPcs == {"none", "start", "loop", "decode", "pic", "wait", "stuck",
             "fill", "write", "done"}
DecPcs   == {"off", "loop", "read", "put", "eof", "error", "done"}
EvtPcs   == {"off", "loop", "waiting", "show", "refresh", "paint", "done"}
AudioPcs == {"off", "idle", "enter", "get", "flush", "got", "decode"}

(* counted:   Load has zeroed m_nVideoPicCnt (line 122) once.               *)
(* lateReset: it did so while a VideoPro waited on m_pCond.                 *)
(* chainLost: SDL_PushEvent dropped a REFRESH_EVENT.                        *)
(* steady:    neither Pause nor Stop was called since the first Load.       *)
(* ends:      PlayerMsg_End and PlayerMsg_Error sent since the last Load.   *)
HistType == [counted : BOOLEAN, lateReset : BOOLEAN, chainLost : BOOLEAN,
             steady : BOOLEAN, ends : Int]

TypeOK ==
    /\ m_nState \in 0..2
    /\ session \in 0..MaxLoads
    /\ open \in BOOLEAN
    /\ ui \in UiPcs
    /\ goal \in {"stop", "load"}
    /\ q \in [Streams -> Queues]
    /\ video \in [Sessions -> VideoPcs]
    /\ dec \in DecPcs
    /\ dhand \in [stream : Streams, pkt : Epochs]
    /\ evt \in EvtPcs
    /\ audio \in AudioPcs
    /\ m_pAudioBuf \in BOOLEAN
    /\ m_nVideoPicCnt \in Int
    /\ m_bResize \in BOOLEAN
    /\ sdl \in [timers : Nat, refresh : Nat, resize : Nat]
    /\ sdl.refresh + sdl.resize <= EventLimit
    /\ epoch \in Epochs
    /\ rst \in [{"ui", "evt"} -> 0..4]
    /\ fault \in {"none", "video", "audio", "event", "decode"}
    /\ hist \in HistType

-----------------------------------------------------------------------------
(* Packet queues *)

Bytes(p) == IF p = PktFlush THEN 0 ELSE 1
Emptied  == [pkts |-> <<>>, size |-> 0]
PktQuePut(Q, p) == [pkts |-> Append(Q.pkts, p), size |-> Q.size + Bytes(p)]
(* Mutant: a packet is taken without being subtracted from the size. *)
PktQueGet_KeepsSize(Q) == [pkts |-> Tail(Q.pkts), size |-> Q.size]
PktQueGet(Q) == [pkts |-> Tail(Q.pkts), size |-> Q.size - Bytes(Head(Q.pkts))]

(* The codec and overlay that the VideoPro of session s uses still exist. *)
Live(s) == open /\ s = session

Init ==
    /\ m_nState = 0 /\ session = 0 /\ open = FALSE
    /\ ui = "idle" /\ goal = "stop"
    /\ q = [s \in Streams |-> Emptied]
    /\ video = [s \in Sessions |-> "none"]
    /\ dec = "off" /\ dhand = NoPacket
    /\ evt = "off" /\ audio = "off" /\ m_pAudioBuf = FALSE
    /\ m_nVideoPicCnt \in Garbage /\ m_bResize = FALSE
    /\ sdl = [timers |-> 0, refresh |-> 0, resize |-> 0]
    /\ epoch = 0 /\ rst = [t \in {"ui", "evt"} |-> 0]
    /\ fault = "none"
    /\ hist = [counted |-> FALSE, lateReset |-> FALSE, chainLost |-> FALSE,
               steady |-> TRUE, ends |-> 0]

-----------------------------------------------------------------------------
(* The caller's thread: Play, Pause, Seek, Refresh *)

uiRest == <<session, open, goal, video, dec, dhand, evt, audio,
            m_pAudioBuf, m_nVideoPicCnt, m_bResize, sdl, fault>>

Play ==
    /\ ui = "idle"
    /\ m_nState' = 1
    /\ UNCHANGED <<ui, q, epoch, rst, hist, uiRest>>

Pause ==
    /\ ui = "idle"
    /\ m_nState' = 2
    /\ hist' = [hist EXCEPT !.steady = FALSE]
    /\ UNCHANGED <<ui, q, epoch, rst, uiRest>>

(* Mutant: the video queue is left as it is. *)
ResetFrom_AudioOnly == 3
(* Seek and Refresh reset the video queue when there is an AUDIO stream and *)
(* the audio queue when there is a video stream.                            *)
ResetFrom == IF HasAudio THEN 1 ELSE 3

Seek ==
    /\ ui = "idle" /\ open /\ epoch < MaxSeeks
    /\ epoch' = epoch + 1
    /\ rst' = [rst EXCEPT !["ui"] = ResetFrom]
    /\ ui' = "seek"
    /\ UNCHANGED <<m_nState, q, hist, uiRest>>

Refresh ==
    /\ ui = "idle" /\ open
    /\ rst' = [rst EXCEPT !["ui"] = ResetFrom]
    /\ ui' = "seek"
    /\ UNCHANGED <<m_nState, q, epoch, hist, uiRest>>

(* One locked call of PktQueFlush or PktQuePut inside Seek or Refresh, run  *)
(* by thread t; after the last, the caller goes idle and EventPro repaints. *)
ResetStep(t) ==
    /\ rst[t] # 0
    /\ q' = CASE rst[t] = 1 -> [q EXCEPT !["video"] = Emptied]
              [] rst[t] = 2 -> [q EXCEPT !["video"] = PktQuePut(@, PktFlush)]
              [] rst[t] = 3 -> [q EXCEPT !["audio"] = Emptied]
              [] rst[t] = 4 -> [q EXCEPT !["audio"] = PktQuePut(@, PktFlush)]
    /\ rst' = [rst EXCEPT ![t] = (@ + 1) % 5]
    /\ ui' = IF t = "ui" /\ rst[t] = 4 THEN "idle" ELSE ui
    /\ evt' = IF t = "evt" /\ rst[t] = 4 THEN "paint" ELSE evt
    /\ UNCHANGED <<m_nState, session, open, goal, video, dec, dhand,
                   audio, m_pAudioBuf, m_nVideoPicCnt, m_bResize, sdl, epoch,
                   fault, hist>>

-----------------------------------------------------------------------------
(* The caller's thread: Stop, and Load, which begins with Stop *)

BeginStop(call) ==
    /\ ui = "idle"
    /\ m_nState' = 0
    /\ goal' = call
    /\ ui' = "joinDec"
    /\ hist' = [hist EXCEPT !.steady = @ /\ session = 0]
    /\ UNCHANGED <<session, open, q, video, dec, dhand, evt, audio,
                   m_pAudioBuf, m_nVideoPicCnt, m_bResize, sdl, epoch, rst,
                   fault>>

Stop == BeginStop("stop")
Load == session < MaxLoads /\ BeginStop("load")

stopRest == <<m_nState, session, goal, video, dhand, m_pAudioBuf,
              m_nVideoPicCnt, m_bResize, epoch, rst, fault, hist>>

(* Mutant: the thread is not waited for. *)
JoinDecode_NoWait ==
    /\ ui = "joinDec" /\ ui' = "joinEvt"
    /\ UNCHANGED <<open, q, dec, evt, audio, sdl, stopRest>>

JoinDecode ==
    /\ ui = "joinDec" /\ dec \in {"off", "done"}
    /\ dec' = "off" /\ ui' = "joinEvt"
    /\ UNCHANGED <<open, q, evt, audio, sdl, stopRest>>

(* Mutant: the thread is not waited for. *)
JoinEvent_NoWait ==
    /\ ui = "joinEvt" /\ ui' = "closeCtx"
    /\ UNCHANGED <<open, q, dec, evt, audio, sdl, stopRest>>

JoinEvent ==
    /\ ui = "joinEvt" /\ evt \in {"off", "done"}
    /\ evt' = "off" /\ ui' = "closeCtx"
    /\ UNCHANGED <<open, q, dec, audio, sdl, stopRest>>

UnInitFfmpeg ==
    /\ ui = "closeCtx"
    /\ open' = FALSE /\ ui' = "quitSdl"
    /\ UNCHANGED <<q, dec, evt, audio, sdl, stopRest>>

(* Mutant: armed timers and queued events survive. *)
UnInitSdl_KeepsTimers ==
    /\ ui = "quitSdl" /\ audio \in {"off", "idle"}
    /\ audio' = "off" /\ ui' = "flush"
    /\ UNCHANGED <<open, q, dec, evt, sdl, stopRest>>

(* SDL_Quit waits for a running audio callback, drops the armed timers and  *)
(* empties the event queue.                                                 *)
UnInitSdl ==
    /\ ui = "quitSdl" /\ audio \in {"off", "idle"}
    /\ audio' = "off"
    /\ sdl' = [timers |-> 0, refresh |-> 0, resize |-> 0]
    /\ ui' = "flush"
    /\ UNCHANGED <<open, q, dec, evt, stopRest>>

(* Mutant: the video queue keeps its packets. *)
FlushQueues_AudioOnly ==
    /\ ui = "flush"
    /\ q' = [q EXCEPT !["audio"] = Emptied]
    /\ ui' = IF goal = "load" THEN "initCtx" ELSE "idle"
    /\ UNCHANGED <<open, dec, evt, audio, sdl, stopRest>>

FlushQueues ==
    /\ ui = "flush"
    /\ q' = [s \in Streams |-> Emptied]
    /\ ui' = IF goal = "load" THEN "initCtx" ELSE "idle"
    /\ UNCHANGED <<open, dec, evt, audio, sdl, stopRest>>

(* m_nState = 1 and InitFfmpeg.  When it fails, Load returns with m_nState  *)
(* still 1, and with the context open if the file was opened but not usable.*)
InitFfmpeg ==
    /\ ui = "initCtx"
    /\ m_nState' = 1
    /\ session' = session + 1
    /\ hist' = [hist EXCEPT !.ends = 0]
    /\ \/ open' = TRUE /\ ui' = "initSdl"
       \/ open' \in BOOLEAN /\ ui' = "idle"
    /\ UNCHANGED <<goal, q, video, dec, dhand, evt, audio, m_pAudioBuf,
                   m_nVideoPicCnt, m_bResize, sdl, epoch, rst, fault>>

loadRest == <<m_nState, session, open, goal, dhand, m_pAudioBuf,
              m_bResize, epoch, rst, fault>>

(* The audio device may fail to open (then VideoPro is created all the same *)
(* and Load fails), the video mode may fail (the audio device is already    *)
(* running), SDL_Init may fail (nothing is started).                        *)
InitSdl ==
    /\ ui = "initSdl"
    /\ \E a \in IF HasAudio THEN BOOLEAN ELSE {FALSE}, v \in BOOLEAN :
         /\ audio' = IF a THEN "idle" ELSE audio
         /\ video' = IF v THEN [video EXCEPT ![session] = "start"] ELSE video
         /\ q' = [s \in Streams |->
                    IF (s = "audio" /\ a) \/ (s = "video" /\ v)
                    THEN Emptied ELSE q[s]]
         /\ ui' = IF v /\ (a \/ ~HasAudio) THEN "initSync" ELSE "idle"
    /\ UNCHANGED <<dec, evt, m_nVideoPicCnt, sdl, hist, loadRest>>

(* m_pMutex and m_pCond are replaced: whoever waits on the old m_pCond is   *)
(* never signalled again.  Then GetVideoPic makes the overlay.              *)
InitSync ==
    /\ ui = "initSync"
    /\ video' = [s \in Sessions |->
                   IF video[s] = "wait" THEN "stuck" ELSE video[s]]
    /\ ui' = "threads"
    /\ UNCHANGED <<q, dec, evt, audio, m_nVideoPicCnt, sdl, hist, loadRest>>

StartThreads ==
    /\ ui = "threads"
    /\ evt' = "loop" /\ dec' = "loop"
    /\ ui' = "reset"
    /\ UNCHANGED <<q, video, audio, m_nVideoPicCnt, sdl, hist, loadRest>>

ResetPicCnt ==
    /\ ui = "reset"
    /\ m_nVideoPicCnt' = 0
    /\ hist' = [hist EXCEPT
                  !.counted = TRUE,
                  !.lateReset = @ \/ \E s \in Sessions : video[s] = "wait"]
    /\ ui' = "timer"
    /\ UNCHANGED <<q, video, dec, evt, audio, sdl, loadRest>>

FirstTimer ==
    /\ ui = "timer"
    /\ sdl' = [sdl EXCEPT !.timers = @ + 1]
    /\ ui' = "idle"
    /\ UNCHANGED <<q, video, dec, evt, audio, m_nVideoPicCnt, hist, loadRest>>

-----------------------------------------------------------------------------
(* SDL: the one-shot timer and the window's resize events *)

sdlRest == <<m_nState, session, open, ui, goal, q, video, dec, dhand,
             evt, audio, m_pAudioBuf, m_nVideoPicCnt, m_bResize, epoch, rst,
             fault>>

(* Mutant: SDL's event queue has no bound. *)
EventsFull_Never == FALSE
EventsFull == sdl.refresh + sdl.resize >= EventLimit

SdlTimerCallback ==
    /\ sdl.timers > 0
    /\ IF EventsFull
       THEN /\ sdl' = [sdl EXCEPT !.timers = @ - 1]
            /\ hist' = [hist EXCEPT !.chainLost = TRUE]
       ELSE /\ sdl' = [sdl EXCEPT !.timers = @ - 1, !.refresh = @ + 1]
            /\ hist' = hist
    /\ UNCHANGED sdlRest

WindowResized ==
    /\ evt # "off" /\ ~EventsFull /\ sdl.resize < MaxResizes
    /\ sdl' = [sdl EXCEPT !.resize = @ + 1]
    /\ UNCHANGED <<hist, sdlRest>>

-----------------------------------------------------------------------------
(* DecodeThreadPro *)

decRest == <<m_nState, session, open, ui, goal, video, evt, audio,
             m_pAudioBuf, m_nVideoPicCnt, m_bResize, sdl, epoch, rst>>

(* Mutant: the size of the audio queue is not looked at. *)
DecodeTop_VideoOnly ==
    /\ dec = "loop"
    /\ \/ m_nState = 0 /\ dec' = "done"
       \/ m_nState = 1 /\ q["video"].size <= MaxVideoQ /\ dec' = "read"
    /\ UNCHANGED <<q, dhand, fault, hist, decRest>>

DecodeTop ==
    /\ dec = "loop"
    /\ \/ m_nState = 0 /\ dec' = "done"
       \/ /\ m_nState = 1
          /\ q["video"].size <= MaxVideoQ
          /\ q["audio"].size <= MaxAudioQ
          /\ dec' = "read"
    /\ UNCHANGED <<q, dhand, fault, hist, decRest>>

(* A packet of one of the two streams, a packet of another stream (freed), *)
(* the end of the file, or an error.                                        *)
AvReadFrame ==
    /\ dec = "read"
    /\ IF ~open
       THEN fault' = "decode" /\ UNCHANGED <<dec, dhand>>
       ELSE /\ fault' = fault
            /\ \/ /\ \E s \in IF HasAudio THEN Streams ELSE {"video"} :
                       dhand' = [stream |-> s, pkt |-> epoch]
                  /\ dec' = "put"
               \/ dec' \in {"loop", "eof", "error"} /\ dhand' = dhand
    /\ UNCHANGED <<q, hist, decRest>>

DecodePut ==
    /\ dec = "put"
    /\ q' = [q EXCEPT ![dhand.stream] = PktQuePut(@, dhand.pkt)]
    /\ dec' = "loop" /\ dhand' = NoPacket
    /\ UNCHANGED <<fault, hist, decRest>>

(* PlayerMsg_End or PlayerMsg_Error, then the thread ends. *)
DecodeEnd ==
    /\ dec \in {"eof", "error"}
    /\ hist' = [hist EXCEPT !.ends = @ + 1]
    /\ dec' = "done"
    /\ UNCHANGED <<q, dhand, fault, decRest>>

-----------------------------------------------------------------------------
(* VideoPro of session s *)

videoRest == <<m_nState, session, open, ui, goal, dec, dhand, evt, audio,
               m_pAudioBuf, sdl, epoch, rst, hist>>

VideoFault ==
    /\ fault' = "video"
    /\ UNCHANGED <<q, video, m_nVideoPicCnt, m_bResize>>

VideoGoto(s, pc) == video' = [video EXCEPT ![s] = pc] /\ fault' = fault

(* The stream's pointer is read once, when the thread starts. *)
VideoStart(s) ==
    /\ video[s] = "start"
    /\ IF Live(s)
       THEN /\ VideoGoto(s, "loop")
            /\ UNCHANGED <<q, m_nVideoPicCnt, m_bResize>>
       ELSE VideoFault
    /\ UNCHANGED videoRest

(* The loop test, and PktQueGet with its 500 ms wait, which tests again. *)
VideoGet(s) ==
    /\ video[s] = "loop"
    /\ \/ /\ m_nState = 0
          /\ VideoGoto(s, "done")
          /\ UNCHANGED <<q, m_nVideoPicCnt, m_bResize>>
       \/ /\ m_nState # 0 /\ q["video"].pkts # <<>>
          /\ LET p == Head(q["video"].pkts) IN
             IF ~Live(s) THEN VideoFault
             ELSE /\ q' = [q EXCEPT !["video"] = PktQueGet(@)]
                  /\ VideoGoto(s, IF p = PktFlush THEN "loop" ELSE "decode")
                  /\ UNCHANGED <<m_nVideoPicCnt, m_bResize>>
    /\ UNCHANGED videoRest

(* avcodec_decode_video2 completes a frame, or needs more packets. *)
VideoDecode(s) ==
    /\ video[s] = "decode"
    /\ IF Live(s)
       THEN /\ \E pc \in {"pic", "loop"} : VideoGoto(s, pc)
            /\ UNCHANGED <<q, m_nVideoPicCnt, m_bResize>>
       ELSE VideoFault
    /\ UNCHANGED videoRest

(* HandleVideoPic: wait for the slot to be free ... *)
VideoLock(s) ==
    /\ video[s] = "pic"
    /\ VideoGoto(s, IF m_nVideoPicCnt >= 1 /\ m_nState # 0 THEN "wait"
                    ELSE "fill")
    /\ UNCHANGED <<q, m_nVideoPicCnt, m_bResize, videoRest>>

(* ... test m_nState again without the lock, apply a pending resize ... *)
VideoFill(s) ==
    /\ video[s] = "fill"
    /\ IF m_nState = 0
       THEN /\ VideoGoto(s, "loop")
            /\ UNCHANGED <<q, m_nVideoPicCnt, m_bResize>>
       ELSE IF ~Live(s) THEN VideoFault
       ELSE /\ m_bResize' = FALSE
            /\ VideoGoto(s, "write")
            /\ UNCHANGED <<q, m_nVideoPicCnt>>
    /\ UNCHANGED videoRest

(* ... and, once the overlay is written, count the picture. *)
VideoWrite(s) ==
    /\ video[s] = "write"
    /\ IF Live(s)
       THEN /\ m_nVideoPicCnt' = m_nVideoPicCnt + 1
            /\ VideoGoto(s, "loop")
            /\ UNCHANGED <<q, m_bResize>>
       ELSE VideoFault
    /\ UNCHANGED videoRest

-----------------------------------------------------------------------------
(* EventPro *)

evtRest == <<m_nState, session, open, ui, goal, q, dec, dhand, audio,
             m_pAudioBuf, epoch, hist>>

(* Mutant: the loop has no test. *)
EventTop_ForEver ==
    /\ evt = "loop" /\ evt' = "waiting"
    /\ UNCHANGED <<video, m_nVideoPicCnt, m_bResize, sdl, rst, fault, evtRest>>

EventTop ==
    /\ evt = "loop"
    /\ evt' = IF m_nState = 0 THEN "done" ELSE "waiting"
    /\ UNCHANGED <<video, m_nVideoPicCnt, m_bResize, sdl, rst, fault, evtRest>>

(* Mutant: the timer is re-armed only when there is no picture yet. *)
EventRefresh_ShowsOnce ==
    /\ evt = "waiting" /\ sdl.refresh > 0
    /\ sdl' = [sdl EXCEPT !.refresh = @ - 1,
                         !.timers = IF m_nVideoPicCnt > 0 THEN @ ELSE @ + 1]
    /\ evt' = IF m_nVideoPicCnt > 0 THEN "show" ELSE "loop"
    /\ UNCHANGED <<video, m_nVideoPicCnt, m_bResize, rst, fault, evtRest>>

(* Mutant: the overlay is shown whether a picture was counted or not. *)
EventRefresh_ShowsAny ==
    /\ evt = "waiting" /\ sdl.refresh > 0
    /\ sdl' = [sdl EXCEPT !.refresh = @ - 1, !.timers = @ + 1]
    /\ evt' = "show"
    /\ UNCHANGED <<video, m_nVideoPicCnt, m_bResize, rst, fault, evtRest>>

(* REFRESH_EVENT: RefrshVideo arms the next timer, then shows the picture   *)
(* if there is one.                                                         *)
EventRefresh ==
    /\ evt = "waiting" /\ sdl.refresh > 0
    /\ sdl' = [sdl EXCEPT !.refresh = @ - 1, !.timers = @ + 1]
    /\ IF m_nVideoPicCnt <= 0 THEN evt' = "loop" /\ fault' = fault
       ELSE IF open THEN evt' = "show" /\ fault' = fault
       ELSE fault' = "event" /\ evt' = evt
    /\ UNCHANGED <<video, m_nVideoPicCnt, m_bResize, rst, evtRest>>

(* Mutant: the slot is freed but m_pCond is not signalled. *)
EventShown_NoSignal ==
    /\ evt = "show"
    /\ m_nVideoPicCnt' = m_nVideoPicCnt - 1
    /\ evt' = "loop"
    /\ UNCHANGED <<video, m_bResize, sdl, rst, fault, evtRest>>

(* ShowVideoPic is over: free the slot and signal m_pCond. *)
EventShown ==
    /\ evt = "show"
    /\ m_nVideoPicCnt' = m_nVideoPicCnt - 1
    /\ \/ /\ \A s \in Sessions : video[s] # "wait"
          /\ video' = video
       \/ \E s \in Sessions :
            video[s] = "wait" /\ video' = [video EXCEPT ![s] = "pic"]
    /\ evt' = "loop"
    /\ UNCHANGED <<m_bResize, sdl, rst, fault, evtRest>>

(* SDL_VIDEORESIZE: left to VideoPro while playing, done here when paused. *)
EventResize ==
    /\ evt = "waiting" /\ sdl.resize > 0
    /\ sdl' = [sdl EXCEPT !.resize = @ - 1]
    /\ m_bResize' = (m_bResize \/ m_nState = 1)
    /\ IF m_nState = 2
       THEN evt' = "refresh" /\ rst' = [rst EXCEPT !["evt"] = ResetFrom]
       ELSE evt' = "loop" /\ rst' = rst
    /\ UNCHANGED <<video, m_nVideoPicCnt, fault, evtRest>>

(* ShowVideoPic is over.  It shows the overlay as it is, whoever has it.    *)
EventPaint ==
    /\ evt = "paint"
    /\ IF open THEN evt' = "loop" /\ fault' = fault
               ELSE fault' = "event" /\ evt' = evt
    /\ UNCHANGED <<video, m_nVideoPicCnt, m_bResize, sdl, rst, evtRest>>

-----------------------------------------------------------------------------
(* The audio callback AudioPro with HandleAudio *)

audioRest == <<m_nState, session, open, ui, goal, video, dec, dhand, evt,
               m_nVideoPicCnt, m_bResize, sdl, epoch, rst, hist>>

(* HandleAudio returned -1: 1024 bytes of silence are written to            *)
(* m_pAudioBuf, which is NULL until a first frame was decoded.              *)
Silence ==
    /\ audio' = "idle"
    /\ fault' = IF m_pAudioBuf THEN fault ELSE "audio"
    /\ m_pAudioBuf' = m_pAudioBuf

AudioEnter ==
    /\ audio = "idle"
    /\ IF open THEN audio' = "enter" /\ UNCHANGED <<m_pAudioBuf, fault>>
               ELSE Silence
    /\ UNCHANGED <<q, audioRest>>

AudioFault == fault' = "audio" /\ UNCHANGED <<audio, m_pAudioBuf>>

(* HandleAudio takes the stream from m_pFmtCtx, then tests its loop. *)
AudioOpen ==
    /\ audio = "enter"
    /\ IF ~open THEN AudioFault
       ELSE IF m_nState = 1
       THEN audio' = "get" /\ UNCHANGED <<m_pAudioBuf, fault>>
       ELSE Silence
    /\ UNCHANGED <<q, audioRest>>

(* Mutant: PktQueGet is called without blocking. *)
AudioGet_NonBlocking ==
    /\ audio = "get"
    /\ IF m_nState = 0 \/ q["audio"].pkts = <<>> THEN Silence /\ q' = q
       ELSE /\ q' = [q EXCEPT !["audio"] = PktQueGet(@)]
            /\ audio' = "got" /\ UNCHANGED <<m_pAudioBuf, fault>>
    /\ UNCHANGED audioRest

(* PktQueGet gives up when the player stops. *)
AudioGet ==
    /\ audio = "get"
    /\ IF m_nState = 0 THEN Silence /\ q' = q
       ELSE /\ q["audio"].pkts # <<>>
            /\ q' = [q EXCEPT !["audio"] = PktQueGet(@)]
            /\ audio' = IF Head(q["audio"].pkts) = PktFlush
                        THEN "flush" ELSE "got"
            /\ UNCHANGED <<m_pAudioBuf, fault>>
    /\ UNCHANGED audioRest

(* A flush marker resets the codec; then HandleAudio tests its loop.        *)
AudioFlush ==
    /\ audio = "flush"
    /\ IF ~open THEN AudioFault
       ELSE IF m_nState = 1
       THEN audio' = "get" /\ UNCHANGED <<m_pAudioBuf, fault>>
       ELSE Silence
    /\ UNCHANGED <<q, audioRest>>

(* The loop test lets the packet go unless playing ...                      *)
AudioTest ==
    /\ audio = "got"
    /\ IF m_nState = 1
       THEN audio' = "decode" /\ UNCHANGED <<m_pAudioBuf, fault>>
       ELSE Silence
    /\ UNCHANGED <<q, audioRest>>

(* ... and avcodec_decode_audio4, which nothing keeps UnInitFfmpeg from     *)
(* overtaking, yields samples or needs another packet.                      *)
AudioDecode ==
    /\ audio = "decode"
    /\ IF ~open THEN AudioFault
       ELSE /\ fault' = fault
            /\ \/ audio' = "idle" /\ m_pAudioBuf' = TRUE
               \/ audio' = "get" /\ m_pAudioBuf' = m_pAudioBuf
    /\ UNCHANGED <<q, audioRest>>

-----------------------------------------------------------------------------
CallerStep == \/ JoinDecode \/ JoinEvent \/ UnInitFfmpeg \/ UnInitSdl
              \/ FlushQueues \/ InitFfmpeg \/ InitSdl \/ InitSync
              \/ StartThreads \/ ResetPicCnt \/ FirstTimer \/ ResetStep("ui")
DecodeStep == DecodeTop \/ AvReadFrame \/ DecodePut \/ DecodeEnd
VideoStep(s) == \/ VideoStart(s) \/ VideoGet(s) \/ VideoDecode(s)
                \/ VideoLock(s) \/ VideoFill(s) \/ VideoWrite(s)
EventStep == \/ EventTop \/ EventRefresh \/ EventShown \/ EventResize
             \/ EventPaint \/ ResetStep("evt")
AudioRun  == AudioOpen \/ AudioGet \/ AudioFlush \/ AudioTest \/ AudioDecode
AudioStep == AudioEnter \/ AudioRun

Next ==
    /\ fault = "none"
    /\ \/ Load \/ Stop \/ Play \/ Pause \/ Seek \/ Refresh
       \/ CallerStep
       \/ SdlTimerCallback \/ WindowResized
       \/ DecodeStep
       \/ \E s \in Sessions : VideoStep(s)
       \/ EventStep
       \/ AudioStep

Spec == Init /\ [][Next]_vars
-----------------------------------------------------------------------------
(* Safety.  Each invariant speaks of the states up to the first fault.     *)

(* The overlay is never written by VideoPro while it counts as full, nor   *)
(* while EventPro shows it for a REFRESH_EVENT: HandleVideoPic and         *)
(* RefrshVideo hand the one picture over through m_nVideoPicCnt, which,    *)
(* once Load has zeroed it, is never negative and never above              *)
(* VIDEO_PICTURE_QUEUE_SIZE, although Load zeroes it with the threads up.  *)
Writing(s) == video[s] = "write" /\ Live(s)
HandOver ==
    /\ hist.counted => m_nVideoPicCnt \in 0..1
    /\ (\E s \in Sessions : Writing(s)) => m_nVideoPicCnt <= 0
    /\ evt = "show" => m_nVideoPicCnt = 1

(* The ShowVideoPic of a resize while paused does not look at the count and *)
(* may show the overlay while VideoPro writes it; but until the first Pause *)
(* or Stop an overlay that is written is not shown by anyone.               *)
OnePicture ==
    /\ HandOver
    /\ hist.steady /\ (\E s \in Sessions : Writing(s)) =>
           evt \notin {"show", "paint"}

(* RefrshVideo re-arms exactly one timer per REFRESH_EVENT: there are never *)
(* two refresh chains, whatever the order of Stop, Load and late timers,    *)
(* and the chain is alive as long as EventPro is, unless SDL dropped an     *)
(* event.  EventPro leaves SDL_WaitEvent, and Stop returns, only thanks to  *)
(* this chain.                                                              *)
Chain == sdl.timers + sdl.refresh
OneRefreshChain ==
    /\ Chain \in 0..1
    /\ (evt # "off" /\ ui \notin {"reset", "timer"}) =>
           Chain = 1 \/ hist.chainLost

(* Stop joins DecodeThreadPro and EventPro before it closes the context:    *)
(* neither is ever at work without one.                                     *)
JoinedThreadsSafe ==
    /\ ~open => dec \in {"off", "done"} /\ evt \in {"off", "done"}
    /\ fault \notin {"event", "decode"}

(* Loading, playing, seeking, refreshing and resizing never touch freed     *)
(* state: only Pause and Stop can race VideoPro or the audio callback.      *)
SteadyPlayNeverFaults == hist.steady => fault = "none"

(* While not stopping, a VideoPro waits on m_pCond only while the slot is   *)
(* full.  Two exceptions: Load zeroed m_nVideoPicCnt under it (nobody       *)
(* signals m_pCond there), or the signal woke the VideoPro of an earlier    *)
(* Load instead.                                                            *)
NoLostWakeup ==
    \A s \in Sessions :
        video[s] = "wait" /\ Live(s) /\ m_nVideoPicCnt <= 0 /\ m_nState # 0 =>
            \/ hist.lateReset
            \/ \E t \in 1..(s - 1) : video[t] \in {"pic", "fill"}

(* PacketQueue.size is the size of the packets in the list. *)
Data(Q) == {i \in DOMAIN Q.pkts : Q.pkts[i] # PktFlush}
SizeIsBytes == \A s \in Streams : q[s].size = Cardinality(Data(q[s]))

(* PktQueInit zeroes a queue without freeing what is in it: it finds none,  *)
(* because Stop, with which Load begins, has flushed both queues and nobody *)
(* is left who would put a packet into one.                                 *)
NothingLeaks ==
    ui \in {"initCtx", "initSdl"} => \A s \in Streams : q[s].pkts = <<>>

(* DecodeThreadPro's unlocked tests of the two sizes bound each queue: the  *)
(* limit plus the packet that crossed it, whatever Seek, Refresh and the    *)
(* consumers do between the test and the put.                               *)
BackPressure ==
    /\ q["video"].size <= MaxVideoQ + 1
    /\ q["audio"].size <= MaxAudioQ + 1

(* With both streams, once Seek has returned at most one packet from before *)
(* the seek is still on its way to a decoder in the queues: the one         *)
(* DecodeThreadPro had in its hand.                                         *)
Stale(s) == {i \in Data(q[s]) : q[s].pkts[i] < epoch}
StaleInHand == dec = "put" /\ dhand.pkt < epoch
SeekDropsBacklog ==
    HasAudio /\ rst["ui"] = 0 =>
        Cardinality(Stale("video")) + Cardinality(Stale("audio"))
            + (IF StaleInHand THEN 1 ELSE 0) <= 1

(* The listener hears of the end of a file, or of an error, at most once    *)
(* per Load ...                                                             *)
OneEnd == hist.ends \in 0..1

(* ... and never after Stop has closed the context.                         *)
NoEndAfterStop == [][hist'.ends > hist.ends => open]_vars

-----------------------------------------------------------------------------
(* Liveness.  The operating system schedules every thread, av_read_frame    *)
(* returns and armed timers fire; the caller's calls, the window's resizes  *)
(* and the audio device's callbacks are under no obligation.                *)

Fairness ==
    /\ WF_vars(fault = "none" /\ CallerStep)
    /\ WF_vars(fault = "none" /\ SdlTimerCallback)
    /\ WF_vars(fault = "none" /\ DecodeStep)
    /\ WF_vars(fault = "none" /\ EventStep)
    /\ WF_vars(fault = "none" /\ AudioRun)
FairSpec == Spec /\ Fairness

(* Stop, and the Stop inside Load, return: DecodeThreadPro and EventPro     *)
(* both notice m_nState, unless the refresh chain was lost, in which case   *)
(* EventPro may sleep in SDL_WaitEvent for ever.                            *)
StopReturns ==
    ui = "joinDec" ~> \/ ui \in {"idle", "initCtx"}
                      \/ fault # "none" \/ hist.chainLost

(* A picture VideoPro has counted is taken off the slot while EventPro runs.*)
PictureTaken ==
    m_nVideoPicCnt = 1 /\ evt # "off" ~>
        \/ m_nVideoPicCnt = 0 \/ m_nState = 0
        \/ fault # "none" \/ hist.chainLost

-----------------------------------------------------------------------------
(* Refinement: the overlay, m_nVideoPicCnt and the two threads' positions   *)
(* implement the picture slot of PictureSlot, whose repaint is the          *)
(* ShowVideoPic of a resize while paused: neither thread heeds the other    *)
(* there, and the overlay may be shown half written.  A picture counted     *)
(* before Load first zeroes m_nVideoPicCnt does not fill the slot.          *)
slotBar == IF \E s \in Sessions : Writing(s) THEN "writing"
           ELSE IF evt = "show" THEN "showing"
           ELSE IF hist.counted /\ m_nVideoPicCnt = 1 THEN "full"
           ELSE "empty"

Slot == INSTANCE PictureSlot WITH
            slot <- slotBar, repaint <- evt = "paint", steady <- hist.steady
SlotSpec == Slot!Spec

-----------------------------------------------------------------------------
(* The inductive invariant behind the safety properties. *)

Joined  == {"closeCtx", "quitSdl", "flush", "initCtx", "initSdl", "initSync",
            "threads"}
Loading == {"initSdl", "initSync", "threads", "reset", "timer"}

(* Which threads exist, and whether the context does, by where the caller   *)
(* is inside Stop or Load.                                                  *)
Lifecycle ==
    /\ session \in 0..MaxLoads
    /\ ui = "initCtx" \/ (goal = "load" /\ ui \in {"joinDec", "joinEvt",
           "closeCtx", "quitSdl", "flush"}) => session < MaxLoads
    /\ ui \in Joined \cup {"joinEvt"} => dec = "off"
    /\ ui \in Joined => evt = "off"
    /\ ui \in Loading => open
    /\ ui \in {"quitSdl", "flush", "initCtx"} => ~open
    /\ dec # "off" \/ evt # "off" => open
    /\ open /\ ui \notin {"joinDec", "joinEvt", "closeCtx"} => m_nState # 0
    /\ rst["ui"] # 0 => ui = "seek"
    /\ rst["evt"] # 0 => evt = "refresh"
    /\ \A s \in Sessions : s > session => video[s] = "none"
    /\ fault \notin {"event", "decode"}

(* No timer is armed and no REFRESH_EVENT is queued while Load sets up, and *)
(* none before m_nVideoPicCnt has a value.                                  *)
ChainInv ==
    /\ ui = "timer" \/ Chain > 0 \/ evt = "show" => hist.counted
    /\ ui \in {"flush", "initCtx"} \cup Loading => Chain = 0
    /\ OneRefreshChain

(* A live VideoPro past the lock has the slot to itself until Stop. *)
SlotInv ==
    /\ HandOver
    /\ evt = "show" => ui \notin {"reset", "timer"}
    /\ \A s \in Sessions :
           video[s] = "fill" /\ Live(s) /\ m_nState # 0 => m_nVideoPicCnt <= 0
    /\ NoLostWakeup

(* DecodeThreadPro reads only below both limits; it ends once. *)
DecodeInv ==
    /\ BackPressure
    /\ dec \in {"read", "put"} => /\ q["video"].size <= MaxVideoQ
                                  /\ q["audio"].size <= MaxAudioQ
    /\ OneEnd
    /\ dec \notin {"off", "done"} \/ ui \in {"initSdl", "initSync", "threads"}
           => hist.ends = 0

(* Only a player that has been paused repaints on a resize.                 *)
PauseInv ==
    m_nState = 2 \/ evt \in {"refresh", "paint"} => ~hist.steady

IInv == TypeOK /\ Lifecycle /\ ChainInv /\ SlotInv /\ DecodeInv /\ PauseInv

(* While Seek is under way the queue it has not come to may hold more.      *)
SeekInv ==
    LET hand == IF StaleInHand THEN 1 ELSE 0
        inVideo == Cardinality(Stale("video"))
        inAudio == Cardinality(Stale("audio"))
    IN HasAudio =>
        /\ rst["ui"] \in {0, 4} => inVideo + inAudio + hand <= 1
        /\ rst["ui"] \in {2, 3} => inVideo + hand <= 1

(* Without Pause and Stop there has been one Load at most, nobody works     *)
(* before it, and what it opened stays open and playing.                    *)
SteadyInv ==
    hist.steady =>
        /\ fault = "none"
        /\ session <= 1
        /\ session = 0 => ~open /\ audio = "off"
        /\ session = 1 => m_nState = 1 /\ ui \in Loading \cup {"idle", "seek"}
        /\ audio # "off" => open
        /\ \A s \in Sessions : video[s] # "none" => open

=============================================================================
