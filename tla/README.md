# LoganManagerPro in TLA+

LoganManagerPro is a Windows client (C++, 2016) for classroom recording
devices and for video calls between classrooms. This directory holds TLA+
models of its own logic, the TLC configurations that check them, and proofs
that TLAPS checks. Line numbers are those of the files under `src/`, which are
GBK encoded with CRLF line ends.

## 1. Inventory of the system

| Part | Code | State | Operations |
|---|---|---|---|
| Video player | `VideoPlayer/VideoPlayer.cpp`, `.h` | `m_nState`, format and codec contexts, two locked packet queues, one overlay with `m_nVideoPicCnt`, SDL timers and events | `Load`, `Stop`, `Play`, `Pause`, `Seek`, `Refresh`, volume; threads `DecodeThreadPro`, `VideoPro`, `EventPro`; callbacks `AudioPro`, `SdlTimerCallback` |
| Player wrapper | `LoganManager/YoohooVideo.cpp`, `iliveplayer.h` | a window and a player per cell | forwards to the player |
| Video call protocol | `LoganManager/tcp_server.cpp`, `tcp_client.cpp` | `cmdSet`, `recvip`, `realVideo` | messages `send#ip`, `recv`, `refu`, `die`; thread `AcceptProc`, one `MsgProc` per message |
| Class mate window | `LoganManager/ClassMateWnd.cpp` | `m_s`, `loadingIP`, `otherStreamUrl`, a dozen timers | invite (`itemrclick`), hang up (`btn_die`), the poll `loadMSG`, the loaders of URLs and of the tree |
| Video grid | `LoganManager/YoohooComUI.cpp` | stacks of shown and waiting videos, 9 in all | `addVideo`, `removeVideo`, `getVideo`, layouts |
| UDP discovery | `LoganManager/UdpBroadcast.cpp` (copies in `LoganManager/server.cpp`, `server/server.cpp`), `sender.cpp` | `m_nThreadState`, sockets, `maplist` | `Open`, `Close`, `getList`; threads `SendProc`, `RecvProc` |
| Control frames | `LoganManager/Command.cpp` | the fields of a frame and its bytes | setters, `parseCommand`, the table `Cmd` |
| Web requests | `Net/Net.cpp`, `LoganManager/HttpRequest.cpp` | process-wide `NetData`, `NetEasyData` | one function per request |
| Main window | `LoganManager/MainWnd.cpp`, `.h`, `UI.cpp` | list of rooms, `videoURL`, the `Router`, 16 cams with their copies of a device, layout and page | selecting rooms, streams and cams, paging, PTZ commands on a thread pool, `UpdateClassRoom` with a `LoadSource` per device and two timers; the projector, with `ClientSocket.cpp` |
| Login, users, configuration | `LoginWnd.cpp`, `WinMain.cpp`, `DataBase.cpp`, `ConfigFile.cpp`, `ReadConfig.cpp` | the form and its timer, a sqlite table of users, key/value files | log in, settings, choosing a saved login, saving it (`Modify`), `ConfigFile::save`, the window that opens next |
| VLC player | `LoganPlayer.cpp` | libvlc handles | play, stop, volume, seek |
| Small windows and controls | `UI.cpp`, `ToolBarWnd.cpp`, `MessageWnd.cpp` | widgets | drawing, clicks |
| Vendored | `LoganUI` (a DuiLib fork), tinyxml, sqlite, curl, ffmpeg and SDL headers | | |

How the parts interact. The class mate window polls the two network
components every 300 ms and tells the grid to show a stream; a cell of the grid
owns a player. `WinMain` opens the login window and, by its result, the main
window (cloud server) or the class mate window (server in the class room), which
reads the login from the file that the login window wrote. In the main window a
thread per device fills `videoURL` while the window copies from it, and the
commands of the pool read the window's `Router`. Everything shared between these
threads and the windows is unlocked. The player's threads share two queues under locks, a picture under a
mutex that is let go before the picture is touched, and `m_nState`, which
nobody locks.

What is hard. In the player: three threads, two callbacks and the caller
interleave; one thread is not joined; one counter hands the picture over; the
only thing that wakes the event thread is a timer it re-arms itself. In the
calls: messages may be lost or late, one slot holds the last accepted call, and
the answer of a call the user has given up may still arrive. In the requests:
threads share one buffer. The list of hazards with their lines is in
`PROJECT.json`.

What makes each part correct:

- player: the overlay is never written and shown in its turn at once; `Stop` waits for its
  threads before it frees what they use, and returns; queues are bounded; a
  seek drops the backlog; the end is reported once;
- calls: a stream is shown only with the consent of its owner; hanging up
  leaves nothing playing; the local video is never replaced;
- discovery and requests: what is listed or stored under an address came from
  that address;
- frames: a receiver reads back the fields that were set;
- login: the window that opens and the file it reads are those of the login that
  was granted; of each user and server one login is remembered, and saving one,
  even half-way, touches no other;
- main window: a row selects its own device, a cam plays what its copy says, a
  command's ip, model, port and token are of devices that were selected since its
  button; the page named is the page shown.

## 2. The modules and the code

Every definition that stands for code has its lines in `PROJECT.json` under
"map". Operators whose names end in `_Word` are mutants: what a plausible bug
would make of the definition they precede. Variables called *history* are not
in the code; they only record the past for a property.

### VideoPlayer, PacketList, PictureSlot (`VideoPlayer/VideoPlayer.cpp`)

One player, opened, played and stopped any number of times (`MaxLoads`).

| Model | Code |
|---|---|
| `ui`, `goal` | where the caller is inside `Load` or `Stop`; `Load` begins with `Stop`'s body |
| `dec`, `dhand` | `DecodeThreadPro` and the packet `av_read_frame` gave it |
| `video[s]` | the `VideoPro` started by the s-th `Load`; its handle is dropped, so several may live |
| `evt`, `sdl` | `EventPro`, armed timers and queued events of SDL |
| `audio`, `m_pAudioBuf` | the callback `AudioPro` |
| `q[s].pkts`, `.size` | a `PacketQueue`; each `PktQuePut`, `PktQueGet`, `PktQueFlush` holds its lock throughout and is one step |
| `rst` | progress through the four unlocked steps of `Seek` and `Refresh` |
| `fault` | the thread that first touched freed state; the model ends there |

`HandleVideoPic` is four steps because it lets its mutex go before it writes
the overlay (`VideoLock`, `VideoFill`, `VideoWrite`), and `RefrshVideo` shows
the overlay without the mutex (`EventRefresh`, `EventShown`). `HandleAudio` is five
steps: it takes the stream from the context (`AudioOpen`), waits for a packet
(`AudioGet`), resets the codec at a marker (`AudioFlush`), tests its loop (`AudioTest`)
and decodes (`AudioDecode`). `UnInitFfmpeg` may come between any two of them, and then
the next use of the context is a `fault`. A packet is the
number of the seek it was read after. `Garbage` is what the member
`m_nVideoPicCnt` may hold before `Load` first zeroes it: no constructor
initialises it, so it is any value; TLC takes a negative, a zero and a positive.
The file has a video stream, since the timer chain and the picture would not
exist otherwise; whether it has an audio stream is `HasAudio`.

`PictureSlot` is the abstract promise: one picture, written, full, shown, empty.
`slotBar` maps the overlay, the counter and the threads' positions to it. The
`ShowVideoPic` of a resize while paused does not look at the count and may show an
overlay that `VideoPro` is writing: that is the slot's `Repaint`, out of turn, which
needs an earlier `Pause` or `Stop` (`Interrupt`) and leaves the slot as it is.

`PacketList` is what is inside a `PacketQueue`: the nodes that are allocated, by
address, `first_pkt`, `last_pkt` and the two counts, with `PktQuePut`, `PktQueGet`,
`PktQueFlush` and `PktQueInit` as functions of them (`ListPut`, `ListGet`,
`ListFlush`, `NewList`). `VideoPlayer` has a sequence of packets instead;
`Represents` says when a list stands for one. An `av_malloc` that fails is left
out, in both.

Left out: the clocks and delays (`GetMaterClock`, `SyncAudio`, `SyncVideo`: a
timer fires whenever it likes), volume, mute, scaling, failures of
`SDL_AddTimer`, SDL events other than refresh and resize, several players in one
process, and the buffer `m_pAudioBuf` left from an earlier `Load`.

### VideoGrid, VideoCall (`YoohooComUI.cpp`, `ClassMateWnd.cpp`, `tcp_*.cpp`)

`VideoGrid` has the two stacks of videos as operators on a record; its `cell` is
what each player was last told to play. `VideoCall` adds the clients: the
invitation (`Invite`), `AcceptProc` with its message box (`RecvSend`, `AnswerOk`,
`AnswerCancel`, `RecvAnswer`, `Told`), the 300 ms poll in its three parts
(`PollAccepted`, `PollInsert`, `PollCaller`) and the hang-up button (`HangUp`,
`CloseVideo`, `ClearCalls`).

- A message is its own connection, so messages overtake each other. A message
  may be lost: `tcp_client`'s thread uses an object that is already destroyed,
  and `connect` is not checked.
- `AcceptProc` and the window share `cmdSet` and `recvip` without a lock. One
  access is one step here (`PollAccepted` tests `recvip` and takes its URL, `AnswerOk` writes
  `recvip` and `cmdSet`, each at once), except that the poll reads `recvip` in two steps with
  `AcceptProc` between them; `raced` remembers that it changed.
- `"die"` and `"yes"` are never sent and are not modelled; a click on the node
  of a room reaches no client; the URL a stream is played from
  (`otherStreamUrl`) is taken as known.

### HttpRequest (`HttpRequest.cpp`, `MainWnd.cpp`, `ClassMateWnd.cpp`)

Threads that call `LookUpUrl`. `Work` gives each its list of lookups, so the same
module is `LoadSource` (a thread per device on the pool, an id for each stream)
and `LoadOtherUrl` (all devices on one thread, one id, a new thread every two
seconds). `callSubData` and `LookUpUrl` are split where another thread can come
between: finding the queue, inserting it in the map, each test that the queue
is empty, each pop, the push (of one URL at most; of several the last would
count). Racing on the map's tree and popping an empty queue are undefined; `fault` records them.

### UdpBroadcast, Discovery (`UdpBroadcast.cpp`, `ClassMateWnd.cpp`)

`UdpBroadcast` is `Open`, `Close` and the two threads of each client over a
network that loses datagrams and drops what finds a buffer full. `Strangers` are
other senders on the port, other clients among them, even one that was started
again in another room; they send a room, one of the two refusals, which RecvProc
throws away, or anything else. `ReceiveFails` is `recvfrom` returning -1, which the code
takes for a datagram. `Discovery` extends it with the window's timers that build
the tree of rooms (`FirstLoad`, `Compare`, `Answered`, `NotAnswered`,
`BuildRoom`, `Built`); the window lives from `Open` to `Close`. The copy that
`getList` returns is taken in one step; in the code it races with the insertion.
The server may name any of the rooms, or none: it sends at most 100 entries, of
which those that are not class rooms are passed over (`Answered`). `named` records
which rooms the last answer was for, and `moved` whose entry has changed since.

### Command (`Command.cpp`)

The object's fields and its 262 bytes `cmdset`, the setters, and `Parse` for the
rows of the table `Cmd` and `GetCurrentSound`. The length is stored modulo 256.

### Login, SavedLogins (`LoginWnd.cpp`, `DataBase.cpp`, `ConfigFile.cpp`, `WinMain.cpp`)

| Model | Code |
|---|---|
| `form` | the controls, `bRem` and `bAuto`, the tab that is shown, `TIME_LOGIN_ID` |
| `userList`, `Ip`, `isCloud` | the members of the same names |
| `table` | the rows of `userTable`, per user and address, in the order of their rowids |
| `conf` | the login in `banban.conf`, gone while the file is cut |
| `pc`, `again`, `model` | where `OnTimer` is, and how the login was granted |
| `posted`, `prog` | results of `Close` still in the queue; the window that is open |

A handler is one step, except `OnTimer`: it makes the request (`Refused`,
`Granted`), cuts and writes the file (`Truncate`, `Write`), saves the login
(`NotOpened`, or `Delete` and `Insert`) and closes the window (`Closes`), then
saves and closes once more. `Exit` may come between any two of these steps: the
program dies, the table and the file stay, and `Start` opens it again. Either
SQL statement may fail. The table may hold what an earlier run left (`Init`).
`LoadNobody` is `LoadUser` when nobody is saved: it reads the first element of an
empty map (`LoginWnd.cpp:413`), so any password and flag may come of it. Which
saved user comes first in the list is left open.

`SavedLogins` is the abstract table: one login of a user and server is stored or
forgotten at a time. The newest row of each key refines it.

An address stands for an address and a port; the user and the password in the
file are written with the server and left out.

### Router, Rooms, CamLayout, MainWnd (`MainWnd.cpp`, `MainWnd.h`, `UI.cpp`)

`Router` is the selected cam and its copy of a device. `Assign` copies field by
field on the window's thread (`AssignIp`, `AssignModel`, `AssignPort`, `AssignToken`,
`AssignUrls`); a command of the pool gets a thread (`ReadArgs`), reads ip, port, model and
token one by one in the order the compiler has chosen (`ReadField`, `Turn`), and
sends. So a command may go to one device's ip and another's port, as in the code.
`MaxThreads` is the pool's limit, 30 in the code (`MainWndCfg.h:4`). The section a command locks is its own, so
nothing keeps the two apart: a read during an assignment gives what is there or
is a `fault`, which ends the run. All directions, zoom and views are one command
(`OnBtnMove`); a preset is one that reads `selprecall` when it runs
(`OnPrePlace`).

`Rooms` extends it with the list of rooms, the `LoadSource` of each device
(`LogIn`, `LookUpUrl`), the copies the cams keep, what their players were told
to load and the timer that paints rows (`UpdataStatus`). A row's place in
`videoURL` is counted as the handlers count it (`Index`). The timer that is to
abort the loading has a handler that does nothing (`MainWnd.cpp:133`), and so has
no action.

`CamLayout` is which of the cams a layout shows: the window's page and the
layout's first cam, which are told of each change apart. `MainWnd` composes it
with `Router`: a click on a cam selects it in both. There a cam's copy may hold
anything; what it really holds is the business of `Rooms`, which in turn leaves
the commands out, since they change nothing but themselves.

Left out: what a command writes into its request (and the `speed` that is not
initialised, `MainWnd.h:159`), the failure of `TrySubmitThreadpoolCallback`, the
projector, full screen, volume and messages. Facts the reading gave and the model keeps: a
copy that is taken before `LoadSource` has finished stays as it is until the row
is selected again; the layout of one cam keeps the first cam that was shown and
calls it page 1 (`kept`); the selected cam may be on a page that is not shown.

## 3. What the runs show

| Run | Instance | Shows |
|---|---|---|
| `av` | audio and video, 1 Load, 1 seek | packet queues: `SizeIsBytes`, `BackPressure`, `SeekDropsBacklog`; `SteadyPlayNeverFaults` |
| `reload` | video only, 2 Loads, 1 resize | `TypeOK`, `OneRefreshChain`, `JoinedThreadsSafe`, `NoLostWakeup`, `NoEndAfterStop`, `NothingLeaks`, the refinement `SlotSpec` |
| `stop` | audio and video, fair | `StopReturns`, `PictureTaken` |
| `calls` | 3 clients, 2 invitations, grid of 3 | `OnlyAgreedCalls`, `OneVideoPerRoom` |
| `full` | 2 clients, 2 invitations, grid of 2, fair | `LocalKept`, `NothingHidden`, `AcceptedIsShown`, `AnswerIsShown` |
| `source` | 2 `LoadSource` threads of 3 lookups | `UrlBelongs`, `AnswerStored` |
| `look` | 2 `LoadOtherUrl` threads of 2 lookups | finding: `UrlBelongs` fails |
| `tree` | a client with its window, 1 stranger, a buffer of 1, 1 failed `recvfrom`, fair | `SocketsOutliveThreads`, `ListedAsAnnounced`, `CloseReturns`, `ListedIsShown` |
| `frame` | 4 calls, data of 0, 2 and 255 bytes | `FrameDecodes` |
| `login` | 2 users, 2 servers, 2 rows, fair | `RightWindow`, `ConfOfLogin`, `LoginRemembered`, `AutoAsSaved`, `LoginDecided`, the refinement `SavedSpec` |
| `rooms` | 3 rooms with 2 devices, 2 cams, 2 streams, fair | `TitleNamesDevice`, `PlaysItsOwn`, `RouterFollows`, `LoggedInIsPainted` |
| `grid` | 5 cams, layouts of 1 and 4, 2 commands, 1 thread, 2 presets | `PageIsShown`, `PagesCoverCams`, `CommandAims`, `LastPresetSent` |

Bounds. Two `Load`s are needed for a thread to outlive its `Load`; one seek with
packets in both queues and in the reader's hand is every case of a flush. Queue
limits of 0 and 1 packets make the reader stop and go. An event queue of one
slot is enough for a full queue to drop a refresh. Three clients allow an answer
from someone other than the last invited, two invitations an answer that comes
late; grids of two and three videos are full after one and two calls. In `calls` the
clients, each with its room, are interchangeable, and TLC uses that symmetry;
the run has no liveness. Two
threads are the least that race, with ids of their own and shared. A client hears
its own broadcasts, and to it another client is one more sender, so in
`tree` a stranger stands for the others, one that changes its room included; a
buffer of one datagram is soon full. There is one room,
which the server names or does not. Data of 0 and 255 bytes
are the limits of the length byte, and four calls leave every longer frame's
bytes behind a shorter one. In `stop` no event is lost, as nothing resizes the
window; in `reload` events are lost, and `OneRefreshChain` says so.

Two users and two servers are what it takes to save the wrong login: another
user's at this server, or this user's at another. Two rows make the table full
with the second. The middle one of the three rooms is empty, so rows and places
differ by two after it. Five cams in pages of four leave a short last page, and
in pages of one no room for error; one command waits while another, on the one
thread, races with the window, and of two presets the first is overtaken. A cam's
copy there is a device or empty, so reads between two fields of `Assign` mix the
two. In `grid` the two commands
are interchangeable. What the small instances leave open for the main window and the login, the
proofs close: they hold for any number of cams, devices, users and servers.

`stop` also evaluates the assumption of its module `MCPacketList`: the functions of
`PacketList` on every list of up to three nodes at four addresses, against the
operators of `VideoPlayer` on the sequence it stands for.

`CHECK_DEADLOCK FALSE` stands in every configuration because each of these
systems may rest: the player when it is stopped and `MaxLoads` is used up, or
after a fault; the calls with an unanswered message box and no invitation left;
the threads of `HttpRequest` when all are done; a client that has closed; the
frames after `MaxCalls` calls; the main window after a fault. The program of
`Login` can always end or start.

## 4. Fairness

- Player (`stop`): threads are scheduled, `av_read_frame` returns with a packet
  or an error, and armed timers fire. What the user does, when the window is
  resized and when the audio device asks for sound is free; a callback that has
  begun goes on.
- Calls (`full`): the poll and the closing of videos are weakly fair, because
  the 300 ms timer keeps firing. Users and the network owe nothing, so nothing
  is said of a call that nobody answers.
- Discovery (`tree`): `SendProc`, `RecvProc` and a `Close` that was called go on.
  `select` wakes after two seconds without data; that is what makes `Close`
  return. `Compare` is strongly fair: it needs the window to be idle, and
  the other timer (100 ms) makes it busy again and again; Windows does not pass
  over an expired timer for ever. The server may refuse every request:
  `ListedIsShown` excepts windows whose last one failed, and speaks of the rooms
  that the last answer named.
- Login (`login`): `OnTimer` and the dispatch of a posted `WM_CLOSE` are weakly
  fair: the timer fires every two seconds and a request ends with curl's
  timeout. The user may give up, and the program may die, at any time.
- Rooms (`rooms`): a handler that has begun goes on. `UpdataStatus` is strongly
  fair for the same reason as `Compare`: handlers in between disable it again
  and again. No fairness is given to `LoadSource`: the painting is promised only
  for devices whose login was granted, however late.

## 5. What is proved

TLAPS checks these for every value of the constants, from the named ASSUMEs,
which say no more than that bounds are numbers, names are different, the
inputs of setters are bytes, the network is finite and the layouts are those of
the code.

Some claims need an induction over data (the rooms before one, the bytes of a
frame, the nodes of a list). The induction theorems of the library take an
operator as a parameter, which the provers cannot instantiate; here
`LeastNumber` stands in for them. It says that a set of numbers that is not empty has a
least one, by the library's `WFMin`, and an induction is then a proof that the set
of numbers at which the claim fails has none.

`VideoPlayerProofs`. `IInv` is inductive (`Inductive`). Its parts:

- `Lifecycle` ties threads and context to the caller's place inside `Stop` and
  `Load`: without it nothing says that a joined thread is gone when the context
  closes.
- `ChainInv`: armed timers plus queued refresh events are at most one, and none
  is left while `Load` sets up, which is why `Stop`'s order (join, then quit
  SDL) matters.
- `SlotInv`: between the unlock and the write the counter cannot rise, as one
  live `VideoPro` exists. Earlier ones are not live and fault instead.
- `PauseInv`: a player is paused, and repaints, only once there has been a `Pause` or
  `Stop`.
- `DecodeInv`: the reader passes its test only below both limits, and nobody
  else puts data into a queue before its put. Markers have no size.

From it follow `TypeCorrect`, `PictureExclusive`, `RefreshChainSingle`,
`JoinedThreadsOnOpenContext`, `WakeupsKept`, `QueuesBounded`, `EndReportedOnce`,
the action property `NoLateEnd`, and `RefinesPictureSlot`: every step of the
player is a step or a stutter of `PictureSlot`, a repaint over a write included. Four properties have an argument
of their own beside it:

- `SizesAreBytes`: of `PktQuePut`, `PktQueGet` and `PktQueFlush` each changes list
  and size alike; removing the first packet is a shift of the sequence, and the
  sum over its indices loses one term.
- `BacklogDropped`, by `SeekInv`: while `Seek` is between its two flushes one queue
  may still hold a backlog; the other one and the packet in the reader's
  hand hold one old packet at most.
- `SteadyPlaySafe`, by `SteadyInv`: without `Pause` and `Stop` there has been one
  `Load`, no thread or audio callback works before it has opened the context, and
  nothing closes that.
- `NoPacketLeaks`: the one thread that puts is joined before the flush, and `Seek`
  and `Refresh` put their markers on the caller's thread or on `EventPro`, joined
  as well. So the queues stay empty until `Load` zeroes them, and what
  `PktQueInit` overwrites holds no packet.

Then about `PacketList`. `ListPuts`, `ListGets`, `ListFlushes` and `ListInits` say
that each function of the list does to the queue it stands for what the operator
of `VideoPlayer` does, and `ListTests` that the code's tests of `first_pkt` are
the model's tests of the sequence. Links, both pointers, the counts and the heap are
part of it: what is allocated is what is in the list, so no node is freed twice or
lost. `ListFlushes` has to know where the loop along `next` gets to
(`WalkEndsAtLast`, by induction along the list). `ListsCarryQueues` puts them
together: a list that stands for a queue can follow every step of the player.
It needs `NothingLeaks`, as `PktQueInit` frees nothing.

`VideoCallProofs`. `CallInv` is inductive (`CallInductive`), for any clients,
rooms and number of videos from two on. The grid's operators come first: `GridInv`
says that the two stacks hold every video once, with the local one at the
bottom, and the lemmas what showing, stopping and removing a video do to it.
Then, for each client:

- `ConsentInv`: whatever the poll may read as a room to show (`recvip`, an answer
  in `cmdSet`, the variables it has copied) has been agreed to. Consent is a
  fact of the past, so it survives whatever overwrites the slots.
- `VideosInv`: hidden videos are stopped; the local video is idle or local.
- `ButtonInv` and `LoadedInv` say what the button and `loadingIP` are in the
  middle of a poll, which the properties, about a window at rest, do not.

It gives `CallTypes`, `AgreedOnly`, `LocalStays`, `HiddenStopped`, `RoomOnce`, and
`ButtonRight`: the hang-up button is there exactly when there is a remote video.

`HttpRequestProofs`. With `OwnIds` (no two threads use one id) `QueuesInv` is
inductive: a queue is touched by its own thread only. It gives `UrlsBelong` and
`PopsNotEmpty`; with `OwnItems` too, `AnswersStored`. `LoadSource` meets both
(`SourceLookups`): its ids and items are addresses of fields of its device. So
`SourcesStored` has all three for it, with any number of devices and no further
hypothesis. `LoadOtherUrl` does not meet `OwnIds`, and `look` shows what comes of it.

`DiscoveryProofs`, first about `UdpBroadcast`. `UdpInv` is inductive (`UdpInductive`): a running thread
has its handle and its socket, handles last until they are joined, and what
RecvProc holds was sent or is blank. From it `UdpTypes`, `SocketsSafe`,
`CloseLeavesNothing` and `ListIsHonest`. `CloseLeavesNothing` needs the handles:
an `Open` that failed leaves none, and then no thread can be running.

Then about `Discovery`. `TreeInv` adds the window to it (`TreeInductive`). The list
never shrinks (`ListGrows`), so while its length is the one that was seen last it
lists the same addresses; each of them, if the server has named its room and its
entry is what it was (`ShownInv`), is then in the tree or in a room that the loop
has not come to. It gives `TreeTypes`, `NobodyIsForgotten`, and `TreeListHonest`
with the window's timers running. A list of a finite network is finite: that is
what the added assumption is for.

`LoginProofs`. `LoginInv` is inductive (`LoginInductive`): what `OnTimer` has done
so far is what its place, the posted results and, in the end, the window that
opened say; the first posted result is that of the granted login. From it
`WindowRight`, `ConfWritten`, `RememberedIsSaved`; with it the action property
`AutoLogsIn` and the refinement `RefinesSavedLogins`. Either of the two saves
deletes what it will insert; between them the login is forgotten, which
`SavedLogins` allows.

`MainWndProofs`. `MainInv` is inductive (`MainInductive`), for any number of cams,
devices and commands. Its arithmetic part (`PagesInv`) rests on `PagesFit`: the
page count is the least number of pages that hold all cams. It gives `MainTypes`,
`PageNamed`, `PagesComplete`, `RecordingsFew`, `MarkRouted`, `CommandsAim`,
`LastPresetGoes`. For `CommandsAim` the invariant follows each of ip, model, port and
token on its own: what the Router holds of a device at any point of `Assign`, and what
a command has read so far, was selected since its button.

`RoomsProofs`. `RoomsInv` is inductive (`RoomsInductive`), for any rooms,
devices, cams and streams: how far the Router's copy agrees with the source it
is taken from at each point of `Assign`, and what a cam's title, copy and player
are meanwhile. From it `TitlesNameDevices`, `PlayersPlayTheirOwn` and
`RouterFollowsCam`. It rests on `RowsLeadToPlaces`: the place that a handler counts
for a device's row, rows less rooms, is the place where `UpdateClassRoom` has
put that device, whichever rooms are empty. The list and the order are both
concatenations, so the lemmas before it say where the k-th element of the
i-th room stands in a concatenation (`Concatenated`) and how many rooms come
before it (`CountRoom`), by induction over the rooms.

`CommandProofs`. `CommandInv` is inductive (`CommandInductive`): the fields are
what was given, and once a setter has run, the bytes are the frame of the
fields. From it `FramesDecode`, for any data that fits a frame: sender and
receiver apply `Sum` to the same bytes, whatever it computes. `CommandTypes` keeps
every field and byte in its type. `ChangesShow` is about what `Sum` computes:
a frame in which one byte has changed, other than its length, is none any
more (`TwoFrames`). When the byte is a field's or one of the data, the sum changes by as much as
it does (`SumChanges`), which is less than 256, so the checksum cannot be the
same. `Sum` is a recursive function over halves of an interval; `SumsExist` shows by
induction that there is one, `SumAdds` that it adds up pieces. The length byte
is left out because another length moves the place of the checksum.

Proved, and checked by no run of its own: `OnePicture`,
`OneEnd`, `ClosedIsQuiet`, `FewRecordings`, `MarkedIsRouted`, `CanHangUp`,
`NobodyForgotten`, `NoEmptyPop`, `LoginInv`, `ChangeShows`
(too slow for a run: each state tries 256 values for each byte), the types of
every module but `VideoPlayer`.

Only model-checked: all liveness (`StopReturns`, `PictureTaken`, `AcceptedIsShown`,
`AnswerIsShown`, `CloseReturns`, `ListedIsShown`, `LoginDecided`,
`LoggedInIsPainted`), which rests on fairness and so on `ENABLED`, beyond these
provers. Every other property that a passing run checks is a theorem;
`AnswerStored` and `UrlBelongs` hold of `LoadSource`, or under the hypotheses named
above, of which `LoadOtherUrl` breaks `OwnIds`.

## 6. Where the code and its comments disagree

- `look`: `HttpRequest.h:17` says that requests are concurrent through their id,
  but `LoadOtherUrl` passes the id `"look"` for every device, and the timer that
  starts it is not killed. Two threads then share a queue, and a device is
  stored with the stream of another. With an id for each lookup, as
  `LoadSource` has it, `source` shows that URLs are not mixed up, as long as the
  map itself is not broken: its first insertions race even then.

Known from reading, not covered by a property:

- Login: a saved login whose `auto` differs from the box is treated the other way
  round, because setting the box flips `bAuto` (`LoginWnd.cpp:168`; `AutoAsSaved`
  excepts it). The second `UpLoadUser` deletes what the first has saved, so the
  first does not count. After OK in the settings the users of the old address
  are listed. The form and the settings can be used while a login runs. A crash
  inside `ConfigFile::save` loses every section of the file.
- Main window: a command's ip and port may be of two devices, when the other one is
  selected while it waits or reads (`MainWnd.h:44`, `MainWnd.cpp:191`; `CommandAims` says
  that it is no worse). Commands are work items of their own, so a direction and its stop
  may be sent in either order. The projector's `recvfrom` blocks the window
  (`MainWnd.cpp:993`).
- Calls and discovery: a client is left out of the tree when the server does not
  name its room or the filter drops it (`ClassMateWnd.cpp:563`), and stays where it
  was when it announces another room, because only the length of the list is
  compared (`:549`); `ListedIsShown` excepts both. A datagram longer than the buffer makes
  `recvfrom` fail with the buffer filled, which `ReceiveFails` leaves out.
  `"die"` is not sent, so the other side keeps a call that
  was hung up. `ClassMateWnd.cpp:274` says that the broadcast finds out who is
  online, but entries are never removed.
- Requests: a failed lookup overwrites a known URL; `curl_global_cleanup` runs
  while other threads use curl (`Net.cpp:24`).
- Frames: `Command.cpp:60` says that a length above 255 becomes 255, but it is
  already a byte when it is compared, so 256 bytes of data become none; the
  table has two at most. Senders pass `getCmdLength()+1` bytes.
- Player: `Seek` after the end of a file finds nobody who reads. A resize while paused
  may show an image that is half written (`VideoPlayer.cpp:1101`).

## 7. Not modelled, and what is left

Most of the lines under `src/` are not this program's: the DuiLib fork under
`LoganUI` with `stb_image` and `XUnzip`, and the headers of sqlite, curl, ffmpeg,
libvlc and SDL. They are listed in `PROJECT.json` as components and left out;
only `CWindowWnd::ShowModal` is in `Login`, because the two closes meet there.
The share of all lines that the models cover is small for that reason, and
modelling widgets or headers would say nothing about this system.

Of the program itself, left out with their reasons:

- `LoganPlayer.cpp`: compiled only with `VLC_VIDEO`, whose definition is commented
  out (`stdafx.h:67`).
- `YoohooVideo.cpp`, `ToolBarWnd.cpp`, `MessageWnd.cpp`: they forward calls and
  clicks or show a text.
- `server.cpp`, `sender.cpp`, the demo programs: older copies, or unused.
- The clocks of the player, the geometry of layouts and grid, the syntax of
  configuration files, the texts of requests: no property here is about them.
- The projector: one blocking call on one thread.

Left to do: steps towards the liveness properties that need no `ENABLED`, such as
what a weakly fair action leads to when it happens infinitely often.
