# LinuxIPCMedia in TLA+

LinuxIPCMedia lets two processes of a camera share media. The **client** (the
camera application) produces video and audio and plays talk audio; the
**server** (a GB28181 gateway) asks for streams, consumes them and produces the
talk audio. They meet in a System V message queue for events and in three
shared-memory channels, each holding one frame and guarded by a System V
semaphore. Around them stand two gateway programs, socket wrappers, a device
discovery and an FTP client. These modules describe that machinery, TLC checks
it on small instances, and TLAPS proves the central facts for all sizes.

All source paths below are relative to `src/`.

## 1. Inventory

| component | source | state | operations | hard about it |
|---|---|---|---|---|
| Frame channel | `Share/Public/{Video,Audio,Talk}`, `Share/Sem` | semaphore value, `head->state`, the frame's words, `m_waitRecvFailedCnt`, `m_semReset` | `send`, `recv`, `waitTmOut`, `signal` | threads of two processes, waits that expire, a permit lost with its process, the repair that adds one on suspicion |
| Frame length | the same | `dataLen`, the bytes of the slot | the copy in `send` | signed length, unsigned comparison, leftovers of earlier frames |
| Channel lifecycle | the same and `Share/Shm` | file, keys, kernel objects, `m_isCreator` three times over | `init`, `deinit`, `mmap` | two inits in any order with no exclusive creation, removal of what the peer uses |
| Event queue | `Share/Msg` | the queue, `m_msgid`, `m_proc`, the receiving thread | `init`, `send`, `recvProc`, `deinit` | two directions in one queue, a blocking receive, a thread that raises its own flag |
| Worker tasks | `Share/api/{server,client}.cpp` | `isStart`, `workProc`, mutex, failure count | `SVR_Start/StopGetVideo`, `…GetAudio`, `CLI_Start/StopProcTalk` | Stop takes no mutex, a worker may end by itself |
| API assembly | `Share/api` | the four objects, the callbacks, three daemons with their mutexes | `SVR_Init/Deinit`, `CLI_Init/Deinit`, `CLI_SndVIDEO/Audio`, `SVR_SndTalkAudio` | objects deleted under running threads, daemons woken by unlocking a mutex of somebody else |
| Client application | `libShareDemo/demo/client.cpp` | `demo_task`: flag, handle, mutex | `cli_callback`, the sending thread | two threads in the callback, the flag is raised by the new thread |
| Gateway: messages | `libShareDemo/gbSvr.cpp`, older copy `hi3556/src/main.cpp` | who wants video, audio and talk | `Callback`, `TalkDataCallback` | users that share one audio stream, orders that get refused, late frames |
| Gateway: position | the same | `g_DevInfo`, `bGpsUpload` | `UploadGpsThread`, `GetDevInfo` | two unlocked halves of one position |
| Gateway: parameters | the same | parameter file, `GBParamMap` | `dsjet_gb_load_param`, `dsjet_gb_start` | a file written in place, read half, edited by hand |
| Broadcast sockets | `Soket/src/BroadCast*.cpp` | descriptor, `m_fdBlock`, two addresses | `init`, `recv`, `send`, `deinit` | two threads that change one bit of one descriptor, a send that selects for reading |
| TCP wrapper | `Soket/src/TCPSocket.cpp` | descriptor, `m_accepts` | `init`, `svrAccept`, `sendData`, `receiveData`, `deinit` | numbers the kernel gives out again |
| Discovery | `Socket/broadcast` | sockets, a detached thread | search, answer, `stop` | lost and repeated datagrams, a thread in `recvfrom` |
| FTP client | `FtpClient/` | a connected socket | `init`, `login`, `upload`, `deinit` | replies longer than what is read, errors that one call takes away from the next, a server that is gone |
| USB demo, libusb header, prebuilt libraries, CMake | `Usb/`, … | none of their own | – | – |

**How they interact.** `SVR_StartGetVideo` sends the event `EVENT_GET_VIDEO, true`
through the queue and starts a worker that calls `recv` on the video channel.
The client's receiving thread hands the event to the application's callback,
which starts a thread that calls `CLI_SndVIDEO`, that is `send` on the same
channel, with five retries and, when they fail, an event to the server. An event
that the queue refuses unlocks the mutex of a daemon thread, which reports
"stop" to the application of its own process. Audio goes the same way; talk goes
from server to client. The gateway is an application of the server: a message of
the platform becomes Start and Stop calls, a frame that arrives is passed on. The
sockets, discovery and FTP are programs of their own.

**What makes each part correct.**

- Channel: the critical section is exclusive; a frame arrives whole, is not
  overwritten before the callback had it and comes twice only after a restart;
  no return path forgets the permit; a lost permit comes back; `send` returns.
- Lifecycle: two running processes share the same objects; starting, ending and
  crashing adds no permit, wipes no frame and takes no segment from under a peer.
- Queue: events reach only the peer, in order, and none is lost; the receiving
  thread does not outlive its object.
- Worker: one at a time; handles are joined once; nothing happens after Stop;
  Start and Stop return.
- Assembly: nothing is used after it was deleted, nothing waits for ever.
- Client application: one sending thread; a stop takes effect; a client whose
  server is gone falls silent.
- Gateway: no stream runs that nobody wants, and none is taken from a user who
  stays; positions are not mixed up and do arrive; the gateway runs with the
  parameters of the file and comes up whatever the file holds.
- Sockets: two threads may share an object; each descriptor is closed once, by its
  owner; the list of connections is exact.
- Discovery: a device that stays up is found; `stop` ends the thread.
- FTP: a reply is taken for the answer to its command; the dialogue does not hang.

## 2. Modules

| module | models | checked by |
|---|---|---|
| `Mailbox` | the promise of a channel: a one-place box | refinement target of `FrameChannel` |
| `ChannelClasses` | the constants in which video, audio and talk differ | every run of `FrameChannel` |
| `FrameChannel` | `send` and `recv` of a channel over the semaphore, faults included | `MCFrameChannel` |
| `FrameLayout` | the length of a frame and the bytes of the slot | `MCComponents` |
| `ChannelLifecycle` | `init` and `deinit` of a channel, its semaphore and its segment | `MCChannelLifecycle` |
| `MsgQueue` | class `Msg` in both processes | `MCMsgQueue` |
| `WorkerTask` | a `pub_task` with its Start, Stop and worker | `MCWorkerTask` |
| `ClientStream` | event thread, daemon, sending threads and `CLI_SndVIDEO` of the client | `MCClientStream` |
| `Assembly` | one process from `X_Init` to the end of `main` | `MCComponents` |
| `Gateway` | what both gateway programs do with messages and talk data of the platform | `MCGateway` |
| `GpsUpload` | the position from the camera to the platform | `MCComponents` |
| `GatewayParams` | the parameter file and the start of the gateway | `MCComponents` |
| `SocketObject` | number and addresses of the six classes that own a socket | `MCComponents` |
| `BroadCast` | `recv` and `send` of a broadcast object in two threads | `MCComponents` |
| `TcpServer` | the accepted connections of a `TCPSocket` | `MCComponents` |
| `FtpSession` | the FTP dialogue | `MCComponents` |
| `Discovery` | server and clients of the device discovery | `MCComponents` |
| `Components` | the nine modules above that share nothing (`FrameLayout`, `Assembly`, `GpsUpload` to `Discovery`), of which each behaviour runs one | `MCComponents` |
| `FrameChannelProofs`, `ChannelLifecycleProofs`, `MsgQueueProofs`, `WorkerTaskProofs`, `ClientStreamProofs`, `GatewayProofs` | theorems about the module of that name | TLAPS |
| `ComponentProofs` | theorems about `Components` | TLAPS |

The modules are layered by what they promise each other. `FrameChannel` has one
receiver because `WorkerTask` shows one worker (`WorkersSound`); `WorkerTask` lets
each read return because `FrameChannel`'s receive is a bounded wait;
`ClientStream` takes the channel to be the box of `Mailbox` and the queue to be
two sequences with a common capacity, which `MsgQueue` justifies
(`EventsInOrder`), and shows the single sender (`OneThreadOneHandle`) that makes
the stronger theorems about `FrameChannel` apply. `Assembly` takes from
`ClientStream` that one thread sends. `Gateway` takes a worker to be alive or
not, which `WorkersSound` and `QuietAfterStop` justify. `TcpServer` leaves to
`SocketObject` what a failed `init` does.

Every model module has a part headed *Steps with a plausible bug*: variants of
its actions that are not in the specification. Put in the place of the original,
each makes the property named for it fail, so that no property is idle.

### FrameChannel

One action per shared access: the poll of `waitTmOut` that gets the permit
(`SendTake`, `RecvTake`) or expires (`SendTimeout`, `RecvTimeout`), the test of
`head->state`, each store into and load from the image (`Store`, `Load`), the
clearing store, `signal`, and the naps between attempts (`SendYield…`,
`RecvYield…`). A frame is a value and its image a function from `Parts` to
values, so that a frame put together from two is visible as `Torn`. `RecvReset`
is the extra `signal()` after more than `__MAX_CNT__` failed waits, which the
code allows once per object (`m_semReset`). `SenderCrash`, `ReceiverCrash` and
`Detach` are a process that dies or runs `deinit`: a permit it held is gone, as
the operations do not use `SEM_UNDO` and `deinit` does not give back the permit
it took. Ghosts record what left and what was added.

Two constants are assumptions about the environment rather than code.
`PromptHolders`: no thread keeps the permit for as long as a wait of `recv`
lasts (128 ms, while the callback runs inside the critical section).
`ProgramOrder`: the store of `head->state` reaches memory after the stores of the
frame, which the code does not enforce (it is no atomic and has no barrier).

### FrameLayout

`len` is signed and compared with the room of the slot after its conversion to
unsigned: `Written` is that comparison over integers modulo `Modulus`. For each
byte the slot remembers the frame it is from, so that a length that reaches
behind a frame would show.

### ChannelLifecycle

One action per system call of `ShareX::init` and `deinit`: creation of the file
and `ftok`, `semget`, `semget` with `IPC_CREAT`, `SETVAL`, `shmget`, its creation
and `memset`, attaching; taking the permit, `IPC_RMID` twice and `unlink`. The
kernel keeps an object under the key of an inode until its removal. Use is
reduced to `Enter`, `Access`, `Leave` and `Repair`. `Crash` may come anywhere.
The ghost `raced` says that an init overlapped an init or deinit of the peer.

### MsgQueue

`init` with `ftok`, lookup and creation; `send`; the receiving thread, from the
moment `std::thread` exists until it has raised `m_proc` itself, received, called
back and looked at the flag again; `deinit` with its join, `IPC_RMID` and
`unlink`; crash and restart. The queue has a bounded number of places for both
directions together. An inode that the path has lost may come back
(`InodeReturns`): a queue somebody left under it is then found again, and delivers
what it still held behind newer events. The order part of `RoutedInOrder`
excludes this case, which needs a removal first.

### WorkerTask

`Start` step by step (mutex, event, flag, join of an old worker, flag up, new
thread), `Stop` step by step (event, flag down, join, null) and the worker (flag,
read, count failures, repeat the request, give up, flag down). `VideoTask`,
`AudioTask` and `TalkTask` carry the differences between the three copies in the
code. `StopsAlone` states how the code's own callers use it: Stop takes no
mutex, so two controlling threads must not be in a Stop together. A Start that
comes while the worker is between its last look at the loop condition and the
clearing of the flag is answered "has started" (`Share/api/server.cpp:306`,
`:326-348`) and leaves no worker; no document promises otherwise, so no property
forbids it.

### ClientStream

`cli_callback` of the client application, as two threads of the library run it:
the event thread for each event, and the daemon whenever it gets its mutex
(`DaemonWakes`; the mutex is free at first, so it does so once by itself).
The handle `workProc` is read, deleted and cleared in separate steps, because
stop does so without the mutex. `SenderRetries`, `SenderReports` and
`SenderGivesUp` are `CLI_SndVIDEO`. The ghost `raced` says that both threads were
in the callback at once.

### Assembly

A pointer is null, fresh (the object exists, its `init` has not succeeded) or
live. `Create`, `InitObject` and `CreateDaemons` are `X_Init`, with `InitFails` at
each object; `RemoveChannel`, `StopQueue`, `RemoveQueue` and `ClearOps` are
`X_Deinit` in its own order, with `RemoveFails` in the middle. Beside them run
the receiving thread (`EventComes`, `ReceiverCalls`, …), a daemon and the
application's sending thread. Testing a pointer and using it are two steps; the
ghost `wrong` collects who used what when it was gone. `Exit` shows how every run
that got as far as the daemons ends: they never return, so that static
destruction meets joinable threads and calls `std::terminate`, behind the last
statement of `main`.

### Gateway

`Callback` is a script per message: the API calls of the `case`, in their order,
one step each (`Script`, once for either program). `Tell` is an event that the
camera obeys or the queue refuses. The workers repeat their request and give up
(`WorkerRepeats`, `WorkerGivesUp`), the camera may end a stream by itself, its talk
worker gives up without data. `FrameFails` and `AsksAgain` are
`TalkDataCallback` when the channel takes no frame: `SVR_SndTalkAudio` asks for
talk, and the callback again when that event is refused too. (The older program
uses the older names of the API and does not ask again; it does less than the
model lets it.) Ghosts name the three ways in which the camera may do something
nobody asked for: an order that was refused, a worker's or a frame's late
request, and two threads of the platform in `Callback` at once.

### GpsUpload, GatewayParams

Positions are numbered, so that older and newer can be told apart; `GetDevInfo`
stores longitude and latitude in two steps, `UploadGpsThread` reads latitude and
longitude in two. The program's search for the text behind a coordinate is not
modelled: an answer in which `",` does not follow it would give 0, but answers
are made by the device, whose code is not here.

The parameter file is a sequence of lines, each an entry with or without its
semicolon, an annotation or junk. `Read` is what the program makes of a value: the text
but for its last character. `Create` writes the file anew, in the older program
where it is looked for, in the newer one in the directory the program runs in.
`Crash` may leave any part of it.

### SocketObject, BroadCast, TcpServer

`SocketObject` is one module for six classes, which differ in what `init` takes
for initialised, whether a failed `init` closes, what `deinit` spares and leaves
behind, and when addresses are allocated; the record of a class is translated
from its `init` and `deinit`. The kernel gives the lowest free number to the next
one who opens. `BroadCast` is the part `recv` and `send` have in common (test of
`m_fdBlock`, `fcntl`, flag, `select`) in one step each for two threads, followed
by the system call. Both calls select for reading, `send` with its `writefds` in
the wrong place; so `Select` looks at the datagrams for both, and `room`, the state of
the send buffer, only counts in `sendto`. Each thread keeps one `timeSec`, as in the
demos. `TcpServer` follows `m_accepts`, from which `Drop` removes the
first occurrence of a handle, as `std::find` with `erase` does; `receiveData` reads
from the listening socket, so it always ends in its error path, which is why it is
just `Drop`.

### FtpSession, Discovery

The stream from the FTP server is a sequence of units labelled with the message
they belong to. `recvData` reads at most `Chunk` units: it takes the size of a
pointer, 8, for that of the buffer (`Asked`). No message is taken to be shorter: a
reply has a code, a blank, a text and a line end. What `send` does on a connection
that is no more depends on who was told of it: the error of a reset goes to the next
call, `send` returns it and the session fails, `recv` swallows it (`recvData`
returns 0); when there is none to report, because `connect` had it, `recv` had it or
the reset came after the server's end, `send` raises SIGPIPE, which nobody ignores.
A reset may take along a part of what was sent and not read. `Discovery` has a
server with its detached thread and devices that start, try to init and die;
`Answers` and `Receives` may keep the datagram for a second time, and lose the answer.

## 3. Runs

| run | question | result |
|---|---|---|
| `channel_exclusive` | two senders, one receiver, prompt holders, stores in any order, a consumer that dies or detaches once | the section is exclusive although `recv` adds permits on suspicion (`MutualExclusion`); frames come twice only after a restart (`DuplicatesOnlyAfterRestart`); the channel implements `Mailbox` |
| `channel_solo` | one sender with the real patience of video, three faults, callbacks of any length | permits are conserved and bounded (`PermitsAccounted`); frames stay whole even when a permit was added in error (`NoTornFrame`) |
| `channel_live` | fair scheduling, talk's class, a fault on either side | `send` returns (`SendReturns`); a published frame is consumed, also after one fault (`FrameConsumed`) |
| `lifecycle` | two processes, two starts each, any interleaving and crash | same objects until a removal (`SameChannel`); without an overlap of init with init or deinit no second permit (`OnePermit`), no shared section and no wiped frame (`PeersUndisturbed`), no segment removed with a peer inside (`DrainedBeforeRemoval`) |
| `lifecycle_setval` | two racing inits | **violated**: the later `SETVAL` hits a semaphore in use |
| `msgqueue` | two processes, two starts and two events each | direction, order, no loss (`EventsInOrder`), one queue for both (`Connected`), thread joined (`NoThreadAfterDeinit`); fairly scheduled, accepted events are delivered (`EventsDelivered`) and `deinit` returns once woken (`WokenDeinitReturns`) |
| `msgqueue_deinit` | the creator's `deinit` with nobody to wake its thread | **violated**: it waits for ever and removes nothing |
| `worker` | two controlling threads, any of the three workers | one worker and no double join (`WorkersSound`), quiet after Stop (`QuietAfterStop`), no stale clear (`NoStaleClear`), Start and Stop return (`ControllersReturn`) |
| `stream` | three events of the server in any order, a server that may die | without an overlap of daemon and event thread one sender and one handle (`OneThreadOneHandle`); a stop takes effect (`StopTakesEffect`); a client without a server falls silent (`ClientGivesUp`) |
| `stream_request` | two requests in a row | **violated**: the second deletes the joinable handle of the first |
| `gateway` | either program, three messages, two threads of the platform, refused events, workers that repeat or give up | between messages no stream runs unwanted (`NoWorkerUnwanted`), the camera does only what was asked but for three named exceptions (`NothingUnasked`), a user who stays keeps the audio stream (`OthersKept`), talk ends with its session (`TalkFallsSilent`) |
| `components` | the components that share nothing, one per initial state | see below |

What `components` shows, by component:

| property | of | says |
|---|---|---|
| `MixedOneWay` | `GpsUpload` | an upload may pair a latitude with the longitude of a later answer, never of an earlier one |
| `PositionArrives` | `GpsUpload` | every position the camera stays at is uploaded, unless an upload failed before |
| `ParametersTrue` | `GatewayParams` | the parameters in use are somebody's, and those of the file |
| `ComesUp` | `GatewayParams` | the gateway runs in the end, whatever the file holds, unless the address was cut short |
| `WrongUses` | `Assembly` | the receiving thread's callback is never cleared under it; what can be used when gone is named, per program |
| `NobodyStuck` | `Assembly` | neither `deinit`'s join nor the clean-up of a refused sender waits for ever |
| `WholeOrCut` | `FrameLayout` | the callback gets bytes of one frame, whole or cut, and a full slot for a negative length |
| `SharedSocket` | `BroadCast` | flag and bit agree outside of a change, a `recv` that waits and returns 0 has a datagram, a call blocks only if one of the threads asked for it; a `send` told to wait sends nothing before a datagram came, room or not |
| `DescriptorsKept` | `SocketObject` | orderly use harms nobody; what a disorderly one may do is bounded by class |
| `AcceptsExact` | `TcpServer` | `m_accepts` lists every connection once for a caller that believes what it is told |
| `RepliesBehind` | `FtpSession` | what is read behind a command belongs to an earlier message, never to its reply; a client that waits with nothing on its way is owed a message by the server |
| `SearchFinds` | `Discovery` | a device that stays up and hears searches again and again is found |
| `ThreadEnds` | `Discovery` | after `stop` the detached thread leaves, unless it is in `recvfrom` |

### Findings

The three violated runs state what the repository says of itself and what the
code does instead; `PROJECT.json` quotes the lines.

1. `Msg::deinit` joins before it removes the queue, and nothing wakes a thread
   that blocks in `msgrcv` (`Share/Msg/src/Msg.cpp:65-73`).
2. `semget` with `IPC_CREAT` but without `IPC_EXCL`, then `SETVAL`: of two racing
   inits the later one resets a semaphore in use (`Share/Sem/src/Sem.cpp:43-53`).
3. The demo's thread raises the flag that guards its own creation
   (`libShareDemo/demo/client.cpp:33-46`): two requests in a row end in
   `std::terminate`.

A fourth defect is pinned down by a property that holds. `send` of both broadcast
classes gives `writefds` to `select` as the set to be read
(`Soket/src/BroadCastSvr.cpp:147-151`, `BroadCastCli.cpp:220-224`): with `timeSec > 0`
it sends when a datagram can be received and otherwise returns -1, whatever room there
is. The header says of that value ">0:time out" (`Soket/include/BroadCastSvr.h:18`), as
if the call waited for what it needs. `SendAwaitsDatagram`, a part of `SharedSocket`,
says what a caller gets instead: nothing is sent to a network that is silent.

Several properties name exceptions because the code has them and no document
denies them: the daemon's callback may be cleared under it and the client's
sender may lose its channel (`WrongUses`); refused orders, repeated requests and
late talk frames switch the camera on unasked (`NothingUnasked`); a line without its
semicolon loses the last character of its value (`ParametersTrue`); `m_fdBlock`
survives `deinit` (`SharedSocket`); `FtpClient` cannot be used twice
(`DescriptorsKept`); every TCP receive of a server drops its connection
(`TcpServer`); the FTP login could not tell a refused password from an
accepted one if it looked (`RepliesBehind`). That it asks for 8 bytes is also what keeps
it going: asked for its 512, it would wait for a reply to a command it has not sent
(the bug that `RepliesBehind` has to catch).

### Bounds, and why they are enough

- Frames, words: two of each make every mixture visible; frames and words are
  interchangeable, so symmetry is used in the safety runs (never with liveness).
- Senders: two, for the conflict of writers. The theorems hold for any number.
- Patience: two naps instead of 12 to 100 in `channel_exclusive` and
  `channel_live` (`Impatient`); it is a counter that is only compared with its
  limit. `channel_solo` has the real numbers.
- Faults: one or two per side; a second fault after the one repair is the case
  the code does not survive, so `FrameConsumed` is stated up to it.
- Starts: two per process give a first and a restarted incarnation against the
  first and the restarted peer. In `lifecycle` two inodes let a deleted path come
  back under a new key; the queue has one, for the sake of liveness. The invariants
  of both are proved for any number.
- Queue capacity two with events in both directions reaches "full"; two events per
  process are the least that have an order.
- Workers: three handles are an old, a current and a next one.
- Events in `stream`: three make start, stop, start. `MaxCnt` is 1 instead of 5: a
  first attempt, a retry, and the failure. Two sending threads are enough to
  break `OneThreadOneHandle`.
- Messages in `gateway`: three reach both users wanting, one leaving and the
  other staying. The safety properties are proved for any number.
- `components`: four positions make older, equal and newer halves; two edits and
  two crashes let a file be broken, rewritten and broken again; five calls of an
  object are two lives with a failure; three numbers are a listener, a
  connection and somebody else's; an unsigned width of 16 with room for three
  bytes has lengths below, at and above the room and negative ones; two units per
  read and two or three per message make replies lag by one and more; two devices
  can be confused.

### Fairness

Threads that can run are scheduled (weak fairness per thread). In the channel
`RecvTake`, in the workers `StartLocks` need strong fairness: the code polls the
semaphore every millisecond and blocks on a mutex, and a schedule that always
misses a permit that is free again and again is excluded, as is a mutex that is
never granted. Strong fairness also stands for media that lose some but not all:
a request repeated without end that the queue may refuse (`GpsUpload`), datagrams
sent again and again (`Discovery`). No fairness forces anyone to send, to call
Start or Stop, to take a frame in `ClientStream`, to deinit, to deliver a
message of the platform, to accept an event in `Gateway`, to fail or to die.
`GatewayParams` assumes that somebody starts the program again and that a
complete address answers the ping in the end.

`CHECK_DEADLOCK FALSE` stands where the system may come to rest: processes that
ended, a client that was terminated, all bounded events used up.

## 4. Proofs

Every invariant that a run checks, every action property and the refinement is a
theorem for all values of the constants that the named assumptions of the
modules admit. Each theorem is called after its property, with `Holds` behind it,
where the table gives no other name.

| module | properties | under |
|---|---|---|
| `FrameChannelProofs` | `TypeOK` (`TypeCorrect`), `PermitsAccounted` | nothing further |
| | `MutualExclusion` | `PromptHolders` |
| | `NoTornFrame`, `DuplicatesOnlyAfterRestart`, `ImplementsMailbox` (`MailboxImplemented`) | `Regime` |
| `ChannelLifecycleProofs` | `SameChannel` | nothing further |
| | `OnePermit`, `PeersUndisturbed`, `DrainedBeforeRemoval` | `PromptHolders` |
| `MsgQueueProofs` | `Connected`, `NoThreadAfterDeinit`, `EventsInOrder` | nothing further |
| `WorkerTaskProofs` | `WorkersSound` (`WorkersStaySound`), `QuietAfterStop`, `NoStaleClear` | `StopsAlone` |
| `ClientStreamProofs` | `OneThreadOneHandle` | nothing further |
| `GatewayProofs` | `NoWorkerUnwanted`, `OthersKept` | `ProgramsKnown`: programs among the two |
| | `NothingUnasked` | nothing further |
| `ComponentProofs` | `WholeOrCut`, `MixedOneWay`, `SharedSocket`, `RepliesBehind`, `AcceptsExact`, `WrongUses`, `ParametersTrue`, `DescriptorsKept` | nothing further |

`Regime` is either stores in program order with a single sender or prompt holders,
or prompt holders and no sender that dies, in which case the stores may come in
any order. Each of the runs `channel_exclusive` and `channel_solo` is an instance
of it.

The assumptions of the modules are bounds and kinds: counters bounded by natural
numbers, a finite set of inodes or senders, markers such as `NoFrame` outside of the
sets they extend, half the unsigned values beyond the room of a slot
(`LayoutAssumption`), a positive `Chunk` (`FtpAssumption`), a cut value that is neither
default nor edited (`ParamsAssumption`).

*Exclusion.* `MutualExclusion` is not inductive: a state with one holder and a
permit in the semaphore satisfies it and its successor does not. `ExclusiveInv`
adds that the semaphore never exceeds one, that it is zero while somebody holds
the permit, that `recv` is then not at its repair, and that the repair starts only
with the semaphore at zero. That `recv` may decide for the repair only when
nobody holds the permit is exactly what `PromptHolders` gives. The lemmas
`TakeExclusive`, `GiveExclusive` and `KeepExclusive` are the three kinds of step.

*Whole frames.* The flag `head->state` is a handshake: while it is 0 the slot is
the writer's, while it is 1 the reader's. `HandshakeInv` says so: one writer at
most (`OneWriter`), whose stored words are its frame's and whose flag agrees with
whether its store is still to come (`WriterHasSlot`, `SendersHaveFrames`); a full
slot that nobody writes holds one frame (`FullSlotWhole`); what the reader has
loaded agrees with it (`ReaderHasSlot`). Only `OneWriter` needs the semaphore, and
with a single sender not even that: this is why video survives a repair in error.
If the flag may be stored early, the semaphore has to keep the reader out as
well, and a sender must not die in between.

*Duplicates.* `HandOversInv`: the frame in the slot was handed over at most once
more than the consumer died, and not more often than that while it waits to be
read. The step that would break it is a receiver that leaves its clearing store
undone, and `ClearOrRestart` says that only its death does.

*Permits.* `PermitConservation` is inductive, step by step, since permits only move:
out of the semaphore into a thread (`TakeCounts`), back (`GiveCounts`), away with a
process (`VanishCounts`). That few are added (`FewRepairs`) follows from
`m_semReset`: it is down while `recv` is at the repair and only a new object
lowers it again. The bound needs no assumption about how slow a holder is.

*Refinement.* The box is the slot's value while the flag is up and nobody is
storing. `MailboxStep` maps publishing to `Put`, the return of the callback to
`HandOver`, the clearing store to `Clear`, and every other step to a stutter.

*Lifecycle.* `Sound` has four parts. What a process knows is given by where it is
(`Knowing`), and numbers of objects are used once (`Numbers`). Until a removal there
is one file and under its inode all that there is (`OneFile`): this alone gives
`SameChannel`, also when two inits create at once, because the second
`IPC_CREAT` finds the object of the first. As long as no init overlapped an init
or deinit of the peer, `Unraced` holds: who initialises does it alone, and what it
did not find is still not there when it creates (`Alone`); the creator of a
semaphore creates the segment and removes it first (`Owned`); and so a segment goes
with one semaphore (`Paired`), which is what makes the permit of the semaphore
protect the segment when objects of several generations are about. `Permit`
finally counts: at most one, on a semaphore that lives, and with nobody once
deinit has waited for it (`Drained`). Only the last part needs `PromptHolders`.

*One queue.* `Joint` says that before the first removal there is one file with one
inode (`OneFile`): every key in use is that inode's, only under it there is a
queue, and every `msgid` is that queue's. Two creators get the same one, because
the second `IPC_CREAT` finds what the first has made. `ThreadWithObject` is the
other half: outside of the states between a successful `init` and the join there
is no thread.

*Events.* `Conveyed` follows an event from the queue into the hand of the receiving
thread and from there to the callback. `Routed` says that types and senders agree
everywhere; `InLine` that numbers ascend within what was received, from there to
the hand, from the hand to the queues, and within a queue for one direction;
`Accounted` that received, held, queued and dropped events together are all that
were accepted. Order needs that a removed queue's inode does not return, and
completeness that nothing was removed, as the property says. Since a lookup may
find any queue, `LiveOnly` is needed too: only a queue under a path holds events.

*One worker.* `Sound` adds to `WorkersSound` who may be where: the owner of the
mutex is the only one in Start (`Owner`), a Stop is alone (`Alone`, the only place
where `StopsAlone` is used), only the current handle is joinable and every
running worker is behind a joinable handle (`OneHandle`, `RunsJoinable`), whoever
joins joins that one (`JoinsCurrent`), whoever is past a join finds none
(`Joined`), and a raised flag has somebody who will clear it (`Raised`). The two action
properties follow from `Sound` step by step.

*One sending thread.* While daemon and event thread did not meet, one of them is
waiting (`OneApplier`). Then a thread that sends is the one of `workProc` and not
joined yet (`Known`), `workProc` is joinable between two requests (`Steady`), and
each step of start and stop finds it as the step before left it (`Place`). A
second request in a row deletes a joinable handle (finding 3). The property admits
this one fate, with which the program ends; no other is possible.

*Wanted streams.* `NoWorkerUnwanted` holds between messages; its strengthening
`Served` says what holds in the middle of one: a worker nobody wants yet, or
any more, has a want, or a stop or release, ahead in some caller's script. That
no script breaks this is a property of the scripts (`Proper`), shown once for
the twelve of them.

*What the camera does.* `NothingUnasked` also holds only between messages, and
what is true in the middle differs from call to call. `Left` lists the seventeen
remainders that the scripts of `gbSvr` can have, and `Told(n)` says for each what a
worker, a session and an order may owe to the calls still to come. As long as
callers come one at a time there is one such `n`; with none left it is the property.

*Components.* `Components` runs one component alone (`Alone`), so each theorem is
about that component's steps. The invariants stand at the end of the modules.

- `WholeOrCut` is inductive; what needs the assumption is that a negative length
  becomes an unsigned number beyond the room (`WrittenFits`).
- `GpsUpload!Ordered`: latitude read, latitude stored, longitude stored, answer
  under way and the camera's own position are in this order.
- `BroadCast!Agreed`: a thread that is about to change the bit found it the other
  way, and only an equally minded thread can have changed it since (`ChangesBit`);
  thus the bit is as it wants it when it comes to mark it (`BitChanged`). It holds
  because each thread keeps its `timeSec`: with threads that change it, flag and bit
  can part. `Came` is what `Select` leaves to `sendto`: a
  datagram that waits has come.
- `FtpSession!Lagging` counts units: since no message is shorter than what the
  client reads behind a command, the unit at place `i` of the stream belongs to a
  message `m` with `m * Chunk` at most the units read so far plus `i - 1`
  (`Late`), and so does the next one the server will say (`SaidLate`). From the
  second follows that nobody waits in vain (`NeverBothWait`): before the client
  has its whole share the server has said less than it has heard. The theorem
  rests on that assumption about the server, which is in `Speaks`.
- `AcceptsExact` is inductive together with its types. `FirstRemoved` says what a
  removal of the first occurrence leaves, and `KernelGives` that the lowest free
  number is nobody's. Both need the least element of a set of numbers (`Least`),
  which comes from the well-foundedness of `<` on sets: the induction theorems with
  an operator as parameter cannot be used, those about sets can.
- `Assembly!Protected`: callbacks are cleared behind the join of the receiving thread,
  and a program that does not send has no sender.
- `GatewayParams!Genuine`: between reading and running the map is what the file says,
  unless the file cannot be read. Only an edit without semicolon or a crash makes a
  file that is not `Clean`.
- `SocketObject!Held`: a class that tests for an initialised object remembers the one
  descriptor it has (`Remembered`), the number of a `TCPSocket` is open as long as it
  is one, and orderly use leaves nothing behind a deinit (`Orderly`).

**Only model-checked** are the properties under fairness, which are out of the
prover's reach (no ENABLED, and so no WF or SF): `SendReturns`, `FrameConsumed`,
`EventsDelivered`, `WokenDeinitReturns`, `ControllersReturn`, `StopTakesEffect`,
`ClientGivesUp`, `TalkFallsSilent`, `PositionArrives`, `ComesUp`, `NobodyStuck`,
`SearchFinds` and `ThreadEnds`. `Discovery` has only such, so nothing is proved
about it. The three violated properties are counterexamples of TLC.

## 5. Not modelled

- Contents of frames and events: timestamps, encodings, payload, and the texts of
  JSON, SIP and FTP beyond what is named above. Media callbacks that pass a frame
  on and keep nothing.
- Failures of system calls for reasons outside the processes (memory,
  permissions, limits of the kernel), except in the sockets and `Assembly`, where the code
  reacts to them.
- Time. A wait may expire at any moment at which its condition does not hold.
- Overlapping Stops of one worker (`StopsAlone`): the code has no protection
  there, and none of the repository's callers does it.
- A process that stays up after its peer's `deinit` keeps the removed segment and
  semaphore; after the peer's restart the two talk to different channels. The
  properties of `ChannelLifecycle` end with a removal; nothing in the code tells
  the process, so there is no promise to check.
- The weakening of memory order outside `FrameChannel`: plain flags are read and
  written as if sequentially consistent.
- Code nothing calls: the older parameter store (`paramVector`), `GetAVCNalUnit`,
  `CS_StartUploadGps`, `CS_StopGps` and the `CR` callbacks of the gateways,
  `listenAudio`, which nothing sets, `svr_startSendTalkAudio`,
  `BroadcastServer::broadcastThread`, `FtpClient::connectState` (compiled out).
- `BroadCastCli::setSvrIp`, which stores an address; the client mode of
  `TCPSocket`, which keeps no state beyond the descriptor of `SocketObject`.
- Vendored and prebuilt code (`libusb.h`, the platform's library), the USB demo
  and the build files.

## 6. Plan

What is left, in this order: safety halves of what is only checked under fairness,
as far as they say something by themselves (that a permit lost once is added again by
the time `recv` has given up often enough; that an event that was accepted stays in
the queue until its reader takes it); a common statement of `FrameChannel`
and `ChannelLifecycle` that the semaphore `OnePermit` speaks of is the one the
channel's exclusion is about, with restarts in both; answers and searches of
`Discovery` in order.
