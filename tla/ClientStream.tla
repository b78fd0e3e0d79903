----------------------------- MODULE ClientStream -----------------------------
(***************************************************************************)
(* The client while the server asks it for video: the event thread and the *)
(* daemon of the client library both call the application's cli_callback,  *)
(* which starts and stops a sending thread, and that thread pushes frames  *)
(* with CLI_SndVIDEO.  The application is libShareDemo/demo/client.cpp.    *)
(*                                                                         *)
(* The channel is the one-place box of Mailbox, the queue two sequences    *)
(* sharing one capacity (MsgQueue).  Of the server only the messages and   *)
(* the frames it takes are here (WorkerTask has the rest).                 *)
(***************************************************************************)
EXTENDS Naturals, Sequences

CONSTANTS
  Capacity,   \* events the queue holds, both directions together
  MaxCnt,     \* maxCnt of CLI_SndVIDEO
  MaxAsks,    \* bound: events the server sends
  Senders     \* identities of sending threads, used again
CONSTANT NoSender

ASSUME ClientAssumption == {Capacity, MaxCnt, MaxAsks} \subseteq Nat /\ NoSender \notin Senders

Appliers == {"event", "daemon"}   \* the threads that run cli_callback

VARIABLES
  toClient, toServer,   \* events on their way: TRUE asks for the stream
  full,                 \* there is a frame in the channel
  up,                   \* the server lives
  asks,                 \* bounded: events the server sent
  app,                  \* where the two threads are in cli_callback
  target,               \* the thread they join
  running,              \* g_video_task.isStart
  workProc,             \* g_video_task.workProc
  handle,               \* the std::thread object of each sending thread
  sender,               \* where each sending thread is
  cnt,                  \* its cnt in CLI_SndVIDEO
  mtx,                  \* g_daemon_task.sendVideo.mtx is locked
  fate,                 \* what ended the client, or "alive"
  raced                 \* ghost: both were in cli_callback at once

queues == <<toClient, toServer>>
server == <<up, asks>>
task == <<target, running, workProc, handle>>
thread == <<sender, cnt>>
vars == <<queues, full, server, app, task, thread, mtx, fate, raced>>

TypeOK ==
  /\ toClient \in Seq(BOOLEAN) /\ toServer \in Seq(BOOLEAN)
  /\ Len(toClient) + Len(toServer) <= Capacity
  /\ {full, up, running, mtx, raced} \subseteq BOOLEAN
  /\ asks \in 0..MaxAsks
  /\ app \in [Appliers -> {"wait", "start", "drop", "forget", "create",
                           "clear", "peek", "join", "delete", "clean", "tell"}]
  /\ target \in [Appliers -> Senders \cup {NoSender}]
  /\ workProc \in Senders \cup {NoSender}
  /\ handle \in [Senders -> {"none", "joinable", "joined"}]
  /\ sender \in [Senders -> {"none", "begin", "test", "send", "ended"}]
  /\ cnt \in [Senders -> 0..MaxCnt]
  /\ fate \in {"alive", "deleted joinable", "deleted twice", "joined twice"}

Init ==
  /\ toClient = <<>> /\ toServer = <<>>
  /\ full = FALSE /\ up = TRUE /\ asks = 0
  /\ app = [a \in Appliers |-> "wait"]
  /\ target = [a \in Appliers |-> NoSender]
  /\ running = FALSE /\ workProc = NoSender
  /\ handle = [t \in Senders |-> "none"]
  /\ sender = [t \in Senders |-> "none"]
  /\ cnt = [t \in Senders |-> 0]
  /\ mtx = FALSE /\ fate = "alive" /\ raced = FALSE

\* msgsnd with IPC_NOWAIT: a full queue refuses the event.
Room == Len(toClient) + Len(toServer) < Capacity
TellClient(on) ==
  /\ toClient' = IF Room THEN Append(toClient, on) ELSE toClient
  /\ UNCHANGED toServer
TellServer(on) ==
  /\ toServer' = IF Room THEN Append(toServer, on) ELSE toServer
  /\ UNCHANGED toClient

\* What both halves of the client need below.
Alive == fate = "alive"
App(a, from, to) == Alive /\ app[a] = from /\ app' = [app EXCEPT ![a] = to]
Send(t, from, to) == Alive /\ sender[t] = from /\ sender' = [sender EXCEPT ![t] = to]

\* send fails when the slot stays full, or for want of the permit a dead server
\* took along.
SendFails == full \/ ~up

-------------------------------------------------------------------------------
(* Steps with a plausible bug.  They are not part of the specification: each   *)
(* one in the place of its original is what some property has to catch.        *)

\* The stop deletes the handle and keeps the pointer.
StopKeepsPointer(a) ==
  /\ App(a, "clean", "tell")
  /\ UNCHANGED <<queues, full, server, task, thread, mtx, fate, raced>>

\* The loop reads on without looking at its flag.
SenderReadsOn(t) ==
  /\ Send(t, "test", "send")
  /\ cnt' = [cnt EXCEPT ![t] = 0]
  /\ UNCHANGED <<queues, full, server, app, task, mtx, fate, raced>>

\* CLI_SndVIDEO takes a refused event for an accepted one.
SenderHidesRefusal(t) ==
  /\ SendFails /\ cnt[t] = MaxCnt /\ ~Room
  /\ Send(t, "send", "test")
  /\ UNCHANGED <<queues, full, server, app, task, cnt, mtx, fate, raced>>

-------------------------------------------------------------------------------
(* The server: SVR_StartGetVideo, SVR_StopGetVideo and the worker send       *)
(* events; the worker takes frames; its event callback only logs.            *)

ServerAsks(on) ==
  /\ up /\ asks < MaxAsks
  /\ asks' = asks + 1
  /\ TellClient(on)
  /\ UNCHANGED <<full, up, app, task, thread, mtx, fate, raced>>

ServerTakes ==
  /\ up /\ full
  /\ full' = FALSE
  /\ UNCHANGED <<queues, server, app, task, thread, mtx, fate, raced>>

ServerReceives ==
  /\ up /\ toServer # <<>>
  /\ toServer' = Tail(toServer)
  /\ UNCHANGED <<toClient, full, server, app, task, thread, mtx, fate, raced>>

ServerDies ==
  /\ up
  /\ up' = FALSE
  /\ UNCHANGED <<queues, full, asks, app, task, thread, mtx, fate, raced>>

-------------------------------------------------------------------------------
(* cli_callback *)

ClientReceives ==
  /\ toClient # <<>>
  /\ App("event", "wait", IF Head(toClient) THEN "start" ELSE "clear")
  /\ toClient' = Tail(toClient)
  /\ raced' = (raced \/ app["daemon"] # "wait")
  /\ UNCHANGED <<toServer, full, server, task, thread, mtx, fate>>

\* The daemon gets its mutex, which nobody holds at first and which CLI_SndVIDEO
\* unlocks later, and reports a stop.
DaemonWakes ==
  /\ ~mtx
  /\ App("daemon", "wait", "clear")
  /\ mtx' = TRUE
  /\ raced' = (raced \/ app["event"] # "wait")
  /\ UNCHANGED <<queues, full, server, task, thread, fate>>

\* "has already send video"
StartRefused ==
  /\ running
  /\ App("event", "start", "wait")
  /\ UNCHANGED <<queues, full, server, task, thread, mtx, fate, raced>>

StartPasses ==
  /\ ~running
  /\ App("event", "start", IF workProc = NoSender THEN "create" ELSE "drop")
  /\ UNCHANGED <<queues, full, server, task, thread, mtx, fate, raced>>

\* delete workProc: the destructor of a joinable thread ends the program.
Delete ==
  /\ fate' = IF workProc = NoSender THEN fate
             ELSE CASE handle[workProc] = "joinable" -> "deleted joinable"
                    [] handle[workProc] = "none"     -> "deleted twice"
                    [] OTHER                         -> fate
  /\ handle' = [t \in Senders |-> IF t = workProc THEN "none" ELSE handle[t]]

\* "need delete"
StartDeletes ==
  /\ App("event", "drop", "forget")
  /\ Delete
  /\ UNCHANGED <<queues, full, server, target, running, workProc, thread, mtx, raced>>

StartForgets ==
  /\ App("event", "forget", "create")
  /\ workProc' = NoSender
  /\ UNCHANGED <<queues, full, server, target, running, handle, thread, mtx, fate, raced>>

StartCreates ==
  /\ App("event", "create", "wait")
  /\ \E t \in Senders :
       /\ sender[t] \in {"none", "ended"} /\ workProc # t
       /\ \A a \in Appliers : target[a] # t
       /\ workProc' = t
       /\ sender' = [sender EXCEPT ![t] = "begin"]
       /\ handle' = [handle EXCEPT ![t] = "joinable"]
  /\ UNCHANGED <<queues, full, server, target, running, cnt, mtx, fate, raced>>

StopClears(a) ==
  /\ App(a, "clear", "peek")
  /\ running' = FALSE
  /\ UNCHANGED <<queues, full, server, target, workProc, handle, thread, mtx, fate, raced>>

StopPeeks(a) ==
  /\ App(a, "peek", IF workProc = NoSender THEN "tell" ELSE "join")
  /\ target' = [target EXCEPT ![a] = workProc]
  /\ UNCHANGED <<queues, full, server, running, workProc, handle, thread, mtx, fate, raced>>

StopJoins(a) ==
  /\ App(a, "join", "delete")
  /\ sender[target[a]] = "ended"
  /\ fate' = IF handle[target[a]] = "joinable" THEN fate ELSE "joined twice"
  /\ handle' = [handle EXCEPT ![target[a]] = "joined"]
  /\ target' = [target EXCEPT ![a] = NoSender]
  /\ UNCHANGED <<queues, full, server, running, workProc, thread, mtx, raced>>

\* It deletes what workProc is by then, ...
StopDeletes(a) ==
  /\ App(a, "delete", "clean")
  /\ Delete
  /\ UNCHANGED <<queues, full, server, target, running, workProc, thread, mtx, raced>>

\* ... and clears it whatever it is.
StopForgets(a) ==
  /\ App(a, "clean", "tell")
  /\ workProc' = NoSender
  /\ UNCHANGED <<queues, full, server, target, running, handle, thread, mtx, fate, raced>>

StopTells(a) ==
  /\ App(a, "tell", "wait")
  /\ TellServer(FALSE)
  /\ UNCHANGED <<full, server, task, thread, mtx, fate, raced>>

-------------------------------------------------------------------------------
(* The sending thread and CLI_SndVIDEO *)

\* The thread raises the flag itself; without the file it ends at once.
SenderBegins(t) ==
  /\ \E next \in {"test", "ended"} : Send(t, "begin", next)
  /\ running' = TRUE
  /\ UNCHANGED <<queues, full, server, app, target, workProc, handle, cnt, mtx, fate, raced>>

SenderReads(t) ==
  /\ running
  /\ Send(t, "test", "send")
  /\ cnt' = [cnt EXCEPT ![t] = 0]
  /\ UNCHANGED <<queues, full, server, app, task, mtx, fate, raced>>

\* Told to stop, or the file is at its end; the flag stays as it is.
SenderEnds(t) ==
  /\ Send(t, "test", "ended")
  /\ UNCHANGED <<queues, full, server, app, task, cnt, mtx, fate, raced>>

SenderSends(t) ==
  /\ ~full
  /\ Send(t, "send", "test")
  /\ full' = TRUE
  /\ UNCHANGED <<queues, server, app, task, cnt, mtx, fate, raced>>

\* CLI_SndVIDEO tries a failed send again, ...
SenderRetries(t) ==
  /\ SendFails /\ cnt[t] < MaxCnt
  /\ Send(t, "send", "send")
  /\ cnt' = [cnt EXCEPT ![t] = @ + 1]
  /\ UNCHANGED <<queues, full, server, app, task, mtx, fate, raced>>

\* ... then tells the server and drops the frame, returning what sendMsg returned:
\* the thread goes on if the event was accepted, ...
SenderReports(t) ==
  /\ SendFails /\ cnt[t] = MaxCnt /\ Room
  /\ Send(t, "send", "test")
  /\ TellServer(FALSE)
  /\ UNCHANGED <<full, server, app, task, cnt, mtx, fate, raced>>

\* ... and wakes the daemon and ends if it was refused.
SenderGivesUp(t) ==
  /\ SendFails /\ cnt[t] = MaxCnt /\ ~Room
  /\ Send(t, "send", "ended")
  /\ mtx' = FALSE
  /\ UNCHANGED <<queues, full, server, app, task, cnt, fate, raced>>

-------------------------------------------------------------------------------

EventStep == \/ ClientReceives \/ StartRefused \/ StartPasses \/ StartDeletes
             \/ StartForgets \/ StartCreates
StopStep(a) == \/ StopClears(a) \/ StopPeeks(a) \/ StopJoins(a)
               \/ StopDeletes(a) \/ StopForgets(a) \/ StopTells(a)
SenderStep(t) == \/ SenderBegins(t) \/ SenderReads(t) \/ SenderEnds(t)
                 \/ SenderSends(t) \/ SenderRetries(t) \/ SenderReports(t)
                 \/ SenderGivesUp(t)

Next ==
  \/ \E on \in BOOLEAN : ServerAsks(on)
  \/ ServerTakes \/ ServerReceives \/ ServerDies
  \/ EventStep \/ DaemonWakes \/ \E a \in Appliers : StopStep(a)
  \/ \E t \in Senders : SenderStep(t)

Spec == Init /\ [][Next]_vars

(* Fairness: every thread of the client runs, and the server's event thread  *)
(* while it lives.  Nobody has to ask, to take frames or to die.             *)
Fairness ==
  /\ WF_vars(ServerReceives) /\ WF_vars(EventStep) /\ WF_vars(DaemonWakes)
  /\ \A a \in Appliers : WF_vars(StopStep(a))
  /\ \A t \in Senders : WF_vars(SenderStep(t))

FairSpec == Spec /\ Fairness

-------------------------------------------------------------------------------
(* Properties *)

Active == {t \in Senders : sender[t] \in {"begin", "test", "send"}}

\* As long as the event thread and the daemon were never in cli_callback at once
\* only one thread at a time pushes frames (the single sender the channel is made
\* for), although its flag is raised late, by itself, and it may end unasked.
OneSender == ~raced => \A t, u \in Active : t = u

\* Without that race a thread handle is joined once and deleted once: the only
\* way for the client to fall is the request in AlreadySending.
HandleUsedOnce == ~raced => fate \in {"alive", "deleted joinable"}

\* Both: thread and handle stay one.
OneThreadOneHandle == OneSender /\ HandleUsedOnce

\* When the server is gone the client stops sending for good, although nobody
\* tells it: its sends fail, its events fill the queue, and a refused event ends
\* the thread.
ClientGivesUp == <>[]~up => <>[](Active = {} \/ ~Alive)

\* A stop takes effect: a sending thread that has begun ends once the flag is
\* cleared, unless a request comes in between.
StopTakesEffect ==
  \A t \in Senders :
    Alive /\ ~running /\ sender[t] \in {"test", "send"}
      ~> sender[t] = "ended" \/ running \/ ~Alive

\* A request for a stream that is being sent is answered "has already send video"
\* and changes nothing; it does not end the program.
AlreadySending == fate # "deleted joinable"
===============================================================================
