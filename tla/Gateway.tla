--------------------------------- MODULE Gateway ---------------------------------
(***************************************************************************)
(* The GB28181 gateway between the platform's library and the camera: what *)
(* Callback and TalkDataCallback do with the messages and the talk data of *)
(* the platform, over the server API.  Live video uses the video stream,   *)
(* live video and talk share the audio stream.  There are two programs,    *)
(* libShareDemo/gbSvr.cpp and the older hi3556/src/main.cpp.               *)
(*                                                                         *)
(* Callback is a script: the calls it makes for a message, in their order; *)
(* each call is a step.  A worker of the API (WorkerTask) is either alive  *)
(* or not; of the camera only what it was made to do is here.              *)
(***************************************************************************)
EXTENDS Naturals, Sequences

CONSTANTS
  Callers,    \* threads of the platform's library that run Callback
  Programs,   \* the programs looked at
  MaxMsgs     \* bound: messages of the platform

ASSUME GatewayAssumption == MaxMsgs \in Nat

Streams == {"video", "audio"}   \* fetched from the camera
Users == {"real", "talk"}       \* who may want them: realTimeAudio, talkAudio

GbSvrCallback == [
  online    |-> << <<"login", "on">> >>,
  offline   |-> << <<"login", "off">> >>,
  startReal |-> << <<"start", "video">>, <<"start", "audio">>, <<"want", "real">> >>,
  stopReal  |-> << <<"stop", "video">>, <<"forget", "real">>, <<"release", "audio">> >>,
  startTalk |-> << <<"talk", "on">>, <<"start", "audio">>, <<"want", "talk">> >>,
  stopTalk  |-> << <<"talk", "off">>, <<"forget", "talk">>, <<"release", "audio">> >>]

\* The older program asks for talk last and never takes it back.
Hi3556Callback == [
  online    |-> << <<"login", "on">> >>,
  offline   |-> << <<"login", "off">> >>,
  startReal |-> << <<"start", "video">>, <<"start", "audio">>, <<"want", "real">> >>,
  stopReal  |-> << <<"stop", "video">>, <<"forget", "real">>, <<"release", "audio">> >>,
  startTalk |-> << <<"start", "audio">>, <<"talk", "on">>, <<"want", "talk">> >>,
  stopTalk  |-> << <<"forget", "talk">>, <<"release", "audio">> >>]

Script == [gbSvr |-> GbSvrCallback, hi3556 |-> Hi3556Callback]
Messages == DOMAIN GbSvrCallback

VARIABLES
  program,    \* which program runs
  msgs,       \* bounded: messages delivered
  online,     \* the platform is there, as it last said
  talking,    \* the platform's talk session is on: it delivers talk data
  todo,       \* what is left of each caller's script
  wants,      \* g_audio_work_states: the users whose flag is set
  alive,      \* workers that run: isStart of g_svr_task
  feed,       \* where the thread of TalkDataCallback is
  camera,     \* what the camera was last told to do
  refused,    \* ghost: an order the queue refused and none replaced yet
  stray,      \* ghost: what a late worker or a late frame switched on
  raced       \* ghost: two callers were in Callback at once

platform == <<msgs, online, talking>>
vars == <<program, msgs, online, talking, todo, wants, alive, feed, camera,
          refused, stray, raced>>

Orders == Streams \cup {"login", "talk"}

TypeOK ==
  /\ program \in Programs
  /\ msgs \in 0..MaxMsgs
  /\ {online, talking, raced} \subseteq BOOLEAN
  /\ \A c \in Callers : Len(todo[c]) <= 3
  /\ wants \subseteq Users
  /\ alive \subseteq Streams
  /\ feed \in {"idle", "send", "again"}
  /\ camera \subseteq Orders /\ refused \subseteq Orders /\ stray \subseteq Orders

Init ==
  /\ program \in Programs
  /\ msgs = 0 /\ online = FALSE /\ talking = FALSE
  /\ todo = [c \in Callers |-> <<>>]
  /\ wants = {} /\ alive = {} /\ feed = "idle" /\ camera = {}
  /\ refused = {} /\ stray = {} /\ raced = FALSE

\* sendMsg to the camera: carried out, or refused because the queue is full.
Obeyed(order, on) ==
  /\ camera' = IF on THEN camera \cup {order} ELSE camera \ {order}
  /\ refused' = refused \ {order}
Refused(order) == refused' = refused \cup {order} /\ UNCHANGED camera
Tell(order, on) == Obeyed(order, on) \/ Refused(order)

Idle(c) == todo[c] = <<>>
Calls(c, call) == todo[c] # <<>> /\ Head(todo[c]) = call
Done(c) == todo' = [todo EXCEPT ![c] = Tail(@)]
Becomes(c, call) == todo' = [todo EXCEPT ![c] = <<call>> \o Tail(@)]

-------------------------------------------------------------------------------
(* Steps with a plausible bug.  They are not part of the specification: each   *)
(* one in the place of its original is what some property has to catch.        *)

\* The audio stream is stopped for one user although the other still wants it.
ReleaseBlindly(c) ==
  /\ Calls(c, <<"release", "audio">>)
  /\ Becomes(c, <<"stop", "audio">>)
  /\ UNCHANGED <<program, platform, wants, alive, feed, camera, refused, stray, raced>>

\* Callback forgets to check for the last user and never stops the stream.
ReleaseNever(c) ==
  /\ Calls(c, <<"release", "audio">>)
  /\ Done(c)
  /\ UNCHANGED <<program, platform, wants, alive, feed, camera, refused, stray, raced>>

\* The camera's talk worker does not count its failures.
CameraListensOn ==
  /\ "talk" \in camera /\ feed = "idle" /\ talking
  /\ camera' = camera \ {"talk"}
  /\ UNCHANGED <<program, platform, todo, wants, alive, feed, refused, stray, raced>>

\* A stop ends the worker without a word to the camera.
StopsSilently(c) ==
  /\ \E s \in Streams : Calls(c, <<"stop", s>>) /\ Becomes(c, <<"join", s>>)
  /\ UNCHANGED <<program, platform, wants, alive, feed, camera, refused, stray, raced>>

-------------------------------------------------------------------------------
(* The platform *)

\* The library calls Callback; two of its threads may do so at once.
Deliver(c) ==
  /\ msgs < MaxMsgs /\ Idle(c)
  /\ msgs' = msgs + 1
  /\ raced' = (raced \/ \E d \in Callers : ~Idle(d))
  /\ \E m \in Messages :
       /\ todo' = [todo EXCEPT ![c] = Script[program][m]]
       /\ online' = IF m \in {"online", "offline"} THEN m = "online" ELSE online
       /\ talking' = IF m \in {"startTalk", "stopTalk"} THEN m = "startTalk" ELSE talking
  /\ UNCHANGED <<program, wants, alive, feed, camera, refused, stray>>

-------------------------------------------------------------------------------
(* The calls of Callback *)

\* SVR_Login, SVR_RequestTalk and the older SVR_StartRecvAudio: one event.
Requests(c) ==
  /\ \E order \in {"login", "talk"}, on \in {"on", "off"} :
       Calls(c, <<order, on>>) /\ Tell(order, on = "on")
  /\ Done(c)
  /\ UNCHANGED <<program, platform, wants, alive, feed, stray, raced>>

\* SVR_StartGetVideo, SVR_StartGetAudio: the event, and a worker unless one runs.
Starts(c) ==
  /\ \E s \in Streams : /\ Calls(c, <<"start", s>>) /\ Tell(s, TRUE)
                        /\ alive' = alive \cup {s}
                        /\ stray' = stray \ {s}
  /\ Done(c)
  /\ UNCHANGED <<program, platform, wants, feed, raced>>

\* SVR_StopGetVideo, SVR_StopGetAudio: first the event, ...
Stops(c) ==
  /\ \E s \in Streams : /\ Calls(c, <<"stop", s>>) /\ Tell(s, FALSE)
                        /\ Becomes(c, <<"join", s>>)
                        /\ stray' = stray \ {s}
  /\ UNCHANGED <<program, platform, wants, alive, feed, raced>>

\* ... then the end of the worker.
Joins(c) ==
  /\ \E s \in Streams : Calls(c, <<"join", s>>) /\ alive' = alive \ {s}
  /\ Done(c)
  /\ UNCHANGED <<program, platform, wants, feed, camera, refused, stray, raced>>

Flags(c) ==
  /\ \E u \in Users : \/ Calls(c, <<"want", u>>) /\ wants' = wants \cup {u}
                      \/ Calls(c, <<"forget", u>>) /\ wants' = wants \ {u}
  /\ Done(c)
  /\ UNCHANGED <<program, platform, alive, feed, camera, refused, stray, raced>>

\* Without a user left the audio stream is stopped.
Releases(c) ==
  /\ Calls(c, <<"release", "audio">>)
  /\ IF wants = {} THEN Becomes(c, <<"stop", "audio">>) ELSE Done(c)
  /\ UNCHANGED <<program, platform, wants, alive, feed, camera, refused, stray, raced>>

-------------------------------------------------------------------------------
(* Talk data *)

\* The library delivers data of the session that is on.
FrameComes ==
  /\ talking /\ feed = "idle"
  /\ feed' = "send"
  /\ UNCHANGED <<program, platform, todo, wants, alive, camera, refused, stray, raced>>

FrameSent ==
  /\ feed = "send"
  /\ feed' = "idle"
  /\ UNCHANGED <<program, platform, todo, wants, alive, camera, refused, stray, raced>>

\* A talk request that comes when the session is over has nobody to undo it.
StrayTalk == stray' = IF talking THEN stray ELSE stray \cup {"talk"}

\* SVR_SndTalkAudio asks the camera for talk when the channel takes no frame, and
\* TalkDataCallback once more when that event is refused.
FrameFails ==
  /\ feed = "send"
  /\ \/ Obeyed("talk", TRUE) /\ feed' = "idle"
     \/ Refused("talk") /\ feed' = "again"
  /\ StrayTalk
  /\ UNCHANGED <<program, platform, todo, wants, alive, raced>>

AsksAgain ==
  /\ feed = "again"
  /\ Tell("talk", TRUE)
  /\ feed' = "idle"
  /\ StrayTalk
  /\ UNCHANGED <<program, platform, todo, wants, alive, raced>>

-------------------------------------------------------------------------------
(* The workers and the camera *)

\* A worker that finds no frames repeats its request, once in a row of failures;
\* it may do so between the event and the join of a stop.
WorkerRepeats(s) ==
  /\ s \in alive /\ s \notin camera
  /\ Tell(s, TRUE)
  /\ stray' = IF \E c \in Callers : Calls(c, <<"join", s>>) THEN stray \cup {s} ELSE stray
  /\ UNCHANGED <<program, platform, todo, wants, alive, feed, raced>>

\* Later it ends by itself; the video worker says so.
WorkerGivesUp(s) ==
  /\ s \in alive /\ s \notin camera
  /\ alive' = alive \ {s}
  /\ IF s = "video" THEN Tell(s, FALSE) ELSE UNCHANGED <<camera, refused>>
  /\ UNCHANGED <<program, platform, todo, wants, feed, stray, raced>>

\* The camera ends a stream by itself: its file or its patience is at an end.
CameraStops(s) ==
  /\ s \in camera
  /\ camera' = camera \ {s}
  /\ UNCHANGED <<program, platform, todo, wants, alive, feed, refused, stray, raced>>

\* CLI_StartProcTalk's worker gives up when no talk data comes.
CameraTiresOfTalk ==
  /\ "talk" \in camera /\ feed = "idle"
  /\ camera' = camera \ {"talk"}
  /\ UNCHANGED <<program, platform, todo, wants, alive, feed, refused, stray, raced>>

-------------------------------------------------------------------------------

CallbackStep(c) == \/ Requests(c) \/ Starts(c) \/ Stops(c) \/ Joins(c)
                   \/ Flags(c) \/ Releases(c)
FeedStep == FrameSent \/ FrameFails \/ AsksAgain

Next == \/ \E c \in Callers : Deliver(c) \/ CallbackStep(c)
        \/ FrameComes \/ FeedStep
        \/ \E s \in Streams : WorkerRepeats(s) \/ WorkerGivesUp(s) \/ CameraStops(s)
        \/ CameraTiresOfTalk

Spec == Init /\ [][Next]_vars

(* Fairness: the library's threads run, and the camera's talk worker counts   *)
(* its failures.  Nobody has to deliver, to repeat or to accept anything.     *)
Fairness == /\ \A c \in Callers : WF_vars(CallbackStep(c))
            /\ WF_vars(FeedStep) /\ WF_vars(CameraTiresOfTalk)
FairSpec == Spec /\ Fairness

-------------------------------------------------------------------------------
(* Properties *)

Settled == ~raced /\ \A c \in Callers : Idle(c)

\* Between messages a stream whose last user has left has no worker: stopping
\* audio waits for both users and forgets neither.
NoWorkerUnwanted ==
  Settled => /\ wants = {} => "audio" \notin alive
             /\ "real" \notin wants => "video" \notin alive

Wanted == (IF "real" \in wants THEN {"video"} ELSE {})
            \cup (IF wants # {} THEN {"audio"} ELSE {})
            \cup (IF "talk" \in wants THEN {"talk"} ELSE {})
            \cup (IF online THEN {"login"} ELSE {})

\* Between messages the camera does nothing the platform has not asked for, with
\* three exceptions: the order to stop was refused, a worker repeated its request
\* while it was being stopped, or a late frame asked for talk.
NothingUnasked ==
  Settled /\ program = "gbSvr" => camera \subseteq Wanted \cup refused \cup stray

\* A user that stays is not cut off by the other one's leaving: Callback ends the
\* audio worker only when no flag is set.
OthersKept ==
  [][~raced /\ "audio" \in alive /\ "audio" \notin alive' =>
       wants = {} \/ "audio" \notin camera]_vars

\* Whatever was refused or came late, talk falls silent once the platform has
\* ended it for good: the one stream whose end is not left to an event.
TalkFallsSilent == <>[]~talking => <>[]("talk" \notin camera)
===============================================================================
