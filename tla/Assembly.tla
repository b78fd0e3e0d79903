--------------------------------- MODULE Assembly ---------------------------------
(***************************************************************************)
(* One process that uses the API, from X_Init to the end of main: queue    *)
(* and channels are created one after the other and removed in another     *)
(* order, while the receiving thread of the queue, the daemons and the     *)
(* application's own thread already run or still run.  Pointers and        *)
(* callbacks are tested first and used later.                              *)
(*                                                                         *)
(* One daemon, one channel and one thread that sends stand for the three   *)
(* of each; how the handle of that thread goes wrong is ClientStream's.    *)
(***************************************************************************)
EXTENDS Naturals, Sequences

\* In which order init creates and deinit removes; what it does is the same for both.
ServerApi == [creates |-> <<"msg", "vid", "aud", "talk">>, removes |-> <<"vid", "aud", "talk", "msg">>]
ClientApi == [creates |-> <<"msg", "vid", "aud", "talk">>, removes |-> <<"vid", "aud", "talk", "msg">>]

\* The programs whose main returns: their API, and whether their callback starts and
\* stops a thread that sends.  The servers' callbacks only take notes.
ServerDemo == [api |-> ServerApi, sends |-> FALSE]
ClientDemo == [api |-> ClientApi, sends |-> TRUE]

VARIABLES
  prog,     \* the program
  pc, k,    \* where main is, with which object of the list
  obj,      \* the pointers: "null", "fresh" (not initialised) or "live"
  ops,      \* the application's callbacks are set
  isStart,  \* the sending thread is to go on
  sender,   \* where it is
  recv,     \* where the receiving thread of the queue is
  daemon,   \* where the daemon is
  free,     \* the daemon's mutex is free
  wrong     \* ghost: what was used by whom although it was gone

vars == <<prog, pc, k, obj, ops, isStart, sender, recv, daemon, free, wrong>>

Objects == {"msg", "vid", "aud", "talk"}

Init ==
  /\ prog \in {ServerDemo, ClientDemo}
  /\ pc = "create" /\ k = 1 /\ obj = [o \in Objects |-> "null"] /\ ops = TRUE
  /\ isStart = FALSE /\ sender = "none" /\ recv = "none"
  /\ daemon = "none" /\ free = TRUE /\ wrong = {}

Alive == pc \notin {"exited", "aborted"}
threads == <<isStart, sender, recv, daemon, free, wrong>>
objects == <<prog, pc, k, obj, ops>>

-------------------------------------------------------------------------------
(* Steps with a plausible bug.  They are not part of the specification: each   *)
(* one in the place of its original is what some property has to catch.        *)

\* deinit clears the callbacks before it ends the receiving thread.
DeinitBeginsClearing ==
  /\ pc = "run"
  /\ pc' = "remove" /\ k' = 1 /\ ops' = FALSE
  /\ UNCHANGED <<prog, obj>> /\ UNCHANGED threads

\* The sender whose frame is refused does not tell the server but tries for ever.
SenderNeverGivesUp ==
  /\ sender = "top"
  /\ sender' = CASE obj["vid"] = "null" -> "top" [] isStart -> "use" [] OTHER -> "done"
  /\ UNCHANGED objects /\ UNCHANGED <<isStart, recv, daemon, free, wrong>>

-------------------------------------------------------------------------------
(* X_Init: init, creat_daemon_task *)

Creates == prog.api.creates
Removes == prog.api.removes

Create ==
  /\ pc = "create"
  /\ obj' = [obj EXCEPT ![Creates[k]] = "fresh"] /\ pc' = "init"
  /\ UNCHANGED <<prog, k, ops>> /\ UNCHANGED threads

\* The queue's thread runs from here on, before the channels exist.
InitObject ==
  /\ pc = "init"
  /\ obj' = [obj EXCEPT ![Creates[k]] = "live"]
  /\ recv' = IF Creates[k] = "msg" THEN "wait" ELSE recv
  /\ IF k = Len(Creates) THEN pc' = "daemons" /\ k' = k ELSE pc' = "create" /\ k' = k + 1
  /\ UNCHANGED <<prog, ops, isStart, sender, daemon, free, wrong>>

\* X_Init returns -1 and leaves what there is; the programs then return.
InitFails ==
  /\ pc = "init"
  /\ pc' = "returned"
  /\ UNCHANGED <<prog, k, obj, ops>> /\ UNCHANGED threads

CreateDaemons ==
  /\ pc = "daemons"
  /\ daemon' = "lock" /\ pc' = "run"
  /\ UNCHANGED <<prog, k, obj, ops, isStart, sender, recv, free, wrong>>

-------------------------------------------------------------------------------
(* X_Deinit: deinit *)

DeinitBegins ==
  /\ pc = "run"
  /\ pc' = "remove" /\ k' = 1
  /\ UNCHANGED <<prog, obj, ops>> /\ UNCHANGED threads

\* A channel's deinit, delete and the null pointer.
RemoveChannel ==
  /\ pc = "remove" /\ Removes[k] # "msg"
  /\ obj' = [obj EXCEPT ![Removes[k]] = "null"] /\ k' = k + 1
  /\ UNCHANGED <<prog, pc, ops>> /\ UNCHANGED threads

\* deinit returns -1 in the middle; the programs then return.
RemoveFails ==
  /\ pc = "remove"
  /\ pc' = "returned"
  /\ UNCHANGED <<prog, k, obj, ops>> /\ UNCHANGED threads

\* Msg::deinit clears m_proc and joins the thread, which may be in a callback.
StopQueue ==
  /\ pc = "remove" /\ Removes[k] = "msg"
  /\ pc' = "join"
  /\ UNCHANGED <<prog, k, obj, ops>> /\ UNCHANGED threads

RemoveQueue ==
  /\ pc = "join" /\ recv = "ended"
  /\ obj' = [obj EXCEPT !["msg"] = "null"] /\ pc' = "clear"
  /\ UNCHANGED <<prog, k, ops>> /\ UNCHANGED threads

ClearOps ==
  /\ pc = "clear"
  /\ ops' = FALSE /\ pc' = "returned"
  /\ UNCHANGED <<prog, k, obj>> /\ UNCHANGED threads

\* At exit the handles of the daemons are destroyed; they are joinable.
Exit ==
  /\ pc = "returned"
  /\ pc' = IF daemon = "none" THEN "exited" ELSE "aborted"
  /\ UNCHANGED <<prog, k, obj, ops>> /\ UNCHANGED threads

-------------------------------------------------------------------------------
(* The callback: msg_proc_inner in two threads, cli_callback *)

\* After the test of the pointer the call; it starts or stops the sender.
Calls(thread, start) ==
  /\ wrong' = IF ops THEN wrong ELSE wrong \cup {<<thread, "ops">>}
  /\ isStart' = (prog.sends /\ start)
  /\ sender' = IF isStart' /\ sender = "none" THEN "top" ELSE sender

EventComes ==
  /\ Alive /\ recv = "wait"
  /\ recv' = IF ops THEN "call" ELSE "returns"
  /\ UNCHANGED objects /\ UNCHANGED <<isStart, sender, daemon, free, wrong>>

ReceiverCalls(start) ==
  /\ Alive /\ recv = "call"
  /\ Calls("recv", start)
  /\ recv' = IF start \/ sender = "none" THEN "returns" ELSE "joins"
  /\ UNCHANGED objects /\ UNCHANGED <<daemon, free>>

\* The callback's join of the sender comes back.
ReceiverJoined ==
  /\ Alive /\ recv = "joins" /\ sender \in {"done", "none"}
  /\ recv' = "returns" /\ sender' = "none"
  /\ UNCHANGED objects /\ UNCHANGED <<isStart, daemon, free, wrong>>

ReceiverReturns ==
  /\ Alive /\ recv = "returns"
  /\ recv' = IF pc = "join" THEN "ended" ELSE "wait"
  /\ UNCHANGED objects /\ UNCHANGED <<isStart, sender, daemon, free, wrong>>

\* At first the mutex is free: the first report is one nobody asked for.
DaemonWakes ==
  /\ Alive /\ daemon = "lock" /\ free
  /\ free' = FALSE /\ daemon' = IF ops THEN "call" ELSE "lock"
  /\ UNCHANGED objects /\ UNCHANGED <<isStart, sender, recv, wrong>>

DaemonCalls ==
  /\ Alive /\ daemon = "call"
  /\ Calls("daemon", FALSE)
  /\ daemon' = IF sender = "none" THEN "lock" ELSE "joins"
  /\ UNCHANGED objects /\ UNCHANGED <<recv, free>>

DaemonJoined ==
  /\ Alive /\ daemon = "joins" /\ sender \in {"done", "none"}
  /\ daemon' = "lock" /\ sender' = "none"
  /\ UNCHANGED objects /\ UNCHANGED <<isStart, recv, free, wrong>>

-------------------------------------------------------------------------------
(* The sending thread in CLI_SndVIDEO, CLI_SndAudio: sendVideo, sendMsg *)

SenderTests ==
  /\ sender = "top"
  /\ sender' = CASE ~isStart -> "done" [] obj["vid"] = "null" -> "tell" [] OTHER -> "use"
  /\ UNCHANGED objects /\ UNCHANGED <<isStart, recv, daemon, free, wrong>>

\* A channel that is not ready refuses; six refusals in a row are told to the server.
SenderUses ==
  /\ sender = "use"
  /\ sender' \in IF obj["vid"] = "live" THEN {"top", "tell"} ELSE {"tell"}
  /\ wrong' = IF obj["vid"] = "null" THEN wrong \cup {<<"sender", "vid">>} ELSE wrong
  /\ UNCHANGED objects /\ UNCHANGED <<isStart, recv, daemon, free>>

\* Without a queue the mutex of the daemon is freed instead.
SenderTells ==
  /\ sender = "tell"
  /\ IF obj["msg"] = "null" THEN sender' = "done" /\ free' = TRUE
                            ELSE sender' = "send" /\ free' = free
  /\ UNCHANGED objects /\ UNCHANGED <<isStart, recv, daemon, wrong>>

SenderSends ==
  /\ sender = "send"
  /\ \/ sender' = "top" /\ free' = free
     \/ sender' = "done" /\ free' = TRUE
  /\ wrong' = IF obj["msg"] = "null" THEN wrong \cup {<<"sender", "msg">>} ELSE wrong
  /\ UNCHANGED objects /\ UNCHANGED <<isStart, recv, daemon>>

-------------------------------------------------------------------------------

MainStep == \/ Create \/ InitObject \/ InitFails \/ CreateDaemons \/ DeinitBegins \/ RemoveChannel
            \/ RemoveFails \/ StopQueue \/ RemoveQueue \/ ClearOps \/ Exit
ReceiverStep == (\E start \in BOOLEAN : ReceiverCalls(start)) \/ ReceiverJoined \/ ReceiverReturns
DaemonStep == DaemonWakes \/ DaemonCalls \/ DaemonJoined
SenderStep == Alive /\ (SenderTests \/ SenderUses \/ SenderTells \/ SenderSends)

Next == MainStep \/ EventComes \/ ReceiverStep \/ DaemonStep \/ SenderStep

Spec == Init /\ [][Next]_vars
          /\ WF_vars(RemoveQueue) /\ WF_vars(ReceiverStep) /\ WF_vars(DaemonStep) /\ WF_vars(SenderStep)

-------------------------------------------------------------------------------
(* Properties *)

\* The order of deinit protects the receiving thread: its callbacks are cleared only
\* when it has ended.  Nothing protects the daemon's callback, and in the client demo,
\* which does not stop its sender first, channel and queue are deleted under it.
WrongUses ==
  wrong \subseteq IF prog.sends THEN {<<"daemon", "ops">>, <<"sender", "vid">>, <<"sender", "msg">>}
                                ELSE {<<"daemon", "ops">>}

\* deinit is not stuck behind a callback: even a receiving thread that joins the sender,
\* whose channel is gone by then, comes back.
JoinsCallback == pc = "join" /\ recv # "wait"
CallbackReturns == JoinsCallback ~> ~JoinsCallback

\* A sender that ended because channel and queue refused it is cleaned up by the
\* daemon, for the server can no longer ask for it.
Refused == sender = "done" /\ daemon # "none" /\ ops /\ Alive
RefusedIsJoined == Refused ~> ~Refused

\* Neither deinit nor the daemon waits for ever.
NobodyStuck == CallbackReturns /\ RefusedIsJoined

\* Why the receiving thread never meets cleared callbacks, and why a program that does
\* not send uses nothing else: what the proof carries through every step.
Protected ==
  /\ prog.sends \in BOOLEAN /\ ops \in BOOLEAN
  /\ ops => pc # "clear" \/ recv = "ended"
  /\ ~ops => recv = "ended" /\ pc \in {"returned", "exited", "aborted"}
  /\ ~prog.sends => sender = "none"
  /\ WrongUses
===============================================================================
