------------------------------ MODULE WorkerTask ------------------------------
(***************************************************************************)
(* A pub_task of the API layer: the thread that pulls frames out of a      *)
(* channel (video and audio in the server, talk in the client), the        *)
(* functions Start and Stop that other threads call, and the flag isStart, *)
(* the handle workProc and the mutex they share.  Only Start takes the     *)
(* mutex.  The worker ends by itself after too many failed reads; then it  *)
(* clears isStart on its way out, so Start has to wait for an old worker   *)
(* before it raises the flag for a new one.                                *)
(***************************************************************************)
EXTENDS Naturals

CONSTANTS
  Controllers,    \* threads that call Start and Stop
  StopsAlone,     \* no Start or Stop runs beside a Stop
  MaxWorkers      \* bound: threads and handles that exist at a time

\* What distinguishes the three workers.
\*   maxFailed, needReset   MaxFailedCnt, needReset
\*   startTells             Start first sends the peer an event "true"
\*   resetTells             the worker repeats that event after needReset failures
\*   resetNotifies          ... and wakes the daemon when it cannot be sent
\*   giveUpTells            a worker that gives up sends the event "false", and
\*                          wakes the daemon when it cannot be sent
VideoTask == [maxFailed |-> 10, needReset |-> 5, startTells |-> TRUE,
              resetTells |-> TRUE, resetNotifies |-> FALSE, giveUpTells |-> TRUE]
AudioTask == [maxFailed |-> 10, needReset |-> 5, startTells |-> TRUE,
              resetTells |-> TRUE, resetNotifies |-> TRUE, giveUpTells |-> FALSE]
TalkTask == [maxFailed |-> 10, needReset |-> 5, startTells |-> FALSE,
             resetTells |-> FALSE, resetNotifies |-> FALSE, giveUpTells |-> TRUE]

Tasks == {VideoTask, AudioTask, TalkTask}

Workers == 1..MaxWorkers
NoWorker == 0
NoOne == "no one"

ASSUME ControllerAssumption == NoOne \notin Controllers
ASSUME BoundAssumption == StopsAlone \in BOOLEAN /\ MaxWorkers \in Nat

VARIABLES
  task,       \* which of the three it is
  isStart,    \* pub_task.isStart
  workProc,   \* pub_task.workProc: the worker it points to
  mtx,        \* owner of pub_task.mtx
  joinable,   \* std::thread::joinable of each worker's handle
  worker,     \* where each worker thread is
  failed,     \* failedCnt of each worker
  pc,         \* where each controller is in Start or Stop
  target,     \* the worker a controller is joining
  told,       \* the last event the peer was sent
  notified,   \* an event was refused and the daemon's mutex unlocked instead
  aborted     \* a join of a joined thread or the loss of a joinable handle

flags == <<told, notified, aborted>>
vars == <<task, isStart, workProc, mtx, joinable, worker, failed, pc, target, told,
          notified, aborted>>

TypeOK ==
  /\ task \in Tasks
  /\ isStart \in BOOLEAN
  /\ workProc \in Workers \cup {NoWorker}
  /\ mtx \in Controllers \cup {NoOne}
  /\ joinable \in [Workers -> BOOLEAN]
  /\ worker \in [Workers -> {"none", "test", "get", "exit", "done"}]
  /\ failed \in [Workers -> 0..(task.maxFailed + 1)]
  /\ pc \in [Controllers -> {"idle", "lock", "check", "joinOld", "raise", "spawn",
                             "tell", "clear", "peek", "join", "null"}]
  /\ target \in [Controllers -> Workers \cup {NoWorker}]
  /\ told \in {"nothing", "start", "stop"}
  /\ notified \in BOOLEAN
  /\ aborted \in BOOLEAN

Init ==
  /\ task \in Tasks
  /\ isStart = FALSE
  /\ workProc = NoWorker
  /\ mtx = NoOne
  /\ joinable = [w \in Workers |-> FALSE]
  /\ worker = [w \in Workers |-> "none"]
  /\ failed = [w \in Workers |-> 0]
  /\ pc = [c \in Controllers |-> "idle"]
  /\ target = [c \in Controllers |-> NoWorker]
  /\ told = "nothing" /\ notified = FALSE /\ aborted = FALSE

\* sendMsg: the event reaches the peer, or is refused (queue full or removed).
Tell(event, wakesDaemon) ==
  \/ told' = event /\ UNCHANGED notified
  \/ notified' = (notified \/ wakesDaemon) /\ UNCHANGED told

Goto(c, from, to) == pc[c] = from /\ pc' = [pc EXCEPT ![c] = to]
InStop(c) == pc[c] \in {"tell", "clear", "peek", "join", "null"}
Running(w) == worker[w] \in {"test", "get", "exit"}
HandleJoinable == workProc # NoWorker /\ joinable[workProc]

-------------------------------------------------------------------------------
(* Steps with a plausible bug.  They are not part of the specification: each   *)
(* one in the place of its original is what some property has to catch.        *)

\* Start does not wait for a worker that ended by itself.
StartIgnoresOld(c) ==
  /\ ~isStart
  /\ Goto(c, "check", "raise")
  /\ UNCHANGED <<task, isStart, workProc, mtx, joinable, worker, failed, target, flags>>

\* Stop leaves the flag to the worker.
StopKeepsFlag(c) ==
  /\ Goto(c, "clear", "peek")
  /\ UNCHANGED <<task, isStart, workProc, mtx, joinable, worker, failed, target, flags>>

\* Stop does not wait for the worker.
StopUnjoined(c) ==
  /\ Goto(c, "peek", "null")
  /\ UNCHANGED <<task, isStart, workProc, mtx, joinable, worker, failed, target, flags>>

-------------------------------------------------------------------------------
(* Start *)

CallStart(c) ==
  /\ StopsAlone => \A d \in Controllers : ~InStop(d)
  /\ Goto(c, "idle", "lock")
  /\ UNCHANGED <<task, isStart, workProc, mtx, joinable, worker, failed, target, flags>>

StartLocks(c) ==
  /\ mtx = NoOne
  /\ Goto(c, "lock", "check")
  /\ mtx' = c
  /\ IF task.startTells THEN Tell("start", FALSE) ELSE UNCHANGED <<told, notified>>
  /\ UNCHANGED <<task, isStart, workProc, joinable, worker, failed, target, aborted>>

\* "has started": return 0.
StartFindsStarted(c) ==
  /\ isStart
  /\ Goto(c, "check", "idle")
  /\ mtx' = NoOne
  /\ UNCHANGED <<task, isStart, workProc, joinable, worker, failed, target, flags>>

StartFindsStopped(c) ==
  /\ ~isStart
  /\ IF HandleJoinable
       THEN /\ Goto(c, "check", "joinOld")
            /\ target' = [target EXCEPT ![c] = workProc]
       ELSE /\ Goto(c, "check", "raise")
            /\ UNCHANGED target
  /\ UNCHANGED <<task, isStart, workProc, mtx, joinable, worker, failed, flags>>

\* join returns when the thread has ended; joining twice is fatal.
Join(c) ==
  /\ worker[target[c]] = "done"
  /\ aborted' = (aborted \/ ~joinable[target[c]])
  /\ joinable' = [joinable EXCEPT ![target[c]] = FALSE]
  /\ target' = [target EXCEPT ![c] = NoWorker]

StartJoined(c) ==
  /\ Goto(c, "joinOld", "raise")
  /\ Join(c)
  /\ UNCHANGED <<task, isStart, workProc, mtx, worker, failed, told, notified>>

StartRaises(c) ==
  /\ Goto(c, "raise", "spawn")
  /\ isStart' = TRUE
  /\ UNCHANGED <<task, workProc, mtx, joinable, worker, failed, target, flags>>

\* An identity no thread and no handle uses any more.
Free(w) == ~Running(w) /\ ~joinable[w] /\ \A c \in Controllers : target[c] # w

\* The new handle replaces the old one; losing a joinable handle is fatal.
StartSpawns(c) ==
  /\ Goto(c, "spawn", "idle")
  /\ \E w \in Workers : /\ Free(w)
                        /\ workProc' = w
                        /\ worker' = [worker EXCEPT ![w] = "test"]
                        /\ joinable' = [joinable EXCEPT ![w] = TRUE]
  /\ aborted' = (aborted \/ HandleJoinable)
  /\ mtx' = NoOne
  /\ UNCHANGED <<task, isStart, failed, target, told, notified>>

-------------------------------------------------------------------------------
(* Stop *)

CallStop(c) ==
  /\ StopsAlone => \A d \in Controllers : pc[d] = "idle"
  /\ Goto(c, "idle", "tell")
  /\ UNCHANGED <<task, isStart, workProc, mtx, joinable, worker, failed, target, flags>>

StopTells(c) ==
  /\ Goto(c, "tell", "clear")
  /\ Tell("stop", FALSE)
  /\ UNCHANGED <<task, isStart, workProc, mtx, joinable, worker, failed, target, aborted>>

StopClears(c) ==
  /\ Goto(c, "clear", "peek")
  /\ isStart' = FALSE
  /\ UNCHANGED <<task, workProc, mtx, joinable, worker, failed, target, flags>>

StopPeeks(c) ==
  /\ IF HandleJoinable
       THEN /\ Goto(c, "peek", "join")
            /\ target' = [target EXCEPT ![c] = workProc]
       ELSE /\ Goto(c, "peek", "idle")
            /\ UNCHANGED target
  /\ UNCHANGED <<task, isStart, workProc, mtx, joinable, worker, failed, flags>>

StopJoined(c) ==
  /\ Goto(c, "join", "null")
  /\ Join(c)
  /\ UNCHANGED <<task, isStart, workProc, mtx, worker, failed, told, notified>>

StopNulls(c) ==
  /\ Goto(c, "null", "idle")
  /\ aborted' = (aborted \/ HandleJoinable)
  /\ workProc' = NoWorker
  /\ UNCHANGED <<task, isStart, mtx, joinable, worker, failed, target, told, notified>>

-------------------------------------------------------------------------------
(* The worker *)

At(w, from, to) == worker[w] = from /\ worker' = [worker EXCEPT ![w] = to]

WorkerContinues(w) ==
  /\ isStart
  /\ At(w, "test", "get")
  /\ UNCHANGED <<task, isStart, workProc, mtx, joinable, failed, pc, target, flags>>

WorkerLeaves(w) ==
  /\ ~isStart
  /\ At(w, "test", "exit")
  /\ UNCHANGED <<task, isStart, workProc, mtx, joinable, failed, pc, target, flags>>

WorkerGets(w) ==
  /\ At(w, "get", "test")
  /\ failed' = [failed EXCEPT ![w] = 0]
  /\ UNCHANGED <<task, isStart, workProc, mtx, joinable, pc, target, flags>>

WorkerFails(w) ==
  /\ failed[w] <= task.maxFailed
  /\ At(w, "get", "test")
  /\ IF failed[w] = task.needReset /\ task.resetTells
       THEN Tell("start", task.resetNotifies)
       ELSE UNCHANGED <<told, notified>>
  /\ failed' = [failed EXCEPT ![w] = @ + 1]
  /\ UNCHANGED <<task, isStart, workProc, mtx, joinable, pc, target, aborted>>

WorkerGivesUp(w) ==
  /\ failed[w] > task.maxFailed
  /\ At(w, "get", "exit")
  /\ IF task.giveUpTells THEN Tell("stop", TRUE) ELSE UNCHANGED <<told, notified>>
  /\ UNCHANGED <<task, isStart, workProc, mtx, joinable, failed, pc, target, aborted>>

WorkerExits(w) ==
  /\ At(w, "exit", "done")
  /\ isStart' = FALSE
  /\ failed' = [failed EXCEPT ![w] = 0]
  /\ UNCHANGED <<task, workProc, mtx, joinable, pc, target, flags>>

-------------------------------------------------------------------------------

StartStep(c) == \/ StartLocks(c) \/ StartFindsStarted(c) \/ StartFindsStopped(c)
                \/ StartJoined(c) \/ StartRaises(c) \/ StartSpawns(c)
StopStep(c) == \/ StopTells(c) \/ StopClears(c) \/ StopPeeks(c)
               \/ StopJoined(c) \/ StopNulls(c)
WorkerStep(w) == \/ WorkerContinues(w) \/ WorkerLeaves(w) \/ WorkerGets(w)
                 \/ WorkerFails(w) \/ WorkerGivesUp(w) \/ WorkerExits(w)

Next == \/ \E c \in Controllers : \/ CallStart(c) \/ CallStop(c)
                                  \/ StartStep(c) \/ StopStep(c)
        \/ \E w \in Workers : WorkerStep(w)

Spec == Init /\ [][Next]_vars

(* Fairness: every thread runs; in particular each read of the channel        *)
(* returns (FrameChannel: a receive is a bounded wait).                       *)
Fairness == /\ \A c \in Controllers : /\ SF_vars(StartLocks(c))
                                      /\ WF_vars(StartStep(c) \/ StopStep(c))
            /\ \A w \in Workers : WF_vars(WorkerStep(w))
FairSpec == Spec /\ Fairness

-------------------------------------------------------------------------------
(* Properties *)

\* At most one worker reads the channel: the single receiver FrameChannel relies
\* on, and one reader of failedCnt and m_semReset.
OneWorker == \A v, w \in Workers : Running(v) /\ Running(w) => v = w

\* No thread handle is joined twice or dropped while joinable, either of which
\* ends the process, although Stop does not take the mutex.
NoAbort == ~aborted

\* Both: the handle is for the one worker there is.
WorkersSound == OneWorker /\ NoAbort

\* Once Stop returned, nothing runs any more and nobody is told anything, until
\* the next Start.
Stopped == /\ \A c \in Controllers : pc[c] = "idle"
           /\ workProc = NoWorker
QuietAfterStop == [][Stopped => ~isStart /\ UNCHANGED <<told, notified, worker>>]_vars

\* A raised flag is cleared by Stop or by the worker it was raised for, never by
\* a worker of an earlier Start on its way out.
NoStaleClear ==
  [][isStart /\ ~isStart' => \/ \E c \in Controllers : pc[c] = "clear"
                             \/ workProc # NoWorker /\ worker[workProc] = "exit"
                                  /\ \A c \in Controllers : pc[c] # "spawn"]_vars

\* Start and Stop return: neither waits for a worker that waits for it.
ControllersReturn == \A c \in Controllers : pc[c] # "idle" ~> pc[c] = "idle"
===============================================================================
