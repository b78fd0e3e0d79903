------------------------------ MODULE WorkerTaskProofs ------------------------------
(* One worker and one handle, for any number of controllers and of handles    *)
(* alive at a time, when no Start or Stop runs beside a Stop.                 *)
EXTENDS WorkerTask, TLAPS

InStart(c) == pc[c] \in {"check", "joinOld", "raise", "spawn"}   \* it holds the mutex
Places == {"idle", "lock", "check", "joinOld", "raise", "spawn",
           "tell", "clear", "peek", "join", "null"}

Shape ==
  /\ isStart \in BOOLEAN /\ aborted \in BOOLEAN
  /\ workProc \in Workers \cup {NoWorker}
  /\ joinable \in [Workers -> BOOLEAN]
  /\ DOMAIN worker = Workers
  /\ pc \in [Controllers -> Places]
  /\ target \in [Controllers -> Workers \cup {NoWorker}]

\* A Stop is alone, and among the Starts the owner of the mutex.
Alone == \A c \in Controllers : InStop(c) => \A d \in Controllers \ {c} : pc[d] = "idle"
Owner == \A c \in Controllers : InStart(c) => mtx = c

\* The handle Start and Stop look at is the only one to join, a worker runs behind
\* such a handle only, and who is past the join finds none.
OneHandle == \A w \in Workers : joinable[w] => w = workProc
RunsJoinable == \A w \in Workers : Running(w) => joinable[w]
JoinsCurrent ==
  \A c \in Controllers : pc[c] \in {"joinOld", "join"} =>
    target[c] = workProc /\ workProc \in Workers /\ joinable[workProc]
Joined ==
  \A c \in Controllers : pc[c] \in {"raise", "spawn", "null"} =>
    \A w \in Workers : ~joinable[w]

\* A raised flag has somebody who will clear it.
Raised == isStart => \/ \E c \in Controllers : pc[c] = "spawn"
                     \/ \E w \in Workers : Running(w)

Sound == /\ Shape /\ Alone /\ Owner /\ OneHandle /\ RunsJoinable
         /\ JoinsCurrent /\ Joined /\ Raised /\ NoAbort

LEMMA WorkerZero == NoWorker \notin Workers
PROOF BY BoundAssumption DEF NoWorker, Workers

LEMMA SoundMeans == Sound => WorkersSound
PROOF BY DEF Sound, WorkersSound, OneWorker, OneHandle, RunsJoinable

LEMMA SoundInit == Init => Sound
PROOF
<1> SUFFICES ASSUME Init PROVE Sound
  OBVIOUS
<1>1. Shape BY DEF Init, Shape, Places
<1>2. Alone /\ Owner /\ JoinsCurrent /\ Joined
  BY DEF Init, Alone, Owner, JoinsCurrent, Joined, InStop, InStart
<1>3. OneHandle /\ RunsJoinable /\ Raised /\ NoAbort
  BY DEF Init, OneHandle, RunsJoinable, Raised, NoAbort, Running
<1> QED BY <1>1, <1>2, <1>3 DEF Sound

\* A step of a controller that touches neither worker nor handle.
LEMMA ControllerKeeps ==
  ASSUME Sound, NEW c \in Controllers, NEW from, NEW to \in Places, Goto(c, from, to),
         UNCHANGED <<workProc, joinable, worker, aborted>>,
         isStart' \in BOOLEAN, isStart' => isStart \/ to = "spawn", from # "spawn",
         target' \in [Controllers -> Workers \cup {NoWorker}],
         \A d \in Controllers \ {c} : target'[d] = target[d],
         Alone', Owner',
         to \in {"joinOld", "join"} =>
           target'[c] = workProc /\ workProc \in Workers /\ joinable[workProc],
         to \in {"raise", "spawn", "null"} => \A w \in Workers : ~joinable[w]
  PROVE  Sound'
PROOF
<1> USE DEF Sound
<1>1. \A d \in Controllers : pc'[d] = IF d = c THEN to ELSE pc[d]
  BY DEF Goto, Shape
<1>2. Shape' BY DEF Shape, Goto
<1>3. OneHandle' /\ RunsJoinable' /\ NoAbort'
  BY DEF OneHandle, RunsJoinable, NoAbort, Running
<1>4. JoinsCurrent' BY <1>1 DEF JoinsCurrent
<1>5. Joined' BY <1>1 DEF Joined
<1>6. Raised'
  <2>1. \A w \in Workers : Running(w)' <=> Running(w) BY DEF Running
  <2>2. pc[c] # "spawn" BY DEF Goto
  <2> QED BY <1>1, <2>1, <2>2 DEF Raised
<1> QED BY <1>2, <1>3, <1>4, <1>5, <1>6

\* Leaving, and going on in Start or Stop, keeps the order of the controllers.
LEMMA OrderKept ==
  ASSUME Sound, NEW c \in Controllers, NEW from, NEW to \in Places, Goto(c, from, to),
         \/ InStop(c) /\ to \in {"idle", "clear", "peek", "join", "null"} /\ mtx' = mtx
         \/ InStart(c) /\ to \in {"joinOld", "raise", "spawn"} /\ mtx' = mtx
         \/ InStart(c) /\ to = "idle"
  PROVE  Alone' /\ Owner'
PROOF
<1>1. \A d \in Controllers : pc'[d] = IF d = c THEN to ELSE pc[d]
  BY DEF Goto, Sound, Shape
<1>2. Alone' BY <1>1 DEF Sound, Alone, InStop, InStart
<1>3. Owner' BY <1>1 DEF Sound, Owner, Alone, InStop, InStart
<1> QED BY <1>2, <1>3

\* What joining the current handle, whose worker is done, leaves.
LEMMA JoinKeeps ==
  ASSUME Sound, NEW c \in Controllers, StartJoined(c) \/ StopJoined(c)
  PROVE  Sound'
PROOF
<1> USE DEF Sound
<1>0. PICK from \in {"joinOld", "join"}, to \in {"raise", "null"} :
        /\ Goto(c, from, to) /\ Join(c) /\ UNCHANGED <<isStart, workProc, mtx, worker>>
        /\ from = "join" <=> to = "null"
  BY DEF StartJoined, StopJoined
<1>1. \A d \in Controllers : pc'[d] = IF d = c THEN to ELSE pc[d]
  BY <1>0 DEF Goto, Shape
<1>2. /\ target[c] = workProc /\ workProc \in Workers /\ joinable[workProc]
      /\ worker[workProc] = "done"
  BY <1>0 DEF Goto, JoinsCurrent, Join
<1>3. \A w \in Workers : ~joinable'[w] /\ ~Running(w)
  <2>1. \A w \in Workers : joinable'[w] = IF w = workProc THEN FALSE ELSE joinable[w]
    BY <1>0, <1>2 DEF Join, Shape
  <2> QED BY <1>2, <2>1 DEF OneHandle, RunsJoinable, Running
<1>4. Shape' BY <1>0, <1>2 DEF Shape, Goto, Join, Places
<1>5. Alone' /\ Owner'
  BY <1>0, OrderKept DEF Places, InStop, InStart, Goto
<1>6. OneHandle' /\ Joined' BY <1>0, <1>3 DEF OneHandle, Joined
<1>7. \A w \in Workers : Running(w)' <=> Running(w) BY <1>0 DEF Running
<1>8. RunsJoinable' BY <1>0, <1>3, <1>7 DEF RunsJoinable
<1>9. JoinsCurrent'
  <2> SUFFICES ASSUME NEW d \in Controllers, pc'[d] \in {"joinOld", "join"} PROVE FALSE
    BY DEF JoinsCurrent
  <2>1. d # c /\ pc[d] \in {"joinOld", "join"} BY <1>1
  <2>2. InStop(d) \/ InStart(d) BY <2>1 DEF InStop, InStart
  <2> QED BY <1>0, <2>1, <2>2 DEF Alone, Owner, InStop, InStart, Goto
<1>10. Raised' BY <1>0, <1>1, <1>3, <1>7 DEF Raised, Goto
<1>11. NoAbort' BY <1>0, <1>2 DEF NoAbort, Join, Shape
<1> QED BY <1>4, <1>5, <1>6, <1>8, <1>9, <1>10, <1>11

LEMMA SpawnKeeps ==
  ASSUME Sound, NEW c \in Controllers, StartSpawns(c) PROVE Sound'
PROOF
<1> USE DEF Sound
<1>1. PICK w \in Workers : /\ workProc' = w
                          /\ worker' = [worker EXCEPT ![w] = "test"]
                          /\ joinable' = [joinable EXCEPT ![w] = TRUE]
  BY DEF StartSpawns
<1>2. /\ Goto(c, "spawn", "idle") /\ mtx' = NoOne /\ UNCHANGED <<isStart, target>>
      /\ aborted' = (aborted \/ HandleJoinable)
  BY DEF StartSpawns
<1>3. \A d \in Controllers : pc'[d] = IF d = c THEN "idle" ELSE pc[d]
  BY <1>2 DEF Goto, Shape
<1>4. \A v \in Workers : ~joinable[v] /\ ~Running(v)
  BY <1>2 DEF Goto, Joined, RunsJoinable
<1>5. Shape' BY <1>1, <1>2 DEF Shape, Goto, Places, HandleJoinable
<1>6. Alone' /\ Owner'
  BY <1>2, OrderKept DEF Goto, InStart, Places
<1>7. /\ \A v \in Workers \ {w} : joinable'[v] = joinable[v] /\ worker'[v] = worker[v]
      /\ joinable'[w] = TRUE /\ worker'[w] = "test" /\ workProc' = w
  BY <1>1 DEF Shape
<1>8. \A v \in Workers \ {w} : ~joinable'[v] /\ worker'[v] \notin {"test", "get", "exit"}
  BY <1>4, <1>7 DEF Running
<1>9. ASSUME NEW d \in Controllers,
             pc'[d] \in {"joinOld", "join", "raise", "spawn", "null"} PROVE FALSE
  <2>1. d # c /\ pc[d] = pc'[d] BY <1>3, <1>9
  <2>2. InStop(d) \/ InStart(d) BY <1>9, <2>1 DEF InStop, InStart
  <2> QED BY <1>2, <2>1, <2>2 DEF Alone, Owner, InStop, InStart, Goto
<1>10. JoinsCurrent' /\ Joined' BY <1>9 DEF JoinsCurrent, Joined
<1>11. OneHandle' BY <1>7, <1>8 DEF OneHandle
<1>12. RunsJoinable' BY <1>7, <1>8 DEF RunsJoinable, Running
<1>13. Raised' BY <1>7 DEF Raised, Running
<1>14. NoAbort'
  BY <1>2, <1>4, WorkerZero DEF NoAbort, HandleJoinable, Shape
<1> QED BY <1>5, <1>6, <1>10, <1>11, <1>12, <1>13, <1>14

\* A worker that goes on or ends; it leaves the handles alone.
LEMMA WorkerKeeps ==
  ASSUME Sound, NEW w \in Workers, WorkerStep(w) PROVE Sound'
PROOF
<1> USE DEF Sound
<1>1. UNCHANGED <<workProc, mtx, joinable, pc, target, aborted>>
  BY DEF WorkerStep, WorkerContinues, WorkerLeaves, WorkerGets, WorkerFails,
         WorkerGivesUp, WorkerExits, flags
<1>2. PICK from \in {"test", "get", "exit"}, to \in {"test", "get", "exit", "done"} :
        /\ At(w, from, to)
        /\ (isStart' = isStart /\ to # "done") \/ isStart' = FALSE
  BY DEF WorkerStep, WorkerContinues, WorkerLeaves, WorkerGets, WorkerFails,
         WorkerGivesUp, WorkerExits
<1>3. \A v \in Workers : worker'[v] = IF v = w THEN to ELSE worker[v]
  BY <1>2 DEF Shape, At
<1>4. Running(w) BY <1>2 DEF Running, At
<1>5. Shape' BY <1>1, <1>2 DEF Shape, At
<1>6. Alone' /\ Owner' /\ OneHandle' /\ JoinsCurrent' /\ Joined' /\ NoAbort'
  BY <1>1 DEF Alone, Owner, OneHandle, JoinsCurrent, Joined, NoAbort, InStart, InStop
<1>7. RunsJoinable' BY <1>1, <1>3, <1>4 DEF RunsJoinable, Running
<1>8. Raised' BY <1>1, <1>2, <1>3 DEF Raised, Running
<1> QED BY <1>5, <1>6, <1>7, <1>8

\* What Start and Stop read off HandleJoinable.
LEMMA HandleKnown ==
  ASSUME Sound
  PROVE  /\ HandleJoinable => workProc \in Workers /\ joinable[workProc]
         /\ ~HandleJoinable => \A w \in Workers : ~joinable[w]
PROOF BY WorkerZero DEF Sound, Shape, OneHandle, HandleJoinable

LEMMA StartKeeps ==
  ASSUME Sound, NEW c \in Controllers, StartStep(c) PROVE Sound'
PROOF
<1>0. Shape /\ Alone /\ Owner /\ Joined BY DEF Sound
<1>1. CASE StartLocks(c)
  <2>1. /\ Goto(c, "lock", "check") /\ mtx = NoOne /\ mtx' = c
        /\ UNCHANGED <<isStart, workProc, joinable, worker, target, aborted>>
    BY <1>1 DEF StartLocks
  <2>2. \A d \in Controllers : pc'[d] = IF d = c THEN "check" ELSE pc[d]
    BY <1>0, <2>1 DEF Goto, Shape
  <2>3. \A d \in Controllers : ~InStart(d) /\ ~InStop(d)
    BY <1>0, <2>1, ControllerAssumption DEF Alone, Owner, InStart, InStop, Goto
  <2>4. Alone' /\ Owner' BY <2>1, <2>2, <2>3 DEF Alone, Owner, InStart, InStop
  <2> QED BY <1>0, <2>1, <2>4, ControllerKeeps DEF Places, Shape
<1>2. CASE StartFindsStarted(c)
  <2>1. /\ Goto(c, "check", "idle")
        /\ UNCHANGED <<isStart, workProc, joinable, worker, target, aborted>>
    BY <1>2 DEF StartFindsStarted, flags
  <2>2. Alone' /\ Owner' BY <2>1, OrderKept DEF Goto, InStart, Places
  <2> QED BY <1>0, <2>1, <2>2, ControllerKeeps DEF Places, Shape
<1>3. CASE StartFindsStopped(c)
  <2>1. UNCHANGED <<isStart, workProc, joinable, worker, mtx, aborted>>
    BY <1>3 DEF StartFindsStopped, flags
  <2>2. CASE HandleJoinable
    <3>1. Goto(c, "check", "joinOld") /\ target' = [target EXCEPT ![c] = workProc]
      BY <1>3, <2>2 DEF StartFindsStopped
    <3>2. Alone' /\ Owner' BY <2>1, <3>1, OrderKept DEF Goto, InStart, Places
    <3>3. /\ target' \in [Controllers -> Workers \cup {NoWorker}]
          /\ \A d \in Controllers \ {c} : target'[d] = target[d]
          /\ target'[c] = workProc
      BY <1>0, <3>1 DEF Shape
    <3> QED BY <1>0, <2>1, <2>2, <3>1, <3>2, <3>3, HandleKnown, ControllerKeeps DEF Places, Shape
  <2>3. CASE ~HandleJoinable
    <3>1. Goto(c, "check", "raise") /\ UNCHANGED target
      BY <1>3, <2>3 DEF StartFindsStopped
    <3>2. Alone' /\ Owner' BY <2>1, <3>1, OrderKept DEF Goto, InStart, Places
    <3> QED BY <1>0, <2>1, <2>3, <3>1, <3>2, HandleKnown, ControllerKeeps DEF Places, Shape
  <2> QED BY <2>2, <2>3
<1>4. CASE StartJoined(c)
  BY <1>4, JoinKeeps
<1>5. CASE StartRaises(c)
  <2>1. /\ Goto(c, "raise", "spawn") /\ isStart' = TRUE
        /\ UNCHANGED <<workProc, joinable, worker, mtx, target, aborted>>
    BY <1>5 DEF StartRaises, flags
  <2>2. Alone' /\ Owner' BY <2>1, OrderKept DEF Goto, InStart, Places
  <2>3. \A w \in Workers : ~joinable[w] BY <1>0, <2>1 DEF Joined, Goto
  <2> QED BY <1>0, <2>1, <2>2, <2>3, ControllerKeeps DEF Places, Shape
<1>6. CASE StartSpawns(c)
  BY <1>6, SpawnKeeps
<1> QED BY <1>1, <1>2, <1>3, <1>4, <1>5, <1>6 DEF StartStep

LEMMA StopKeeps ==
  ASSUME Sound, NEW c \in Controllers, StopStep(c) PROVE Sound'
PROOF
<1>0. Shape /\ Alone /\ Owner /\ Joined BY DEF Sound
<1>1. CASE StopTells(c)
  <2>1. /\ Goto(c, "tell", "clear")
        /\ UNCHANGED <<isStart, workProc, joinable, worker, mtx, target, aborted>>
    BY <1>1 DEF StopTells
  <2>2. Alone' /\ Owner' BY <2>1, OrderKept DEF Goto, InStop, Places
  <2> QED BY <1>0, <2>1, <2>2, ControllerKeeps DEF Places, Shape
<1>2. CASE StopClears(c)
  <2>1. /\ Goto(c, "clear", "peek") /\ isStart' = FALSE
        /\ UNCHANGED <<workProc, joinable, worker, mtx, target, aborted>>
    BY <1>2 DEF StopClears, flags
  <2>2. Alone' /\ Owner' BY <2>1, OrderKept DEF Goto, InStop, Places
  <2> QED BY <1>0, <2>1, <2>2, ControllerKeeps DEF Places, Shape
<1>3. CASE StopPeeks(c)
  <2>1. UNCHANGED <<isStart, workProc, joinable, worker, mtx, aborted>>
    BY <1>3 DEF StopPeeks, flags
  <2>2. CASE HandleJoinable
    <3>1. Goto(c, "peek", "join") /\ target' = [target EXCEPT ![c] = workProc]
      BY <1>3, <2>2 DEF StopPeeks
    <3>2. Alone' /\ Owner' BY <2>1, <3>1, OrderKept DEF Goto, InStop, Places
    <3>3. /\ target' \in [Controllers -> Workers \cup {NoWorker}]
          /\ \A d \in Controllers \ {c} : target'[d] = target[d]
          /\ target'[c] = workProc
      BY <1>0, <3>1 DEF Shape
    <3> QED BY <1>0, <2>1, <2>2, <3>1, <3>2, <3>3, HandleKnown, ControllerKeeps DEF Places, Shape
  <2>3. CASE ~HandleJoinable
    <3>1. Goto(c, "peek", "idle") /\ UNCHANGED target
      BY <1>3, <2>3 DEF StopPeeks
    <3>2. Alone' /\ Owner' BY <2>1, <3>1, OrderKept DEF Goto, InStop, Places
    <3> QED BY <1>0, <2>1, <3>1, <3>2, ControllerKeeps DEF Places, Shape
  <2> QED BY <2>2, <2>3
<1>4. CASE StopJoined(c)
  BY <1>4, JoinKeeps
<1>5. CASE StopNulls(c)
  <2>1. /\ Goto(c, "null", "idle") /\ workProc' = NoWorker
        /\ aborted' = (aborted \/ HandleJoinable)
        /\ UNCHANGED <<isStart, joinable, worker, mtx, target>>
    BY <1>5 DEF StopNulls
  <2>2. \A d \in Controllers : pc'[d] = "idle"
    BY <1>0, <2>1 DEF Goto, Alone, InStop, Shape
  <2>3. (\A w \in Workers : ~joinable[w]) /\ ~HandleJoinable
    BY <1>0, <2>1, HandleKnown DEF Joined, Goto
  <2>4. Shape' BY <1>0, <2>1 DEF Shape, Goto, Places, HandleJoinable
  <2>5. Alone' /\ Owner' /\ JoinsCurrent' /\ Joined'
    BY <2>2 DEF Alone, Owner, JoinsCurrent, Joined, InStart, InStop
  <2>6. OneHandle' /\ RunsJoinable'
    BY <2>1, <2>3 DEF Sound, OneHandle, RunsJoinable, Running
  <2>7. Raised' BY <2>1 DEF Sound, Raised, Running, Goto, Alone, InStop
  <2>8. NoAbort' BY <2>1, <2>3 DEF Sound, NoAbort
  <2> QED BY <2>4, <2>5, <2>6, <2>7, <2>8 DEF Sound
<1> QED BY <1>1, <1>2, <1>3, <1>4, <1>5 DEF StopStep

LEMMA SoundStep == ASSUME StopsAlone, Sound, [Next]_vars PROVE Sound'
PROOF
<1>0. Shape /\ Alone /\ Owner BY DEF Sound
<1>1. ASSUME NEW c \in Controllers, CallStart(c) PROVE Sound'
  <2>1. /\ Goto(c, "idle", "lock") /\ \A d \in Controllers : ~InStop(d)
        /\ UNCHANGED <<isStart, workProc, joinable, worker, mtx, target, aborted>>
    BY <1>1 DEF CallStart, flags
  <2>2. \A d \in Controllers : pc'[d] = IF d = c THEN "lock" ELSE pc[d]
    BY <1>0, <2>1 DEF Goto, Shape
  <2>3. Alone' /\ Owner' BY <1>0, <2>1, <2>2 DEF Alone, Owner, InStart, InStop
  <2> QED BY <1>0, <2>1, <2>3, ControllerKeeps DEF Places, Shape
<1>2. ASSUME NEW c \in Controllers, CallStop(c) PROVE Sound'
  <2>1. /\ Goto(c, "idle", "tell") /\ \A d \in Controllers : pc[d] = "idle"
        /\ UNCHANGED <<isStart, workProc, joinable, worker, mtx, target, aborted>>
    BY <1>2 DEF CallStop, flags
  <2>2. \A d \in Controllers : pc'[d] = IF d = c THEN "tell" ELSE "idle"
    BY <1>0, <2>1 DEF Goto, Shape
  <2>3. Alone' /\ Owner' BY <2>2 DEF Alone, Owner, InStart, InStop
  <2> QED BY <1>0, <2>1, <2>3, ControllerKeeps DEF Places, Shape
<1>3. ASSUME NEW c \in Controllers, StartStep(c) PROVE Sound'
  BY <1>3, StartKeeps
<1>4. ASSUME NEW c \in Controllers, StopStep(c) PROVE Sound'
  BY <1>4, StopKeeps
<1>5. ASSUME NEW w \in Workers, WorkerStep(w) PROVE Sound'
  BY <1>5, WorkerKeeps
<1>6. CASE UNCHANGED vars
  BY <1>6 DEF vars, Sound, Shape, Alone, Owner, OneHandle, RunsJoinable, JoinsCurrent,
              Joined, Raised, NoAbort, Running, InStart, InStop
<1> QED BY <1>1, <1>2, <1>3, <1>4, <1>5, <1>6 DEF Next

LEMMA SoundAlways == ASSUME StopsAlone PROVE Spec => []Sound
PROOF
<1>1. Init => Sound BY SoundInit
<1>2. Sound /\ [Next]_vars => Sound' BY SoundStep
<1> QED BY <1>1, <1>2, PTL DEF Spec

\* However Start, the worker's own end and Stop meet, one worker runs at a time and no
\* handle is joined twice or lost while joinable.
THEOREM WorkersStaySound == ASSUME StopsAlone PROVE Spec => []WorkersSound
PROOF BY SoundAlways, SoundMeans, PTL

LEMMA QuietStep ==
  ASSUME Sound, [Next]_vars, Stopped
  PROVE  ~isStart /\ UNCHANGED <<told, notified, worker>>
PROOF
<1>1. \A w \in Workers : ~Running(w)
  BY WorkerZero DEF Sound, Stopped, OneHandle, RunsJoinable
<1>2. ~isStart BY <1>1 DEF Sound, Raised, Stopped
<1>3. ASSUME NEW c \in Controllers, CallStart(c) \/ CallStop(c)
      PROVE  UNCHANGED <<told, notified, worker>>
  BY <1>3 DEF CallStart, CallStop, flags
<1>4. ASSUME NEW c \in Controllers, StartStep(c) \/ StopStep(c) PROVE FALSE
  <2>1. pc[c] = "idle" BY DEF Stopped
  <2> QED
    BY <1>4, <2>1
       DEF StartStep, StopStep, StartLocks, StartFindsStarted, StartFindsStopped,
           StartJoined, StartRaises, StartSpawns, StopTells, StopClears, StopPeeks,
           StopJoined, StopNulls, Goto
<1>5. ASSUME NEW w \in Workers, WorkerStep(w) PROVE FALSE
  <2>1. worker[w] \in {"test", "get", "exit"}
    BY <1>5 DEF WorkerStep, WorkerContinues, WorkerLeaves, WorkerGets, WorkerFails,
                WorkerGivesUp, WorkerExits, At
  <2> QED BY <1>1, <2>1 DEF Running
<1>6. ASSUME UNCHANGED vars PROVE UNCHANGED <<told, notified, worker>>
  BY <1>6 DEF vars
<1>7. UNCHANGED <<told, notified, worker>>
  BY <1>3, <1>4, <1>5, <1>6 DEF Next
<1> QED BY <1>2, <1>7

\* Once Stop has returned nothing runs and nobody is told anything until Start is
\* called again.
THEOREM QuietAfterStopHolds == ASSUME StopsAlone PROVE Spec => QuietAfterStop
PROOF
<1>1. Sound /\ [Next]_vars =>
        [Stopped => ~isStart /\ UNCHANGED <<told, notified, worker>>]_vars
  <2> SUFFICES ASSUME Sound, [Next]_vars, Stopped
               PROVE  ~isStart /\ UNCHANGED <<told, notified, worker>>
    OBVIOUS
  <2> QED BY QuietStep
<1> QED BY <1>1, SoundAlways, PTL DEF Spec, QuietAfterStop

\* Who may take the flag down: Stop, or the current worker with no Start under way.
Lowers == \/ \E c \in Controllers : pc[c] = "clear"
          \/ workProc # NoWorker /\ worker[workProc] = "exit"
               /\ \A c \in Controllers : pc[c] # "spawn"

LEMMA LowersStep == ASSUME Sound, [Next]_vars, isStart, ~isStart' PROVE Lowers
PROOF
<1>1. ASSUME NEW c \in Controllers, StopClears(c) PROVE Lowers
  BY <1>1 DEF StopClears, Goto, Lowers
<1>2. ASSUME NEW w \in Workers, WorkerExits(w) PROVE Lowers
  <2>1. worker[w] = "exit" /\ Running(w) BY <1>2 DEF WorkerExits, At, Running
  <2>2. joinable[w] /\ w = workProc BY <2>1 DEF Sound, OneHandle, RunsJoinable
  <2>3. \A c \in Controllers : pc[c] # "spawn" BY <2>2 DEF Sound, Joined
  <2> QED BY <2>1, <2>2, <2>3, WorkerZero DEF Lowers
<1>3. (\E c \in Controllers : StopClears(c)) \/ (\E w \in Workers : WorkerExits(w))
  BY DEF Next, vars, flags, CallStart, CallStop, StartStep, StopStep, StartLocks,
         StartFindsStarted, StartFindsStopped, StartJoined, StartRaises, StartSpawns,
         StopTells, StopPeeks, StopJoined, StopNulls, WorkerStep, WorkerContinues,
         WorkerLeaves, WorkerGets, WorkerFails, WorkerGivesUp
<1> QED BY <1>1, <1>2, <1>3

\* A worker of an earlier Start never clears the flag raised for a later one.
THEOREM NoStaleClearHolds == ASSUME StopsAlone PROVE Spec => NoStaleClear
PROOF
<1>1. Sound /\ [Next]_vars => [isStart /\ ~isStart' => Lowers]_vars
  <2> SUFFICES ASSUME Sound, [Next]_vars, isStart, ~isStart' PROVE Lowers
    OBVIOUS
  <2> QED BY LowersStep
<1>2. Spec => [][isStart /\ ~isStart' => Lowers]_vars
  BY <1>1, SoundAlways, PTL DEF Spec
<1> QED BY <1>2 DEF NoStaleClear, Lowers
=====================================================================================
