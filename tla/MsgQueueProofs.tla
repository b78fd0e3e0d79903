------------------------------ MODULE MsgQueueProofs ------------------------------
(* One queue for both processes, and no thread behind a dead object, for any  *)
(* number of inodes, starts and events.                                       *)
EXTENDS MsgQueue, SequenceTheorems, FiniteSetTheorems, TLAPS

Places == {"down", "ftok", "lookup", "create", "up", "join", "rmid", "unlink"}

Shape ==
  /\ file \in Inodes \cup {NoFile}
  /\ queueAt \in [Inodes -> Nat] /\ created \in Nat
  /\ main \in [Procs -> Places] /\ DOMAIN thread = Procs
  /\ DOMAIN key = Procs /\ DOMAIN msgid = Procs
  /\ removed \in BOOLEAN

Threadless == {"down", "ftok", "lookup", "create", "rmid", "unlink"}
ThreadWithObject == \A p \in Procs : main[p] \in Threadless => thread[p] = "none"

\* Before anything was removed there is one file with one inode: only its key is
\* used, and only the queue under it.
OneKey == \A p \in Procs : /\ key[p] \in {NoFile, file}
                           /\ main[p] \in {"lookup", "create"} => key[p] # NoFile
OnePlace == \A i \in Inodes : queueAt[i] # NoQueue => i = file
OneQueue == \A p \in Procs : msgid[p] # NoQueue => file \in Inodes /\ queueAt[file] = msgid[p]
NotUnlinked == \A p \in Procs : main[p] # "unlink"
OneFile == OneKey /\ OnePlace /\ OneQueue /\ NotUnlinked

Joint == Shape /\ ThreadWithObject /\ (~removed => OneFile)

LEMMA JointInit == Init => Joint
PROOF
<1> SUFFICES ASSUME Init PROVE Joint
  OBVIOUS
<1>1. Shape BY DEF Init, Shape, Places, NoQueue
<1>2. ThreadWithObject BY DEF Init, ThreadWithObject
<1>3. OneFile BY DEF Init, OneFile, OneKey, OnePlace, OneQueue, NotUnlinked
<1> QED BY <1>1, <1>2, <1>3 DEF Joint

LEMMA JointMeans == Joint => Connected /\ NoThreadAfterDeinit
PROOF
<1> SUFFICES ASSUME Joint PROVE Connected /\ NoThreadAfterDeinit
  OBVIOUS
<1>1. NoThreadAfterDeinit
  BY DEF Joint, ThreadWithObject, NoThreadAfterDeinit, Threadless
<1>2. Connected
  BY DEF Joint, OneFile, OneQueue, Connected, Live, Procs
<1> QED BY <1>1, <1>2

\* A step of the thread, a message sent or received, a failed look at the queue: the
\* controlling thread stays where it is.
LEMMA ThreadKeeps ==
  ASSUME Joint, UNCHANGED <<file, queueAt, created, main, key, msgid, removed>>,
         DOMAIN thread' = Procs,
         \A p \in Procs : thread[p] = "none" => thread'[p] = "none"
  PROVE  Joint'
PROOF
<1>1. Shape' BY DEF Joint, Shape
<1>2. ThreadWithObject' BY DEF Joint, ThreadWithObject
<1>3. OneFile => OneFile' BY DEF OneFile, OneKey, OnePlace, OneQueue, NotUnlinked
<1> QED BY <1>1, <1>2, <1>3 DEF Joint

\* A step of the controlling thread that leaves file and queues alone and the object
\* as it is, or forgets it.
LEMMA MainKeeps ==
  ASSUME Joint, NEW p \in Procs, NEW from, NEW to \in Places \ {"unlink", "lookup"},
         Step(p, from, to), from = "lookup" \/ to # "create",
         UNCHANGED <<file, queueAt, created, removed>>,
         \/ UNCHANGED <<key, msgid>>
         \/ Forget(p) /\ to = "down",
         DOMAIN thread' = Procs,
         \A q \in Procs : thread[q] = "none" => thread'[q] = "none",
         to \in Threadless => from \in Threadless \/ thread'[p] = "none"
  PROVE  Joint'
PROOF
<1>1. \A q \in Procs : main'[q] = IF q = p THEN to ELSE main[q]
  BY DEF Step, Joint, Shape
<1>2. main[p] = from BY DEF Step
<1>3. Shape' BY DEF Joint, Shape, Step, Forget
<1>4. ThreadWithObject' BY <1>1, <1>2 DEF Joint, ThreadWithObject
<1>5. /\ \A q \in Procs : /\ key'[q] = key[q] \/ (key'[q] = NoFile /\ q = p /\ to = "down")
                          /\ msgid'[q] = msgid[q] \/ msgid'[q] = NoQueue
  BY DEF Forget, Joint, Shape
<1>6. ASSUME OneFile PROVE OneFile'
  <2>1. OneKey' BY <1>1, <1>2, <1>5, <1>6 DEF OneFile, OneKey
  <2>2. OnePlace' BY <1>6 DEF OneFile, OnePlace
  <2>3. OneQueue' BY <1>5, <1>6 DEF OneFile, OneQueue
  <2>4. NotUnlinked' BY <1>1, <1>6 DEF OneFile, NotUnlinked
  <2> QED BY <2>1, <2>2, <2>3, <2>4 DEF OneFile
<1> QED BY <1>3, <1>4, <1>6 DEF Joint

LEMMA InitKeeps ==
  ASSUME Joint, NEW p \in Procs, InitOpen(p) \/ InitStep(p) PROVE Joint'
PROOF
<1>0. Shape /\ ThreadWithObject BY DEF Joint
<1>1. CASE InitOpen(p)
  <2>1. /\ Step(p, "down", "ftok") /\ file' \in Inodes \cup {NoFile}
        /\ file' = file \/ file = NoFile
        /\ UNCHANGED <<queueAt, created, key, msgid, thread, removed>>
    BY <1>0, <1>1 DEF InitOpen, kernel, object, history, Shape
  <2>2. \A q \in Procs : main'[q] = IF q = p THEN "ftok" ELSE main[q]
    BY <1>0, <2>1 DEF Step, Shape
  <2>3. Shape' BY <1>0, <2>1 DEF Shape, Step, Places
  <2>4. ThreadWithObject' BY <1>0, <2>1, <2>2 DEF ThreadWithObject, Threadless, Step
  <2>5. ASSUME OneFile PROVE OneFile'
    <3>1. OneKey' BY <2>1, <2>2, <2>5 DEF OneFile, OneKey
    <3>2. OnePlace' BY <1>0, <2>1, <2>5, InodeAssumption DEF OneFile, OnePlace, Shape
    <3>3. OneQueue' BY <2>1, <2>5, InodeAssumption DEF OneFile, OneQueue
    <3>4. NotUnlinked' BY <2>2, <2>5 DEF OneFile, NotUnlinked
    <3> QED BY <3>1, <3>2, <3>3, <3>4 DEF OneFile
  <2> QED BY <2>1, <2>3, <2>4, <2>5 DEF Joint
<1>2. CASE InitFtok(p)
  <2>1. /\ Step(p, "ftok", "lookup") /\ file # NoFile /\ key' = [key EXCEPT ![p] = file]
        /\ UNCHANGED <<file, queueAt, created, msgid, thread, removed>>
    BY <1>2 DEF InitFtok, kernel, history
  <2>2. \A q \in Procs : main'[q] = IF q = p THEN "lookup" ELSE main[q]
    BY <1>0, <2>1 DEF Step, Shape
  <2>3. Shape' BY <1>0, <2>1 DEF Shape, Step, Places
  <2>4. ThreadWithObject' BY <1>0, <2>1, <2>2 DEF ThreadWithObject, Threadless, Step
  <2>5. OneFile => OneFile'
    BY <1>0, <2>1, <2>2 DEF OneFile, OneKey, OnePlace, OneQueue, NotUnlinked, Shape
  <2> QED BY <2>1, <2>3, <2>4, <2>5 DEF Joint
<1>3. CASE InitFtokFails(p)
  <2>1. /\ Step(p, "ftok", "down")
        /\ UNCHANGED <<file, queueAt, created, key, msgid, thread, removed>>
    BY <1>3 DEF InitFtokFails, kernel, object, history
  <2> QED BY <1>0, <2>1, MainKeeps DEF Places, Shape, Threadless
<1>4. CASE InitFound(p)
  <2>1. /\ Step(p, "lookup", "up") /\ queueAt[key[p]] # NoQueue
        /\ msgid' = [msgid EXCEPT ![p] = queueAt[key[p]]]
        /\ thread' = [thread EXCEPT ![p] = "starting"]
        /\ UNCHANGED <<file, queueAt, created, key, removed>>
    BY <1>4 DEF InitFound, Attach, kernel, history
  <2>2. \A q \in Procs : main'[q] = IF q = p THEN "up" ELSE main[q]
    BY <1>0, <2>1 DEF Step, Shape
  <2>3. Shape' BY <1>0, <2>1 DEF Shape, Step, Places
  <2>4. ThreadWithObject' BY <1>0, <2>1, <2>2 DEF ThreadWithObject, Threadless, Shape
  <2>5. ASSUME OneFile PROVE OneFile'
    <3>1. key[p] = file /\ file \in Inodes
      BY <1>0, <2>1, <2>5 DEF OneFile, OneKey, Shape, Step
    <3>2. OneQueue' BY <1>0, <2>1, <2>5, <3>1 DEF OneFile, OneQueue, Shape
    <3> QED BY <2>1, <2>2, <2>5, <3>2 DEF OneFile, OneKey, OnePlace, NotUnlinked
  <2> QED BY <2>1, <2>3, <2>4, <2>5 DEF Joint
<1>5. CASE InitNotFound(p)
  <2>1. /\ Step(p, "lookup", "create")
        /\ UNCHANGED <<file, queueAt, created, key, msgid, thread, removed>>
    BY <1>5 DEF InitNotFound, kernel, object, history
  <2> QED BY <1>0, <2>1, MainKeeps DEF Places, Shape, Threadless
<1>6. CASE InitCreate(p)
  <2>1. /\ Step(p, "create", "up") /\ UNCHANGED <<file, key, removed>>
        /\ thread' = [thread EXCEPT ![p] = "starting"]
    BY <1>6 DEF InitCreate, Attach, history
  <2>2. \A q \in Procs : main'[q] = IF q = p THEN "up" ELSE main[q]
    BY <1>0, <2>1 DEF Step, Shape
  <2>3. ThreadWithObject' BY <1>0, <2>1, <2>2 DEF ThreadWithObject, Threadless, Shape
  <2>4. CASE queueAt[key[p]] = NoQueue
    <3>1. /\ created' = created + 1 /\ queueAt' = [queueAt EXCEPT ![key[p]] = created + 1]
          /\ msgid' = [msgid EXCEPT ![p] = created + 1]
      BY <1>6, <2>4 DEF InitCreate, Attach
    <3>2. created + 1 \in Nat /\ created + 1 # NoQueue BY <1>0 DEF Shape, NoQueue
    <3>3. Shape' BY <1>0, <2>1, <3>1, <3>2 DEF Shape, Step, Places
    <3>4. ASSUME OneFile PROVE OneFile'
      <4>1. key[p] = file /\ file \in Inodes
        BY <1>0, <2>1, <3>4 DEF OneFile, OneKey, Shape, Step
      <4>2. \A q \in Procs : msgid[q] = NoQueue
        BY <2>4, <3>4, <4>1 DEF OneFile, OneQueue
      <4>3. \A i \in Inodes : queueAt'[i] = IF i = file THEN created + 1 ELSE queueAt[i]
        BY <1>0, <3>1, <4>1 DEF Shape
      <4>4. OneQueue' BY <1>0, <2>1, <3>1, <4>1, <4>2, <4>3 DEF OneQueue, Shape
      <4>5. OnePlace' BY <2>1, <3>4, <4>3 DEF OneFile, OnePlace
      <4> QED BY <2>1, <2>2, <3>4, <4>4, <4>5 DEF OneFile, OneKey, NotUnlinked
    <3> QED BY <2>1, <2>3, <3>3, <3>4 DEF Joint
  <2>5. CASE queueAt[key[p]] # NoQueue
    <3>1. /\ UNCHANGED <<queueAt, created>>
          /\ msgid' = [msgid EXCEPT ![p] = queueAt[key[p]]]
      BY <1>6, <2>5 DEF InitCreate, Attach
    <3>2. Shape' BY <1>0, <2>1, <3>1 DEF Shape, Step, Places
    <3>3. ASSUME OneFile PROVE OneFile'
      <4>1. key[p] = file /\ file \in Inodes
        BY <1>0, <2>1, <3>3 DEF OneFile, OneKey, Shape, Step
      <4>2. OneQueue' BY <1>0, <2>1, <3>1, <3>3, <4>1 DEF OneFile, OneQueue, Shape
      <4> QED BY <2>1, <2>2, <3>1, <3>3, <4>2 DEF OneFile, OneKey, OnePlace, NotUnlinked
    <3> QED BY <2>1, <2>3, <3>2, <3>3 DEF Joint
  <2> QED BY <2>4, <2>5
<1> QED BY <1>1, <1>2, <1>3, <1>4, <1>5, <1>6 DEF InitStep

LEMMA DeinitKeeps ==
  ASSUME Joint, NEW p \in Procs, DeinitStop(p) \/ DeinitStep(p) \/ Crash(p) PROVE Joint'
PROOF
<1>0. Shape /\ ThreadWithObject BY DEF Joint
<1>1. CASE DeinitStop(p)
  <2>1. /\ Step(p, "up", "join")
        /\ UNCHANGED <<file, queueAt, created, key, msgid, thread, removed>>
    BY <1>1 DEF DeinitStop, kernel, object, history
  <2> QED BY <1>0, <2>1, MainKeeps DEF Places, Shape, Threadless
<1>2. CASE DeinitJoined(p)
  <2>1. /\ thread' = [thread EXCEPT ![p] = "none"]
        /\ UNCHANGED <<file, queueAt, created, removed>>
    BY <1>2 DEF DeinitJoined, kernel, history
  <2>2. /\ DOMAIN thread' = Procs /\ thread'[p] = "none"
        /\ \A q \in Procs : thread[q] = "none" => thread'[q] = "none"
    BY <1>0, <2>1 DEF Shape
  <2>3. CASE isCreator[p]
    <3>1. Step(p, "join", "rmid") /\ UNCHANGED <<key, msgid>>
      BY <1>2, <2>3 DEF DeinitJoined, object
    <3> QED BY <2>1, <2>2, <3>1, MainKeeps DEF Places
  <2>4. CASE ~isCreator[p]
    <3>1. Step(p, "join", "down") /\ Forget(p) BY <1>2, <2>4 DEF DeinitJoined
    <3> QED BY <2>1, <2>2, <3>1, MainKeeps DEF Places
  <2> QED BY <2>3, <2>4
<1>3. CASE DeinitRemoves(p)
  <2>1. /\ Step(p, "rmid", "unlink") /\ removed' = TRUE
        /\ queueAt' = [i \in Inodes |-> IF queueAt[i] = msgid[p] THEN NoQueue ELSE queueAt[i]]
        /\ UNCHANGED <<file, created, key, msgid, thread>>
    BY <1>3 DEF DeinitRemoves, object
  <2>2. Shape' BY <1>0, <2>1 DEF Shape, Step, Places, NoQueue
  <2>3. ThreadWithObject' BY <1>0, <2>1 DEF ThreadWithObject, Threadless, Step, Shape
  <2> QED BY <2>1, <2>2, <2>3 DEF Joint
<1>4. CASE DeinitRemoveFails(p)
  <2>1. /\ Step(p, "rmid", "down") /\ Forget(p)
        /\ UNCHANGED <<file, queueAt, created, thread, removed>>
    BY <1>4 DEF DeinitRemoveFails, kernel, history
  <2> QED BY <1>0, <2>1, MainKeeps DEF Places, Shape, Threadless
<1>5. CASE DeinitUnlinks(p)
  <2>1. /\ Step(p, "unlink", "down") /\ Forget(p) /\ file' = NoFile
        /\ UNCHANGED <<queueAt, created, thread, removed>>
    BY <1>5 DEF DeinitUnlinks, kernel, history
  <2>2. Shape' BY <1>0, <2>1 DEF Shape, Step, Places, Forget
  <2>3. main[p] = "unlink" BY <2>1 DEF Step
  <2>4. removed BY <1>0, <2>3 DEF Joint, OneFile, NotUnlinked, Shape
  <2>5. thread[p] = "none" BY <1>0, <2>3 DEF ThreadWithObject, Threadless
  <2>6. ThreadWithObject' BY <1>0, <2>1, <2>5 DEF ThreadWithObject, Step, Shape
  <2> QED BY <2>1, <2>2, <2>4, <2>6 DEF Joint
<1>6. CASE Crash(p)
  <2>1. /\ main' = [main EXCEPT ![p] = "down"] /\ thread' = [thread EXCEPT ![p] = "none"]
        /\ Forget(p) /\ UNCHANGED <<file, queueAt, created, removed>>
    BY <1>6 DEF Crash, kernel
  <2>2. /\ DOMAIN thread' = Procs /\ thread'[p] = "none"
        /\ \A q \in Procs : thread[q] = "none" => thread'[q] = "none"
    BY <1>0, <2>1 DEF Shape
  <2>3. Step(p, main[p], "down") BY <2>1 DEF Step
  <2> QED BY <2>1, <2>2, <2>3, MainKeeps DEF Places
<1> QED BY <1>1, <1>2, <1>3, <1>4, <1>5, <1>6 DEF DeinitStep

LEMMA JointStep == Joint /\ [Next]_vars => Joint'
PROOF
<1> SUFFICES ASSUME Joint, [Next]_vars PROVE Joint'
  OBVIOUS
<1>1. ASSUME NEW p \in Procs, InitOpen(p) \/ InitStep(p) PROVE Joint'
  BY <1>1, InitKeeps
<1>2. ASSUME NEW p \in Procs, Send(p) PROVE Joint'
  BY <1>2, ThreadKeeps DEF Send, object, Joint, Shape
<1>3. ASSUME NEW p \in Procs, ThreadStep(p) PROVE Joint'
  <2>1. UNCHANGED <<file, queueAt, created, main, key, msgid, removed>>
    BY <1>3 DEF ThreadStep, ThreadStarts, ThreadContinues, ThreadEnds, ThreadReceives,
                ThreadFails, ThreadCallback, kernel, object, history
  <2>2. PICK from, to : from # "none" /\ Run(p, from, to)
    BY <1>3 DEF ThreadStep, ThreadStarts, ThreadContinues, ThreadEnds, ThreadReceives,
                ThreadFails, ThreadCallback
  <2>3. /\ DOMAIN thread' = Procs
        /\ \A q \in Procs : thread[q] = "none" => thread'[q] = "none"
    BY <2>2 DEF Run, Joint, Shape
  <2> QED BY <2>1, <2>3, ThreadKeeps
<1>4. ASSUME NEW p \in Procs, DeinitStop(p) \/ DeinitStep(p) \/ Crash(p) PROVE Joint'
  BY <1>4, DeinitKeeps
<1>5. CASE UNCHANGED vars
  BY <1>5, ThreadKeeps DEF vars, Joint, Shape
<1> QED BY <1>1, <1>2, <1>3, <1>4, <1>5 DEF Next

LEMMA JointAlways == Spec => []Joint
PROOF BY JointInit, JointStep, PTL DEF Spec

\* Until a creator's deinit has removed a queue, both processes talk over the same
\* live queue, in whatever order they start, die and start again.
THEOREM ConnectedHolds == Spec => []Connected
PROOF BY JointAlways, JointMeans, PTL

\* The receiving thread is joined before the object it calls back from is gone.
THEOREM NoThreadAfterDeinitHolds == Spec => []NoThreadAfterDeinit
PROOF BY JointAlways, JointMeans, PTL
-----------------------------------------------------------------------------------
(* Where an event is.  It goes from the queue into the hand of the receiving  *)
(* thread and from there to the callback, one after the other, and leaves     *)
(* this way only when the process dies or the queue is removed.               *)

Pending(p) == IF main[p] \in {"ftok", "lookup", "create"} THEN 1 ELSE 0
Starting(p) == starts[p] - Pending(p)

QueueShape ==
  /\ queueAt \in [Inodes -> QueueIds \cup {NoQueue}]
  /\ msgs \in [QueueIds -> Seq(Messages)]
  /\ inHand \in [Procs -> Seq(Messages)] /\ \A p \in Procs : Len(inHand[p]) <= 1
  /\ got \in [Procs -> Seq(Messages)]
  /\ sent \in [Procs -> 0..MaxSends]

\* A queue is created by a process that has been started for it.
Numbered ==
  /\ starts \in [Procs -> 0..MaxStarts]
  /\ created <= Starting("client") + Starting("server")

\* Events are in a queue that is found, and in the hand of a thread that calls back.
LiveOnly == \A q \in QueueIds : msgs[q] # <<>> => Live(q)
HandBusy == \A p \in Procs : inHand[p] # <<>> => thread[p] = "callback"

Pool == UNION {ToSet(msgs[q]) : q \in QueueIds}
Past(p) == ToSet(got[p]) \cup ToSet(inHand[p])
Future(p) == {m \in Pool : m.type = RecvType(p)}
Died(p) == {d \in dropped : d.from = Peer(p)}

\* Types and senders agree.
Routed ==
  /\ Pool \subseteq Messages /\ \A m \in Pool : m.type = SendType(m.from)
  /\ \A p \in Procs : Past(p) \subseteq Messages /\ \A m \in Past(p) : m.from = Peer(p)

\* Numbers ascend: in what was received, from there to the hand, to the queue, and
\* within the queue among the events of one type.
Ascend(s, t) == \A i \in 1..Len(s) : \A j \in 1..Len(t) : s[i].n < t[j].n
InGot == \A p \in Procs :
           /\ \A i, j \in 1..Len(got[p]) : i < j => got[p][i].n < got[p][j].n
           /\ Ascend(got[p], inHand[p])
InTime == \A p \in Procs :
            /\ \A a \in Past(p), b \in Future(p) : a.n < b.n
            /\ \A m \in Past(p) \cup Future(p) : m.n <= sent[Peer(p)]
InQueue == \A q \in QueueIds : \A i, j \in 1..Len(msgs[q]) :
             i < j /\ msgs[q][i].type = msgs[q][j].type => msgs[q][i].n < msgs[q][j].n
InLine == InGot /\ InTime /\ InQueue

Accounted ==
  \A p \in Procs :
    {m.n : m \in Past(p) \cup Future(p) \cup Died(p)} = 1..sent[Peer(p)]

Conveyed == /\ QueueShape /\ Numbered /\ LiveOnly /\ HandBusy /\ Routed
            /\ ~InodeReturns => InLine
            /\ ~removed => Accounted

\* The sequences of the queues: what is in them, and what an append, a removal and a
\* concatenation leave.
LEMMA SetOfSeq ==
  ASSUME NEW S, NEW s \in Seq(S)
  PROVE  ToSet(s) = {s[i] : i \in 1..Len(s)} /\ ToSet(s) \subseteq S /\ Len(s) \in Nat
PROOF BY LenProperties, ElementOfSeq DEF ToSet

LEMMA Appended ==
  ASSUME NEW S, NEW s \in Seq(S), NEW m \in S
  PROVE  /\ Append(s, m) \in Seq(S) /\ Len(Append(s, m)) = Len(s) + 1
         /\ \A i \in 1..(Len(s) + 1) : Append(s, m)[i] = IF i = Len(s) + 1 THEN m ELSE s[i]
         /\ ToSet(Append(s, m)) = ToSet(s) \cup {m}
PROOF
<1>1. /\ Append(s, m) \in Seq(S) /\ Len(Append(s, m)) = Len(s) + 1 /\ Len(s) \in Nat
      /\ \A i \in 1..(Len(s) + 1) : Append(s, m)[i] = IF i = Len(s) + 1 THEN m ELSE s[i]
  BY AppendProperties, LenProperties
<1>2. ToSet(Append(s, m)) = {Append(s, m)[i] : i \in 1..(Len(s) + 1)}
  BY <1>1, SetOfSeq
<1>3. ToSet(s) = {s[i] : i \in 1..Len(s)} BY SetOfSeq
<1>4. \A x \in ToSet(Append(s, m)) : x \in ToSet(s) \cup {m}
  BY <1>1, <1>2, <1>3
<1>5. \A x \in ToSet(s) : x \in ToSet(Append(s, m))
  <2>1. TAKE x \in ToSet(s)
  <2>2. PICK i \in 1..Len(s) : x = s[i] BY <1>3
  <2>3. i \in 1..(Len(s) + 1) /\ Append(s, m)[i] = x BY <1>1, <2>2
  <2> QED BY <1>2, <2>3
<1>6. m \in ToSet(Append(s, m))
  <2>1. Len(s) + 1 \in 1..(Len(s) + 1) /\ Append(s, m)[Len(s) + 1] = m BY <1>1
  <2> QED BY <1>2, <2>1
<1> QED BY <1>1, <1>4, <1>5, <1>6

LEMMA Joined ==
  ASSUME NEW S, NEW s \in Seq(S), NEW t \in Seq(S)
  PROVE  /\ s \o t \in Seq(S) /\ Len(s \o t) = Len(s) + Len(t)
         /\ \A i \in 1..(Len(s) + Len(t)) :
              (s \o t)[i] = IF i <= Len(s) THEN s[i] ELSE t[i - Len(s)]
         /\ ToSet(s \o t) = ToSet(s) \cup ToSet(t)
PROOF
<1>1. /\ s \o t \in Seq(S) /\ Len(s \o t) = Len(s) + Len(t)
      /\ \A i \in 1..(Len(s) + Len(t)) :
           (s \o t)[i] = IF i <= Len(s) THEN s[i] ELSE t[i - Len(s)]
      /\ Len(s) \in Nat /\ Len(t) \in Nat
  BY ConcatProperties, LenProperties
<1>2. /\ ToSet(s \o t) = {(s \o t)[i] : i \in 1..(Len(s) + Len(t))}
      /\ ToSet(s) = {s[i] : i \in 1..Len(s)} /\ ToSet(t) = {t[i] : i \in 1..Len(t)}
  BY <1>1, SetOfSeq
<1>3. ASSUME NEW x \in ToSet(s \o t) PROVE x \in ToSet(s) \cup ToSet(t)
  <2>1. PICK i \in 1..(Len(s) + Len(t)) : x = (s \o t)[i] BY <1>2
  <2>2. CASE i <= Len(s)
    <3>1. i \in 1..Len(s) /\ x = s[i] BY <1>1, <2>1, <2>2
    <3> QED BY <1>2, <3>1
  <2>3. CASE ~(i <= Len(s))
    <3>1. i - Len(s) \in 1..Len(t) /\ x = t[i - Len(s)] BY <1>1, <2>1, <2>3
    <3> QED BY <1>2, <3>1
  <2> QED BY <2>2, <2>3
<1>4. ASSUME NEW x \in ToSet(s) PROVE x \in ToSet(s \o t)
  <2>1. PICK i \in 1..Len(s) : x = s[i] BY <1>2
  <2>2. i \in 1..(Len(s) + Len(t)) /\ (s \o t)[i] = x BY <1>1, <2>1
  <2> QED BY <1>2, <2>2
<1>5. ASSUME NEW x \in ToSet(t) PROVE x \in ToSet(s \o t)
  <2>1. PICK i \in 1..Len(t) : x = t[i] BY <1>2
  <2>2. i + Len(s) \in 1..(Len(s) + Len(t)) /\ (s \o t)[i + Len(s)] = x BY <1>1, <2>1
  <2> QED BY <1>2, <2>2
<1> QED BY <1>1, <1>3, <1>4, <1>5

LEMMA Removed ==
  ASSUME NEW S, NEW s \in Seq(S), NEW i \in 1..Len(s)
  PROVE  /\ RemoveAt(s, i) \in Seq(S) /\ Len(RemoveAt(s, i)) = Len(s) - 1
         /\ \A j \in 1..(Len(s) - 1) :
              RemoveAt(s, i)[j] = IF j < i THEN s[j] ELSE s[j + 1]
         /\ ToSet(s) = ToSet(RemoveAt(s, i)) \cup {s[i]}
PROOF
<1> DEFINE a == SubSeq(s, 1, i - 1)
           b == SubSeq(s, i + 1, Len(s))
           t == RemoveAt(s, i)
<1>0. Len(s) \in Nat /\ \A j \in 1..Len(s) : s[j] \in S BY LenProperties, ElementOfSeq
<1>1. /\ a \in Seq(S) /\ Len(a) = i - 1
      /\ \A j \in 1..(i - 1) : a[j] = s[j]
  <2>1. /\ SubSeq(s, 1, i - 1) \in Seq(S)
        /\ Len(SubSeq(s, 1, i - 1)) = IF 1 <= i - 1 THEN (i - 1) - 1 + 1 ELSE 0
        /\ \A j \in 1..((i - 1) - 1 + 1) : SubSeq(s, 1, i - 1)[j] = s[1 + j - 1]
    <3>1. 1 \in Int /\ i - 1 \in Int /\ \A j \in 1..(i - 1) : s[j] \in S BY <1>0
    <3> QED BY <3>1, SubSeqProperties
  <2> QED BY <1>0, <2>1
<1>2. /\ b \in Seq(S) /\ Len(b) = Len(s) - i
      /\ \A j \in 1..(Len(s) - i) : b[j] = s[i + j]
  <2>1. /\ SubSeq(s, i + 1, Len(s)) \in Seq(S)
        /\ Len(SubSeq(s, i + 1, Len(s))) = IF i + 1 <= Len(s) THEN Len(s) - (i + 1) + 1 ELSE 0
        /\ \A j \in 1..(Len(s) - (i + 1) + 1) : SubSeq(s, i + 1, Len(s))[j] = s[i + 1 + j - 1]
    <3>1. i + 1 \in Int /\ Len(s) \in Int /\ \A j \in (i + 1)..Len(s) : s[j] \in S BY <1>0
    <3> QED BY <3>1, SubSeqProperties
  <2> QED BY <1>0, <2>1
<1>3. t = a \o b BY DEF RemoveAt
<1> HIDE DEF a, b, t
<1>4. /\ t \in Seq(S) /\ Len(t) = Len(s) - 1
      /\ \A j \in 1..(Len(s) - 1) : t[j] = IF j <= i - 1 THEN a[j] ELSE b[j - (i - 1)]
  <2>1. /\ a \o b \in Seq(S) /\ Len(a \o b) = Len(a) + Len(b)
        /\ \A j \in 1..(Len(a) + Len(b)) :
             (a \o b)[j] = IF j <= Len(a) THEN a[j] ELSE b[j - Len(a)]
    BY <1>1, <1>2, Joined
  <2>2. Len(a) + Len(b) = Len(s) - 1 BY <1>0, <1>1, <1>2
  <2> QED BY <1>1, <1>3, <2>1, <2>2
<1>5. \A j \in 1..(Len(s) - 1) : t[j] = IF j < i THEN s[j] ELSE s[j + 1]
  <2>1. TAKE j \in 1..(Len(s) - 1)
  <2>2. CASE j < i
    <3>1. j \in 1..(i - 1) /\ j <= i - 1 BY <1>0, <2>2
    <3> QED BY <1>1, <1>4, <2>2, <3>1
  <2>3. CASE ~(j < i)
    <3>1. j - (i - 1) \in 1..(Len(s) - i) /\ ~(j <= i - 1) /\ i + (j - (i - 1)) = j + 1
      BY <1>0, <2>3
    <3> QED BY <1>2, <1>4, <2>3, <3>1
  <2> QED BY <2>2, <2>3
<1>6. ToSet(s) = {s[j] : j \in 1..Len(s)} /\ ToSet(t) = {t[j] : j \in 1..(Len(s) - 1)}
  BY <1>4, SetOfSeq
<1>7. ASSUME NEW x \in ToSet(s) PROVE x \in ToSet(t) \cup {s[i]}
  <2>1. PICK j \in 1..Len(s) : x = s[j] BY <1>6
  <2>2. CASE j < i
    <3>1. j \in 1..(Len(s) - 1) /\ t[j] = x BY <1>0, <1>5, <2>1, <2>2
    <3> QED BY <1>6, <3>1
  <2>3. CASE j = i BY <2>1, <2>3
  <2>4. CASE j > i
    <3>1. j - 1 \in 1..(Len(s) - 1) /\ ~(j - 1 < i) /\ (j - 1) + 1 = j BY <1>0, <2>4
    <3>2. t[j - 1] = x BY <1>5, <2>1, <3>1
    <3> QED BY <1>6, <3>1, <3>2
  <2> QED BY <1>0, <2>2, <2>3, <2>4
<1>8. ASSUME NEW x \in ToSet(t) PROVE x \in ToSet(s)
  <2>1. PICK j \in 1..(Len(s) - 1) : x = t[j] BY <1>6
  <2>2. \/ j \in 1..Len(s) /\ x = s[j]
        \/ j + 1 \in 1..Len(s) /\ x = s[j + 1]
    BY <1>0, <1>5, <2>1
  <2> QED BY <1>6, <2>2
<1>9. s[i] \in ToSet(s) BY <1>6
<1>10. /\ t \in Seq(S) /\ Len(t) = Len(s) - 1
       /\ \A j \in 1..(Len(s) - 1) : t[j] = IF j < i THEN s[j] ELSE s[j + 1]
       /\ ToSet(s) = ToSet(t) \cup {s[i]}
  BY <1>4, <1>5, <1>7, <1>8, <1>9
<1> QED BY <1>10 DEF t

\* Removal is remembered, so what holds before a removal held all the time before.
LEMMA RemovedStays == [Next]_vars => (removed => removed')
PROOF BY DEF Next, vars, InitOpen, InitStep, InitFtok, InitFtokFails, InitFound, InitNotFound,
  InitCreate, Send, ThreadStep, ThreadStarts, ThreadContinues, ThreadEnds, ThreadReceives,
  ThreadFails, ThreadCallback, DeinitStop, DeinitStep, DeinitJoined, DeinitRemoves,
  DeinitRemoveFails, DeinitUnlinks, Crash, history

\* Without an inode that returns there is one live queue at most.
LEMMA OneAlive ==
  ASSUME Joint, ~InodeReturns, NEW q, NEW r, Live(q), Live(r)
  PROVE  q = r
PROOF
<1>1. PICK i \in Inodes : queueAt[i] = q /\ q # NoQueue BY DEF Live
<1>2. PICK j \in Inodes : queueAt[j] = r /\ r # NoQueue BY DEF Live
<1>3. CASE ~removed BY <1>1, <1>2, <1>3 DEF Joint, OneFile, OnePlace
<1>4. CASE removed
  <2>1. Cardinality(Inodes) \in Nat /\ ~(Cardinality(Inodes) > 1)
    BY <1>4, InodeAssumption, FS_CardinalityType DEF InodeReturns
  <2>2. /\ {i, j} \subseteq Inodes /\ Cardinality({i, j}) <= Cardinality(Inodes)
    BY InodeAssumption, FS_Subset
  <2>3. i # j => Cardinality({i, j}) = 2
    <3>1. SUFFICES ASSUME i # j PROVE Cardinality({i, j}) = 2
      OBVIOUS
    <3>2. IsFiniteSet({i}) /\ Cardinality({i}) = 1 BY FS_Singleton
    <3>3. Cardinality({i} \cup {j}) = Cardinality({i}) + 1
      BY <3>1, <3>2, FS_AddElement
    <3>4. {i, j} = {i} \cup {j} OBVIOUS
    <3> QED BY <3>2, <3>3, <3>4
  <2> QED BY <1>1, <1>2, <2>1, <2>2, <2>3
<1> QED BY <1>3, <1>4

\* Every queue has a number of its own: each start creates one at most.
LEMMA StartingIs ==
  ASSUME Joint, NEW p \in Procs, NEW to, main' = [main EXCEPT ![p] = to]
  PROVE  \A q \in Procs : Pending(q)' = IF q = p THEN IF to \in {"ftok", "lookup", "create"}
                                                     THEN 1 ELSE 0
                                                ELSE Pending(q)
PROOF BY DEF Joint, Shape, Pending

LEMMA NumberedStep ==
  ASSUME Joint, Numbered, [Next]_vars PROVE Numbered'
PROOF
<1>0. /\ DOMAIN main = Procs /\ created \in Nat /\ Procs = {"client", "server"}
      /\ \A p \in Procs : Pending(p) \in {0, 1} /\ starts[p] \in Nat
  BY BoundAssumption DEF Joint, Shape, Pending, Numbered, Procs
<1>1. ASSUME NEW p \in Procs, InitOpen(p) PROVE Numbered'
  <2>1. /\ main' = [main EXCEPT ![p] = "ftok"] /\ starts' = [starts EXCEPT ![p] = @ + 1]
        /\ created' = created /\ starts[p] < MaxStarts /\ main[p] = "down"
    BY <1>1 DEF InitOpen, Step, kernel
  <2>2. starts' \in [Procs -> 0..MaxStarts]
    BY <2>1, BoundAssumption DEF Numbered
  <2>3. \A q \in Procs : Starting(q)' = Starting(q)
    <3>1. TAKE q \in Procs
    <3>2. Pending(q)' = IF q = p THEN 1 ELSE Pending(q) BY <2>1, StartingIs
    <3>3. Pending(p) = 0 BY <2>1 DEF Pending
    <3>4. starts'[q] = IF q = p THEN starts[q] + 1 ELSE starts[q] BY <2>1 DEF Numbered
    <3> QED BY <1>0, <3>2, <3>3, <3>4 DEF Starting
  <2> QED BY <1>0, <2>1, <2>2, <2>3 DEF Numbered
<1>2. ASSUME NEW p \in Procs, InitCreate(p) PROVE Numbered'
  <2>1. /\ main' = [main EXCEPT ![p] = "up"] /\ starts' = starts
        /\ created' \in {created, created + 1} /\ main[p] = "create"
    BY <1>2 DEF InitCreate, Step
  <2>2. \A q \in Procs : Starting(q)' = IF q = p THEN Starting(q) + 1 ELSE Starting(q)
    <3>1. TAKE q \in Procs
    <3>2. Pending(q)' = IF q = p THEN 0 ELSE Pending(q) BY <1>0, <2>1 DEF Pending
    <3>3. Pending(p) = 1 BY <2>1 DEF Pending
    <3> QED BY <1>0, <2>1, <3>2, <3>3 DEF Starting
  <2>3. \A q \in Procs : Starting(q) \in Int BY <1>0 DEF Starting
  <2> QED BY <1>0, <2>1, <2>2, <2>3 DEF Numbered
<1>3. ASSUME starts' = starts, created' = created,
             \A q \in Procs : Pending(q)' \in {0, Pending(q)}
      PROVE  Numbered'
  <2>1. \A q \in Procs : Starting(q)' \in Int /\ Starting(q) \in Int /\ Starting(q)' >= Starting(q)
    BY <1>0, <1>3 DEF Starting
  <2> QED BY <1>0, <1>3, <2>1 DEF Numbered
<1>4. ASSUME NEW p \in Procs,
             \/ InitFtok(p) \/ InitFtokFails(p) \/ InitFound(p) \/ InitNotFound(p)
             \/ DeinitStop(p) \/ DeinitStep(p) \/ Crash(p)
      PROVE  Numbered'
  <2>1. starts' = starts /\ created' = created
    BY <1>4 DEF InitFtok, InitFtokFails, InitFound, InitNotFound, DeinitStop, DeinitStep,
      DeinitJoined, DeinitRemoves, DeinitRemoveFails, DeinitUnlinks, Crash, kernel
  <2>2. PICK to : /\ main' = [main EXCEPT ![p] = to]
                  /\ to \notin {"ftok", "lookup", "create"} \/ Pending(p) = 1
    BY <1>4 DEF InitFtok, InitFtokFails, InitFound, InitNotFound, DeinitStop, DeinitStep,
      DeinitJoined, DeinitRemoves, DeinitRemoveFails, DeinitUnlinks, Crash, Step, Pending
  <2>3. \A q \in Procs : Pending(q)' \in {0, Pending(q)}
    BY <2>2, StartingIs
  <2> QED BY <1>3, <2>1, <2>3
<1>5. ASSUME NEW p \in Procs, Send(p) \/ ThreadStep(p) PROVE Numbered'
  <2>1. starts' = starts /\ created' = created /\ main' = main
    BY <1>5 DEF Send, ThreadStep, ThreadStarts, ThreadContinues, ThreadEnds, ThreadReceives,
      ThreadFails, ThreadCallback, kernel
  <2> QED BY <1>3, <2>1 DEF Pending
<1>6. CASE UNCHANGED vars BY <1>3, <1>6 DEF vars, Pending
<1> QED BY <1>1, <1>2, <1>4, <1>5, <1>6 DEF Next, InitStep

\* The elements of the sets, read off their definitions.
LEMMA Kinds ==
  ASSUME QueueShape, Routed
  PROVE  /\ \A p \in Procs : /\ Peer(p) \in Procs /\ Peer(Peer(p)) = p /\ Peer(p) # p
                             /\ RecvType(p) = SendType(Peer(p)) /\ RecvType(Peer(p)) # RecvType(p)
         /\ \A p, r \in Procs : p # r => r = Peer(p)
         /\ \A m \in Pool : /\ m \in Messages /\ m.type = SendType(m.from)
                            /\ m.from \in Procs /\ m.n \in Nat
         /\ \A p \in Procs : \A m \in Past(p) : m.from = Peer(p) /\ m \in Messages /\ m.n \in Nat
         /\ \A p \in Procs : \A m \in Future(p) : m \in Pool /\ m.from = Peer(p)
         /\ \A p \in Procs : sent[p] \in Nat /\ sent[p] <= MaxSends
PROOF
<1>1. \A p \in Procs : /\ Peer(p) \in Procs /\ Peer(Peer(p)) = p /\ Peer(p) # p
                       /\ RecvType(p) = SendType(Peer(p)) /\ RecvType(Peer(p)) # RecvType(p)
  BY DEF Procs, Peer, RecvType, SendType
<1>2. \A p, r \in Procs : p # r => r = Peer(p) BY DEF Procs, Peer
<1>3. \A m \in Messages : m.from \in Procs /\ m.n \in Nat BY BoundAssumption DEF Messages
<1>4. \A p \in Procs : sent[p] \in Nat /\ sent[p] <= MaxSends BY BoundAssumption DEF QueueShape
<1>5. \A p \in Procs : \A m \in Future(p) : m \in Pool /\ m.from = Peer(p)
  BY <1>1, <1>3 DEF Future, Routed, RecvType, SendType, Peer, Procs
<1> QED BY <1>1, <1>2, <1>3, <1>4, <1>5 DEF Routed

\* A step that moves no event.
LEMMA QuietConveys ==
  ASSUME Conveyed, [Next]_vars, Numbered',
         UNCHANGED <<msgs, inHand, got, sent, dropped>>,
         queueAt' \in [Inodes -> QueueIds \cup {NoQueue}],
         \A q \in QueueIds : Live(q) => Live(q)',
         \A p \in Procs : thread[p] = "callback" /\ inHand[p] # <<>> => thread'[p] = "callback"
  PROVE  Conveyed'
PROOF
<1>1. QueueShape' BY DEF Conveyed, QueueShape
<1>2. LiveOnly' BY DEF Conveyed, LiveOnly
<1>3. HandBusy' BY DEF Conveyed, HandBusy
<1>4. /\ Pool' = Pool
      /\ \A p \in Procs : Past(p)' = Past(p) /\ Future(p)' = Future(p) /\ Died(p)' = Died(p)
  BY DEF Pool, Past, Future, Died
<1>5. Routed' BY <1>4 DEF Conveyed, Routed
<1>6. ~InodeReturns' => InLine'
  <2>1. ~InodeReturns' => InLine BY RemovedStays DEF Conveyed, InodeReturns
  <2>2. InLine => InLine' BY <1>4 DEF InLine, InGot, InTime, InQueue, Ascend
  <2> QED BY <2>1, <2>2
<1>7. ~removed' => Accounted'
  <2>1. ~removed' => Accounted BY RemovedStays DEF Conveyed
  <2>2. Accounted => Accounted' BY <1>4 DEF Accounted
  <2> QED BY <2>1, <2>2
<1> QED BY <1>1, <1>2, <1>3, <1>5, <1>6, <1>7 DEF Conveyed

\* The contents of one queue are replaced.
LEMMA PoolBecomes ==
  ASSUME QueueShape, NEW q \in QueueIds, NEW t, msgs' = [msgs EXCEPT ![q] = t]
  PROVE  /\ \A r \in QueueIds : msgs'[r] = IF r = q THEN t ELSE msgs[r]
         /\ \A m : m \in Pool' <=> \/ m \in ToSet(t)
                                   \/ \E r \in QueueIds : r # q /\ m \in ToSet(msgs[r])
         /\ \A m : m \in Pool <=> \/ m \in ToSet(msgs[q])
                                  \/ \E r \in QueueIds : r # q /\ m \in ToSet(msgs[r])
PROOF
<1>1. \A r \in QueueIds : msgs'[r] = IF r = q THEN t ELSE msgs[r] BY DEF QueueShape
<1>2. \A m : m \in Pool <=> \E r \in QueueIds : m \in ToSet(msgs[r]) BY DEF Pool
<1>3. \A m : m \in Pool' <=> \E r \in QueueIds : m \in ToSet(msgs'[r]) BY DEF Pool
<1>4. ASSUME NEW m
      PROVE  m \in Pool' <=> \/ m \in ToSet(t)
                             \/ \E r \in QueueIds : r # q /\ m \in ToSet(msgs[r])
  BY <1>1, <1>3
<1>5. ASSUME NEW m
      PROVE  m \in Pool <=> \/ m \in ToSet(msgs[q])
                            \/ \E r \in QueueIds : r # q /\ m \in ToSet(msgs[r])
  BY <1>2
<1> QED BY <1>1, <1>4, <1>5

\* An event is accepted: it is the newest of its sender and waits for the peer.
LEMMA SendConveys ==
  ASSUME Conveyed, Numbered', NEW p \in Procs, Send(p) PROVE Conveyed'
PROOF
<1> DEFINE q == msgid[p]
           m == [type |-> SendType(p), from |-> p, n |-> sent[p] + 1]
           t == Append(msgs[q], m)
<1>0. /\ QueueShape /\ LiveOnly /\ HandBusy /\ Routed
      /\ Live(q) /\ sent[p] < MaxSends /\ msgs' = [msgs EXCEPT ![q] = t]
      /\ sent' = [sent EXCEPT ![p] = @ + 1]
      /\ UNCHANGED <<queueAt, thread, inHand, got, dropped, removed>>
  BY DEF Send, Conveyed
<1>1. q \in QueueIds BY <1>0 DEF Live, QueueShape
<1>2. /\ m \in Messages /\ m.type = SendType(p) /\ m.from = p /\ m.n = sent[p] + 1
      /\ p = Peer(Peer(p)) /\ m.type = RecvType(Peer(p))
  <2>1. sent[p] + 1 \in 1..MaxSends BY <1>0, BoundAssumption DEF QueueShape
  <2>2. SendType(p) \in {1, 2} BY DEF SendType
  <2>3. m \in Messages BY <2>1, <2>2 DEF Messages
  <2> QED BY <2>3, <1>0, Kinds
<1>3. /\ t \in Seq(Messages) /\ Len(t) = Len(msgs[q]) + 1 /\ Len(msgs[q]) \in Nat
      /\ \A i \in 1..(Len(msgs[q]) + 1) : t[i] = IF i = Len(msgs[q]) + 1 THEN m ELSE msgs[q][i]
      /\ ToSet(t) = ToSet(msgs[q]) \cup {m}
      /\ ToSet(msgs[q]) = {msgs[q][i] : i \in 1..Len(msgs[q])}
  <2>1. msgs[q] \in Seq(Messages) BY <1>0, <1>1 DEF QueueShape
  <2> QED BY <1>2, <2>1, Appended, SetOfSeq
<1> HIDE DEF q, m, t
<1>4. /\ \A r \in QueueIds : msgs'[r] = IF r = q THEN t ELSE msgs[r]
      /\ Pool' = Pool \cup {m} /\ ToSet(msgs[q]) \subseteq Pool
  <2>1. /\ \A r \in QueueIds : msgs'[r] = IF r = q THEN t ELSE msgs[r]
        /\ \A x : x \in Pool' <=> \/ x \in ToSet(t)
                                  \/ \E r \in QueueIds : r # q /\ x \in ToSet(msgs[r])
        /\ \A x : x \in Pool <=> \/ x \in ToSet(msgs[q])
                                 \/ \E r \in QueueIds : r # q /\ x \in ToSet(msgs[r])
    BY <1>0, <1>1, PoolBecomes
  <2>2. ToSet(t) = ToSet(msgs[q]) \cup {m} BY <1>3
  <2>3. \A x : x \in Pool' <=> x \in Pool \/ x = m BY <2>1, <2>2
  <2>4. Pool' = Pool \cup {m} BY <2>3
  <2> QED BY <2>1, <2>4
<1>5. \A r \in Procs : /\ sent'[r] = IF r = p THEN sent[r] + 1 ELSE sent[r]
                       /\ sent[r] \in Nat /\ sent'[r] \in 0..MaxSends
  BY <1>0, BoundAssumption DEF QueueShape
<1>6. \A r \in Procs : /\ Past(r)' = Past(r) /\ Died(r)' = Died(r)
                       /\ Future(r)' = IF r = Peer(p) THEN Future(r) \cup {m} ELSE Future(r)
  <2>1. TAKE r \in Procs
  <2>2. Past(r)' = Past(r) /\ Died(r)' = Died(r) BY <1>0 DEF Past, Died
  <2>3. m.type = RecvType(r) <=> r = Peer(p) BY <1>0, <1>2, Kinds
  <2> QED BY <1>4, <2>2, <2>3 DEF Future
<1>7. QueueShape' BY <1>0, <1>1, <1>3, <1>4, <1>5 DEF QueueShape
<1>8. LiveOnly' BY <1>0, <1>4 DEF LiveOnly, Live
<1>9. HandBusy' BY <1>0 DEF HandBusy
<1>10. Routed' BY <1>0, <1>2, <1>4, <1>6 DEF Routed
<1>11. ASSUME InLine PROVE InLine'
  <2>1. InGot' BY <1>0, <1>11 DEF InLine, InGot, Ascend
  <2>2. InTime'
    <3>1. SUFFICES ASSUME NEW r \in Procs
                   PROVE  /\ \A a \in Past(r)', b \in Future(r)' : a.n < b.n
                          /\ \A x \in Past(r)' \cup Future(r)' : x.n <= sent'[Peer(r)]
      BY DEF InTime
    <3>2. \A x \in Past(r) \cup Future(r) : x.n <= sent[Peer(r)] /\ x.n \in Nat
      BY <1>0, <1>11, Kinds DEF InLine, InTime
    <3>3. \A a \in Past(r), b \in Future(r) : a.n < b.n BY <1>11 DEF InLine, InTime
    <3>4. Peer(r) \in Procs BY <1>0, Kinds
    <3>5. CASE r = Peer(p)
      BY <1>2, <1>5, <1>6, <3>2, <3>3, <3>4, <3>5
    <3>6. CASE r # Peer(p)
      BY <1>5, <1>6, <3>2, <3>3, <3>4, <3>6
    <3> QED BY <3>5, <3>6
  <2>3. InQueue'
    <3>1. SUFFICES ASSUME NEW r \in QueueIds, NEW i \in 1..Len(msgs'[r]),
                          NEW j \in 1..Len(msgs'[r]),
                          i < j, msgs'[r][i].type = msgs'[r][j].type
                   PROVE  msgs'[r][i].n < msgs'[r][j].n
      BY DEF InQueue
    <3>2. CASE r # q BY <1>4, <1>11, <3>1, <3>2 DEF InLine, InQueue
    <3>3. CASE r = q /\ j # Len(msgs[q]) + 1
      <4>1. i \in 1..Len(msgs[q]) /\ j \in 1..Len(msgs[q]) /\ i # Len(msgs[q]) + 1
        <5>1. Len(msgs'[r]) = Len(msgs[q]) + 1 /\ Len(msgs[q]) \in Nat BY <1>3, <1>4, <3>3
        <5>2. i \in 1..(Len(msgs[q]) + 1) /\ j \in 1..(Len(msgs[q]) + 1) BY <3>1, <5>1
        <5> QED BY <3>1, <3>3, <5>1, <5>2
      <4>2. msgs'[r][i] = msgs[q][i] /\ msgs'[r][j] = msgs[q][j]
        BY <1>3, <1>4, <3>1, <3>3, <4>1
      <4> QED BY <1>11, <1>1, <3>1, <4>1, <4>2 DEF InLine, InQueue
    <3>4. CASE r = q /\ j = Len(msgs[q]) + 1
      <4>1. i \in 1..Len(msgs[q]) /\ i # Len(msgs[q]) + 1 BY <1>3, <1>4, <3>1, <3>4
      <4>2. msgs'[r][i] = msgs[q][i] /\ msgs'[r][j] = m
        BY <1>3, <1>4, <3>1, <3>4, <4>1
      <4>3. msgs[q][i] \in Future(Peer(p))
        BY <1>2, <1>3, <1>4, <3>1, <4>1, <4>2 DEF Future
      <4>4. msgs[q][i].n <= sent[p] /\ msgs[q][i].n \in Nat
        BY <1>0, <1>2, <1>11, <4>3, Kinds DEF InLine, InTime
      <4> QED BY <1>2, <1>5, <4>2, <4>4
    <3> QED BY <3>2, <3>3, <3>4
  <2> QED BY <2>1, <2>2, <2>3 DEF InLine
<1>12. ASSUME Accounted PROVE Accounted'
  <2>1. SUFFICES ASSUME NEW r \in Procs
                 PROVE  {x.n : x \in Past(r)' \cup Future(r)' \cup Died(r)'} = 1..sent'[Peer(r)]
    BY DEF Accounted
  <2>2. {x.n : x \in Past(r) \cup Future(r) \cup Died(r)} = 1..sent[Peer(r)] /\ Peer(r) \in Procs
    BY <1>0, <1>12, Kinds DEF Accounted
  <2>3. CASE r = Peer(p)
    <3>1. {x.n : x \in Past(r)' \cup Future(r)' \cup Died(r)'}
            = {x.n : x \in Past(r) \cup Future(r) \cup Died(r)} \cup {sent[p] + 1}
      BY <1>2, <1>6, <2>3
    <3>2. 1..(sent[p] + 1) = (1..sent[p]) \cup {sent[p] + 1} BY <1>5
    <3> QED BY <1>2, <1>5, <2>2, <2>3, <3>1, <3>2
  <2>4. CASE r # Peer(p)
    <3>1. Peer(r) # p BY <1>0, <2>4, Kinds
    <3> QED BY <1>5, <1>6, <2>2, <2>4, <3>1
  <2> QED BY <2>3, <2>4
<1> QED BY <1>0, <1>7, <1>8, <1>9, <1>10, <1>11, <1>12 DEF Conveyed, InodeReturns

\* The thread takes the first event of its type: the oldest that waits for its process.
LEMMA ReceiveConveys ==
  ASSUME Joint, Conveyed, Numbered', NEW p \in Procs, ThreadReceives(p) PROVE Conveyed'
PROOF
<1> DEFINE q == msgid[p]
<1>0. /\ QueueShape /\ LiveOnly /\ HandBusy /\ Routed
      /\ Live(q) /\ Run(p, "recv", "callback")
      /\ UNCHANGED <<queueAt, sent, got, dropped, removed>>
  BY DEF ThreadReceives, Conveyed, history
<1>1. q \in QueueIds BY <1>0 DEF Live, QueueShape
<1>2. PICK i \in 1..Len(msgs[q]) :
        /\ msgs[q][i].type = RecvType(p)
        /\ \A k \in 1..(i - 1) : msgs[q][k].type # RecvType(p)
        /\ inHand' = [inHand EXCEPT ![p] = <<msgs[q][i]>>]
        /\ msgs' = [msgs EXCEPT ![q] = RemoveAt(msgs[q], i)]
  BY DEF ThreadReceives
<1> DEFINE s == msgs[q]
           m == s[i]
           t == RemoveAt(s, i)
<1>3. /\ s \in Seq(Messages) /\ Len(s) \in Nat
      /\ t \in Seq(Messages) /\ Len(t) = Len(s) - 1
      /\ \A j \in 1..(Len(s) - 1) : t[j] = IF j < i THEN s[j] ELSE s[j + 1]
      /\ ToSet(s) = ToSet(t) \cup {m}
      /\ ToSet(s) = {s[j] : j \in 1..Len(s)} /\ ToSet(t) = {t[j] : j \in 1..(Len(s) - 1)}
  <2>1. s \in Seq(Messages) /\ i \in 1..Len(s) BY <1>0, <1>1 DEF QueueShape
  <2> HIDE DEF s
  <2>2. /\ t \in Seq(Messages) /\ Len(t) = Len(s) - 1
        /\ \A j \in 1..(Len(s) - 1) : t[j] = IF j < i THEN s[j] ELSE s[j + 1]
        /\ ToSet(s) = ToSet(t) \cup {m}
    BY <2>1, Removed
  <2> HIDE DEF t
  <2>3. /\ ToSet(s) = {s[j] : j \in 1..Len(s)} /\ Len(s) \in Nat
        /\ ToSet(t) = {t[j] : j \in 1..Len(t)}
    BY <2>1, <2>2, SetOfSeq
  <2> QED BY <2>1, <2>2, <2>3
<1>4. /\ \A j \in 1..(i - 1) : s[j].type # RecvType(p)
      /\ inHand' = [inHand EXCEPT ![p] = <<m>>] /\ msgs' = [msgs EXCEPT ![q] = t]
      /\ m.type = RecvType(p) /\ s = msgs[q] /\ m = s[i]
  BY <1>2
<1> HIDE DEF q, s, m, t
<1>5. /\ \A r \in QueueIds : msgs'[r] = IF r = q THEN t ELSE msgs[r]
      /\ Pool = Pool' \cup {m}
      /\ \A x \in Pool' : \/ x \in ToSet(t)
                          \/ \E r \in QueueIds : r # q /\ x \in ToSet(msgs[r])
  <2>1. /\ \A r \in QueueIds : msgs'[r] = IF r = q THEN t ELSE msgs[r]
        /\ \A x : x \in Pool' <=> \/ x \in ToSet(t)
                                  \/ \E r \in QueueIds : r # q /\ x \in ToSet(msgs[r])
        /\ \A x : x \in Pool <=> \/ x \in ToSet(s)
                                 \/ \E r \in QueueIds : r # q /\ x \in ToSet(msgs[r])
    BY <1>0, <1>1, <1>4, PoolBecomes
  <2>2. ToSet(s) = ToSet(t) \cup {m} BY <1>3
  <2>3. \A x : x \in Pool <=> x \in Pool' \/ x = m BY <2>1, <2>2
  <2>4. Pool = Pool' \cup {m} BY <2>3
  <2> QED BY <2>1, <2>4
<1>6. m \in Messages /\ m.from = Peer(p) /\ m.n \in Nat /\ m \in Future(p)
  <2>1. m \in Pool /\ m \in Future(p) BY <1>4, <1>5 DEF Future
  <2> QED BY <1>0, <2>1, Kinds
<1>7. /\ inHand[p] = <<>> /\ \A r \in Procs : inHand'[r] = IF r = p THEN <<m>> ELSE inHand[r]
      /\ ToSet(<<m>>) = {m} /\ Len(<<m>>) = 1 /\ <<m>>[1] = m /\ <<m>> \in Seq(Messages)
      /\ ToSet(inHand[p]) = {}
  <2>1. inHand[p] = <<>> BY <1>0 DEF HandBusy, Run
  <2>2. \A r \in Procs : inHand'[r] = IF r = p THEN <<m>> ELSE inHand[r]
    BY <1>0, <1>4 DEF QueueShape
  <2>3. ToSet(<<m>>) = {m} /\ Len(<<m>>) = 1 /\ <<m>>[1] = m /\ <<m>> \in Seq(Messages)
    BY <1>6 DEF ToSet
  <2>4. ToSet(<<>>) = {} BY DEF ToSet
  <2> QED BY <2>1, <2>2, <2>3, <2>4
<1>8. \A r \in Procs : /\ Died(r)' = Died(r) /\ Future(r) = IF r = p THEN Future(r)' \cup {m}
                                                                    ELSE Future(r)'
                       /\ Past(r)' = IF r = p THEN Past(r) \cup {m} ELSE Past(r)
  <2>1. TAKE r \in Procs
  <2>2. Died(r)' = Died(r) BY <1>0 DEF Died
  <2>3. m.type = RecvType(r) <=> r = p BY <1>0, <1>4, Kinds
  <2>4. Future(r) = IF r = p THEN Future(r)' \cup {m} ELSE Future(r)'
    BY <1>5, <2>3 DEF Future
  <2>5. Past(r)' = IF r = p THEN Past(r) \cup {m} ELSE Past(r)
    BY <1>0, <1>7 DEF Past
  <2> QED BY <2>2, <2>4, <2>5
<1>9. QueueShape' BY <1>0, <1>1, <1>3, <1>4, <1>5, <1>7 DEF QueueShape
<1>10. LiveOnly' BY <1>0, <1>5 DEF LiveOnly, Live
<1>11. HandBusy'
  <2>1. \A r \in Procs : r # p => thread'[r] = thread[r] BY <1>0 DEF Run, Joint, Shape
  <2>2. thread'[p] = "callback" BY <1>0 DEF Run, Joint, Shape
  <2> QED BY <1>0, <1>7, <2>1, <2>2 DEF HandBusy
<1>12. Routed'
  <2>1. Pool' \subseteq Pool BY <1>5
  <2>2. \A r \in Procs : Past(r)' \subseteq Messages /\ \A x \in Past(r)' : x.from = Peer(r)
    BY <1>0, <1>6, <1>8 DEF Routed
  <2> QED BY <1>0, <2>1, <2>2 DEF Routed
<1>13. ASSUME InLine, ~InodeReturns PROVE InLine'
  <2>1. InGot'
    <3>1. SUFFICES ASSUME NEW r \in Procs
                   PROVE  /\ \A j, k \in 1..Len(got'[r]) : j < k => got'[r][j].n < got'[r][k].n
                          /\ Ascend(got'[r], inHand'[r])
      BY DEF InGot
    <3>2. \A j, k \in 1..Len(got'[r]) : j < k => got'[r][j].n < got'[r][k].n
      BY <1>0, <1>13 DEF InLine, InGot
    <3>3. CASE r # p BY <1>0, <1>7, <1>13, <3>2, <3>3 DEF InLine, InGot
    <3>4. CASE r = p
      <4>1. \A j \in 1..Len(got[p]) : got[p][j] \in Past(p)
        <5>1. got[p] \in Seq(Messages) BY <1>0 DEF QueueShape
        <5> QED BY <5>1, SetOfSeq DEF Past
      <4>2. \A j \in 1..Len(got[p]) : got[p][j].n < m.n
        BY <1>6, <1>13, <4>1 DEF InLine, InTime
      <4>3. Ascend(got'[p], inHand'[p]) BY <1>0, <1>7, <4>2 DEF Ascend
      <4> QED BY <3>2, <3>4, <4>3
    <3> QED BY <3>3, <3>4
  <2>2. \A b \in Future(p)' : m.n < b.n
    <3>1. TAKE b \in Future(p)'
    <3>2. b \in Pool' /\ b.type = RecvType(p) BY DEF Future
    <3>3. b \in ToSet(t)
      <4>1. ASSUME NEW r \in QueueIds, r # q, b \in ToSet(msgs[r]) PROVE FALSE
        <5>1. msgs[r] # <<>> BY <1>7, <4>1 DEF ToSet
        <5>2. Live(r) BY <1>0, <5>1 DEF LiveOnly
        <5> QED BY <1>0, <1>13, <4>1, <5>2, OneAlive
      <4> QED BY <1>5, <3>2, <4>1
    <3>4. PICK j \in 1..(Len(s) - 1) : b = t[j] BY <1>3, <3>3
    <3>5. ~(j < i)
      <4>1. SUFFICES ASSUME j < i PROVE FALSE
        OBVIOUS
      <4>2. j \in 1..(i - 1) /\ b = s[j] BY <1>3, <3>4, <4>1
      <4> QED BY <1>4, <3>2, <4>2
    <3>6. b = s[j + 1] /\ j + 1 \in 1..Len(s) /\ i < j + 1 BY <1>3, <3>4, <3>5
    <3> QED BY <1>1, <1>4, <1>13, <3>2, <3>6 DEF InLine, InQueue
  <2>3. InTime'
    <3>1. SUFFICES ASSUME NEW r \in Procs
                   PROVE  /\ \A a \in Past(r)', b \in Future(r)' : a.n < b.n
                          /\ \A x \in Past(r)' \cup Future(r)' : x.n <= sent'[Peer(r)]
      BY DEF InTime
    <3>2. /\ \A a \in Past(r), b \in Future(r) : a.n < b.n
          /\ \A x \in Past(r) \cup Future(r) : x.n <= sent[Peer(r)]
      BY <1>13 DEF InLine, InTime
    <3>3. CASE r # p BY <1>0, <1>8, <3>2, <3>3
    <3>4. CASE r = p BY <1>0, <1>8, <2>2, <3>2, <3>4
    <3> QED BY <3>3, <3>4
  <2>4. InQueue'
    <3>1. SUFFICES ASSUME NEW r \in QueueIds, NEW j \in 1..Len(msgs'[r]),
                          NEW k \in 1..Len(msgs'[r]),
                          j < k, msgs'[r][j].type = msgs'[r][k].type
                   PROVE  msgs'[r][j].n < msgs'[r][k].n
      BY DEF InQueue
    <3>2. CASE r # q BY <1>5, <1>13, <3>1, <3>2 DEF InLine, InQueue
    <3>3. CASE r = q
      <4>1. msgs'[r] = t BY <1>5, <3>3
      <4>2. j \in 1..(Len(s) - 1) /\ k \in 1..(Len(s) - 1) BY <1>3, <4>1
      <4>3. PICK j1 \in {j, j + 1} : t[j] = s[j1] /\ (j1 = j <=> j < i) BY <1>3, <4>2
      <4>4. PICK k1 \in {k, k + 1} : t[k] = s[k1] /\ (k1 = k <=> k < i) BY <1>3, <4>2
      <4>5. j1 \in 1..Len(s) /\ k1 \in 1..Len(s) /\ j1 < k1
        BY <1>3, <3>1, <4>2, <4>3, <4>4
      <4>6. s[j1].type = s[k1].type BY <3>1, <4>1, <4>3, <4>4
      <4>7. s[j1].n < s[k1].n BY <1>1, <1>4, <1>13, <4>5, <4>6 DEF InLine, InQueue
      <4> QED BY <4>1, <4>3, <4>4, <4>7
    <3> QED BY <3>2, <3>3
  <2> QED BY <2>1, <2>3, <2>4 DEF InLine
<1>14. ASSUME Accounted PROVE Accounted'
  <2>1. \A r \in Procs : Past(r)' \cup Future(r)' \cup Died(r)' = Past(r) \cup Future(r) \cup Died(r)
    BY <1>8
  <2> QED BY <1>0, <1>14, <2>1 DEF Accounted
<1> QED BY <1>0, <1>9, <1>10, <1>11, <1>12, <1>13, <1>14 DEF Conveyed, InodeReturns

LEMMA AscendingJoined ==
  ASSUME NEW S, NEW s \in Seq(S), NEW t \in Seq(S), Len(t) <= 1, Ascend(s, t),
         \A i, k \in 1..Len(s) : i < k => s[i].n < s[k].n
  PROVE  \A i, k \in 1..Len(s \o t) : i < k => (s \o t)[i].n < (s \o t)[k].n
PROOF
<1> DEFINE u == s \o t
<1>1. /\ Len(s) \in Nat /\ Len(t) \in Nat /\ Len(u) = Len(s) + Len(t)
      /\ \A k \in 1..(Len(s) + Len(t)) : u[k] = IF k <= Len(s) THEN s[k] ELSE t[k - Len(s)]
  BY Joined, LenProperties
<1> HIDE DEF u
<1>2. SUFFICES ASSUME NEW i \in 1..Len(u), NEW k \in 1..Len(u), i < k
               PROVE  u[i].n < u[k].n
  BY DEF u
<1>3. i \in 1..(Len(s) + Len(t)) /\ k \in 1..(Len(s) + Len(t)) BY <1>1
<1>4. i \in 1..Len(s) BY <1>1, <1>2, <1>3
<1>5. u[i] = s[i] BY <1>1, <1>3, <1>4
<1>6. CASE k <= Len(s)
  <2>1. k \in 1..Len(s) /\ u[k] = s[k] BY <1>1, <1>3, <1>6
  <2> QED BY <1>2, <1>4, <1>5, <2>1
<1>7. CASE ~(k <= Len(s))
  <2>1. k - Len(s) \in 1..Len(t) BY <1>1, <1>3, <1>7
  <2>2. u[k] = t[k - Len(s)] BY <1>1, <1>3, <1>7
  <2> QED BY <1>4, <1>5, <2>1, <2>2 DEF Ascend
<1> QED BY <1>6, <1>7

\* The callback: what was in the hand has been received.
LEMMA CallbackConveys ==
  ASSUME Joint, Conveyed, Numbered', NEW p \in Procs, ThreadCallback(p) PROVE Conveyed'
PROOF
<1>0. /\ QueueShape /\ LiveOnly /\ HandBusy /\ Routed
      /\ got' = [got EXCEPT ![p] = got[p] \o inHand[p]]
      /\ inHand' = [inHand EXCEPT ![p] = <<>>]
      /\ UNCHANGED <<queueAt, msgs, sent, dropped, removed>>
      /\ thread' = [thread EXCEPT ![p] = "test"]
  BY DEF ThreadCallback, Conveyed, kernel, Run
<1>1. /\ got[p] \in Seq(Messages) /\ inHand[p] \in Seq(Messages)
      /\ \A r \in Procs : /\ got'[r] = IF r = p THEN got[p] \o inHand[p] ELSE got[r]
                          /\ inHand'[r] = IF r = p THEN <<>> ELSE inHand[r]
  BY <1>0 DEF QueueShape
<1>2. /\ got[p] \o inHand[p] \in Seq(Messages)
      /\ Len(got[p] \o inHand[p]) = Len(got[p]) + Len(inHand[p])
      /\ \A k \in 1..(Len(got[p]) + Len(inHand[p])) :
           (got[p] \o inHand[p])[k] = IF k <= Len(got[p]) THEN got[p][k]
                                                          ELSE inHand[p][k - Len(got[p])]
      /\ ToSet(got[p] \o inHand[p]) = ToSet(got[p]) \cup ToSet(inHand[p])
      /\ Len(got[p]) \in Nat /\ Len(inHand[p]) \in Nat /\ Len(inHand[p]) <= 1
  BY <1>0, <1>1, Joined, LenProperties DEF QueueShape
<1>3. ToSet(<<>>) = {} /\ <<>> \in Seq(Messages) /\ Len(<<>>) = 0 BY DEF ToSet
<1>4. \A r \in Procs : Past(r)' = Past(r) /\ Future(r)' = Future(r) /\ Died(r)' = Died(r)
  BY <1>0, <1>1, <1>2, <1>3 DEF Past, Future, Died, Pool
<1>5. QueueShape'
  <2>1. inHand' \in [Procs -> Seq(Messages)] /\ \A r \in Procs : Len(inHand'[r]) <= 1
    BY <1>0, <1>1, <1>3 DEF QueueShape
  <2>2. got' \in [Procs -> Seq(Messages)] BY <1>0, <1>1, <1>2 DEF QueueShape
  <2> QED BY <1>0, <2>1, <2>2 DEF QueueShape
<1>6. LiveOnly' BY <1>0 DEF LiveOnly, Live
<1>7. HandBusy' BY <1>0, <1>1 DEF HandBusy, Joint, Shape
<1>8. Routed' BY <1>0, <1>4 DEF Routed, Pool
<1>9. ASSUME InLine PROVE InLine'
  <2>1. InGot'
    <3>1. SUFFICES ASSUME NEW r \in Procs
                   PROVE  /\ \A i, k \in 1..Len(got'[r]) : i < k => got'[r][i].n < got'[r][k].n
                          /\ Ascend(got'[r], inHand'[r])
      BY DEF InGot
    <3>2. CASE r # p BY <1>1, <1>9, <3>2 DEF InLine, InGot
    <3>3. CASE r = p
      <4>1. Ascend(got'[r], inHand'[r]) BY <1>1, <1>3, <3>3 DEF Ascend
      <4>2. /\ \A i, k \in 1..Len(got[p]) : i < k => got[p][i].n < got[p][k].n
            /\ Ascend(got[p], inHand[p])
        BY <1>9 DEF InLine, InGot
      <4>3. got'[r] = got[p] \o inHand[p] BY <1>1, <3>3
      <4> QED BY <1>1, <1>2, <4>1, <4>2, <4>3, AscendingJoined
    <3> QED BY <3>2, <3>3
  <2>2. InTime' BY <1>0, <1>4, <1>9 DEF InLine, InTime
  <2>3. InQueue' BY <1>0, <1>9 DEF InLine, InQueue
  <2> QED BY <2>1, <2>2, <2>3 DEF InLine
<1>10. ASSUME Accounted PROVE Accounted' BY <1>0, <1>4, <1>10 DEF Accounted
<1> QED BY <1>0, <1>5, <1>6, <1>7, <1>8, <1>9, <1>10 DEF Conveyed, InodeReturns

\* The process dies with what is in the hand of its thread.
LEMMA CrashConveys ==
  ASSUME Joint, Conveyed, Numbered', NEW p \in Procs, Crash(p) PROVE Conveyed'
PROOF
<1>0. /\ QueueShape /\ LiveOnly /\ HandBusy /\ Routed
      /\ inHand' = [inHand EXCEPT ![p] = <<>>] /\ dropped' = dropped \cup ToSet(inHand[p])
      /\ UNCHANGED <<queueAt, msgs, sent, got, removed>>
      /\ thread' = [thread EXCEPT ![p] = "none"]
  BY DEF Crash, Conveyed, kernel
<1>1. /\ \A r \in Procs : inHand'[r] = IF r = p THEN <<>> ELSE inHand[r]
      /\ ToSet(<<>>) = {} /\ <<>> \in Seq(Messages) /\ Len(<<>>) = 0
  BY <1>0 DEF QueueShape, ToSet
<1>2. \A r \in Procs :
        /\ Future(r)' = Future(r)
        /\ Past(r)' = IF r = p THEN ToSet(got[p]) ELSE Past(r)
        /\ Died(r)' = IF r = p THEN Died(r) \cup ToSet(inHand[p]) ELSE Died(r)
  <2>1. TAKE r \in Procs
  <2>2. Future(r)' = Future(r) BY <1>0 DEF Future, Pool
  <2>3. Past(r)' = IF r = p THEN ToSet(got[p]) ELSE Past(r) BY <1>0, <1>1 DEF Past
  <2>4. \A m \in ToSet(inHand[p]) : m.from = Peer(p) BY <1>0, Kinds DEF Past
  <2>5. Peer(r) = Peer(p) <=> r = p BY <1>0, Kinds
  <2>6. Died(r)' = IF r = p THEN Died(r) \cup ToSet(inHand[p]) ELSE Died(r)
    BY <1>0, <2>4, <2>5 DEF Died
  <2> QED BY <2>2, <2>3, <2>6
<1>3. \A r \in Procs : /\ Past(r)' \subseteq Past(r)
                       /\ Past(r)' \cup Future(r)' \cup Died(r)'
                            = Past(r) \cup Future(r) \cup Died(r)
  BY <1>2 DEF Past
<1>4. QueueShape' BY <1>0, <1>1 DEF QueueShape
<1>5. LiveOnly' BY <1>0 DEF LiveOnly, Live
<1>6. HandBusy' BY <1>0, <1>1 DEF HandBusy, Joint, Shape
<1>7. Routed' BY <1>0, <1>3 DEF Routed, Pool
<1>8. ASSUME InLine PROVE InLine'
  <2>1. InGot' BY <1>0, <1>1, <1>8 DEF InLine, InGot, Ascend
  <2>2. InTime' BY <1>0, <1>2, <1>3, <1>8 DEF InLine, InTime
  <2>3. InQueue' BY <1>0, <1>8 DEF InLine, InQueue
  <2> QED BY <2>1, <2>2, <2>3 DEF InLine
<1>9. ASSUME Accounted PROVE Accounted' BY <1>0, <1>3, <1>9 DEF Accounted
<1> QED BY <1>0, <1>4, <1>5, <1>6, <1>7, <1>8, <1>9 DEF Conveyed, InodeReturns

\* A creator removes the queue, with what is in it.
LEMMA RemovalConveys ==
  ASSUME Joint, Conveyed, Numbered', NEW p \in Procs, DeinitRemoves(p) PROVE Conveyed'
PROOF
<1> DEFINE q == msgid[p]
<1>0. /\ QueueShape /\ LiveOnly /\ HandBusy /\ Routed
      /\ Live(q) /\ removed' = TRUE /\ msgs' = [msgs EXCEPT ![q] = <<>>]
      /\ queueAt' = [i \in Inodes |-> IF queueAt[i] = q THEN NoQueue ELSE queueAt[i]]
      /\ UNCHANGED <<thread, inHand, sent, got>>
  BY DEF DeinitRemoves, Conveyed
<1>1. q \in QueueIds BY <1>0 DEF Live, QueueShape
<1> HIDE DEF q
<1>2. /\ \A r \in QueueIds : msgs'[r] = IF r = q THEN <<>> ELSE msgs[r]
      /\ Pool' \subseteq Pool
  <2>1. ToSet(<<>>) = {} BY DEF ToSet
  <2> QED BY <1>0, <1>1, <2>1, PoolBecomes
<1>3. \A r \in Procs : Past(r)' = Past(r) /\ Future(r)' \subseteq Future(r)
  BY <1>0, <1>2 DEF Past, Future
<1>4. QueueShape' BY <1>0, <1>1 DEF QueueShape
<1>5. LiveOnly'
  <2>1. SUFFICES ASSUME NEW r \in QueueIds, msgs'[r] # <<>> PROVE Live(r)'
    BY DEF LiveOnly
  <2>2. r # q /\ Live(r) BY <1>0, <1>2, <2>1 DEF LiveOnly
  <2>3. PICK i \in Inodes : queueAt[i] = r /\ r # NoQueue BY <2>2 DEF Live
  <2>4. queueAt'[i] = r BY <1>0, <2>2, <2>3
  <2> QED BY <2>3, <2>4 DEF Live
<1>6. HandBusy' BY <1>0 DEF HandBusy
<1>7. Routed' BY <1>0, <1>2, <1>3 DEF Routed
<1>8. ASSUME InLine PROVE InLine'
  <2>1. InGot' BY <1>0, <1>8 DEF InLine, InGot, Ascend
  <2>2. InTime' BY <1>0, <1>3, <1>8 DEF InLine, InTime
  <2>3. InQueue'
    <3>1. \A r \in QueueIds : msgs'[r] = msgs[r] \/ Len(msgs'[r]) = 0 BY <1>2
    <3> QED BY <1>8, <3>1 DEF InLine, InQueue
  <2> QED BY <2>1, <2>2, <2>3 DEF InLine
<1>9. ~InodeReturns' => ~InodeReturns BY <1>0 DEF InodeReturns
<1> QED BY <1>0, <1>4, <1>5, <1>6, <1>7, <1>8, <1>9 DEF Conveyed

LEMMA ConveyedInit == Init => Conveyed
PROOF
<1> SUFFICES ASSUME Init PROVE Conveyed
  OBVIOUS
<1>0. <<>> \in Seq(Messages) /\ Len(<<>>) = 0 /\ ToSet(<<>>) = {} BY DEF ToSet
<1>1. QueueShape BY <1>0, BoundAssumption DEF Init, QueueShape
<1>2. Numbered BY BoundAssumption DEF Init, Numbered, Starting, Pending, Procs
<1>3. LiveOnly /\ HandBusy BY DEF Init, LiveOnly, HandBusy
<1>4. Pool = {} /\ \A p \in Procs : Past(p) = {} /\ Future(p) = {} /\ Died(p) = {}
  BY <1>0 DEF Init, Pool, Past, Future, Died
<1>5. Routed BY <1>4 DEF Routed
<1>6. InLine
  <2>1. InGot BY <1>0 DEF Init, InGot, Ascend
  <2>2. InTime BY <1>4 DEF InTime
  <2>3. InQueue BY <1>0 DEF Init, InQueue
  <2> QED BY <2>1, <2>2, <2>3 DEF InLine
<1>7. Accounted
  <2>1. 1..0 = {} /\ \A p \in Procs : Peer(p) \in Procs BY DEF Procs, Peer
  <2> QED BY <1>4, <2>1 DEF Accounted, Init
<1> QED BY <1>1, <1>2, <1>3, <1>5, <1>6, <1>7 DEF Conveyed

LEMMA ConveyedStep == Joint /\ Conveyed /\ [Next]_vars => Conveyed'
PROOF
<1> SUFFICES ASSUME Joint, Conveyed, [Next]_vars PROVE Conveyed'
  OBVIOUS
<1>0. Numbered' /\ QueueShape /\ HandBusy BY NumberedStep DEF Conveyed
<1>1. ASSUME queueAt' = queueAt, UNCHANGED <<msgs, inHand, got, sent, dropped>>,
             \A p \in Procs : thread[p] = "callback" /\ inHand[p] # <<>> => thread'[p] = "callback"
      PROVE  Conveyed'
  <2>1. \A q \in QueueIds : Live(q) => Live(q)' BY <1>1 DEF Live
  <2>2. queueAt' \in [Inodes -> QueueIds \cup {NoQueue}] BY <1>0, <1>1 DEF QueueShape
  <2> QED BY <1>0, <1>1, <2>1, <2>2, QuietConveys
<1>2. ASSUME NEW p \in Procs,
             InitOpen(p) \/ InitFtok(p) \/ InitFtokFails(p) \/ InitNotFound(p) \/ DeinitStop(p)
      PROVE  Conveyed'
  BY <1>1, <1>2 DEF InitOpen, InitFtok, InitFtokFails, InitNotFound, DeinitStop,
                    kernel, object, history
<1>3. ASSUME NEW p \in Procs, InitFound(p) \/ InitCreate(p) PROVE Conveyed'
  <2>1. /\ thread' = [thread EXCEPT ![p] = "starting"]
        /\ UNCHANGED <<msgs, inHand, got, sent, dropped>>
        /\ main[p] \in {"lookup", "create"}
    BY <1>3 DEF InitFound, InitCreate, Attach, Step, kernel, history
  <2>2. \A r \in Procs : thread[r] = "callback" => thread'[r] = "callback"
    <3>1. thread[p] = "none" BY <2>1 DEF Joint, ThreadWithObject, Threadless
    <3> QED BY <2>1, <3>1 DEF Joint, Shape
  <2>3. CASE queueAt' = queueAt BY <1>1, <2>1, <2>2, <2>3
  <2>4. CASE queueAt' # queueAt
    <3>1. /\ InitCreate(p) /\ queueAt[key[p]] = NoQueue /\ created' = created + 1
          /\ queueAt' = [queueAt EXCEPT ![key[p]] = created + 1]
      BY <1>3, <2>4 DEF InitFound, InitCreate, kernel
    <3>2. created + 1 \in QueueIds
      <4>1. created' \in Nat /\ created + 1 \in Nat /\ created + 1 > 0
        BY <3>1 DEF Joint, Shape
      <4>2. created' <= 2 * MaxStarts
        <5>1. \A r \in Procs : Starting(r)' \in Int /\ Starting(r)' <= MaxStarts
          BY <1>0, BoundAssumption DEF Starting, Numbered, Pending
        <5>2. created' <= Starting("client")' + Starting("server")' BY <1>0 DEF Numbered
        <5>3. Starting("client")' \in Int /\ Starting("client")' <= MaxStarts
          BY <5>1 DEF Procs
        <5>4. Starting("server")' \in Int /\ Starting("server")' <= MaxStarts
          BY <5>1 DEF Procs
        <5> QED BY <4>1, <3>1, <5>2, <5>3, <5>4, BoundAssumption
      <4> QED BY <3>1, <4>1, <4>2, BoundAssumption DEF QueueIds
    <3>3. queueAt' \in [Inodes -> QueueIds \cup {NoQueue}]
      BY <1>0, <3>1, <3>2 DEF QueueShape
    <3>4. \A q \in QueueIds : Live(q) => Live(q)'
      BY <1>0, <3>1 DEF Live, QueueShape
    <3> QED BY <1>0, <2>1, <2>2, <3>3, <3>4, QuietConveys
  <2> QED BY <2>3, <2>4
<1>4. ASSUME NEW p \in Procs, Send(p) PROVE Conveyed' BY <1>0, <1>4, SendConveys
<1>5. ASSUME NEW p \in Procs, ThreadStep(p) PROVE Conveyed'
  <2>1. CASE ThreadReceives(p) BY <1>0, <2>1, ReceiveConveys
  <2>2. CASE ThreadCallback(p) BY <1>0, <2>2, CallbackConveys
  <2>3. ASSUME ThreadStarts(p) \/ ThreadContinues(p) \/ ThreadEnds(p) \/ ThreadFails(p)
        PROVE  Conveyed'
    <3>1. queueAt' = queueAt /\ UNCHANGED <<msgs, inHand, got, sent, dropped>>
      BY <2>3 DEF ThreadStarts, ThreadContinues, ThreadEnds, ThreadFails, kernel, history
    <3>2. PICK to : thread[p] # "callback" /\ thread' = [thread EXCEPT ![p] = to]
      BY <2>3 DEF ThreadStarts, ThreadContinues, ThreadEnds, ThreadFails, Run
    <3>3. \A r \in Procs : thread[r] = "callback" => thread'[r] = "callback"
      BY <3>2 DEF Joint, Shape
    <3> QED BY <1>1, <3>1, <3>3
  <2> QED BY <1>5, <2>1, <2>2, <2>3 DEF ThreadStep
<1>6. ASSUME NEW p \in Procs, DeinitStep(p) PROVE Conveyed'
  <2>1. CASE DeinitRemoves(p) BY <1>0, <2>1, RemovalConveys
  <2>2. CASE DeinitJoined(p)
    <3>1. /\ queueAt' = queueAt /\ UNCHANGED <<msgs, inHand, got, sent, dropped>>
          /\ thread[p] = "ended" /\ thread' = [thread EXCEPT ![p] = "none"]
      BY <2>2 DEF DeinitJoined, kernel, history
    <3>2. \A r \in Procs : thread[r] = "callback" => thread'[r] = "callback"
      BY <3>1 DEF Joint, Shape
    <3> QED BY <1>1, <3>1, <3>2
  <2>3. CASE DeinitRemoveFails(p) \/ DeinitUnlinks(p)
    BY <1>1, <2>3 DEF DeinitRemoveFails, DeinitUnlinks, kernel, history
  <2> QED BY <1>6, <2>1, <2>2, <2>3 DEF DeinitStep
<1>7. ASSUME NEW p \in Procs, Crash(p) PROVE Conveyed' BY <1>0, <1>7, CrashConveys
<1>8. CASE UNCHANGED vars BY <1>1, <1>8 DEF vars
<1> QED BY <1>2, <1>3, <1>4, <1>5, <1>6, <1>7, <1>8 DEF Next, InitStep

LEMMA ConveyedMeans == Conveyed => EventsInOrder
PROOF
<1> SUFFICES ASSUME Conveyed PROVE EventsInOrder
  OBVIOUS
<1>0. QueueShape /\ LiveOnly /\ Routed BY DEF Conveyed
<1>1. RoutedInOrder
  <2>1. ASSUME NEW p \in Procs PROVE \A i \in 1..Len(got[p]) : got[p][i].from = Peer(p)
    <3>1. TAKE i \in 1..Len(got[p])
    <3>2. got[p] \in Seq(Messages) BY <1>0 DEF QueueShape
    <3>3. got[p][i] \in Past(p) BY <3>2, SetOfSeq DEF Past
    <3> QED BY <1>0, <3>3 DEF Routed
  <2>2. ~InodeReturns => InGot BY DEF Conveyed, InLine
  <2> QED BY <2>1, <2>2 DEF RoutedInOrder, InGot
<1>2. NothingLost
  <2>1. SUFFICES ASSUME ~removed, NEW p \in Procs
                 PROVE  {m.n : m \in ToSet(got[p]) \cup OnTheWay(p)
                                      \cup {d \in dropped : d.from = Peer(p)}}
                          = 1..sent[Peer(p)]
    BY DEF NothingLost
  <2>2. Queued = Pool
    <3>1. \A x : x \in Queued <=> \E q \in QueueIds : Live(q) /\ x \in ToSet(msgs[q])
      BY DEF Queued
    <3>2. \A x : x \in Pool <=> \E q \in QueueIds : x \in ToSet(msgs[q]) BY DEF Pool
    <3>3. \A q \in QueueIds : \A x \in ToSet(msgs[q]) : Live(q)
      <4>1. ToSet(<<>>) = {} BY DEF ToSet
      <4> QED BY <1>0, <4>1 DEF LiveOnly
    <3> QED BY <3>1, <3>2, <3>3
  <2>3. ToSet(got[p]) \cup OnTheWay(p) = Past(p) \cup Future(p)
    BY <2>2 DEF OnTheWay, Past, Future
  <2> QED BY <2>1, <2>3 DEF Conveyed, Accounted, Died
<1> QED BY <1>1, <1>2 DEF EventsInOrder

LEMMA ConveyedAlways == Spec => []Conveyed
PROOF BY JointAlways, ConveyedInit, ConveyedStep, PTL DEF Spec

\* What a process hands to its callback is from its peer, each event once and in the
\* order it was accepted, as long as no inode returns; and until a queue is removed every
\* accepted event was received, is on its way or died in a hand.
THEOREM EventsInOrderHolds == Spec => []EventsInOrder
PROOF BY ConveyedAlways, ConveyedMeans, PTL
====================================================================================
