------------------------------- MODULE MsgQueue -------------------------------
(***************************************************************************)
(* The event channel of class Msg: client and server exchange events over  *)
(* one System V message queue whose key is derived from the inode of       *)
(* /tmp/.msg.  Each process sends with the type of its peer and has one    *)
(* thread that receives its own type.                                      *)
(*                                                                         *)
(* A process runs init, sends, and ends by deinit or by dying; it may be   *)
(* started again.  Kernel and file system are modelled by what the code    *)
(* relies on: the path has an inode or none, a key has a queue or none, a  *)
(* removed queue fails every call that still holds its identifier.         *)
(***************************************************************************)
EXTENDS Naturals, Sequences, FiniteSets, SequencesExt

CONSTANTS
  Inodes,      \* inode numbers the file system may give to the path
  Capacity,    \* messages the kernel keeps in a queue (msg_qbytes)
  MaxStarts,   \* bound: starts of each process
  MaxSends     \* bound: messages each process may get accepted

Procs == {"client", "server"}
Peer(p) == IF p = "client" THEN "server" ELSE "client"
NoFile == 0
NoQueue == 0
QueueIds == 1..(2 * MaxStarts)

ASSUME BoundAssumption == /\ Capacity \in Nat \ {0}
                          /\ MaxStarts \in Nat /\ MaxSends \in Nat
ASSUME InodeAssumption == /\ Inodes \subseteq Nat \ {NoFile} /\ Inodes # {}
                          /\ IsFiniteSet(Inodes)

VARIABLES
  file,       \* inode of /tmp/.msg, or NoFile
  queueAt,    \* the queue registered under the key of an inode, or NoQueue
  msgs,       \* contents of a queue
  created,    \* queues created so far
  main,       \* where the controlling thread of a process is
  key,        \* m_key
  msgid,      \* m_msgid
  isCreator,  \* m_isCreator
  mproc,      \* m_proc
  thread,     \* where the receiving thread is
  inHand,     \* message the receiving thread took, as a sequence of length <= 1
  starts,     \* bounded: starts of a process
  sent,       \* ghost: messages accepted from a process
  got,        \* ghost: messages handed to m_cb of a process, in order
  dropped,    \* ghost: messages that died with a process or a queue
  removed     \* ghost: a creator has removed a queue

kernel == <<queueAt, msgs, created>>
object == <<key, msgid, isCreator>>
history == <<sent, got, dropped, removed>>
vars == <<file, queueAt, msgs, created, main, key, msgid, isCreator, mproc,
          thread, inHand, starts, sent, got, dropped, removed>>

Live(q) == \E i \in Inodes : queueAt[i] = q /\ q # NoQueue

\* The types: a client sends 2 and receives 1, a server sends 1 and receives 2.
SendType(p) == IF p = "client" THEN 2 ELSE 1
RecvType(p) == IF p = "client" THEN 1 ELSE 2

Messages == [type : {1, 2}, from : Procs, n : 1..MaxSends]

TypeOK ==
  /\ file \in Inodes \cup {NoFile}
  /\ queueAt \in [Inodes -> QueueIds \cup {NoQueue}]
  /\ created \in 0..(2 * MaxStarts)
  /\ \A q \in QueueIds : msgs[q] \in Seq(Messages) /\ Len(msgs[q]) <= Capacity
  /\ main \in [Procs -> {"down", "ftok", "lookup", "create", "up", "join",
                         "rmid", "unlink"}]
  /\ key \in [Procs -> Inodes \cup {NoFile}]
  /\ msgid \in [Procs -> QueueIds \cup {NoQueue}]
  /\ isCreator \in [Procs -> BOOLEAN]
  /\ mproc \in [Procs -> BOOLEAN]
  /\ thread \in [Procs -> {"none", "starting", "test", "recv", "callback", "ended"}]
  /\ \A p \in Procs : inHand[p] \in Seq(Messages) /\ Len(inHand[p]) <= 1
  /\ starts \in [Procs -> 0..MaxStarts]
  /\ sent \in [Procs -> 0..MaxSends]
  /\ \A p \in Procs : got[p] \in Seq(Messages)
  /\ dropped \subseteq Messages
  /\ removed \in BOOLEAN

Init ==
  /\ file = NoFile
  /\ queueAt = [i \in Inodes |-> NoQueue]
  /\ msgs = [q \in QueueIds |-> <<>>]
  /\ created = 0
  /\ main = [p \in Procs |-> "down"]
  /\ key = [p \in Procs |-> NoFile]
  /\ msgid = [p \in Procs |-> NoQueue]
  /\ isCreator = [p \in Procs |-> FALSE]
  /\ mproc = [p \in Procs |-> FALSE]
  /\ thread = [p \in Procs |-> "none"]
  /\ inHand = [p \in Procs |-> <<>>]
  /\ starts = [p \in Procs |-> 0]
  /\ sent = [p \in Procs |-> 0]
  /\ got = [p \in Procs |-> <<>>]
  /\ dropped = {}
  /\ removed = FALSE

Step(p, from, to) == main[p] = from /\ main' = [main EXCEPT ![p] = to]

-------------------------------------------------------------------------------
(* Steps with a plausible bug.  They are not part of the specification: each   *)
(* one in the place of its original is what some property has to catch.        *)

\* init opens a queue of its own instead of attaching to the peer's.
InitCreatePrivate(p) ==
  /\ Step(p, "create", "up")
  /\ created' = created + 1
  /\ queueAt' = [queueAt EXCEPT ![key[p]] = created + 1]
  /\ msgid' = [msgid EXCEPT ![p] = created + 1]
  /\ thread' = [thread EXCEPT ![p] = "starting"]
  /\ isCreator' = [isCreator EXCEPT ![p] = TRUE]
  /\ UNCHANGED <<file, msgs, key, mproc, inHand, starts, history>>

\* The thread does not raise m_proc.
ThreadStartsOff(p) ==
  /\ thread[p] = "starting"
  /\ thread' = [thread EXCEPT ![p] = "test"]
  /\ UNCHANGED <<file, kernel, main, object, mproc, inHand, starts, history>>

\* The thread does not look at m_proc.
ThreadContinuesBlindly(p) ==
  /\ thread[p] = "test"
  /\ thread' = [thread EXCEPT ![p] = "recv"]
  /\ UNCHANGED <<file, kernel, main, object, mproc, inHand, starts, history>>

\* The thread looks at m_proc again before it calls back.
ThreadDropsWhenStopped(p) ==
  /\ thread[p] = "callback"
  /\ thread' = [thread EXCEPT ![p] = "test"]
  /\ got' = IF mproc[p] THEN [got EXCEPT ![p] = @ \o inHand[p]] ELSE got
  /\ inHand' = [inHand EXCEPT ![p] = <<>>]
  /\ UNCHANGED <<file, kernel, main, object, mproc, starts, sent, dropped, removed>>

\* deinit does not wait for the thread.
DeinitUnjoined(p) ==
  /\ Step(p, "join", IF isCreator[p] THEN "rmid" ELSE "down")
  /\ UNCHANGED <<file, kernel, object, mproc, thread, inHand, starts, history>>

-------------------------------------------------------------------------------
(* init *)

\* The file is created, or truncated where it is.
InitOpen(p) ==
  /\ Step(p, "down", "ftok")
  /\ starts[p] < MaxStarts
  /\ starts' = [starts EXCEPT ![p] = @ + 1]
  /\ IF file = NoFile THEN file' \in Inodes ELSE UNCHANGED file
  /\ UNCHANGED <<kernel, object, mproc, thread, inHand, history>>

InitFtok(p) ==
  /\ file # NoFile
  /\ Step(p, "ftok", "lookup")
  /\ key' = [key EXCEPT ![p] = file]
  /\ UNCHANGED <<file, kernel, msgid, isCreator, mproc, thread, inHand, starts, history>>

\* The peer's deinit removed the file in between: init fails, the program ends.
InitFtokFails(p) ==
  /\ file = NoFile
  /\ Step(p, "ftok", "down")
  /\ UNCHANGED <<file, kernel, object, mproc, thread, inHand, starts, history>>

\* recvProc: the receiving thread is created, but has not run yet.
Attach(p, q) ==
  /\ msgid' = [msgid EXCEPT ![p] = q]
  /\ thread' = [thread EXCEPT ![p] = "starting"]

InitFound(p) ==
  /\ Step(p, "lookup", "up")
  /\ queueAt[key[p]] # NoQueue
  /\ Attach(p, queueAt[key[p]])
  /\ UNCHANGED <<file, kernel, key, isCreator, mproc, inHand, starts, history>>

InitNotFound(p) ==
  /\ Step(p, "lookup", "create")
  /\ queueAt[key[p]] = NoQueue
  /\ UNCHANGED <<file, kernel, object, mproc, thread, inHand, starts, history>>

\* msgget with IPC_CREAT, without IPC_EXCL: it creates the queue or, when the
\* peer was faster, attaches to the peer's; either way the process is a creator.
InitCreate(p) ==
  /\ Step(p, "create", "up")
  /\ IF queueAt[key[p]] = NoQueue
       THEN /\ created' = created + 1
            /\ queueAt' = [queueAt EXCEPT ![key[p]] = created + 1]
            /\ Attach(p, created + 1)
       ELSE /\ Attach(p, queueAt[key[p]])
            /\ UNCHANGED <<queueAt, created>>
  /\ isCreator' = [isCreator EXCEPT ![p] = TRUE]
  /\ UNCHANGED <<file, msgs, key, mproc, inHand, starts, history>>

-------------------------------------------------------------------------------
(* send: refused (-1, nothing changes) when the queue is full or removed. *)

Send(p) ==
  /\ main[p] \in {"up", "join"}
  /\ sent[p] < MaxSends
  /\ Live(msgid[p])
  /\ Len(msgs[msgid[p]]) < Capacity
  /\ LET m == [type |-> SendType(p), from |-> p, n |-> sent[p] + 1]
     IN  msgs' = [msgs EXCEPT ![msgid[p]] = Append(@, m)]
  /\ sent' = [sent EXCEPT ![p] = @ + 1]
  /\ UNCHANGED <<file, queueAt, created, main, object, mproc, thread, inHand,
                 starts, got, dropped, removed>>

-------------------------------------------------------------------------------
(* The receiving thread *)

Run(p, from, to) == thread[p] = from /\ thread' = [thread EXCEPT ![p] = to]

\* It sets m_proc itself, whatever deinit has stored there in the meantime.
ThreadStarts(p) ==
  /\ Run(p, "starting", "test")
  /\ mproc' = [mproc EXCEPT ![p] = TRUE]
  /\ UNCHANGED <<file, kernel, main, object, inHand, starts, history>>

ThreadContinues(p) ==
  /\ mproc[p]
  /\ Run(p, "test", "recv")
  /\ UNCHANGED <<file, kernel, main, object, mproc, inHand, starts, history>>

ThreadEnds(p) ==
  /\ ~mproc[p]
  /\ Run(p, "test", "ended")
  /\ UNCHANGED <<file, kernel, main, object, mproc, inHand, starts, history>>

\* msgrcv: the first message of the own type; it blocks while there is none.
ThreadReceives(p) ==
  /\ Run(p, "recv", "callback")
  /\ Live(msgid[p])
  /\ \E i \in 1..Len(msgs[msgid[p]]) :
       /\ msgs[msgid[p]][i].type = RecvType(p)
       /\ \A j \in 1..(i - 1) : msgs[msgid[p]][j].type # RecvType(p)
       /\ inHand' = [inHand EXCEPT ![p] = <<msgs[msgid[p]][i]>>]
       /\ msgs' = [msgs EXCEPT ![msgid[p]] = RemoveAt(@, i)]
  /\ UNCHANGED <<file, queueAt, created, main, object, mproc, starts, history>>

\* msgrcv fails on a removed queue; the loop goes round.
ThreadFails(p) ==
  /\ Run(p, "recv", "test")
  /\ ~Live(msgid[p])
  /\ UNCHANGED <<file, kernel, main, object, mproc, inHand, starts, history>>

ThreadCallback(p) ==
  /\ Run(p, "callback", "test")
  /\ got' = [got EXCEPT ![p] = @ \o inHand[p]]
  /\ inHand' = [inHand EXCEPT ![p] = <<>>]
  /\ UNCHANGED <<file, kernel, main, object, mproc, starts, sent, dropped, removed>>

-------------------------------------------------------------------------------
(* deinit *)

DeinitStop(p) ==
  /\ Step(p, "up", "join")
  /\ mproc' = [mproc EXCEPT ![p] = FALSE]
  /\ UNCHANGED <<file, kernel, object, thread, inHand, starts, history>>

\* What is left of the object when deinit returned or the process is gone.
Forget(p) ==
  /\ key' = [key EXCEPT ![p] = NoFile]
  /\ msgid' = [msgid EXCEPT ![p] = NoQueue]
  /\ isCreator' = [isCreator EXCEPT ![p] = FALSE]
  /\ mproc' = [mproc EXCEPT ![p] = FALSE]

DeinitJoined(p) ==
  /\ thread[p] = "ended"
  /\ thread' = [thread EXCEPT ![p] = "none"]
  /\ IF isCreator[p]
       THEN Step(p, "join", "rmid") /\ UNCHANGED <<object, mproc>>
       ELSE Step(p, "join", "down") /\ Forget(p)
  /\ UNCHANGED <<file, kernel, inHand, starts, history>>

DeinitRemoves(p) ==
  /\ Step(p, "rmid", "unlink")
  /\ Live(msgid[p])
  /\ queueAt' = [i \in Inodes |-> IF queueAt[i] = msgid[p] THEN NoQueue ELSE queueAt[i]]
  /\ dropped' = dropped \cup ToSet(msgs[msgid[p]])
  /\ msgs' = [msgs EXCEPT ![msgid[p]] = <<>>]
  /\ removed' = TRUE
  /\ UNCHANGED <<file, created, object, mproc, thread, inHand, starts, sent, got>>

\* A second creator has removed the queue before: deinit returns -1.
DeinitRemoveFails(p) ==
  /\ Step(p, "rmid", "down")
  /\ ~Live(msgid[p])
  /\ Forget(p)
  /\ UNCHANGED <<file, kernel, thread, inHand, starts, history>>

DeinitUnlinks(p) ==
  /\ Step(p, "unlink", "down")
  /\ file' = NoFile
  /\ Forget(p)
  /\ UNCHANGED <<kernel, thread, inHand, starts, history>>

\* The process dies; the kernel keeps the queue, the file system the file.
Crash(p) ==
  /\ main[p] # "down"
  /\ main' = [main EXCEPT ![p] = "down"]
  /\ thread' = [thread EXCEPT ![p] = "none"]
  /\ Forget(p)
  /\ dropped' = dropped \cup ToSet(inHand[p])
  /\ inHand' = [inHand EXCEPT ![p] = <<>>]
  /\ UNCHANGED <<file, kernel, starts, sent, got, removed>>

-------------------------------------------------------------------------------

InitStep(p) == \/ InitFtok(p) \/ InitFtokFails(p)
               \/ InitFound(p) \/ InitNotFound(p) \/ InitCreate(p)
ThreadStep(p) == \/ ThreadStarts(p) \/ ThreadContinues(p) \/ ThreadEnds(p)
                 \/ ThreadReceives(p) \/ ThreadFails(p) \/ ThreadCallback(p)
DeinitStep(p) == \/ DeinitJoined(p) \/ DeinitRemoves(p) \/ DeinitRemoveFails(p)
                 \/ DeinitUnlinks(p)

Next == \E p \in Procs : \/ InitOpen(p) \/ InitStep(p) \/ Send(p) \/ ThreadStep(p)
                         \/ DeinitStop(p) \/ DeinitStep(p) \/ Crash(p)

Spec == Init /\ [][Next]_vars

(* Fairness: threads that can run are scheduled.  Nobody has to start, send, *)
(* end or die.                                                               *)
Fairness == \A p \in Procs : WF_vars(InitStep(p)) /\ WF_vars(ThreadStep(p))
                             /\ WF_vars(DeinitStep(p))
FairSpec == Spec /\ Fairness

-------------------------------------------------------------------------------
(* Properties *)

\* An event reaches only the peer of its sender, once and in the order sent:
\* the type of msgsnd and of msgrcv agree, also across restarts and new queues.  A
\* queue left behind under an inode that the path gets back brings old events.
InodeReturns == removed /\ Cardinality(Inodes) > 1
RoutedInOrder ==
  \A p \in Procs :
    /\ \A i \in 1..Len(got[p]) : got[p][i].from = Peer(p)
    /\ ~InodeReturns =>
         \A i, j \in 1..Len(got[p]) : i < j => got[p][i].n < got[p][j].n

\* What p still has to receive: in the hand of its thread or in a queue.
Queued == UNION {ToSet(msgs[q]) : q \in {r \in QueueIds : Live(r)}}
OnTheWay(p) == ToSet(inHand[p]) \cup {m \in Queued : m.type = RecvType(p)}

\* As long as no queue was removed, every accepted event was received, is on
\* its way, or was in the hand of a thread whose process died: restarts of
\* either process, in any order and also while both create the queue, lose none.
NothingLost ==
  ~removed =>
    \A p \in Procs :
      {m.n : m \in ToSet(got[p]) \cup OnTheWay(p) \cup {d \in dropped : d.from = Peer(p)}}
        = 1..sent[Peer(p)]

\* Both: what is accepted arrives, in its order and where it belongs.
EventsInOrder == RoutedInOrder /\ NothingLost

\* Two running processes talk over the same queue, however their inits and
\* crashes interleave, until some creator's deinit removed one.
Connected ==
  ~removed => \A p \in Procs : /\ msgid[p] # NoQueue => Live(msgid[p])
                               /\ msgid["client"] # NoQueue /\ msgid["server"] # NoQueue
                                    => msgid["client"] = msgid["server"]

\* The receiving thread never outlives its object: after deinit returned, no
\* callback of the old Msg can run (the object is deleted then).
NoThreadAfterDeinit ==
  \A p \in Procs : main[p] \in {"down", "rmid", "unlink"} => thread[p] = "none"

\* deinit returns once its thread is woken: by an event for the process or by
\* the removal of the queue, provided the thread has run before deinit.
HasEvent(p) == \E i \in 1..Len(msgs[msgid[p]]) : msgs[msgid[p]][i].type = RecvType(p)
WokenDeinitReturns ==
  \A p \in Procs :
    main[p] = "join" /\ ~mproc[p] /\ thread[p] # "starting"
       /\ (~Live(msgid[p]) \/ HasEvent(p))
      ~> main[p] = "down"

\* An accepted event for a process that stays up is handed to its callback.
EventsDelivered ==
  \A p \in Procs :
    main[p] = "up" /\ Live(msgid[p]) /\ HasEvent(p)
      ~> inHand[p] # <<>> \/ main[p] # "up" \/ ~Live(msgid[p])

\* A deinit of the queue's creator ends with the queue marked for removal (the
\* comment at the msgctl call says so).
CreatorRemovesQueue ==
  \A p \in Procs : main[p] = "join" /\ isCreator[p] ~> main[p] = "down"
===============================================================================
