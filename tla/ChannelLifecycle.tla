--------------------------- MODULE ChannelLifecycle ---------------------------
(***************************************************************************)
(* How a channel comes into being and goes away: init and deinit of        *)
(* ShareVideo / ShareAudio / ShareTalk with those of Sem and Shm, run by   *)
(* two processes that share one path.  The path's inode yields the keys of *)
(* the semaphore and of the segment; whoever finds no object under its key *)
(* creates it, and whoever believes to have created an object removes it.  *)
(*                                                                         *)
(* What the processes do in between is reduced to critical sections: take  *)
(* the permit, publish or consume a frame, give the permit back, and       *)
(* recv's repair of a permit that seems lost; FrameChannel has the detail. *)
(***************************************************************************)
EXTENDS Naturals, FiniteSets

CONSTANTS
  Inodes,         \* inode numbers the file system may give to the path
  MaxStarts,      \* bound: starts of each process
  PromptHolders   \* no process keeps the permit as long as deinit's wait lasts

Procs == {"client", "server"}
Peer(p) == IF p = "client" THEN "server" ELSE "client"
None == 0
Ids == 1..(2 * MaxStarts)

ASSUME InodeAssumption == Inodes \subseteq Nat \ {None} /\ Inodes # {}
ASSUME BoundAssumption == MaxStarts \in Nat /\ PromptHolders \in BOOLEAN

VARIABLES
  file,        \* inode of the path, or None
  semAt,       \* semaphore registered under the key of an inode
  segAt,       \* segment registered under the key of an inode
  value,       \* value of each semaphore
  full,        \* head->state of each segment
  sems, segs,  \* objects created so far
  pc,          \* where each process is in init or deinit
  key,         \* inode that ftok saw last
  fileOwner,   \* ShareX::m_isCreator
  semOwner,    \* Sem::m_isCreator
  segOwner,    \* Shm::m_isCreator
  sem, seg,    \* m_semId, m_shmid
  holding,     \* the process is inside a critical section
  starts,      \* bounded: starts of a process
  raced,       \* ghost: an init overlapped an init or deinit of the peer
  removed,     \* ghost: some deinit removed an object
  wiped        \* ghost: init cleared a segment that held a published frame

kernel == <<semAt, segAt, value, full, sems, segs>>
owners == <<fileOwner, semOwner, segOwner>>
ghosts == <<raced, removed, wiped>>
vars == <<file, kernel, pc, key, owners, sem, seg, holding, starts, ghosts>>

Initialising == {"create", "semget", "semcreate", "setval",
                 "shmget", "shmcreate", "memset", "attach"}
Leaving == {"drain", "rmshm", "rmsem", "unlink"}

LiveSem(s) == \E i \in Inodes : semAt[i] = s
LiveSeg(g) == \E i \in Inodes : segAt[i] = g

TypeOK ==
  /\ file \in Inodes \cup {None}
  /\ semAt \in [Inodes -> Ids \cup {None}] /\ segAt \in [Inodes -> Ids \cup {None}]
  /\ value \in [Ids -> Nat]
  /\ full \in [Ids -> BOOLEAN]
  /\ sems \in 0..(2 * MaxStarts) /\ segs \in 0..(2 * MaxStarts)
  /\ pc \in [Procs -> {"down", "up"} \cup Initialising \cup Leaving]
  /\ key \in [Procs -> Inodes \cup {None}]
  /\ fileOwner \in [Procs -> BOOLEAN] /\ semOwner \in [Procs -> BOOLEAN]
  /\ segOwner \in [Procs -> BOOLEAN] /\ holding \in [Procs -> BOOLEAN]
  /\ sem \in [Procs -> Ids \cup {None}] /\ seg \in [Procs -> Ids \cup {None}]
  /\ starts \in [Procs -> 0..MaxStarts]
  /\ raced \in BOOLEAN /\ removed \in BOOLEAN /\ wiped \in BOOLEAN

Init ==
  /\ file = None
  /\ semAt = [i \in Inodes |-> None] /\ segAt = [i \in Inodes |-> None]
  /\ value = [s \in Ids |-> 0] /\ full = [g \in Ids |-> FALSE]
  /\ sems = 0 /\ segs = 0
  /\ pc = [p \in Procs |-> "down"]
  /\ key = [p \in Procs |-> None]
  /\ fileOwner = [p \in Procs |-> FALSE]
  /\ semOwner = [p \in Procs |-> FALSE]
  /\ segOwner = [p \in Procs |-> FALSE]
  /\ sem = [p \in Procs |-> None] /\ seg = [p \in Procs |-> None]
  /\ holding = [p \in Procs |-> FALSE]
  /\ starts = [p \in Procs |-> 0]
  /\ raced = FALSE /\ removed = FALSE /\ wiped = FALSE

Goto(p, from, to) == pc[p] = from /\ pc' = [pc EXCEPT ![p] = to]

\* The object or the process is gone, and with it what it knew.
Forget(p) ==
  /\ key' = [key EXCEPT ![p] = None]
  /\ fileOwner' = [fileOwner EXCEPT ![p] = FALSE]
  /\ semOwner' = [semOwner EXCEPT ![p] = FALSE]
  /\ segOwner' = [segOwner EXCEPT ![p] = FALSE]
  /\ sem' = [sem EXCEPT ![p] = None]
  /\ seg' = [seg EXCEPT ![p] = None]
  /\ holding' = [holding EXCEPT ![p] = FALSE]

-------------------------------------------------------------------------------
(* Steps with a plausible bug.  They are not part of the specification: each   *)
(* one in the place of its original is what some property has to catch.        *)

\* init creates and sets the semaphore also when there is one.
SemGetCreates(p) ==
  /\ file # None
  /\ Goto(p, "semget", "semcreate")
  /\ key' = [key EXCEPT ![p] = file]
  /\ sem' = [sem EXCEPT ![p] = None]
  /\ UNCHANGED <<file, kernel, owners, seg, holding, starts, ghosts>>

\* init does not share the semaphore the peer created meanwhile.
SemCreatePrivate(p) ==
  /\ Goto(p, "semcreate", "setval")
  /\ semOwner' = [semOwner EXCEPT ![p] = TRUE]
  /\ sems' = sems + 1
  /\ semAt' = [semAt EXCEPT ![key[p]] = sems + 1]
  /\ sem' = [sem EXCEPT ![p] = sems + 1]
  /\ UNCHANGED <<file, segAt, value, full, segs, key, fileOwner, segOwner, seg,
                 holding, starts, ghosts>>

\* init clears the segment also when the peer created it.
ShmGetClears(p) ==
  /\ file # None
  /\ Goto(p, "shmget", IF segAt[file] = None THEN "shmcreate" ELSE "memset")
  /\ key' = [key EXCEPT ![p] = file]
  /\ seg' = [seg EXCEPT ![p] = segAt[file]]
  /\ UNCHANGED <<file, kernel, owners, sem, holding, starts, ghosts>>

\* deinit does not wait for the permit.
DeinitUndrained(p) ==
  /\ ~holding[p]
  /\ Goto(p, "up", "rmshm")
  /\ UNCHANGED <<file, kernel, key, owners, sem, seg, holding, starts, ghosts>>

-------------------------------------------------------------------------------
(* init *)

\* fopen(path, "r") finds the file or not.
InitOpen(p) ==
  /\ starts[p] < MaxStarts
  /\ Goto(p, "down", IF file = None THEN "create" ELSE "semget")
  /\ starts' = [starts EXCEPT ![p] = @ + 1]
  /\ raced' = (raced \/ pc[Peer(p)] \in Initialising \cup Leaving)
  /\ UNCHANGED <<file, kernel, key, owners, sem, seg, holding, removed, wiped>>

\* fopen(path, "w") creates it, or opens the one the peer just created.
InitCreatesFile(p) ==
  /\ Goto(p, "create", "semget")
  /\ fileOwner' = [fileOwner EXCEPT ![p] = TRUE]
  /\ IF file = None THEN file' \in Inodes ELSE file' = file
  /\ UNCHANGED <<kernel, key, semOwner, segOwner, sem, seg, holding, starts, ghosts>>

\* A step of init fails (ftok without a file, SETVAL or shmat of a removed
\* object): init returns -1, nothing is undone, the program ends.
InitFails(p) ==
  /\ \/ file = None /\ \E from \in {"semget", "shmget"} : Goto(p, from, "down")
     \/ ~LiveSem(sem[p]) /\ Goto(p, "setval", "down")
     \/ ~LiveSeg(seg[p]) /\ \E from \in {"memset", "attach"} : Goto(p, from, "down")
  /\ Forget(p)
  /\ UNCHANGED <<file, kernel, starts, ghosts>>

\* ftok and the first semget.
SemGet(p) ==
  /\ file # None
  /\ Goto(p, "semget", IF semAt[file] = None THEN "semcreate" ELSE "shmget")
  /\ key' = [key EXCEPT ![p] = file]
  /\ sem' = [sem EXCEPT ![p] = semAt[file]]
  /\ UNCHANGED <<file, kernel, owners, seg, holding, starts, ghosts>>

\* IPC_CREAT without IPC_EXCL: the semaphore is created with value 0, unless
\* the peer created it since; in both cases this process is its creator.
SemCreate(p) ==
  /\ Goto(p, "semcreate", "setval")
  /\ semOwner' = [semOwner EXCEPT ![p] = TRUE]
  /\ IF semAt[key[p]] = None
       THEN sems' = sems + 1 /\ semAt' = [semAt EXCEPT ![key[p]] = sems + 1]
       ELSE UNCHANGED <<sems, semAt>>
  /\ sem' = [sem EXCEPT ![p] = semAt'[key[p]]]
  /\ UNCHANGED <<file, segAt, value, full, segs, key, fileOwner, segOwner, seg,
                 holding, starts, ghosts>>

SemSetval(p) ==
  /\ Goto(p, "setval", "shmget")
  /\ LiveSem(sem[p])
  /\ value' = [value EXCEPT ![sem[p]] = 1]
  /\ UNCHANGED <<file, semAt, segAt, full, sems, segs, key, owners, sem, seg,
                 holding, starts, ghosts>>

\* ftok and the first shmget.
ShmGet(p) ==
  /\ file # None
  /\ Goto(p, "shmget", IF segAt[file] = None THEN "shmcreate" ELSE "attach")
  /\ key' = [key EXCEPT ![p] = file]
  /\ seg' = [seg EXCEPT ![p] = segAt[file]]
  /\ UNCHANGED <<file, kernel, owners, sem, holding, starts, ghosts>>

ShmCreate(p) ==
  /\ Goto(p, "shmcreate", "memset")
  /\ segOwner' = [segOwner EXCEPT ![p] = TRUE]
  /\ IF segAt[key[p]] = None
       THEN segs' = segs + 1 /\ segAt' = [segAt EXCEPT ![key[p]] = segs + 1]
       ELSE UNCHANGED <<segs, segAt>>
  /\ seg' = [seg EXCEPT ![p] = segAt'[key[p]]]
  /\ UNCHANGED <<file, semAt, value, full, sems, key, fileOwner, semOwner, sem,
                 holding, starts, ghosts>>

\* The creator attaches the segment, clears it and detaches it again.
ShmMemset(p) ==
  /\ Goto(p, "memset", "attach")
  /\ LiveSeg(seg[p])
  /\ wiped' = (wiped \/ full[seg[p]])
  /\ full' = [full EXCEPT ![seg[p]] = FALSE]
  /\ UNCHANGED <<file, semAt, segAt, value, sems, segs, key, owners, sem, seg,
                 holding, starts, raced, removed>>

\* The shmat that lasts until deinit.
Attach(p) ==
  /\ Goto(p, "attach", "up")
  /\ LiveSeg(seg[p])
  /\ UNCHANGED <<file, kernel, key, owners, sem, seg, holding, starts, ghosts>>

-------------------------------------------------------------------------------
(* Use *)

Enter(p) ==
  /\ pc[p] = "up" /\ ~holding[p]
  /\ LiveSem(sem[p]) /\ value[sem[p]] > 0
  /\ value' = [value EXCEPT ![sem[p]] = @ - 1]
  /\ holding' = [holding EXCEPT ![p] = TRUE]
  /\ UNCHANGED <<file, semAt, segAt, full, sems, segs, pc, key, owners, sem, seg,
                 starts, ghosts>>

\* The client publishes, the server consumes.
Access(p) ==
  /\ holding[p]
  /\ full' = [full EXCEPT ![seg[p]] = (p = "client")]
  /\ UNCHANGED <<file, semAt, segAt, value, sems, segs, pc, key, owners, sem, seg,
                 holding, starts, ghosts>>

\* signal fails on a removed semaphore; send and recv ignore that.
Leave(p) ==
  /\ holding[p]
  /\ holding' = [holding EXCEPT ![p] = FALSE]
  /\ value' = IF LiveSem(sem[p]) THEN [value EXCEPT ![sem[p]] = @ + 1] ELSE value
  /\ UNCHANGED <<file, semAt, segAt, full, sems, segs, pc, key, owners, sem, seg,
                 starts, ghosts>>

HolderOf(s) == \E q \in Procs : sem[q] = s /\ (holding[q] \/ pc[q] \in {"rmshm", "rmsem"})

\* recv gives back a permit after its waits have failed for long enough.
Repair ==
  LET s == sem["server"] IN
  /\ pc["server"] = "up" /\ ~holding["server"]
  /\ LiveSem(s) /\ value[s] = 0
  /\ PromptHolders => ~HolderOf(s)
  /\ value' = [value EXCEPT ![s] = 1]
  /\ UNCHANGED <<file, semAt, segAt, full, sems, segs, pc, key, owners, sem, seg,
                 holding, starts, ghosts>>

-------------------------------------------------------------------------------
(* deinit, called when no thread of the process is in send or recv *)

DeinitDetach(p) ==
  /\ ~holding[p]
  /\ Goto(p, "up", "drain")
  /\ raced' = (raced \/ pc[Peer(p)] \in Initialising)
  /\ UNCHANGED <<file, kernel, key, owners, sem, seg, holding, starts, removed, wiped>>

\* It takes the permit, which it never gives back ...
DeinitDrains(p) ==
  /\ Goto(p, "drain", "rmshm")
  /\ LiveSem(sem[p]) /\ value[sem[p]] > 0
  /\ value' = [value EXCEPT ![sem[p]] = @ - 1]
  /\ UNCHANGED <<file, semAt, segAt, full, sems, segs, key, owners, sem, seg, holding,
                 starts, ghosts>>

\* ... or goes on without it after a failed wait.
DeinitDrainFails(p) ==
  /\ Goto(p, "drain", "rmshm")
  /\ LiveSem(sem[p]) => value[sem[p]] = 0 /\ (PromptHolders => ~HolderOf(sem[p]))
  /\ UNCHANGED <<file, kernel, key, owners, sem, seg, holding, starts, ghosts>>

\* IPC_RMID of the segment: its key is free again, who has it attached keeps it.
DeinitShm(p) ==
  /\ Goto(p, "rmshm", "rmsem")
  /\ segOwner[p] => LiveSeg(seg[p])
  /\ segAt' = IF segOwner[p]
                THEN [i \in Inodes |-> IF segAt[i] = seg[p] THEN None ELSE segAt[i]]
                ELSE segAt
  /\ segOwner' = [segOwner EXCEPT ![p] = FALSE]
  /\ removed' = (removed \/ segOwner[p])
  /\ UNCHANGED <<file, semAt, value, full, sems, segs, key, fileOwner, semOwner, sem,
                 seg, holding, starts, raced, wiped>>

DeinitSem(p) ==
  /\ Goto(p, "rmsem", "unlink")
  /\ semOwner[p] => LiveSem(sem[p])
  /\ semAt' = IF semOwner[p]
                THEN [i \in Inodes |-> IF semAt[i] = sem[p] THEN None ELSE semAt[i]]
                ELSE semAt
  /\ semOwner' = [semOwner EXCEPT ![p] = FALSE]
  /\ removed' = (removed \/ semOwner[p])
  /\ UNCHANGED <<file, segAt, value, full, sems, segs, key, fileOwner, segOwner, sem,
                 seg, holding, starts, raced, wiped>>

\* A second creator removed the object first: deinit returns early with -1,
\* leaving the rest in place; the program ends.
DeinitFails(p) ==
  /\ \/ /\ segOwner[p] /\ ~LiveSeg(seg[p])
        /\ Goto(p, "rmshm", "down")
     \/ /\ semOwner[p] /\ ~LiveSem(sem[p])
        /\ Goto(p, "rmsem", "down")
  /\ Forget(p)
  /\ UNCHANGED <<file, kernel, starts, ghosts>>

DeinitUnlinks(p) ==
  /\ Goto(p, "unlink", "down")
  /\ file' = IF fileOwner[p] THEN None ELSE file
  /\ removed' = (removed \/ fileOwner[p])
  /\ Forget(p)
  /\ UNCHANGED <<kernel, starts, raced, wiped>>

\* The process dies; a permit it holds is lost, the objects stay.
Crash(p) ==
  /\ pc[p] # "down"
  /\ pc' = [pc EXCEPT ![p] = "down"]
  /\ Forget(p)
  /\ UNCHANGED <<file, kernel, starts, ghosts>>

-------------------------------------------------------------------------------

InitStep(p) ==
  \/ InitCreatesFile(p) \/ InitFails(p)
  \/ SemGet(p) \/ SemCreate(p) \/ SemSetval(p)
  \/ ShmGet(p) \/ ShmCreate(p) \/ ShmMemset(p) \/ Attach(p)
Use(p) == Enter(p) \/ Access(p) \/ Leave(p)
Deinit(p) == \/ DeinitDetach(p) \/ DeinitDrains(p) \/ DeinitDrainFails(p)
             \/ DeinitShm(p) \/ DeinitSem(p) \/ DeinitFails(p) \/ DeinitUnlinks(p)

Next ==
  \/ Repair
  \/ \E p \in Procs :
       InitOpen(p) \/ InitStep(p) \/ Use(p) \/ Deinit(p) \/ Crash(p)

Spec == Init /\ [][Next]_vars

-------------------------------------------------------------------------------
(* Properties *)

\* Two processes that are up use the same semaphore and the same segment,
\* however their inits interleave and crash, until some deinit removed one.
SameChannel ==
  ~removed /\ (\A p \in Procs : pc[p] = "up") =>
     /\ sem["client"] = sem["server"] /\ seg["client"] = seg["server"]
     /\ LiveSem(sem["client"]) /\ LiveSeg(seg["client"])

\* Nothing but a race of inits mints a second permit: no sequence of inits,
\* deinits, crashes and repairs does.
OnePermit ==
  ~raced =>
    \A s \in Ids : LiveSem(s) =>
      value[s] + Cardinality({p \in Procs : holding[p] /\ sem[p] = s}) <= 1

\* Without such a race the two processes are never in a critical section of one
\* segment together, also not through semaphores of different generations.
ExclusiveUse ==
  raced \/ ~(\A p \in Procs : holding[p]) \/ seg["client"] # seg["server"]

\* Nor does a process that starts clear a frame its peer has published.
NoFrameWiped == raced \/ ~wiped

\* Both: whoever is inside a segment has it for itself and finds what was there.
PeersUndisturbed == ExclusiveUse /\ NoFrameWiped

\* Nor does deinit remove the segment while the peer is inside it: having taken
\* the permit it shuts the peer out until the semaphore is gone as well.
DrainedBeforeRemoval ==
  [][\A p \in Procs :
       ~raced /\ segOwner[p] /\ pc[p] = "rmshm" /\ pc'[p] = "rmsem"
         => ~(holding[Peer(p)] /\ seg[Peer(p)] = seg[p])]_vars

\* SETVAL initialises a semaphore: nobody is using it yet (Sem.cpp says so in a
\* comment at the call).
SetvalInitialises ==
  [][\A p \in Procs : pc[p] = "setval" /\ pc'[p] = "shmget"
        => ~\E q \in Procs : holding[q] /\ sem[q] = sem[p]]_vars
===============================================================================
